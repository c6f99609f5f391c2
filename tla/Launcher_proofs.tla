--------------------------- MODULE Launcher_proofs ---------------------------
(***************************************************************************)
(* However many launchers ran and whatever befell them: what they leave    *)
(* changed on a PC is in the file of revert flags, the elevated agent ends *)
(* by these flags, a game is started with every setting made, and nothing  *)
(* is reverted while it runs.                                              *)
(***************************************************************************)
EXTENDS Launcher, TLAPS

Config == [by : Actors, orphan : BOOLEAN, kind : {"setup", "revert"},
           pc : {"local", "admin", "stop", "ok", "failed"},
           flags : SUBSET Settings, done : SUBSET Settings]

WellFormed(c) == c \in Config /\ c.done \subseteq c.flags

Reverting == [at : {"idle", "interrupt", "kill", "load", "run"}, agent : {0} \cup Agents]

Places == {"off", "wait", "cleanup", "flush", "setup", "launch", "game", "revert"}

\* The values of each variable, without a count of processes.
LauncherTypes ==
  /\ applied \subseteq Settings /\ store \subseteq Settings
  /\ \A c \in configs : WellFormed(c)
  /\ revert \in [Actors -> Reverting]
  /\ \A p \in Actors : revert[p].at = "kill" => revert[p].agent \in Agents
  /\ main \in [pc : Places, group : Nat \ {0}]
  /\ handler \in BOOLEAN /\ adminStarted \in BOOLEAN
  /\ agent \in [Agents -> {"off", "game", "end", "ended", "revert"}]
  /\ signalled \subseteq Agents /\ unlisted \subseteq Agents
  /\ admin \in [on : BOOLEAN, did : SUBSET AdminSettings]
  /\ game \in {"off", "starting", "on"}
  /\ runs \in 0 .. MaxRuns /\ wanted \in PCs
  /\ troubles \subseteq Kinds /\ overlap \in BOOLEAN /\ unknowing \in BOOLEAN

-----------------------------------------------------------------------------
(* The actors *)

LEMMA ActorsAre ==
  /\ Main \in Actors /\ Handler \in Actors /\ Main # Handler
  /\ LauncherActors = {Main, Handler}
  /\ \A n \in Agents : Watch(n) \in AgentActors /\ AgentHandler(n) \in AgentActors
  /\ \A p \in AgentActors : \E n \in Agents : p = Watch(n) \/ p = AgentHandler(n)
  /\ Actors = LauncherActors \cup AgentActors
BY DEF Main, Handler, LauncherActors, Actors, AgentActors, ActorsOf, Watch, AgentHandler

LEMMA ActorsDiffer ==
  /\ \A m, n \in Agents : Watch(n) # AgentHandler(m)
  /\ \A m, n \in Agents : (Watch(n) = Watch(m)) => n = m
  /\ \A m, n \in Agents : (AgentHandler(n) = AgentHandler(m)) => n = m
  /\ \A n \in Agents : {Watch(n), AgentHandler(n)} \cap {Main, Handler} = {}
BY DEF Main, Handler, Watch, AgentHandler

-----------------------------------------------------------------------------
(* launcher-config *)

LEMMA PcChanged ==
  ASSUME NEW c \in Config, NEW x \in {"local", "admin", "stop", "ok", "failed"}
  PROVE  /\ [c EXCEPT !.pc = x] \in Config /\ [c EXCEPT !.pc = x].pc = x
         /\ [c EXCEPT !.pc = x].by = c.by /\ [c EXCEPT !.pc = x].orphan = c.orphan
         /\ [c EXCEPT !.pc = x].kind = c.kind /\ [c EXCEPT !.pc = x].flags = c.flags
         /\ [c EXCEPT !.pc = x].done = c.done
BY DEF Config

LEMMA OnwardIs ==
  ASSUME NEW c \in Config
  PROVE  /\ Onward(c) \in Config
         /\ Onward(c).by = c.by /\ Onward(c).orphan = c.orphan /\ Onward(c).kind = c.kind
         /\ Onward(c).flags = c.flags /\ Onward(c).done = c.done
         /\ Onward(c).pc = IF LocalLeft(c) # {} THEN "local"
                           ELSE IF c.flags \cap AdminSettings # {} THEN "admin" ELSE "ok"
<1>1. PICK x \in {"local", "admin", "stop", "ok", "failed"} :
        x = IF LocalLeft(c) # {} THEN "local"
            ELSE IF c.flags \cap AdminSettings # {} THEN "admin" ELSE "ok"
  OBVIOUS
<1>2. Onward(c) = [c EXCEPT !.pc = x]
  BY <1>1 DEF Onward
<1>3. /\ [c EXCEPT !.pc = x] \in Config /\ [c EXCEPT !.pc = x].pc = x
      /\ [c EXCEPT !.pc = x].by = c.by /\ [c EXCEPT !.pc = x].orphan = c.orphan
      /\ [c EXCEPT !.pc = x].kind = c.kind /\ [c EXCEPT !.pc = x].flags = c.flags
      /\ [c EXCEPT !.pc = x].done = c.done
  BY PcChanged
<1> QED
  BY <1>1, <1>2, <1>3

LEMMA DoneChanged ==
  ASSUME NEW c \in Config, NEW s \in Settings
  PROVE  LET d == [c EXCEPT !.done = @ \cup {s}]
         IN /\ d \in Config /\ d.by = c.by /\ d.orphan = c.orphan /\ d.kind = c.kind
            /\ d.flags = c.flags /\ d.done = c.done \cup {s}
BY DEF Config

\* Where a launcher-config starts.
StartsAt(flags) ==
  IF flags \ AdminSettings # {} THEN "local"
  ELSE IF flags \cap AdminSettings # {} THEN "admin" ELSE "ok"

LEMMA SpawnIs ==
  ASSUME NEW p \in Actors, NEW kind \in {"setup", "revert"}, NEW flags \in SUBSET Settings
  PROVE  \E d : /\ d = Spawn(p, kind, flags)
                /\ WellFormed(d) /\ d.by = p /\ ~d.orphan /\ d.kind = kind
                /\ d.flags = flags /\ d.done = {}
                /\ d.pc = StartsAt(flags)
<1> DEFINE c == [by |-> p, orphan |-> FALSE, kind |-> kind, pc |-> "local",
                 flags |-> flags, done |-> {}]
<1>1. c \in Config /\ c.by = p /\ ~c.orphan /\ c.kind = kind /\ c.flags = flags
      /\ c.done = {}
  BY DEF Config
<1>2. Spawn(p, kind, flags) = Onward(c)
  BY DEF Spawn
<1> HIDE DEF c
<1>3. LocalLeft(c) = flags \ AdminSettings
  BY <1>1 DEF LocalLeft
<1> QED
  BY <1>1, <1>2, <1>3, OnwardIs DEF WellFormed, StartsAt

\* One that is left behind is the same but for that.
LEMMA OrphanIs ==
  ASSUME NEW c \in Config
  PROVE  LET d == [c EXCEPT !.orphan = TRUE]
         IN /\ d \in Config /\ d.by = c.by /\ d.orphan /\ d.kind = c.kind
            /\ d.pc = c.pc /\ d.flags = c.flags /\ d.done = c.done
BY DEF Config

LEMMA BecomeKeeps ==
  ASSUME NEW c, NEW d, Become(c, d)
  PROVE  \A e \in configs' : e = d \/ (e \in configs /\ e # c)
BY DEF Become, Kept

LEMMA OrphanedAre ==
  ASSUME NEW ps, \A c \in configs : WellFormed(c)
  PROVE  \A e \in Orphaned(ps) :
           \/ e \in configs /\ e.by \notin ps
           \/ \E c \in configs : /\ e = [c EXCEPT !.orphan = TRUE] /\ c.by \in ps
                                 /\ WellFormed(e) /\ e.by = c.by /\ e.orphan
                                 /\ e.kind = c.kind /\ e.pc = c.pc /\ e.flags = c.flags
                                 /\ e.done = c.done
<1> SUFFICES ASSUME NEW e \in Orphaned(ps)
             PROVE  \/ e \in configs /\ e.by \notin ps
                    \/ \E c \in configs :
                         /\ e = [c EXCEPT !.orphan = TRUE] /\ c.by \in ps
                         /\ WellFormed(e) /\ e.by = c.by /\ e.orphan
                         /\ e.kind = c.kind /\ e.pc = c.pc /\ e.flags = c.flags
                         /\ e.done = c.done
  OBVIOUS
<1>1. PICK c \in configs : e = IF c.by \in ps THEN [c EXCEPT !.orphan = TRUE] ELSE c
  BY DEF Orphaned, Kept
<1>2. ASSUME c.by \in ps
      PROVE  e = [c EXCEPT !.orphan = TRUE] /\ WellFormed(e) /\ e.by = c.by
             /\ e.orphan /\ e.kind = c.kind /\ e.pc = c.pc /\ e.flags = c.flags
             /\ e.done = c.done
  <2>1. e = [c EXCEPT !.orphan = TRUE] /\ c \in Config /\ c.done \subseteq c.flags
    BY <1>1, <1>2 DEF WellFormed
  <2> QED
    BY <2>1, OrphanIs DEF WellFormed
<1> QED
  BY <1>1, <1>2

LEMMA TroubleIs ==
  /\ \A kind \in Kinds : Trouble(kind) => troubles' = troubles \cup {kind}
  /\ \A kind \in Kinds, possible \in BOOLEAN : Fails(possible, kind) =>
       \/ ~possible /\ troubles' = troubles
       \/ troubles' = troubles \cup {kind}
BY DEF Trouble, Fails

\* Two launcher-config are the same but for how far they are.
SameRun(c, d) ==
  /\ WellFormed(d)
  /\ d.by = c.by /\ d.orphan = c.orphan /\ d.kind = c.kind /\ d.flags = c.flags

LEMMA PcSet ==
  ASSUME NEW c, WellFormed(c), NEW x \in {"local", "admin", "stop", "ok", "failed"}
  PROVE  \E d : /\ d = [c EXCEPT !.pc = x]
                /\ SameRun(c, d) /\ d.done = c.done /\ d.pc = x
<1>1. c \in Config /\ c.done \subseteq c.flags
  BY DEF WellFormed
<1>2. PICK d : d = [c EXCEPT !.pc = x]
  OBVIOUS
<1>3. /\ d \in Config /\ d.pc = x /\ d.by = c.by /\ d.orphan = c.orphan
      /\ d.kind = c.kind /\ d.flags = c.flags /\ d.done = c.done
  BY <1>1, <1>2, PcChanged
<1>4. SameRun(c, d)
  BY <1>1, <1>3 DEF SameRun, WellFormed
<1> QED
  BY <1>2, <1>3, <1>4

\* What a step of launcher-config leaves alone.
ConfigFrame ==
  /\ store' = store /\ revert' = revert /\ main' = main /\ handler' = handler
  /\ adminStarted' = adminStarted /\ agent' = agent /\ signalled' = signalled
  /\ unlisted' = unlisted /\ game' = game /\ runs' = runs /\ wanted' = wanted
  /\ unknowing' = unknowing /\ overlap' = overlap

LEMMA ConfigFrameIs == (UNCHANGED configFrame) => ConfigFrame
BY DEF configFrame, ConfigFrame, launcherVars, agentVars, started

\* The local changes, in the order of LocalPlace.
LEMMA ChangeLocalIs ==
  ASSUME NEW c, WellFormed(c), ChangeLocal(c)
  PROVE  /\ ConfigFrame /\ admin' = admin /\ c.pc = "local"
         /\ \E d, s :
              /\ SameRun(c, d) /\ Become(c, d)
              /\ s \in (c.flags \ c.done) \ AdminSettings
              /\ \/ /\ Possible(c.kind, s)
                    /\ applied' = Changed(c.kind, {s}) /\ troubles' = troubles
                    /\ d.done = c.done \cup {s}
                    /\ d.pc = IF (c.flags \ d.done) \ AdminSettings # {} THEN "local"
                              ELSE IF c.flags \cap AdminSettings # {} THEN "admin" ELSE "ok"
                 \/ /\ \/ ~Possible(c.kind, s) /\ troubles' = troubles
                       \/ troubles' = troubles \cup {c.kind}
                    /\ applied' = Undone(c)
                    /\ d.done = c.done /\ d.pc = "failed"
<1>1. ConfigFrame /\ admin' = admin /\ c.pc = "local"
  BY ConfigFrameIs DEF ChangeLocal
<1>2. c \in Config /\ c.done \subseteq c.flags /\ c.flags \subseteq Settings
      /\ c.kind \in {"setup", "revert"} /\ c.kind \in Kinds
  BY DEF WellFormed, Config, Kinds
<1>3. PICK s \in LocalLeft(c) :
        \/ /\ Possible(c.kind, s)
           /\ applied' = Changed(c.kind, {s})
           /\ Become(c, Onward([c EXCEPT !.done = @ \cup {s}]))
           /\ UNCHANGED troubles
        \/ /\ Fails(Possible(c.kind, s), c.kind)
           /\ applied' = Undone(c)
           /\ Become(c, [c EXCEPT !.pc = "failed"])
  BY DEF ChangeLocal
<1>4. s \in (c.flags \ c.done) \ AdminSettings /\ s \in Settings
  BY <1>2, <1>3 DEF LocalLeft
<1>5. CASE /\ Possible(c.kind, s)
           /\ applied' = Changed(c.kind, {s})
           /\ Become(c, Onward([c EXCEPT !.done = @ \cup {s}]))
           /\ UNCHANGED troubles
  <2>1. PICK b \in Config : /\ b = [c EXCEPT !.done = @ \cup {s}]
                            /\ b.by = c.by /\ b.orphan = c.orphan /\ b.kind = c.kind
                            /\ b.flags = c.flags /\ b.done = c.done \cup {s}
    BY <1>2, <1>4, DoneChanged
  <2>2. PICK d : d = Onward(b)
    OBVIOUS
  <2>3. /\ d \in Config /\ d.by = c.by /\ d.orphan = c.orphan /\ d.kind = c.kind
        /\ d.flags = c.flags /\ d.done = c.done \cup {s}
        /\ d.pc = IF LocalLeft(b) # {} THEN "local"
                  ELSE IF b.flags \cap AdminSettings # {} THEN "admin" ELSE "ok"
    BY <2>1, <2>2, OnwardIs
  <2>4. LocalLeft(b) = (c.flags \ d.done) \ AdminSettings
    BY <2>1, <2>3 DEF LocalLeft
  <2>5. SameRun(c, d)
    BY <1>2, <1>4, <2>3 DEF SameRun, WellFormed
  <2> QED
    BY <1>1, <1>4, <1>5, <2>1, <2>2, <2>3, <2>4, <2>5
<1>6. CASE /\ Fails(Possible(c.kind, s), c.kind)
           /\ applied' = Undone(c)
           /\ Become(c, [c EXCEPT !.pc = "failed"])
  <2>1. PICK d : d = [c EXCEPT !.pc = "failed"]
    OBVIOUS
  <2>2. SameRun(c, d) /\ d.done = c.done /\ d.pc = "failed"
    BY <1>2, <2>1, PcChanged DEF SameRun, WellFormed
  <2>3. Possible(c.kind, s) \in BOOLEAN
    BY DEF Possible
  <2>4. \/ ~Possible(c.kind, s) /\ troubles' = troubles
        \/ troubles' = troubles \cup {c.kind}
    BY <1>2, <1>6 DEF Fails, Trouble
  <2> QED
    BY <1>1, <1>4, <1>6, <2>1, <2>2, <2>4
<1> QED
  BY <1>3, <1>5, <1>6

\* The administrator's part of a set-up.
LEMMA SetUpAdminIs ==
  ASSUME NEW c, WellFormed(c), SetUpAdmin(c)
  PROVE  /\ ConfigFrame /\ c.kind = "setup" /\ c.pc = "admin"
         /\ \E d :
              /\ SameRun(c, d) /\ Become(c, d) /\ d.done = c.done
              /\ \/ /\ d.pc = "ok" /\ troubles' = troubles
                    /\ applied' = applied \cup (c.flags \cap AdminSettings)
                    /\ \/ ~admin.on /\ admin' = admin
                       \/ /\ admin.on
                          /\ admin' = [admin EXCEPT !.did = @ \cup (c.flags \cap AdminSettings)]
                 \/ /\ d.pc = "failed" /\ admin' = NoAdmin
                    /\ \/ admin.on /\ applied' = applied \ c.done
                       \/ ~admin.on /\ applied' = applied
                    /\ troubles' = troubles \/ troubles' = troubles \cup {"setup"}
<1>1. ConfigFrame /\ c.kind = "setup" /\ c.pc = "admin"
  BY ConfigFrameIs DEF SetUpAdmin
<1>2. c \in Config /\ c.done \subseteq c.flags
  BY DEF WellFormed
<1>3. \/ /\ applied' = Changed("setup", c.flags \cap AdminSettings)
         /\ admin' = IF admin.on THEN [admin EXCEPT !.did = @ \cup (c.flags \cap AdminSettings)]
                                 ELSE admin
         /\ Become(c, [c EXCEPT !.pc = "ok"])
         /\ troubles' = troubles
      \/ /\ troubles' = troubles \/ troubles' = troubles \cup {"setup"}
         /\ applied' = IF admin.on THEN Undone(c) ELSE applied
         /\ admin' = NoAdmin
         /\ Become(c, [c EXCEPT !.pc = "failed"])
  BY DEF SetUpAdmin, Fails, Trouble
<1>4. /\ \E d : /\ d = [c EXCEPT !.pc = "ok"]
                /\ SameRun(c, d) /\ d.done = c.done /\ d.pc = "ok"
      /\ \E d : /\ d = [c EXCEPT !.pc = "failed"]
                /\ SameRun(c, d) /\ d.done = c.done /\ d.pc = "failed"
  BY PcSet
<1>5. Changed("setup", c.flags \cap AdminSettings) = applied \cup (c.flags \cap AdminSettings)
      /\ Undone(c) = applied \ c.done
  BY <1>1 DEF Changed, Undone
<1>7. CASE /\ applied' = Changed("setup", c.flags \cap AdminSettings)
           /\ admin' = IF admin.on
                       THEN [admin EXCEPT !.did = @ \cup (c.flags \cap AdminSettings)]
                       ELSE admin
           /\ Become(c, [c EXCEPT !.pc = "ok"])
           /\ troubles' = troubles
  <2>1. PICK d : d = [c EXCEPT !.pc = "ok"] /\ SameRun(c, d) /\ d.done = c.done /\ d.pc = "ok"
    BY <1>4
  <2>2. Become(c, d)
    BY <1>7, <2>1
  <2> QED
    BY <1>1, <1>5, <1>7, <2>1, <2>2
<1>8. CASE /\ troubles' = troubles \/ troubles' = troubles \cup {"setup"}
           /\ applied' = IF admin.on THEN Undone(c) ELSE applied
           /\ admin' = NoAdmin
           /\ Become(c, [c EXCEPT !.pc = "failed"])
  <2>1. PICK d : d = [c EXCEPT !.pc = "failed"] /\ SameRun(c, d) /\ d.done = c.done
                 /\ d.pc = "failed"
    BY <1>4
  <2>2. Become(c, d)
    BY <1>8, <2>1
  <2> QED
    BY <1>1, <1>5, <1>8, <2>1, <2>2
<1> QED
  BY <1>3, <1>7, <1>8

\* The administrator's part of a revert.
LEMMA RevertAdminIs ==
  ASSUME NEW c, WellFormed(c), RevertAdmin(c)
  PROVE  /\ ConfigFrame /\ c.kind = "revert" /\ c.pc = "admin"
         /\ \E d, ss :
              /\ SameRun(c, d) /\ Become(c, d) /\ d.done = c.done
              /\ ss = IF admin.on THEN (c.flags \cap AdminSettings) \cap admin.did
                                  ELSE c.flags \cap AdminSettings
              /\ \/ /\ d.pc = "stop" /\ troubles' = troubles
                    /\ applied' = applied \ ss
                    /\ admin' = [admin EXCEPT !.did = @ \ ss]
                 \/ /\ d.pc = "failed" /\ admin' = admin
                    /\ applied' = applied \cup c.done
                    /\ \/ troubles' = troubles /\ \E s \in ss : s \notin applied
                       \/ troubles' = troubles \cup {"revert"}
<1>1. ConfigFrame /\ c.kind = "revert" /\ c.pc = "admin"
  BY ConfigFrameIs DEF RevertAdmin
<1>2. c \in Config /\ c.done \subseteq c.flags
  BY DEF WellFormed
<1>3. PICK ss :
        /\ ss = IF admin.on THEN (c.flags \cap AdminSettings) \cap admin.did
                            ELSE c.flags \cap AdminSettings
        /\ \/ /\ applied' = Changed("revert", ss)
              /\ admin' = [admin EXCEPT !.did = @ \ ss]
              /\ Become(c, [c EXCEPT !.pc = "stop"])
              /\ UNCHANGED troubles
           \/ /\ Fails(\A s \in ss : Possible("revert", s), "revert")
              /\ applied' = Undone(c)
              /\ Become(c, [c EXCEPT !.pc = "failed"])
              /\ UNCHANGED admin
  BY DEF RevertAdmin
<1>4. /\ \E d : /\ d = [c EXCEPT !.pc = "stop"]
                /\ SameRun(c, d) /\ d.done = c.done /\ d.pc = "stop"
      /\ \E d : /\ d = [c EXCEPT !.pc = "failed"]
                /\ SameRun(c, d) /\ d.done = c.done /\ d.pc = "failed"
  BY PcSet
<1>5. Changed("revert", ss) = applied \ ss /\ Undone(c) = applied \cup c.done
  BY <1>1 DEF Changed, Undone
<1>6. Fails(\A s \in ss : Possible("revert", s), "revert") =>
        \/ troubles' = troubles /\ \E s \in ss : s \notin applied
        \/ troubles' = troubles \cup {"revert"}
  BY DEF Fails, Trouble, Possible
<1>7. CASE Become(c, [c EXCEPT !.pc = "stop"]) /\ UNCHANGED troubles
           /\ applied' = Changed("revert", ss) /\ admin' = [admin EXCEPT !.did = @ \ ss]
  <2>1. PICK d : d = [c EXCEPT !.pc = "stop"] /\ SameRun(c, d) /\ d.done = c.done
                 /\ d.pc = "stop"
    BY <1>4
  <2> QED
    BY <1>1, <1>3, <1>5, <1>7, <2>1
<1>8. CASE Become(c, [c EXCEPT !.pc = "failed"]) /\ admin' = admin /\ applied' = Undone(c)
           /\ Fails(\A s \in ss : Possible("revert", s), "revert")
  <2>1. PICK d : d = [c EXCEPT !.pc = "failed"] /\ SameRun(c, d) /\ d.done = c.done
                 /\ d.pc = "failed"
    BY <1>4
  <2> QED
    BY <1>1, <1>3, <1>5, <1>6, <1>8, <2>1
<1> QED
  BY <1>3, <1>7, <1>8

\* The end of the admin agent after it.
LEMMA StopAgentIs ==
  ASSUME NEW c, WellFormed(c), StopAgentIfNeeded(c)
  PROVE  /\ ConfigFrame /\ applied' = applied /\ c.pc = "stop"
         /\ \E d :
              /\ SameRun(c, d) /\ Become(c, d) /\ d.done = c.done
              /\ \/ d.pc = "ok" /\ admin' = NoAdmin /\ troubles' = troubles
                 \/ d.pc = "failed" /\ admin' = admin /\ troubles' = troubles \cup {"stop"}
<1>1. ConfigFrame /\ applied' = applied /\ c.pc = "stop"
  BY ConfigFrameIs DEF StopAgentIfNeeded
<1>2. c \in Config /\ c.done \subseteq c.flags
  BY DEF WellFormed
<1>3. \/ Become(c, [c EXCEPT !.pc = "ok"]) /\ admin' = NoAdmin /\ troubles' = troubles
      \/ /\ Become(c, [c EXCEPT !.pc = "failed"]) /\ admin' = admin
         /\ troubles' = troubles \cup {"stop"}
  BY DEF StopAgentIfNeeded, Trouble
<1>4. /\ \E d : /\ d = [c EXCEPT !.pc = "ok"]
                /\ SameRun(c, d) /\ d.done = c.done /\ d.pc = "ok"
      /\ \E d : /\ d = [c EXCEPT !.pc = "failed"]
                /\ SameRun(c, d) /\ d.done = c.done /\ d.pc = "failed"
  BY PcSet
<1> QED
  BY <1>1, <1>3, <1>4

-----------------------------------------------------------------------------
(* ConfigRevert of an actor *)

RevertTypes(r) ==
  /\ r \in [Actors -> Reverting]
  /\ \A p \in Actors : r[p].at = "kill" => r[p].agent \in Agents

\* Only p's has moved, to x.
Moved(s, r, p, x) ==
  /\ RevertTypes(s) /\ s[p].at = x /\ s[p].agent = r[p].agent
  /\ \A q \in Actors : q # p => s[q] = r[q]

LEMMA MovedIs ==
  ASSUME NEW r, RevertTypes(r), NEW p \in Actors,
         NEW x \in {"idle", "interrupt", "load", "run"}
  PROVE  Moved([r EXCEPT ![p].at = x], r, p, x)
<1>1. r \in [Actors -> Reverting] /\ r[p] \in Reverting
  BY DEF RevertTypes
<1>2. PICK e : e = [r[p] EXCEPT !.at = x]
  OBVIOUS
<1>0. e \in Reverting /\ e.at = x /\ e.agent = r[p].agent
  BY <1>1, <1>2 DEF Reverting
<1>3. PICK s : s = [r EXCEPT ![p].at = x]
  OBVIOUS
<1>4. s \in [Actors -> Reverting] /\ s[p] = e /\ \A q \in Actors : q # p => s[q] = r[q]
  BY <1>1, <1>2, <1>0, <1>3
<1>5. RevertTypes(s)
  BY <1>0, <1>4 DEF RevertTypes
<1> QED
  BY <1>0, <1>3, <1>4, <1>5 DEF Moved

LEMMA EntrySet ==
  ASSUME NEW r, RevertTypes(r), NEW p \in Actors, NEW e \in Reverting,
         e.at = "kill" => e.agent \in Agents
  PROVE  \E s : /\ s = [r EXCEPT ![p] = e] /\ RevertTypes(s) /\ s[p] = e
                /\ \A q \in Actors : q # p => s[q] = r[q]
<1>1. PICK s : s = [r EXCEPT ![p] = e]
  OBVIOUS
<1>2. s \in [Actors -> Reverting] /\ s[p] = e /\ \A q \in Actors : q # p => s[q] = r[q]
  BY <1>1 DEF RevertTypes
<1>3. RevertTypes(s)
  BY <1>2 DEF RevertTypes
<1> QED
  BY <1>1, <1>2, <1>3

\* p is about to kill agent n, and has killed it.
LEMMA KillIs ==
  ASSUME NEW r, RevertTypes(r), NEW p \in Actors, NEW n \in Agents
  PROVE  \E s : /\ s = [r EXCEPT ![p] = [at |-> "kill", agent |-> n]]
                /\ RevertTypes(s) /\ s[p].at = "kill" /\ s[p].agent = n
                /\ \A q \in Actors : q # p => s[q] = r[q]
<1>1. PICK e : e = [at |-> "kill", agent |-> n]
  OBVIOUS
<1>2. e \in Reverting /\ e.at = "kill" /\ e.agent = n
  BY <1>1 DEF Reverting
<1>3. PICK s : /\ s = [r EXCEPT ![p] = e] /\ RevertTypes(s) /\ s[p] = e
               /\ \A q \in Actors : q # p => s[q] = r[q]
  BY <1>2, EntrySet
<1> QED
  BY <1>1, <1>2, <1>3

LEMMA KilledIs ==
  ASSUME NEW r, RevertTypes(r), NEW p \in Actors
  PROVE  \E s : /\ s = [r EXCEPT ![p] = [at |-> "load", agent |-> 0]]
                /\ RevertTypes(s) /\ s[p].at = "load" /\ s[p].agent = 0
                /\ \A q \in Actors : q # p => s[q] = r[q]
<1>1. PICK e : e = [at |-> "load", agent |-> 0]
  OBVIOUS
<1>2. e \in Reverting /\ e.at = "load" /\ e.agent = 0
  BY <1>1 DEF Reverting
<1>3. PICK s : /\ s = [r EXCEPT ![p] = e] /\ RevertTypes(s) /\ s[p] = e
               /\ \A q \in Actors : q # p => s[q] = r[q]
  BY <1>2, EntrySet
<1> QED
  BY <1>1, <1>2, <1>3

\* The actors ps are gone.
LEMMA GoneAre ==
  ASSUME NEW r, RevertTypes(r), NEW ps
  PROVE  LET s == [q \in Actors |-> IF q \in ps THEN Idle ELSE r[q]]
         IN /\ RevertTypes(s)
            /\ \A q \in Actors : IF q \in ps THEN s[q] = Idle ELSE s[q] = r[q]
<1>1. Idle \in Reverting /\ Idle.at = "idle"
  BY DEF Idle, Reverting
<1>2. PICK s : s = [q \in Actors |-> IF q \in ps THEN Idle ELSE r[q]]
  OBVIOUS
<1>3. s \in [Actors -> Reverting]
      /\ \A q \in Actors : IF q \in ps THEN s[q] = Idle ELSE s[q] = r[q]
  BY <1>1, <1>2 DEF RevertTypes
<1>4. RevertTypes(s)
  BY <1>1, <1>3 DEF RevertTypes
<1> QED
  BY <1>2, <1>3, <1>4

-----------------------------------------------------------------------------
(* Types *)

\* What each variable is, but for configs and revert.
OtherTypes ==
  /\ applied \subseteq Settings /\ store \subseteq Settings
  /\ main \in [pc : Places, group : Nat \ {0}]
  /\ handler \in BOOLEAN /\ adminStarted \in BOOLEAN
  /\ agent \in [Agents -> {"off", "game", "end", "ended", "revert"}]
  /\ signalled \subseteq Agents /\ unlisted \subseteq Agents
  /\ admin \in [on : BOOLEAN, did : SUBSET AdminSettings]
  /\ game \in {"off", "starting", "on"}
  /\ runs \in 0 .. MaxRuns /\ wanted \in PCs
  /\ troubles \subseteq Kinds /\ overlap \in BOOLEAN /\ unknowing \in BOOLEAN

ConfigTypes == \A c \in configs : WellFormed(c)

LEMMA TypesAre == LauncherTypes <=> OtherTypes /\ ConfigTypes /\ RevertTypes(revert)
BY DEF LauncherTypes, OtherTypes, ConfigTypes, RevertTypes

LEMMA TypesAgain == OtherTypes' /\ ConfigTypes' /\ RevertTypes(revert') => LauncherTypes'
BY DEF LauncherTypes, OtherTypes, ConfigTypes, RevertTypes

LEMMA AdminTypes ==
  /\ NoAdmin \in [on : BOOLEAN, did : SUBSET AdminSettings]
  /\ \A a \in [on : BOOLEAN, did : SUBSET AdminSettings], ss \in SUBSET AdminSettings :
        /\ [a EXCEPT !.did = @ \cup ss] \in [on : BOOLEAN, did : SUBSET AdminSettings]
        /\ [a EXCEPT !.did = @ \cup ss].on = a.on
        /\ [a EXCEPT !.did = @ \cup ss].did = a.did \cup ss
  /\ \A ss : \A a \in [on : BOOLEAN, did : SUBSET AdminSettings] :
        /\ [a EXCEPT !.did = @ \ ss] \in [on : BOOLEAN, did : SUBSET AdminSettings]
        /\ [a EXCEPT !.did = @ \ ss].on = a.on
        /\ [a EXCEPT !.did = @ \ ss].did = a.did \ ss
BY DEF NoAdmin

LEMMA MainTypes ==
  ASSUME OtherTypes
  PROVE  /\ \A x \in Places : /\ [main EXCEPT !.pc = x] \in [pc : Places, group : Nat \ {0}]
                              /\ [main EXCEPT !.pc = x].pc = x
                              /\ [main EXCEPT !.pc = x].group = main.group
         /\ [main EXCEPT !.group = @ + 1] \in [pc : Places, group : Nat \ {0}]
         /\ [main EXCEPT !.group = @ + 1].pc = main.pc
         /\ [main EXCEPT !.group = @ + 1].group = main.group + 1
         /\ [pc |-> "off", group |-> 1] \in [pc : Places, group : Nat \ {0}]
<1>1. main \in [pc : Places, group : Nat \ {0}]
  BY DEF OtherTypes
<1>2. "off" \in Places
  BY DEF Places
<1>3. \A x \in Places : /\ [main EXCEPT !.pc = x] \in [pc : Places, group : Nat \ {0}]
                        /\ [main EXCEPT !.pc = x].pc = x
                        /\ [main EXCEPT !.pc = x].group = main.group
  BY <1>1
<1>4. /\ [main EXCEPT !.group = @ + 1] \in [pc : Places, group : Nat \ {0}]
      /\ [main EXCEPT !.group = @ + 1].pc = main.pc
      /\ [main EXCEPT !.group = @ + 1].group = main.group + 1
  BY <1>1
<1> QED
  BY <1>2, <1>3, <1>4

LEMMA InitTypes == Init => LauncherTypes
<1> SUFFICES ASSUME Init PROVE LauncherTypes
  OBVIOUS
<1>1. Idle \in Reverting /\ Idle.at = "idle"
  BY DEF Idle, Reverting
<1>2. RevertTypes(revert)
  BY <1>1 DEF RevertTypes, Init
<1>3. OtherTypes
  <2>1. runs \in 0 .. MaxRuns /\ main \in [pc : Places, group : Nat \ {0}]
    BY BoundAssumption DEF Init, Places
  <2>2. agent \in [Agents -> {"off", "game", "end", "ended", "revert"}]
    BY DEF Init
  <2> QED
    BY <2>1, <2>2, AdminTypes DEF OtherTypes, Init
<1> QED
  BY <1>2, <1>3, TypesAre DEF Init, ConfigTypes

LEMMA TroubleTypes ==
  ASSUME OtherTypes
  PROVE  /\ \A kind \in Kinds : Trouble(kind) => troubles' \subseteq Kinds
         /\ (UNCHANGED troubles) => troubles' \subseteq Kinds
BY DEF OtherTypes, Trouble

LEMMA GroupsAre ==
  /\ Len(Groups) = 3
  /\ \A g \in 1 .. 3 : Groups[g] \subseteq Settings
  /\ Groups[1] = {"hosts"} /\ Groups[2] = {"localCert", "userCert"}
  /\ Groups[3] = {"metadata", "profiles"}
BY DEF Groups, Settings

LEMMA ConfigStepTypes ==
  ASSUME LauncherTypes, ConfigStep
  PROVE  LauncherTypes'
<1>0. OtherTypes /\ ConfigTypes /\ RevertTypes(revert)
  BY TypesAre
<1>1. PICK c \in configs : ChangeLocal(c) \/ SetUpAdmin(c) \/ RevertAdmin(c)
                           \/ StopAgentIfNeeded(c)
  BY DEF ConfigStep
<1>2. WellFormed(c) /\ c.flags \subseteq Settings /\ c.done \subseteq Settings
      /\ c.kind \in {"setup", "revert"}
  BY <1>0 DEF ConfigTypes, WellFormed, Config
<1>3. ASSUME NEW d, SameRun(c, d), Become(c, d) PROVE ConfigTypes'
  BY <1>0, <1>3, BecomeKeeps DEF ConfigTypes, SameRun
<1>4. \A ss \in SUBSET Settings :
         Changed(c.kind, ss) \subseteq Settings /\ Undone(c) \subseteq Settings
  BY <1>0, <1>2 DEF Changed, Undone, OtherTypes
<1>5. c.kind \in Kinds /\ "stop" \in Kinds /\ "setup" \in Kinds /\ "revert" \in Kinds
  BY <1>2 DEF Kinds
<1>6. ASSUME ConfigFrame, ConfigTypes', applied' \subseteq Settings,
             admin' \in [on : BOOLEAN, did : SUBSET AdminSettings], troubles' \subseteq Kinds
      PROVE  LauncherTypes'
  <2>1. OtherTypes'
    BY <1>0, <1>6 DEF OtherTypes, ConfigFrame
  <2>2. RevertTypes(revert')
    BY <1>0, <1>6 DEF ConfigFrame
  <2> QED
    BY <1>6, <2>1, <2>2, TypesAgain
<1>7. ASSUME ChangeLocal(c) PROVE LauncherTypes'
  <2>1. PICK d, s :
          /\ SameRun(c, d) /\ Become(c, d) /\ s \in c.flags
          /\ \/ applied' = Changed(c.kind, {s}) /\ troubles' = troubles
             \/ /\ applied' = Undone(c)
                /\ troubles' = troubles \/ troubles' = troubles \cup {c.kind}
    BY <1>2, <1>7, ChangeLocalIs
  <2>2. {s} \in SUBSET Settings
    BY <1>2, <2>1
  <2>3. applied' \subseteq Settings /\ troubles' \subseteq Kinds
    BY <1>0, <1>4, <1>5, <2>1, <2>2 DEF OtherTypes
  <2>4. ConfigTypes'
    BY <1>3, <2>1
  <2>5. ConfigFrame /\ admin' = admin
    BY <1>2, <1>7, ChangeLocalIs
  <2> QED
    BY <1>0, <1>6, <2>3, <2>4, <2>5 DEF OtherTypes
<1>8. ASSUME SetUpAdmin(c) PROVE LauncherTypes'
  <2>1. ConfigTypes' /\ applied' \subseteq Settings /\ troubles' \subseteq Kinds
    BY <1>0, <1>2, <1>3, <1>5, <1>8, SetUpAdminIs DEF OtherTypes
  <2>2. admin' \in [on : BOOLEAN, did : SUBSET AdminSettings]
    BY <1>0, <1>2, <1>8, SetUpAdminIs, AdminTypes DEF OtherTypes
  <2> QED
    BY <1>2, <1>6, <1>8, <2>1, <2>2, SetUpAdminIs
<1>9. ASSUME RevertAdmin(c) PROVE LauncherTypes'
  <2>1. ConfigTypes' /\ applied' \subseteq Settings /\ troubles' \subseteq Kinds
    BY <1>0, <1>2, <1>3, <1>5, <1>9, RevertAdminIs DEF OtherTypes
  <2>2. admin' \in [on : BOOLEAN, did : SUBSET AdminSettings]
    BY <1>0, <1>2, <1>9, RevertAdminIs, AdminTypes DEF OtherTypes
  <2> QED
    BY <1>2, <1>6, <1>9, <2>1, <2>2, RevertAdminIs
<1>10. ASSUME StopAgentIfNeeded(c) PROVE LauncherTypes'
  <2>1. ConfigTypes' /\ applied' \subseteq Settings /\ troubles' \subseteq Kinds
        /\ admin' \in [on : BOOLEAN, did : SUBSET AdminSettings]
    BY <1>0, <1>2, <1>3, <1>5, <1>10, StopAgentIs, AdminTypes DEF OtherTypes
  <2> QED
    BY <1>2, <1>6, <1>10, <2>1, StopAgentIs
<1> QED
  BY <1>1, <1>7, <1>8, <1>9, <1>10

\* The end of the launcher, and of an agent.
LEMMA LauncherEndsTypes ==
  ASSUME LauncherTypes, LauncherEnds
  PROVE  /\ ConfigTypes' /\ RevertTypes(revert')
         /\ main' \in [pc : Places, group : Nat \ {0}] /\ main'.pc = "off"
         /\ handler' = FALSE /\ adminStarted' = FALSE
         /\ \A q \in Actors : IF q \in LauncherActors THEN revert'[q] = Idle
                                                      ELSE revert'[q] = revert[q]
<1>0. OtherTypes /\ ConfigTypes /\ RevertTypes(revert)
  BY TypesAre
<1>1. ConfigTypes'
  BY <1>0, OrphanedAre DEF ConfigTypes, LauncherEnds
<1>2. main' \in [pc : Places, group : Nat \ {0}] /\ main'.pc = "off"
      /\ handler' = FALSE /\ adminStarted' = FALSE
  BY <1>0, MainTypes DEF LauncherEnds
<1> QED
  BY <1>0, <1>1, <1>2, GoneAre DEF LauncherEnds, Gone

LEMMA AgentEndsTypes ==
  ASSUME LauncherTypes, NEW n \in Agents, NEW r, RevertTypes(r), AgentEnds(n, r)
  PROVE  /\ ConfigTypes' /\ RevertTypes(revert')
         /\ agent' \in [Agents -> {"off", "game", "end", "ended", "revert"}]
         /\ signalled' = signalled \ {n} /\ unlisted' = unlisted \ {n}
         /\ agent'[n] = "off" /\ \A m \in Agents : m # n => agent'[m] = agent[m]
         /\ \A q \in Actors : IF q \in ActorsOf(n) THEN revert'[q] = Idle
                                                   ELSE revert'[q] = r[q]
<1>0. OtherTypes /\ ConfigTypes
  BY TypesAre
<1>1. ConfigTypes'
  BY <1>0, OrphanedAre DEF ConfigTypes, AgentEnds
<1>2. RevertTypes(revert') /\ \A q \in Actors : IF q \in ActorsOf(n) THEN revert'[q] = Idle
                                                ELSE revert'[q] = r[q]
  BY GoneAre DEF AgentEnds
<1> QED
  BY <1>0, <1>1, <1>2 DEF AgentEnds, OtherTypes

LEMMA RevertStepTypes ==
  ASSUME LauncherTypes, NEW p \in Actors, RevertStep(p)
  PROVE  LauncherTypes'
<1>0. OtherTypes /\ ConfigTypes /\ RevertTypes(revert)
  BY TypesAre
<1> USE DEF launcherVars, agentVars, started, bounds
<1>1. ASSUME Interrupt(p) PROVE LauncherTypes'
  <2>1. RevertTypes(revert') /\ signalled' \subseteq Agents
    <3>1. CASE revert' = [revert EXCEPT ![p].at = "load"] /\ UNCHANGED signalled
      BY <1>0, <3>1, MovedIs DEF Moved, OtherTypes
    <3>2. ASSUME NEW n \in Agents, UNCHANGED signalled,
                 revert' = [revert EXCEPT ![p] = [at |-> "kill", agent |-> n]]
          PROVE  RevertTypes(revert') /\ signalled' \subseteq Agents
      <4>1. PICK r : r = [revert EXCEPT ![p] = [at |-> "kill", agent |-> n]] /\ RevertTypes(r)
        BY <1>0, KillIs
      <4> QED
        BY <1>0, <3>2, <4>1 DEF OtherTypes
    <3>3. ASSUME NEW n \in Agents, signalled' = signalled \cup {n},
                 revert' = [revert EXCEPT ![p] = [at |-> "kill", agent |-> n],
                                          ![AgentHandler(n)].at = "load"]
          PROVE  RevertTypes(revert') /\ signalled' \subseteq Agents
      <4>1. PICK r : r = [revert EXCEPT ![p] = [at |-> "kill", agent |-> n]] /\ RevertTypes(r)
        BY <1>0, KillIs
      <4>2. RevertTypes(r) /\ AgentHandler(n) \in Actors
        BY <4>1, ActorsAre
      <4>3. revert' = [r EXCEPT ![AgentHandler(n)].at = "load"]
        BY <3>3, <4>1
      <4>4. Moved(revert', r, AgentHandler(n), "load")
        BY <4>2, <4>3, MovedIs
      <4> QED
        BY <1>0, <3>3, <4>4 DEF Moved, OtherTypes
    <3> QED
      BY <1>1, <3>1, <3>2, <3>3 DEF Interrupt, Listed
  <2>2. OtherTypes' /\ ConfigTypes'
    BY <1>0, <1>1, <2>1 DEF Interrupt, OtherTypes, ConfigTypes
  <2> QED
    BY <2>1, <2>2, TypesAgain
<1>2. ASSUME Kill(p) PROVE LauncherTypes'
  <2>1. PICK r : r = [revert EXCEPT ![p] = [at |-> "load", agent |-> 0]] /\ RevertTypes(r)
    BY <1>0, KilledIs
  <2>2. RevertTypes(r) /\ revert[p].agent \in Agents
    BY <1>0, <1>2, <2>1 DEF Kill, RevertTypes
  <2>3. AgentEnds(revert[p].agent, r)
    BY <1>2, <2>1 DEF Kill
  <2>4. ConfigTypes' /\ RevertTypes(revert')
        /\ agent' \in [Agents -> {"off", "game", "end", "ended", "revert"}]
        /\ signalled' \subseteq signalled /\ unlisted' \subseteq unlisted
    BY <2>2, <2>3, AgentEndsTypes
  <2>5. OtherTypes'
    BY <1>0, <1>2, <2>4 DEF Kill, OtherTypes
  <2> QED
    BY <2>4, <2>5, TypesAgain
<1>3. ASSUME Load(p) PROVE LauncherTypes'
  <2>1. RevertTypes(revert')
    <3>1. \/ revert' = [revert EXCEPT ![p].at = "idle"]
          \/ revert' = [revert EXCEPT ![p].at = "run"]
      BY <1>3 DEF Load
    <3>2. Moved([revert EXCEPT ![p].at = "idle"], revert, p, "idle")
          /\ Moved([revert EXCEPT ![p].at = "run"], revert, p, "run")
      BY <1>0, MovedIs
    <3> QED
      BY <3>1, <3>2 DEF Moved
  <2>2. ConfigTypes'
    <3>1. WellFormed(Spawn(p, "revert", store))
      BY <1>0, SpawnIs DEF OtherTypes
    <3>2. configs' = configs \/ configs' = configs \cup {Spawn(p, "revert", store)}
      BY <1>3 DEF Load, Run
    <3> QED
      BY <1>0, <3>1, <3>2 DEF ConfigTypes
  <2>3. overlap' \in BOOLEAN /\ admin' \in [on : BOOLEAN, did : SUBSET AdminSettings]
    <3>1. overlap' = overlap \/ overlap' = (overlap \/ configs # {})
      BY <1>3 DEF Load, Run
    <3>2. admin' = admin \/ admin' = NoAdmin
      BY <1>3 DEF Load
    <3>3. overlap' \in BOOLEAN
      BY <1>0, <3>1 DEF OtherTypes
    <3> QED
      BY <1>0, <3>2, <3>3, AdminTypes DEF OtherTypes
  <2>4. troubles' \subseteq Kinds
    BY <1>0, <1>3, TroubleTypes DEF Load, Kinds
  <2>5. OtherTypes'
    BY <1>0, <1>3, <2>3, <2>4 DEF Load, OtherTypes
  <2> QED
    BY <2>1, <2>2, <2>5, TypesAgain
<1>4. ASSUME Delete(p) PROVE LauncherTypes'
  <2>1. RevertTypes(revert') /\ ConfigTypes'
    BY <1>0, <1>4, MovedIs DEF Delete, Moved, ConfigTypes
  <2>2. OtherTypes'
    BY <1>0, <1>4 DEF Delete, OtherTypes
  <2> QED
    BY <2>1, <2>2, TypesAgain
<1> QED
  BY <1>1, <1>2, <1>3, <1>4 DEF RevertStep

LEMMA BeginRevertIs ==
  ASSUME RevertTypes(revert), NEW p \in Actors, BeginRevert(p)
  PROVE  Moved(revert', revert, p, "interrupt")
BY MovedIs DEF BeginRevert

LEMMA GoToIs ==
  ASSUME OtherTypes, NEW x \in Places, GoTo(x)
  PROVE  /\ main' \in [pc : Places, group : Nat \ {0}]
         /\ main'.pc = x /\ main'.group = main.group
BY MainTypes DEF GoTo

LEMMA FailIs ==
  ASSUME OtherTypes, RevertTypes(revert), Fail
  PROVE  /\ main' \in [pc : Places, group : Nat \ {0}]
         /\ main'.pc = "revert" /\ main'.group = main.group
         /\ Moved(revert', revert, Main, "interrupt")
<1>1. "revert" \in Places
  BY DEF Places
<1> QED
  BY <1>1, ActorsAre, GoToIs, BeginRevertIs DEF Fail

LEMMA LauncherStepTypes ==
  ASSUME LauncherTypes, Start \/ LauncherStep
  PROVE  LauncherTypes'
<1>0. OtherTypes /\ ConfigTypes /\ RevertTypes(revert)
  BY TypesAre
<1> USE DEF launcherVars, agentVars, started, bounds, mainFrame
<1>1. /\ {"off", "wait", "cleanup", "flush", "setup", "launch", "game", "revert"} \subseteq Places
      /\ {"late", "check", "start", "store"} \subseteq Kinds
  BY DEF Places, Kinds
<1>2. ASSUME Start PROVE LauncherTypes'
  <2>1. main' \in [pc : Places, group : Nat \ {0}]
    BY <1>0, <1>1, <1>2, GoToIs DEF Start
  <2>2. runs' \in 0 .. MaxRuns
    BY <1>0, <1>2, BoundAssumption DEF Start, OtherTypes
  <2>3. OtherTypes' /\ ConfigTypes' /\ RevertTypes(revert')
    BY <1>0, <1>2, <2>1, <2>2 DEF Start, OtherTypes, ConfigTypes
  <2> QED
    BY <2>3, TypesAgain
<1>3. ASSUME Waited PROVE LauncherTypes'
  <2>1. main' \in [pc : Places, group : Nat \ {0}] /\ RevertTypes(revert')
    BY <1>0, <1>1, <1>3, GoToIs, FailIs, BeginRevertIs, ActorsAre DEF Waited, Moved
  <2>2. troubles' \subseteq Kinds
    BY <1>0, <1>1, <1>3, TroubleTypes DEF Waited
  <2>3. OtherTypes' /\ ConfigTypes'
    BY <1>0, <1>3, <2>1, <2>2 DEF Waited, OtherTypes, ConfigTypes
  <2> QED
    BY <2>1, <2>3, TypesAgain
<1>4. ASSUME CleanedUp PROVE LauncherTypes'
  <2>1. main' \in [pc : Places, group : Nat \ {0}]
    BY <1>0, <1>1, <1>4, GoToIs DEF CleanedUp
  <2>2. OtherTypes' /\ ConfigTypes' /\ RevertTypes(revert')
    BY <1>0, <1>4, <2>1 DEF CleanedUp, OtherTypes, ConfigTypes
  <2> QED
    BY <2>2, TypesAgain
<1>5. ASSUME FlushCache PROVE LauncherTypes'
  <2>1. main' \in [pc : Places, group : Nat \ {0}] /\ RevertTypes(revert')
    BY <1>0, <1>1, <1>5, GoToIs, FailIs DEF FlushCache, Moved
  <2>2. troubles' \subseteq Kinds
    BY <1>0, <1>1, <1>5, TroubleTypes DEF FlushCache, Fails
  <2>3. admin' \in [on : BOOLEAN, did : SUBSET AdminSettings] /\ adminStarted' \in BOOLEAN
        /\ unknowing' \in BOOLEAN
    <3>1. [on |-> TRUE, did |-> {}] \in [on : BOOLEAN, did : SUBSET AdminSettings]
      OBVIOUS
    <3>2. \/ admin' = admin /\ adminStarted' = adminStarted /\ unknowing' = unknowing
          \/ /\ admin' = [on |-> TRUE, did |-> {}] /\ adminStarted' = TRUE
             /\ unknowing' = (unknowing \/ applied \cap AdminSettings # {})
      BY <1>5 DEF FlushCache
    <3> QED
      BY <1>0, <3>1, <3>2 DEF OtherTypes
  <2>4. OtherTypes' /\ ConfigTypes'
    BY <1>0, <1>5, <2>1, <2>2, <2>3 DEF FlushCache, OtherTypes, ConfigTypes
  <2> QED
    BY <2>1, <2>4, TypesAgain
<1>6. ASSUME SetUp PROVE LauncherTypes'
  <2>1. main.group \in Nat \ {0} /\ Len(Groups) = 3
    BY <1>0, GroupsAre DEF OtherTypes
  <2>2. \/ GoTo("launch") /\ UNCHANGED <<configs, overlap>>
        \/ \E flags :
             /\ main.group \in 1 .. 3 /\ flags \subseteq Groups[main.group]
             /\ \/ main' = [main EXCEPT !.group = @ + 1] /\ UNCHANGED <<configs, overlap>>
                \/ Run(Main, "setup", flags) /\ UNCHANGED main
    <3>1. CASE main.group > Len(Groups)
      BY <1>6, <3>1 DEF SetUp
    <3>2. CASE ~(main.group > Len(Groups))
      <4>1. main.group \in 1 .. 3
        BY <2>1, <3>2
      <4>2. PICK inOrder :
              LET flags == (Groups[main.group] \cap wanted) \ (Manual \cup inOrder) IN
              IF flags = {}
              THEN main' = [main EXCEPT !.group = @ + 1] /\ UNCHANGED <<configs, overlap>>
              ELSE Run(Main, "setup", flags) /\ UNCHANGED main
        BY <1>6, <3>2 DEF SetUp
      <4>3. PICK flags : flags = (Groups[main.group] \cap wanted) \ (Manual \cup inOrder)
        OBVIOUS
      <4> QED
        BY <4>1, <4>2, <4>3
    <3> QED
      BY <3>1, <3>2
  <2>3. main' \in [pc : Places, group : Nat \ {0}]
    BY <1>0, <1>1, <2>1, <2>2, GoToIs, MainTypes DEF OtherTypes
  <2>4. ConfigTypes' /\ overlap' \in BOOLEAN
    <3>1. CASE UNCHANGED <<configs, overlap>>
      BY <1>0, <3>1 DEF ConfigTypes, OtherTypes
    <3>2. ASSUME NEW flags, main.group \in 1 .. 3, flags \subseteq Groups[main.group],
                 Run(Main, "setup", flags)
          PROVE  ConfigTypes' /\ overlap' \in BOOLEAN
      <4>1. WellFormed(Spawn(Main, "setup", flags))
        BY <3>2, GroupsAre, ActorsAre, SpawnIs
      <4> QED
        BY <1>0, <3>2, <4>1 DEF Run, ConfigTypes, OtherTypes
    <3> QED
      BY <2>2, <3>1, <3>2
  <2>5. OtherTypes' /\ RevertTypes(revert')
    BY <1>0, <1>6, <2>3, <2>4 DEF SetUp, OtherTypes
  <2> QED
    BY <2>4, <2>5, TypesAgain
<1>7. ASSUME StoreFlags PROVE LauncherTypes'
  <2>1. PICK c \in configs :
          \/ /\ store' = store \cup c.flags
             /\ main' = [main EXCEPT !.group = @ + 1]
             /\ configs' = configs \ {c}
             /\ UNCHANGED <<revert, troubles>>
          \/ /\ Trouble("store")
             /\ configs' = (configs \ {c}) \cup {Spawn(Main, "revert", c.flags)}
             /\ UNCHANGED <<store, main, revert>>
          \/ /\ Fail
             /\ configs' = configs \ {c}
             /\ UNCHANGED <<store, troubles>>
    BY <1>7 DEF StoreFlags, ChildOf
  <2>2. c.flags \subseteq Settings
    BY <1>0 DEF ConfigTypes, WellFormed, Config
  <2>3. WellFormed(Spawn(Main, "revert", c.flags))
    BY <2>2, ActorsAre, SpawnIs
  <2>4. ConfigTypes'
    BY <1>0, <2>1, <2>3 DEF ConfigTypes
  <2>5. main' \in [pc : Places, group : Nat \ {0}] /\ RevertTypes(revert')
    BY <1>0, <2>1, MainTypes, FailIs DEF Moved, OtherTypes
  <2>6. troubles' \subseteq Kinds
    BY <1>0, <1>1, <2>1, TroubleTypes
  <2>7. store' \subseteq Settings
    BY <1>0, <2>1, <2>2 DEF OtherTypes
  <2>8. OtherTypes'
    BY <1>0, <1>7, <2>5, <2>6, <2>7 DEF StoreFlags, OtherTypes
  <2> QED
    BY <2>4, <2>5, <2>8, TypesAgain
<1>8. ASSUME StartAgent PROVE LauncherTypes'
  <2>1. main' \in [pc : Places, group : Nat \ {0}] /\ RevertTypes(revert')
    BY <1>0, <1>1, <1>8, GoToIs, FailIs DEF StartAgent, Moved
  <2>2. troubles' \subseteq Kinds
    BY <1>0, <1>1, <1>8, TroubleTypes DEF StartAgent
  <2>3. agent' \in [Agents -> {"off", "game", "end", "ended", "revert"}]
    BY <1>0, <1>8 DEF StartAgent, OtherTypes
  <2>4. OtherTypes' /\ ConfigTypes'
    BY <1>0, <1>8, <2>1, <2>2, <2>3 DEF StartAgent, OtherTypes, ConfigTypes
  <2> QED
    BY <2>1, <2>4, TypesAgain
<1>9. ASSUME StartGame PROVE LauncherTypes'
  <2>1. /\ main' \in [pc : Places, group : Nat \ {0}] /\ RevertTypes(revert') /\ ConfigTypes'
        /\ handler' \in BOOLEAN /\ adminStarted' \in BOOLEAN
    <3>1. CASE LauncherEnds
      BY <3>1, LauncherEndsTypes
    <3>2. CASE Fail /\ UNCHANGED <<game, configs, handler, adminStarted>>
      BY <1>0, <3>2, FailIs DEF OtherTypes, ConfigTypes, Moved
    <3> QED
      BY <1>9, <3>1, <3>2 DEF StartGame
  <2>2. troubles' \subseteq Kinds
    BY <1>0, <1>1, <1>9, TroubleTypes DEF StartGame
  <2>3. OtherTypes'
    BY <1>0, <1>9, <2>1, <2>2 DEF StartGame, OtherTypes
  <2> QED
    BY <2>1, <2>3, TypesAgain
<1>10. ASSUME CheckFails PROVE LauncherTypes'
  <2>1. main' \in [pc : Places, group : Nat \ {0}] /\ RevertTypes(revert')
    BY <1>0, <1>10, FailIs DEF CheckFails, Moved
  <2>2. troubles' \subseteq Kinds
    BY <1>0, <1>1, <1>10, TroubleTypes DEF CheckFails
  <2>3. OtherTypes' /\ ConfigTypes'
    BY <1>0, <1>10, <2>1, <2>2 DEF CheckFails, OtherTypes, ConfigTypes
  <2> QED
    BY <2>1, <2>3, TypesAgain
<1>11. ASSUME Exit PROVE LauncherTypes'
  <2>1. /\ main' \in [pc : Places, group : Nat \ {0}] /\ RevertTypes(revert') /\ ConfigTypes'
        /\ handler' \in BOOLEAN /\ adminStarted' \in BOOLEAN
    BY <1>11, LauncherEndsTypes DEF Exit
  <2>2. OtherTypes'
    BY <1>0, <1>11, <2>1 DEF Exit, OtherTypes
  <2> QED
    BY <2>1, <2>2, TypesAgain
<1> QED
  BY <1>2, <1>3, <1>4, <1>5, <1>6, <1>7, <1>8, <1>9, <1>10, <1>11 DEF LauncherStep

LEMMA EndWatchIs ==
  ASSUME OtherTypes, RevertTypes(revert), NEW n \in Agents, EndWatch(n)
  PROVE  /\ agent' \in [Agents -> {"off", "game", "end", "ended", "revert"}]
         /\ agent'[n] = "revert" /\ \A m \in Agents : m # n => agent'[m] = agent[m]
         /\ Moved(revert', revert, Watch(n), "load")
<1>1. Watch(n) \in Actors
  BY ActorsAre
<1>2. Moved(revert', revert, Watch(n), "load")
  BY <1>1, MovedIs DEF EndWatch
<1> QED
  BY <1>2 DEF EndWatch, OtherTypes

LEMMA AgentStepTypes ==
  ASSUME LauncherTypes, NEW n \in Agents, AgentStep(n)
  PROVE  LauncherTypes'
<1>0. OtherTypes /\ ConfigTypes /\ RevertTypes(revert)
  BY TypesAre
<1> USE DEF launcherVars, started, agentFrame
<1>1. ASSUME SeeGame(n) PROVE LauncherTypes'
  <2>1. OtherTypes' /\ ConfigTypes' /\ RevertTypes(revert')
    BY <1>0, <1>1 DEF SeeGame, OtherTypes, ConfigTypes
  <2> QED
    BY <2>1, TypesAgain
<1>2. ASSUME SeeEnd(n) PROVE LauncherTypes'
  <2>1. agent' \in [Agents -> {"off", "game", "end", "ended", "revert"}] /\ RevertTypes(revert')
    BY <1>0, <1>2, EndWatchIs DEF SeeEnd, Moved
  <2>2. troubles' \subseteq Kinds
    BY <1>0, <1>2, TroubleTypes DEF SeeEnd, Kinds
  <2>3. OtherTypes' /\ ConfigTypes'
    BY <1>0, <1>2, <2>1, <2>2 DEF SeeEnd, EndWatch, OtherTypes, ConfigTypes
  <2> QED
    BY <2>1, <2>3, TypesAgain
<1>3. ASSUME Unlist(n) PROVE LauncherTypes'
  <2>1. OtherTypes' /\ ConfigTypes' /\ RevertTypes(revert')
    BY <1>0, <1>3 DEF Unlist, OtherTypes, ConfigTypes
  <2> QED
    BY <2>1, TypesAgain
<1>4. ASSUME AgentExits(n) PROVE LauncherTypes'
  <2>1. /\ ConfigTypes' /\ RevertTypes(revert')
        /\ agent' \in [Agents -> {"off", "game", "end", "ended", "revert"}]
        /\ signalled' \subseteq signalled /\ unlisted' \subseteq unlisted
    BY <1>0, <1>4, AgentEndsTypes DEF AgentExits
  <2>2. OtherTypes'
    BY <1>0, <1>4, <2>1 DEF AgentExits, OtherTypes
  <2> QED
    BY <2>1, <2>2, TypesAgain
<1> QED
  BY <1>1, <1>2, <1>3, <1>4 DEF AgentStep

LEMMA GameStepTypes ==
  ASSUME LauncherTypes, GameStep
  PROVE  LauncherTypes'
<1>0. OtherTypes /\ ConfigTypes /\ RevertTypes(revert)
  BY TypesAre
<1>1. agent' \in [Agents -> {"off", "game", "end", "ended", "revert"}]
  BY <1>0 DEF GameStep, OtherTypes
<1>2. OtherTypes' /\ ConfigTypes' /\ RevertTypes(revert')
  BY <1>0, <1>1 DEF GameStep, OtherTypes, ConfigTypes, launcherVars, started, bounds
<1> QED
  BY <1>2, TypesAgain

LEMMA DisturbTypes ==
  ASSUME LauncherTypes, Disturb
  PROVE  LauncherTypes'
<1>0. OtherTypes /\ ConfigTypes /\ RevertTypes(revert)
  BY TypesAre
<1> USE DEF launcherVars, agentVars, started, agentFrame
<1>1. {"signal", "kill", "agentSignal", "agentKill", "adminKill"} \subseteq Kinds
  BY DEF Kinds
<1>2. ASSUME SignalLauncher PROVE LauncherTypes'
  <2>1. RevertTypes(revert') /\ troubles' \subseteq Kinds
    BY <1>0, <1>1, <1>2, ActorsAre, BeginRevertIs, TroubleTypes DEF SignalLauncher, Moved
  <2>2. OtherTypes' /\ ConfigTypes'
    BY <1>0, <1>2, <2>1 DEF SignalLauncher, OtherTypes, ConfigTypes
  <2> QED
    BY <2>1, <2>2, TypesAgain
<1>3. ASSUME KillLauncher PROVE LauncherTypes'
  <2>1. /\ main' \in [pc : Places, group : Nat \ {0}] /\ RevertTypes(revert') /\ ConfigTypes'
        /\ handler' \in BOOLEAN /\ adminStarted' \in BOOLEAN
    BY <1>3, LauncherEndsTypes DEF KillLauncher
  <2>2. troubles' \subseteq Kinds
    BY <1>0, <1>1, <1>3, TroubleTypes DEF KillLauncher
  <2>3. OtherTypes'
    BY <1>0, <1>3, <2>1, <2>2 DEF KillLauncher, OtherTypes
  <2> QED
    BY <2>1, <2>3, TypesAgain
<1>4. ASSUME KillAdminAgent PROVE LauncherTypes'
  <2>1. troubles' \subseteq Kinds /\ admin' \in [on : BOOLEAN, did : SUBSET AdminSettings]
    BY <1>0, <1>1, <1>4, TroubleTypes, AdminTypes DEF KillAdminAgent
  <2>2. OtherTypes' /\ ConfigTypes' /\ RevertTypes(revert')
    BY <1>0, <1>4, <2>1 DEF KillAdminAgent, OtherTypes, ConfigTypes
  <2> QED
    BY <2>2, TypesAgain
<1>5. ASSUME NEW n \in Agents, SignalAgent(n) PROVE LauncherTypes'
  <2>1. Moved([revert EXCEPT ![AgentHandler(n)].at = "load"], revert, AgentHandler(n), "load")
    BY <1>0, ActorsAre, MovedIs
  <2>2. troubles' \subseteq Kinds /\ RevertTypes(revert') /\ signalled' \subseteq Agents
    BY <1>0, <1>1, <1>5, <2>1, TroubleTypes DEF SignalAgent, Moved, OtherTypes
  <2>3. OtherTypes' /\ ConfigTypes'
    BY <1>0, <1>5, <2>2 DEF SignalAgent, OtherTypes, ConfigTypes
  <2> QED
    BY <2>2, <2>3, TypesAgain
<1>6. ASSUME NEW n \in Agents, KillLauncherAgent(n) PROVE LauncherTypes'
  <2>1. /\ ConfigTypes' /\ RevertTypes(revert')
        /\ agent' \in [Agents -> {"off", "game", "end", "ended", "revert"}]
        /\ signalled' \subseteq signalled /\ unlisted' \subseteq unlisted
    BY <1>0, <1>6, AgentEndsTypes DEF KillLauncherAgent
  <2>2. troubles' \subseteq Kinds
    BY <1>0, <1>1, <1>6, TroubleTypes DEF KillLauncherAgent
  <2>3. OtherTypes'
    BY <1>0, <1>6, <2>1, <2>2 DEF KillLauncherAgent, OtherTypes
  <2> QED
    BY <2>1, <2>3, TypesAgain
<1> QED
  BY <1>2, <1>3, <1>4, <1>5, <1>6 DEF Disturb

LEMMA StutterTypes ==
  ASSUME LauncherTypes, UNCHANGED vars
  PROVE  LauncherTypes'
<1>1. OtherTypes' /\ ConfigTypes' /\ RevertTypes(revert')
  BY DEF vars, launcherVars, agentVars, bounds, started, LauncherTypes, OtherTypes,
         ConfigTypes, RevertTypes
<1> QED
  BY <1>1, TypesAgain

LEMMA TypesStay == LauncherTypes /\ [Next]_vars => LauncherTypes'
BY ConfigStepTypes, RevertStepTypes, LauncherStepTypes, AgentStepTypes, GameStepTypes,
   DisturbTypes, StutterTypes DEF Next

-----------------------------------------------------------------------------
(* Who reverts when *)

\* Only the launcher kills agents.
LaunchersKill ==
  \A p \in Actors : revert[p].at \in {"interrupt", "kill"} => p \in LauncherActors

LaunchersTurns ==
  /\ revert[Main].at # "idle" => main.pc \in {"cleanup", "revert"}
  /\ revert[Handler].at # "idle" => handler
  /\ handler => "signal" \in troubles

AgentsTurns ==
  \A n \in Agents :
    /\ revert[Watch(n)].at # "idle" => agent[n] = "revert"
    /\ revert[AgentHandler(n)].at # "idle" => n \in signalled
    /\ n \in signalled => Running(n)

\* The agent of a run is started once.
AgentsStart ==
  \A n \in Agents :
    \/ n > runs
    \/ n = runs /\ main.pc \in {"wait", "cleanup", "flush", "setup", "launch"}
    => ~Running(n)

Turns == LaunchersKill /\ LaunchersTurns /\ AgentsTurns /\ AgentsStart

LEMMA InitTurns == Init => Turns
BY ActorsAre DEF Init, Turns, LaunchersKill, LaunchersTurns, AgentsTurns, AgentsStart, Idle,
   Running, Agents

\* A step that starts or ends no agent and leaves every ConfigRevert where it is.
LEMMA TurnsWithin ==
  ASSUME Turns, revert' = revert, troubles \subseteq troubles',
         signalled' = signalled, handler' = handler, runs' = runs,
         agent \in [Agents -> {"off", "game", "end", "ended", "revert"}],
         \A n \in Agents : agent'[n] = agent[n]
                           \/ (agent[n] \in {"game", "end"} /\ agent'[n] \in {"end", "ended"}),
         \/ main'.pc = main.pc
         \/ revert[Main] = Idle /\ main.pc # "off" /\ main'.pc # "wait"
            /\ (main'.pc \in {"cleanup", "flush", "setup", "launch"} =>
                  main.pc \in {"wait", "cleanup", "flush", "setup", "launch"})
  PROVE  Turns'
<1>1. LaunchersKill'
  BY DEF Turns, LaunchersKill
<1>2. LaunchersTurns'
  BY DEF Turns, LaunchersTurns, Idle
<1>3. AgentsTurns'
  BY DEF Turns, AgentsTurns, Running
<1>4. AgentsStart'
  BY DEF Turns, AgentsStart, Running
<1> QED
  BY <1>1, <1>2, <1>3, <1>4 DEF Turns

\* Only p's ConfigRevert moves.
LEMMA TurnsMove ==
  ASSUME Turns, NEW p \in Actors, NEW x, Moved(revert', revert, p, x),
         troubles \subseteq troubles', signalled \subseteq signalled',
         handler' \in BOOLEAN, handler => handler', handler' => "signal" \in troubles',
         runs' = runs, \A n \in Agents : Running(n)' = Running(n),
         \A n \in Agents : n \in signalled' => Running(n),
         \A n \in Agents : agent[n] = "revert" => agent'[n] = "revert",
         x \in {"interrupt", "kill"} => p \in LauncherActors,
         p = Main /\ x # "idle" => main'.pc \in {"cleanup", "revert"},
         p = Handler /\ x # "idle" => handler',
         \A n \in Agents : p = Watch(n) /\ x # "idle" => agent'[n] = "revert",
         \A n \in Agents : p = AgentHandler(n) /\ x # "idle" => n \in signalled',
         \/ main'.pc = main.pc
         \/ p = Main /\ main.pc # "off" /\ main'.pc # "wait"
            /\ (main'.pc \in {"cleanup", "flush", "setup", "launch"} =>
                  main.pc \in {"wait", "cleanup", "flush", "setup", "launch"})
  PROVE  Turns'
<1>1. LaunchersKill'
  BY DEF Turns, LaunchersKill, Moved
<1>2. LaunchersTurns'
  BY ActorsAre DEF Turns, LaunchersTurns, Moved
<1>3. AgentsTurns'
  BY ActorsAre DEF Turns, AgentsTurns, Moved
<1>4. AgentsStart'
  BY DEF Turns, AgentsStart
<1> QED
  BY <1>1, <1>2, <1>3, <1>4 DEF Turns

LEMMA TroublesGrow ==
  ASSUME NEW kind, Trouble(kind) \/ UNCHANGED troubles
  PROVE  troubles \subseteq troubles' /\ (Trouble(kind) => kind \in troubles')
BY DEF Trouble

\* The agent n and its actors are gone.
LEMMA TurnsAgentEnds ==
  ASSUME LauncherTypes, Turns, NEW n \in Agents, NEW r, RevertTypes(r), AgentEnds(n, r),
         \A q \in Actors : r[q] # revert[q] =>
            /\ r[q].at \notin {"interrupt", "kill"}
            /\ q = Main => main.pc \in {"cleanup", "revert"}
            /\ q = Handler => handler
            /\ q \in LauncherActors,
         troubles \subseteq troubles', main' = main, handler' = handler, runs' = runs
  PROVE  Turns'
<1>1. /\ signalled' = signalled \ {n} /\ unlisted' = unlisted \ {n}
      /\ agent'[n] = "off" /\ \A m \in Agents : m # n => agent'[m] = agent[m]
      /\ \A q \in Actors : IF q \in ActorsOf(n) THEN revert'[q] = Idle
                                                ELSE revert'[q] = r[q]
  BY AgentEndsTypes
<1>2. \A m \in Agents : m # n => Watch(m) \notin ActorsOf(n) /\ AgentHandler(m) \notin ActorsOf(n)
  BY ActorsDiffer DEF ActorsOf
<1>3. \A m \in Agents : /\ Watch(m) \in Actors /\ AgentHandler(m) \in Actors
                        /\ Watch(m) \notin LauncherActors /\ AgentHandler(m) \notin LauncherActors
  BY ActorsAre, ActorsDiffer
<1>4. Main \notin ActorsOf(n) /\ Handler \notin ActorsOf(n) /\ Main \in Actors /\ Handler \in Actors
  BY ActorsAre, ActorsDiffer DEF ActorsOf
<1>5. LaunchersKill'
  BY <1>1 DEF Turns, LaunchersKill, Idle
<1>6. LaunchersTurns'
  BY <1>1, <1>4 DEF Turns, LaunchersTurns
<1>7. \A m \in Agents : m # n => /\ revert'[Watch(m)] = revert[Watch(m)]
                                 /\ revert'[AgentHandler(m)] = revert[AgentHandler(m)]
  BY <1>1, <1>2, <1>3
<1>8. revert'[Watch(n)].at = "idle" /\ revert'[AgentHandler(n)].at = "idle"
  BY <1>1, <1>3 DEF ActorsOf, Idle
<1>9. AgentsTurns'
  BY <1>1, <1>7, <1>8 DEF Turns, AgentsTurns, Running
<1>10. AgentsStart'
  BY <1>1 DEF Turns, AgentsStart, Running
<1> QED
  BY <1>5, <1>6, <1>9, <1>10 DEF Turns

LEMMA TurnsLauncherEnds ==
  ASSUME LauncherTypes, Turns, LauncherEnds,
         troubles \subseteq troubles', agent' = agent, signalled' = signalled, runs' = runs
  PROVE  Turns'
<1>1. /\ main'.pc = "off" /\ handler' = FALSE
      /\ \A q \in Actors : IF q \in LauncherActors THEN revert'[q] = Idle
                                                   ELSE revert'[q] = revert[q]
  BY LauncherEndsTypes
<1>2. \A m \in Agents : /\ Watch(m) \in Actors /\ AgentHandler(m) \in Actors
                        /\ Watch(m) \notin LauncherActors /\ AgentHandler(m) \notin LauncherActors
  BY ActorsAre, ActorsDiffer
<1>3. LaunchersKill'
  BY <1>1 DEF Turns, LaunchersKill
<1>4. LaunchersTurns'
  BY <1>1, ActorsAre DEF Turns, LaunchersTurns, Idle
<1>5. AgentsTurns'
  BY <1>1, <1>2 DEF Turns, AgentsTurns, Running
<1>6. AgentsStart'
  BY <1>1 DEF Turns, AgentsStart, Running
<1> QED
  BY <1>3, <1>4, <1>5, <1>6 DEF Turns

LEMMA ConfigStepTurns ==
  ASSUME LauncherTypes, Turns, ConfigStep
  PROVE  Turns'
<1>0. OtherTypes /\ ConfigTypes
  BY TypesAre
<1>1. PICK c \in configs : ChangeLocal(c) \/ SetUpAdmin(c) \/ RevertAdmin(c)
                           \/ StopAgentIfNeeded(c)
  BY DEF ConfigStep
<1>2. ConfigFrame
  BY <1>1, ConfigFrameIs DEF ChangeLocal, SetUpAdmin, RevertAdmin, StopAgentIfNeeded
<1>3. troubles \subseteq troubles'
  BY <1>1, TroublesGrow DEF ChangeLocal, SetUpAdmin, RevertAdmin, StopAgentIfNeeded, Fails,
                            Trouble
<1> QED
  BY <1>0, <1>2, <1>3, TurnsWithin DEF ConfigFrame, OtherTypes

LEMMA RevertStepTurns ==
  ASSUME LauncherTypes, Turns, NEW p \in Actors, RevertStep(p)
  PROVE  Turns'
<1>0. OtherTypes /\ ConfigTypes /\ RevertTypes(revert)
  BY TypesAre
<1> USE DEF launcherVars, agentVars, started, bounds
<1>1. ASSUME NEW x \in {"idle", "load", "run"}, revert[p].at # "idle",
             Moved(revert', revert, p, x), troubles \subseteq troubles',
             UNCHANGED <<launcherVars, agentVars, runs>>
      PROVE  Turns'
  <2>1. \A n \in Agents : (p = Watch(n) => agent[n] = "revert")
                          /\ (p = AgentHandler(n) => n \in signalled)
    BY <1>1 DEF Turns, AgentsTurns
  <2>2. p = Main => main.pc \in {"cleanup", "revert"}
    BY <1>1 DEF Turns, LaunchersTurns
  <2>3. p = Handler => handler
    BY <1>1 DEF Turns, LaunchersTurns
  <2> QED
    BY <1>0, <1>1, <2>1, <2>2, <2>3, TurnsMove
       DEF Turns, LaunchersTurns, AgentsTurns, OtherTypes, Running
<1>2. ASSUME Interrupt(p) PROVE Turns'
  <2>0. p \in LauncherActors /\ revert[p].at = "interrupt"
    BY <1>2 DEF Turns, LaunchersKill, Interrupt
  <2>1. /\ p = Main => main.pc \in {"cleanup", "revert"}
        /\ p = Handler => handler
    BY <2>0 DEF Turns, LaunchersTurns
  <2>2. \A n \in Agents : p # Watch(n) /\ p # AgentHandler(n)
    BY <2>0, ActorsAre, ActorsDiffer
  <2>3. CASE revert' = [revert EXCEPT ![p].at = "load"] /\ UNCHANGED signalled
    <3>1. Moved(revert', revert, p, "load")
      BY <1>0, <2>3, MovedIs
    <3> QED
      BY <1>1, <1>2, <2>0, <2>3, <3>1 DEF Interrupt
  <2>4. ASSUME NEW n \in Agents, revert' = [revert EXCEPT ![p] = [at |-> "kill", agent |-> n]],
               UNCHANGED signalled
        PROVE  Turns'
    <3>0. PICK r : /\ r = [revert EXCEPT ![p] = [at |-> "kill", agent |-> n]]
                   /\ RevertTypes(r) /\ r[p].at = "kill"
                   /\ \A q \in Actors : q # p => r[q] = revert[q]
      BY <1>0, KillIs
    <3>1. /\ RevertTypes(revert') /\ revert'[p].at = "kill"
          /\ \A q \in Actors : q # p => revert'[q] = revert[q]
      BY <2>4, <3>0
    <3>2. \A m \in Agents : /\ revert'[Watch(m)] = revert[Watch(m)]
                            /\ revert'[AgentHandler(m)] = revert[AgentHandler(m)]
      BY <2>2, <3>1, ActorsAre
    <3>3. UNCHANGED <<main, handler, agent, runs, troubles>>
      BY <1>2 DEF Interrupt
    <3>4. LaunchersKill'
      BY <2>0, <3>1 DEF Turns, LaunchersKill
    <3>5. LaunchersTurns'
      BY <2>1, <3>1, <3>3, ActorsAre DEF Turns, LaunchersTurns
    <3>6. AgentsTurns' /\ AgentsStart'
      BY <2>4, <3>2, <3>3 DEF Turns, AgentsTurns, AgentsStart, Running
    <3> QED
      BY <3>4, <3>5, <3>6 DEF Turns
  <2>5. ASSUME NEW n \in Agents, Running(n),
               revert' = [revert EXCEPT ![p] = [at |-> "kill", agent |-> n],
                                        ![AgentHandler(n)].at = "load"],
               signalled' = signalled \cup {n}
        PROVE  Turns'
    <3>1. PICK r : /\ r = [revert EXCEPT ![p] = [at |-> "kill", agent |-> n]]
                   /\ RevertTypes(r) /\ r[p].at = "kill"
                   /\ \A q \in Actors : q # p => r[q] = revert[q]
      BY <1>0, KillIs
    <3>2. RevertTypes(r) /\ r[p].at = "kill" /\ \A q \in Actors : q # p => r[q] = revert[q]
      BY <3>1
    <3>3. revert' = [r EXCEPT ![AgentHandler(n)].at = "load"] /\ AgentHandler(n) \in Actors
      BY <2>5, <3>1, ActorsAre
    <3>4. Moved(revert', r, AgentHandler(n), "load")
      BY <3>2, <3>3, MovedIs
    <3>5. /\ revert'[p].at = "kill" /\ revert'[AgentHandler(n)].at = "load"
          /\ \A q \in Actors : q # p /\ q # AgentHandler(n) => revert'[q] = revert[q]
      BY <2>2, <3>2, <3>4 DEF Moved
    <3>6. \A m \in Agents : /\ revert'[Watch(m)] = revert[Watch(m)]
                            /\ m # n => revert'[AgentHandler(m)] = revert[AgentHandler(m)]
      BY <2>2, <3>5, ActorsAre, ActorsDiffer
    <3>7. UNCHANGED <<main, handler, agent, runs, troubles>>
      BY <1>2 DEF Interrupt
    <3>8. LaunchersKill'
      BY <2>0, <3>5 DEF Turns, LaunchersKill
    <3>9. LaunchersTurns'
      <4>1. Main # AgentHandler(n) /\ Handler # AgentHandler(n)
        BY ActorsDiffer
      <4> QED
        BY <2>1, <3>5, <3>7, <4>1, ActorsAre DEF Turns, LaunchersTurns
    <3>10. AgentsTurns' /\ AgentsStart'
      BY <2>5, <3>6, <3>7 DEF Turns, AgentsTurns, AgentsStart, Running
    <3> QED
      BY <3>8, <3>9, <3>10 DEF Turns
  <2> QED
    BY <1>2, <2>3, <2>4, <2>5 DEF Interrupt, Listed
<1>3. ASSUME Kill(p) PROVE Turns'
  <2>1. PICK r : /\ r = [revert EXCEPT ![p] = [at |-> "load", agent |-> 0]]
                 /\ RevertTypes(r) /\ r[p].at = "load"
                 /\ \A q \in Actors : q # p => r[q] = revert[q]
    BY <1>0, KilledIs
  <2>2. /\ RevertTypes(r) /\ revert[p].agent \in Agents /\ r[p].at = "load"
        /\ \A q \in Actors : q # p => r[q] = revert[q]
    BY <1>0, <1>3, <2>1 DEF Kill, RevertTypes
  <2>3. AgentEnds(revert[p].agent, r)
    BY <1>3, <2>1 DEF Kill
  <2>4. /\ p = Main => main.pc \in {"cleanup", "revert"}
        /\ p = Handler => handler
        /\ p \in LauncherActors
    BY <1>3 DEF Turns, LaunchersTurns, LaunchersKill, Kill
  <2>5. UNCHANGED <<main, handler, runs, troubles>>
    BY <1>3 DEF Kill
  <2> QED
    BY <2>2, <2>3, <2>4, <2>5, TurnsAgentEnds
<1>4. ASSUME Load(p) PROVE Turns'
  <2>1. \/ revert' = [revert EXCEPT ![p].at = "idle"]
        \/ revert' = [revert EXCEPT ![p].at = "run"]
    BY <1>4 DEF Load
  <2>2. /\ Moved([revert EXCEPT ![p].at = "idle"], revert, p, "idle")
        /\ Moved([revert EXCEPT ![p].at = "run"], revert, p, "run")
    BY <1>0, MovedIs
  <2>3. troubles \subseteq troubles' /\ revert[p].at # "idle"
    BY <1>4 DEF Load, Trouble
  <2>4. UNCHANGED <<launcherVars, agentVars, runs>>
    BY <1>4 DEF Load
  <2> QED
    BY <1>1, <2>1, <2>2, <2>3, <2>4
<1>5. ASSUME Delete(p) PROVE Turns'
  <2>1. Moved(revert', revert, p, "idle") /\ revert[p].at # "idle"
    BY <1>0, <1>5, MovedIs DEF Delete
  <2> QED
    BY <1>1, <1>5, <2>1 DEF Delete
<1> QED
  BY <1>2, <1>3, <1>4, <1>5 DEF RevertStep

\* The launcher fails, or begins to clean up.
LEMMA TurnsFail ==
  ASSUME LauncherTypes, Turns, Moved(revert', revert, Main, "interrupt"),
         main'.pc \in {"cleanup", "revert"}, main.pc # "off",
         main'.pc = "cleanup" => main.pc = "wait",
         troubles \subseteq troubles', UNCHANGED <<agentVars, handler, runs>>
  PROVE  Turns'
<1>0. OtherTypes
  BY TypesAre
<1>1. \A n \in Agents : Main # Watch(n) /\ Main # AgentHandler(n)
  BY ActorsDiffer
<1>2. Main \in Actors /\ Main \in LauncherActors /\ Main # Handler
  BY ActorsAre
<1>3. \A n \in Agents : n \in signalled' => Running(n)
  BY DEF Turns, AgentsTurns, agentVars
<1>4. handler' \in BOOLEAN /\ (handler => handler') /\ (handler' => "signal" \in troubles')
  BY <1>0 DEF Turns, LaunchersTurns, OtherTypes
<1>5. \A n \in Agents : /\ Running(n)' = Running(n)
                        /\ agent[n] = "revert" => agent'[n] = "revert"
  BY DEF Running, agentVars
<1> QED
  BY <1>1, <1>2, <1>3, <1>4, <1>5, TurnsMove DEF agentVars

LEMMA LauncherStepTurns ==
  ASSUME LauncherTypes, Turns, Start \/ LauncherStep
  PROVE  Turns'
<1>0. OtherTypes /\ ConfigTypes /\ RevertTypes(revert)
  BY TypesAre
<1> USE DEF launcherVars, agentVars, started, bounds, mainFrame
<1>1. {"off", "wait", "cleanup", "flush", "setup", "launch", "game", "revert"} \subseteq Places
  BY DEF Places
<1>2. agent \in [Agents -> {"off", "game", "end", "ended", "revert"}]
  BY <1>0 DEF OtherTypes
<1>3. ASSUME Start PROVE Turns'
  <2>1. main.pc = "off" /\ main'.pc = "wait" /\ runs' = runs + 1 /\ runs \in Nat
    BY <1>0, <1>1, <1>3, GoToIs, BoundAssumption DEF Start, OtherTypes
  <2>2. LaunchersKill' /\ AgentsTurns'
    BY <1>3 DEF Start, Turns, LaunchersKill, AgentsTurns, Running
  <2>3. LaunchersTurns'
    BY <1>3, <2>1 DEF Start, Turns, LaunchersTurns
  <2>4. AgentsStart'
    BY <1>3, <2>1 DEF Start, Turns, AgentsStart, Running, Agents
  <2> QED
    BY <2>2, <2>3, <2>4 DEF Turns
<1>4. ASSUME Waited PROVE Turns'
  <2>1. Moved(revert', revert, Main, "interrupt") /\ main'.pc \in {"cleanup", "revert"}
    BY <1>0, <1>1, <1>4, GoToIs, FailIs, BeginRevertIs, ActorsAre DEF Waited
  <2>2. troubles \subseteq troubles' /\ main.pc = "wait" /\ UNCHANGED <<agentVars, handler, runs>>
    BY <1>4 DEF Waited, Trouble, At
  <2> QED
    BY <2>1, <2>2, TurnsFail
<1>5. ASSUME CleanedUp PROVE Turns'
  BY <1>0, <1>1, <1>2, <1>5, GoToIs, TurnsWithin DEF CleanedUp, At
<1>6. ASSUME FlushCache PROVE Turns'
  <2>1. troubles \subseteq troubles' /\ main.pc = "flush" /\ revert[Main] = Idle
        /\ UNCHANGED <<agentVars, handler, runs>>
    BY <1>6 DEF FlushCache, Fails, Trouble, At
  <2>2. CASE Fail
    BY <1>0, <2>1, <2>2, FailIs, TurnsFail
  <2>3. CASE GoTo("setup") /\ UNCHANGED revert
    BY <1>0, <1>1, <1>2, <2>1, <2>3, GoToIs, TurnsWithin
  <2> QED
    BY <1>6, <2>2, <2>3 DEF FlushCache
<1>7. ASSUME SetUp PROVE Turns'
  <2>1. \/ main' = main
        \/ GoTo("launch")
        \/ main' = [main EXCEPT !.group = @ + 1]
    BY <1>7 DEF SetUp
  <2>2. main'.pc = main.pc \/ main'.pc = "launch"
    BY <1>0, <1>1, <2>1, GoToIs, MainTypes
  <2>3. main.pc = "setup" /\ revert[Main] = Idle /\ UNCHANGED <<revert, agentVars, handler, runs>>
        /\ troubles \subseteq troubles'
    BY <1>7 DEF SetUp, At
  <2> QED
    BY <1>2, <2>2, <2>3, TurnsWithin
<1>8. ASSUME StoreFlags PROVE Turns'
  <2>1. troubles \subseteq troubles' /\ main.pc = "setup" /\ revert[Main] = Idle
        /\ UNCHANGED <<agentVars, handler, runs>>
    BY <1>8 DEF StoreFlags, Trouble, At
  <2>2. CASE Fail
    BY <1>0, <2>1, <2>2, FailIs, TurnsFail
  <2>3. CASE /\ main' = main \/ main' = [main EXCEPT !.group = @ + 1]
             /\ UNCHANGED revert
    BY <1>0, <1>2, <2>1, <2>3, MainTypes, TurnsWithin
  <2> QED
    BY <1>8, <2>2, <2>3 DEF StoreFlags
<1>9. ASSUME StartAgent PROVE Turns'
  <2>1. troubles \subseteq troubles' /\ main.pc = "launch" /\ revert[Main] = Idle
        /\ UNCHANGED <<signalled, unlisted, handler, runs>>
    BY <1>9 DEF StartAgent, Trouble, At
  <2>2. CASE Fail /\ UNCHANGED agent
    BY <1>0, <2>1, <2>2, FailIs, TurnsFail
  <2>3. CASE GoTo("game") /\ UNCHANGED <<revert, agent>>
    BY <1>0, <1>1, <1>2, <2>1, <2>3, GoToIs, TurnsWithin
  <2>4. CASE GoTo("game") /\ UNCHANGED revert /\ agent' = [agent EXCEPT ![runs] = "game"]
    <3>1. main'.pc = "game"
      BY <1>0, <1>1, <2>4, GoToIs
    <3>2. LaunchersKill'
      BY <2>4 DEF Turns, LaunchersKill
    <3>3. LaunchersTurns'
      BY <2>1, <2>4 DEF Turns, LaunchersTurns, Idle
    <3>4. \A n \in Agents : IF n = runs THEN agent'[n] = "game" /\ ~Running(n)
                                        ELSE agent'[n] = agent[n]
      BY <1>2, <2>1, <2>4 DEF Turns, AgentsStart
    <3>5. AgentsTurns'
      BY <2>1, <2>4, <3>4 DEF Turns, AgentsTurns, Running
    <3>6. runs \in Nat
      BY <1>0, BoundAssumption DEF OtherTypes
    <3>7. AgentsStart'
      BY <2>1, <3>1, <3>4, <3>6 DEF Turns, AgentsStart, Running, Agents
    <3> QED
      BY <3>2, <3>3, <3>5, <3>7 DEF Turns
  <2> QED
    BY <1>9, <2>2, <2>3, <2>4 DEF StartAgent
<1>10. ASSUME StartGame PROVE Turns'
  <2>1. troubles \subseteq troubles' /\ main.pc = "game" /\ UNCHANGED <<agentVars, runs>>
    BY <1>10 DEF StartGame, Trouble, At
  <2>2. CASE Fail /\ UNCHANGED handler
    BY <1>0, <2>1, <2>2, FailIs, TurnsFail
  <2>3. CASE LauncherEnds
    BY <2>1, <2>3, TurnsLauncherEnds
  <2> QED
    BY <1>10, <2>2, <2>3 DEF StartGame
<1>11. ASSUME CheckFails PROVE Turns'
  <2>1. troubles \subseteq troubles' /\ main.pc # "off" /\ UNCHANGED <<agentVars, handler, runs>>
    BY <1>11 DEF CheckFails, Trouble, At
  <2> QED
    BY <1>0, <1>11, <2>1, FailIs, TurnsFail DEF CheckFails
<1>12. ASSUME Exit PROVE Turns'
  BY <1>12, TurnsLauncherEnds DEF Exit
<1> QED
  BY <1>3, <1>4, <1>5, <1>6, <1>7, <1>8, <1>9, <1>10, <1>11, <1>12 DEF LauncherStep

LEMMA AgentStepTurns ==
  ASSUME LauncherTypes, Turns, NEW n \in Agents, AgentStep(n)
  PROVE  Turns'
<1>0. OtherTypes /\ ConfigTypes /\ RevertTypes(revert)
  BY TypesAre
<1> USE DEF launcherVars, started, agentFrame
<1>1. agent \in [Agents -> {"off", "game", "end", "ended", "revert"}]
  BY <1>0 DEF OtherTypes
<1>2. ASSUME SeeGame(n) PROVE Turns'
  <2>1. \A m \in Agents : agent'[m] = agent[m] \/ (agent[m] = "game" /\ agent'[m] = "end")
    BY <1>1, <1>2 DEF SeeGame
  <2> QED
    BY <1>1, <1>2, <2>1, TurnsWithin DEF SeeGame
<1>3. ASSUME SeeEnd(n) PROVE Turns'
  <2>1. /\ agent'[n] = "revert" /\ \A m \in Agents : m # n => agent'[m] = agent[m]
        /\ Moved(revert', revert, Watch(n), "load") /\ agent[n] # "off"
    BY <1>0, <1>3, EndWatchIs DEF SeeEnd
  <2>2. troubles \subseteq troubles' /\ UNCHANGED <<main, handler, runs, signalled>>
    BY <1>3 DEF SeeEnd, EndWatch, Trouble
  <2>3. Watch(n) \in Actors /\ Watch(n) # Main /\ Watch(n) # Handler
        /\ \A m \in Agents : Watch(n) # AgentHandler(m) /\ (Watch(n) = Watch(m) => m = n)
    BY ActorsAre, ActorsDiffer
  <2>4. /\ \A m \in Agents : Running(m)' = Running(m)
        /\ \A m \in Agents : agent[m] = "revert" => agent'[m] = "revert"
    BY <2>1 DEF Running
  <2>5. /\ \A m \in Agents : m \in signalled' => Running(m)
        /\ handler' \in BOOLEAN /\ (handler' => "signal" \in troubles')
    BY <1>0, <2>2 DEF Turns, AgentsTurns, LaunchersTurns, OtherTypes
  <2> QED
    BY <2>1, <2>2, <2>3, <2>4, <2>5, TurnsMove
<1>4. ASSUME Unlist(n) PROVE Turns'
  BY <1>1, <1>4, TurnsWithin DEF Unlist
<1>5. ASSUME AgentExits(n) PROVE Turns'
  BY <1>0, <1>5, TurnsAgentEnds DEF AgentExits
<1> QED
  BY <1>2, <1>3, <1>4, <1>5 DEF AgentStep

LEMMA GameStepTurns ==
  ASSUME LauncherTypes, Turns, GameStep
  PROVE  Turns'
<1>1. agent \in [Agents -> {"off", "game", "end", "ended", "revert"}]
  BY DEF LauncherTypes
<1>2. \A m \in Agents : agent'[m] = agent[m] \/ (agent[m] = "end" /\ agent'[m] = "ended")
  BY <1>1 DEF GameStep
<1> QED
  BY <1>1, <1>2, TurnsWithin DEF GameStep, launcherVars, bounds, started

LEMMA DisturbTurns ==
  ASSUME LauncherTypes, Turns, Disturb
  PROVE  Turns'
<1>0. OtherTypes /\ ConfigTypes /\ RevertTypes(revert)
  BY TypesAre
<1> USE DEF launcherVars, agentVars, started, agentFrame
<1>1. agent \in [Agents -> {"off", "game", "end", "ended", "revert"}]
  BY <1>0 DEF OtherTypes
<1>2. ASSUME SignalLauncher PROVE Turns'
  <2>1. Moved(revert', revert, Handler, "interrupt")
    BY <1>0, <1>2, ActorsAre, BeginRevertIs DEF SignalLauncher
  <2>2. troubles \subseteq troubles' /\ "signal" \in troubles' /\ handler'
        /\ UNCHANGED <<main, agentVars, runs>>
    BY <1>2 DEF SignalLauncher, Trouble
  <2>3. Handler \in Actors /\ Handler \in LauncherActors /\ Handler # Main
        /\ \A n \in Agents : Handler # Watch(n) /\ Handler # AgentHandler(n)
    BY ActorsAre, ActorsDiffer
  <2>4. /\ \A n \in Agents : Running(n)' = Running(n)
        /\ \A n \in Agents : agent[n] = "revert" => agent'[n] = "revert"
        /\ \A n \in Agents : n \in signalled' => Running(n)
        /\ handler' \in BOOLEAN
    BY <1>2, <2>2 DEF Running, Turns, AgentsTurns, SignalLauncher
  <2> QED
    BY <2>1, <2>2, <2>3, <2>4, TurnsMove
<1>3. ASSUME KillLauncher PROVE Turns'
  BY <1>3, TurnsLauncherEnds DEF KillLauncher, Trouble
<1>4. ASSUME KillAdminAgent PROVE Turns'
  BY <1>1, <1>4, TurnsWithin DEF KillAdminAgent, Trouble
<1>5. ASSUME NEW n \in Agents, SignalAgent(n) PROVE Turns'
  <2>1. Moved(revert', revert, AgentHandler(n), "load")
    BY <1>0, <1>5, ActorsAre, MovedIs DEF SignalAgent
  <2>2. troubles \subseteq troubles' /\ signalled' = signalled \cup {n} /\ Running(n)
        /\ UNCHANGED <<main, handler, agent, runs>>
    BY <1>5 DEF SignalAgent, Trouble
  <2>3. AgentHandler(n) \in Actors /\ AgentHandler(n) # Main /\ AgentHandler(n) # Handler
        /\ \A m \in Agents : AgentHandler(n) # Watch(m)
                             /\ (AgentHandler(n) = AgentHandler(m) => m = n)
    BY ActorsAre, ActorsDiffer
  <2>4. /\ \A m \in Agents : Running(m)' = Running(m)
        /\ \A m \in Agents : agent[m] = "revert" => agent'[m] = "revert"
        /\ \A m \in Agents : m \in signalled' => Running(m)
        /\ handler' \in BOOLEAN /\ (handler' => "signal" \in troubles')
    BY <1>0, <2>2 DEF Running, Turns, AgentsTurns, LaunchersTurns, OtherTypes
  <2> QED
    BY <2>1, <2>2, <2>3, <2>4, TurnsMove
<1>6. ASSUME NEW n \in Agents, KillLauncherAgent(n) PROVE Turns'
  BY <1>0, <1>6, TurnsAgentEnds DEF KillLauncherAgent, Trouble
<1> QED
  BY <1>2, <1>3, <1>4, <1>5, <1>6 DEF Disturb

LEMMA StutterTurns ==
  ASSUME Turns, UNCHANGED vars
  PROVE  Turns'
BY DEF vars, launcherVars, agentVars, bounds, started, Turns, LaunchersKill, LaunchersTurns,
       AgentsTurns, AgentsStart, Running

LEMMA TurnsStay == LauncherTypes /\ Turns /\ [Next]_vars => Turns'
BY ConfigStepTurns, RevertStepTurns, LauncherStepTurns, AgentStepTurns, GameStepTurns,
   DisturbTurns, StutterTurns DEF Next

-----------------------------------------------------------------------------
(* What a launcher-config has done so far *)

\* None of what LeftoversAreStored excuses has come about.
Unexcused ==
  /\ ~overlap /\ ~unknowing
  /\ ~Befell({"signal", "kill"})
  /\ ~({"store", "revert"} \subseteq troubles)

OneConfig == \A c, d \in configs : c = d

\* Somebody waits for the process, or it is an orphan.
Owned ==
  \A c \in configs :
    c.orphan \/ (c.by = Main /\ main.pc = "setup") \/ revert[c.by].at = "run"

\* What it adds to what is stored.
Adds(c) == IF c.pc = "ok" THEN c.flags ELSE IF c.pc = "failed" THEN {} ELSE c.done

SetsUp(c) ==
  /\ c.by = Main /\ ~c.orphan /\ main.pc = "setup" /\ c.pc # "stop"
  /\ c.flags \subseteq AdminSettings \/ c.flags \cap AdminSettings = {}
  /\ c.pc \notin {"ok", "failed"} => c.done \subseteq applied
  /\ c.pc = "ok" => c.flags \subseteq applied
  /\ applied \subseteq store \cup Adds(c)

\* It reverts what could not be stored, and that is still all there or all gone.
RevertsAtOnce(c) ==
  /\ c.by = Main /\ ~c.orphan /\ main.pc = "setup"
  /\ "store" \in troubles
  /\ c.pc \in {"local", "admin"} => c.flags \ c.done \subseteq applied
  /\ applied \subseteq store \cup c.flags
  /\ c.pc \in {"stop", "ok", "failed"} => applied \cap c.flags = {}

\* It reverts what is stored, and nothing else is changed.
RevertsStored(c) ==
  /\ c.orphan \/ revert[c.by].at = "run"
  /\ c.flags = store /\ applied \subseteq store
  /\ c.pc \in {"stop", "ok"} => applied = {}

Reverts(c) ==
  /\ c.pc # "failed" => c.done \cap applied = {}
  /\ c.pc = "admin" => c.flags \subseteq c.done \cup AdminSettings
  /\ RevertsAtOnce(c) \/ RevertsStored(c)

GoesOn(c) ==
  /\ c.done \cap AdminSettings = {}
  /\ c.pc = "admin" => c.flags \cap AdminSettings # {}
  /\ c.kind = "setup" => SetsUp(c)
  /\ c.kind = "revert" => Reverts(c)

QuietStored == configs = {} => applied \subseteq store

\* The admin agent knows what is for it to revert.
AdminKnows == admin.on => applied \cap AdminSettings \subseteq admin.did

Left ==
  /\ OneConfig /\ Owned
  /\ \A c \in configs : GoesOn(c)
  /\ QuietStored /\ AdminKnows

LauncherInv == LauncherTypes /\ Turns /\ (Unexcused => Left)

LEMMA KindsOfConfig ==
  ASSUME LauncherTypes, NEW c \in configs
  PROVE  /\ WellFormed(c) /\ c.by \in Actors /\ c.kind \in {"setup", "revert"}
         /\ c.flags \subseteq Settings /\ c.done \subseteq c.flags
         /\ c.orphan \in BOOLEAN /\ c.pc \in {"local", "admin", "stop", "ok", "failed"}
BY DEF LauncherTypes, WellFormed, Config

\* What has come about stays.
LEMMA HistoryStays ==
  ASSUME LauncherTypes, [Next]_vars
  PROVE  troubles \subseteq troubles' /\ (overlap => overlap') /\ (unknowing => unknowing')
<1>0. overlap \in BOOLEAN /\ unknowing \in BOOLEAN
  BY DEF LauncherTypes
<1> USE <1>0 DEF launcherVars, agentVars, started, bounds, mainFrame, agentFrame, configFrame,
                 Trouble, Fails
<1>1. ASSUME Start PROVE troubles \subseteq troubles' /\ (overlap => overlap')
                         /\ (unknowing => unknowing')
  BY <1>1 DEF Start
<1>2. ASSUME LauncherStep PROVE troubles \subseteq troubles' /\ (overlap => overlap')
                                /\ (unknowing => unknowing')
  <2>1. ASSUME Waited \/ CleanedUp \/ StoreFlags \/ StartAgent \/ StartGame \/ CheckFails
               \/ Exit
        PROVE  troubles \subseteq troubles' /\ (overlap => overlap') /\ (unknowing => unknowing')
    BY <2>1 DEF Waited, CleanedUp, StoreFlags, StartAgent, StartGame, CheckFails, Exit
  <2>2. ASSUME FlushCache
        PROVE  troubles \subseteq troubles' /\ (overlap => overlap') /\ (unknowing => unknowing')
    BY <2>2 DEF FlushCache
  <2>3. ASSUME SetUp
        PROVE  troubles \subseteq troubles' /\ (overlap => overlap') /\ (unknowing => unknowing')
    <3>1. overlap' = overlap \/ overlap' = (overlap \/ configs # {})
      BY <2>3 DEF SetUp, Run
    <3> QED
      BY <2>3, <3>1 DEF SetUp
  <2> QED
    BY <1>2, <2>1, <2>2, <2>3 DEF LauncherStep
<1>3. ASSUME ConfigStep PROVE troubles \subseteq troubles' /\ (overlap => overlap')
                              /\ (unknowing => unknowing')
  <2>1. PICK c \in configs : ChangeLocal(c) \/ SetUpAdmin(c) \/ RevertAdmin(c)
                             \/ StopAgentIfNeeded(c)
    BY <1>3 DEF ConfigStep
  <2>2. troubles \subseteq troubles'
    BY <2>1 DEF ChangeLocal, SetUpAdmin, RevertAdmin, StopAgentIfNeeded
  <2>3. ConfigFrame
    BY <2>1, ConfigFrameIs DEF ChangeLocal, SetUpAdmin, RevertAdmin, StopAgentIfNeeded
  <2> QED
    BY <2>2, <2>3 DEF ConfigFrame
<1>4. ASSUME GameStep PROVE troubles \subseteq troubles' /\ (overlap => overlap')
                            /\ (unknowing => unknowing')
  BY <1>4 DEF GameStep
<1>5. ASSUME Disturb PROVE troubles \subseteq troubles' /\ (overlap => overlap')
                           /\ (unknowing => unknowing')
  BY <1>5 DEF Disturb, SignalLauncher, KillLauncher, KillAdminAgent, SignalAgent,
              KillLauncherAgent
<1>6. ASSUME NEW n \in Agents, AgentStep(n)
      PROVE  troubles \subseteq troubles' /\ (overlap => overlap') /\ (unknowing => unknowing')
  BY <1>6 DEF AgentStep, SeeGame, SeeEnd, EndWatch, Unlist, AgentExits
<1>7. ASSUME NEW p \in Actors, RevertStep(p)
      PROVE  troubles \subseteq troubles' /\ (overlap => overlap') /\ (unknowing => unknowing')
  BY <1>7 DEF RevertStep, Interrupt, Kill, Load, Delete, Run
<1>8. ASSUME UNCHANGED vars
      PROVE  troubles \subseteq troubles' /\ (overlap => overlap') /\ (unknowing => unknowing')
  BY <1>8 DEF vars
<1> QED
  BY <1>1, <1>2, <1>3, <1>4, <1>5, <1>6, <1>7, <1>8 DEF Next

LEMMA UnexcusedBefore ==
  ASSUME LauncherTypes, [Next]_vars, Unexcused'
  PROVE  Unexcused
<1>1. troubles \subseteq troubles' /\ (overlap => overlap') /\ (unknowing => unknowing')
  BY HistoryStays
<1> QED
  BY <1>1 DEF Unexcused, Befell

\* The process c goes on as d.
LEMMA LeftBecomes ==
  ASSUME LauncherTypes, Left, NEW c \in configs, NEW d, Become(c, d), SameRun(c, d),
         ConfigFrame, GoesOn(d)', AdminKnows', d.orphan => applied' \subseteq store'
  PROVE  Left'
<1>1. configs' = {d} \/ (configs' = {} /\ d.orphan)
  <2>1. configs \ {c} = {}
    BY DEF Left, OneConfig
  <2> QED
    BY <2>1 DEF Become, Kept
<1>2. OneConfig' /\ (\A e \in configs : GoesOn(e))'
  BY <1>1 DEF OneConfig
<1>3. Owned'
  BY <1>1 DEF Left, Owned, SameRun, ConfigFrame
<1>4. QuietStored'
  BY <1>1 DEF QuietStored
<1> QED
  BY <1>2, <1>3, <1>4 DEF Left

LEMMA ChangeLocalLeft ==
  ASSUME LauncherTypes, Left, Unexcused', NEW c \in configs, ChangeLocal(c)
  PROVE  Left'
<1>1. /\ WellFormed(c) /\ c.kind \in {"setup", "revert"} /\ c.done \subseteq c.flags
      /\ GoesOn(c)
  BY KindsOfConfig DEF Left
<1>2. ConfigFrame /\ admin' = admin /\ c.pc = "local"
  BY <1>1, ChangeLocalIs
<1>3. PICK d, s :
        /\ SameRun(c, d) /\ Become(c, d)
        /\ s \in (c.flags \ c.done) \ AdminSettings
        /\ \/ /\ Possible(c.kind, s)
              /\ applied' = Changed(c.kind, {s}) /\ troubles' = troubles
              /\ d.done = c.done \cup {s}
              /\ d.pc = IF (c.flags \ d.done) \ AdminSettings # {} THEN "local"
                        ELSE IF c.flags \cap AdminSettings # {} THEN "admin" ELSE "ok"
           \/ /\ \/ ~Possible(c.kind, s) /\ troubles' = troubles
                 \/ troubles' = troubles \cup {c.kind}
              /\ applied' = Undone(c)
              /\ d.done = c.done /\ d.pc = "failed"
  BY <1>1, ChangeLocalIs
<1>4. /\ d.by = c.by /\ d.orphan = c.orphan /\ d.kind = c.kind /\ d.flags = c.flags
      /\ main' = main /\ store' = store /\ revert' = revert
  BY <1>2, <1>3 DEF SameRun, ConfigFrame
<1>5. ASSUME c.kind = "setup"
      PROVE  GoesOn(d)' /\ ~d.orphan
             /\ applied' \cap AdminSettings \subseteq applied \cap AdminSettings
  <2>1. SetsUp(c)
    BY <1>1, <1>5 DEF GoesOn
  <2>2. CASE d.done = c.done \cup {s} /\ applied' = Changed(c.kind, {s})
             /\ d.pc = IF (c.flags \ d.done) \ AdminSettings # {} THEN "local"
                       ELSE IF c.flags \cap AdminSettings # {} THEN "admin" ELSE "ok"
    <3>1. applied' = applied \cup {s}
      BY <1>5, <2>2 DEF Changed
    <3> QED
      BY <1>1, <1>2, <1>3, <1>4, <1>5, <2>1, <2>2, <3>1 DEF GoesOn, SetsUp, Adds
  <2>3. CASE d.done = c.done /\ applied' = Undone(c) /\ d.pc = "failed"
    <3>1. applied' = applied \ c.done
      BY <1>5, <2>3 DEF Undone
    <3> QED
      BY <1>1, <1>2, <1>3, <1>4, <1>5, <2>1, <2>3, <3>1 DEF GoesOn, SetsUp, Adds
  <2> QED
    BY <1>3, <2>2, <2>3
<1>6. ASSUME c.kind = "revert"
      PROVE  GoesOn(d)' /\ (d.orphan => applied' \subseteq store')
             /\ applied' \cap AdminSettings \subseteq applied \cap AdminSettings
  <2>1. Reverts(c)
    BY <1>1, <1>6 DEF GoesOn
  <2>2. CASE d.done = c.done \cup {s} /\ applied' = Changed(c.kind, {s}) /\ troubles' = troubles
             /\ d.pc = IF (c.flags \ d.done) \ AdminSettings # {} THEN "local"
                       ELSE IF c.flags \cap AdminSettings # {} THEN "admin" ELSE "ok"
    <3>1. applied' = applied \ {s}
      BY <1>6, <2>2 DEF Changed
    <3>2. /\ d.done \cap AdminSettings = {} /\ d.done \cap applied' = {}
          /\ d.pc = "admin" => /\ c.flags \cap AdminSettings # {}
                               /\ c.flags \subseteq d.done \cup AdminSettings
          /\ d.pc = "ok" => c.flags \subseteq d.done
          /\ d.pc \in {"local", "admin", "ok"}
      BY <1>1, <1>2, <1>3, <2>1, <2>2, <3>1 DEF GoesOn, Reverts
    <3>3. CASE RevertsAtOnce(c)
      <4>1. RevertsAtOnce(d)' /\ ~d.orphan
        BY <1>2, <1>3, <1>4, <2>2, <3>1, <3>2, <3>3 DEF RevertsAtOnce
      <4> QED
        BY <1>3, <1>4, <1>6, <3>1, <3>2, <4>1 DEF GoesOn, Reverts
    <3>4. CASE RevertsStored(c)
      <4>1. RevertsStored(d)' /\ applied' \subseteq store'
        BY <1>2, <1>3, <1>4, <2>2, <3>1, <3>2, <3>4 DEF RevertsStored
      <4> QED
        BY <1>3, <1>4, <1>6, <3>1, <3>2, <4>1 DEF GoesOn, Reverts
    <3> QED
      BY <2>1, <3>3, <3>4 DEF Reverts
  <2>3. CASE d.done = c.done /\ applied' = Undone(c) /\ d.pc = "failed"
             /\ \/ ~Possible(c.kind, s) /\ troubles' = troubles
                \/ troubles' = troubles \cup {c.kind}
    <3>1. applied' = applied \cup c.done
      BY <1>6, <2>3 DEF Undone
    <3>2. ~RevertsAtOnce(c)
      BY <1>2, <1>3, <1>6, <2>3 DEF RevertsAtOnce, Unexcused, Possible
    <3>3. RevertsStored(c)
      BY <2>1, <3>2 DEF Reverts
    <3> QED
      BY <1>1, <1>2, <1>3, <1>4, <1>6, <2>1, <2>3, <3>1, <3>3 DEF GoesOn, Reverts, RevertsStored
  <2> QED
    BY <1>3, <2>2, <2>3
<1>7. GoesOn(d)' /\ (d.orphan => applied' \subseteq store')
      /\ applied' \cap AdminSettings \subseteq applied \cap AdminSettings
  BY <1>1, <1>5, <1>6
<1>8. AdminKnows'
  BY <1>2, <1>7 DEF Left, AdminKnows
<1> QED
  BY <1>2, <1>3, <1>7, <1>8, LeftBecomes

LEMMA SetUpAdminLeft ==
  ASSUME LauncherTypes, Left, NEW c \in configs, SetUpAdmin(c)
  PROVE  Left'
<1>1. WellFormed(c) /\ c.done \subseteq c.flags /\ GoesOn(c)
  BY KindsOfConfig DEF Left
<1>2. ConfigFrame /\ c.kind = "setup" /\ c.pc = "admin"
  BY <1>1, SetUpAdminIs
<1>3. PICK d :
        /\ SameRun(c, d) /\ Become(c, d) /\ d.done = c.done
        /\ \/ /\ d.pc = "ok" /\ troubles' = troubles
              /\ applied' = applied \cup (c.flags \cap AdminSettings)
              /\ \/ ~admin.on /\ admin' = admin
                 \/ admin.on /\ admin' = [admin EXCEPT !.did = @ \cup (c.flags \cap AdminSettings)]
           \/ /\ d.pc = "failed" /\ admin' = NoAdmin
              /\ \/ admin.on /\ applied' = applied \ c.done
                 \/ ~admin.on /\ applied' = applied
              /\ troubles' = troubles \/ troubles' = troubles \cup {"setup"}
  BY <1>1, SetUpAdminIs
<1>4. /\ d.by = c.by /\ d.orphan = c.orphan /\ d.kind = c.kind /\ d.flags = c.flags
      /\ main' = main /\ store' = store
  BY <1>2, <1>3 DEF SameRun, ConfigFrame
<1>5. SetsUp(c) /\ c.flags \subseteq AdminSettings /\ c.done = {}
  BY <1>1, <1>2 DEF GoesOn, SetsUp
<1>6. applied' \subseteq store' \cup Adds(d) /\ (d.pc = "ok" => d.flags \subseteq applied')
  BY <1>2, <1>3, <1>4, <1>5 DEF SetsUp, Adds
<1>7. GoesOn(d)' /\ ~d.orphan
  BY <1>1, <1>2, <1>3, <1>4, <1>5, <1>6 DEF GoesOn, SetsUp, Adds
<1>8. AdminKnows'
  <2>1. CASE ~admin.on /\ admin' = admin
    BY <2>1 DEF AdminKnows
  <2>2. CASE admin' = NoAdmin
    BY <2>2 DEF AdminKnows, NoAdmin
  <2>3. CASE /\ admin.on /\ applied' = applied \cup (c.flags \cap AdminSettings)
             /\ admin' = [admin EXCEPT !.did = @ \cup (c.flags \cap AdminSettings)]
    <3>1. admin'.did = admin.did \cup (c.flags \cap AdminSettings)
      BY <2>3, AdminTypes DEF LauncherTypes
    <3> QED
      BY <2>3, <3>1 DEF Left, AdminKnows
  <2> QED
    BY <1>3, <2>1, <2>2, <2>3
<1> QED
  BY <1>2, <1>3, <1>7, <1>8, LeftBecomes

LEMMA RevertAdminLeft ==
  ASSUME LauncherTypes, Left, Unexcused', NEW c \in configs, RevertAdmin(c)
  PROVE  Left'
<1>1. WellFormed(c) /\ c.done \subseteq c.flags /\ GoesOn(c)
  BY KindsOfConfig DEF Left
<1>2. ConfigFrame /\ c.kind = "revert" /\ c.pc = "admin"
  BY <1>1, RevertAdminIs
<1>3. PICK d, ss :
        /\ SameRun(c, d) /\ Become(c, d) /\ d.done = c.done
        /\ ss = IF admin.on THEN (c.flags \cap AdminSettings) \cap admin.did
                            ELSE c.flags \cap AdminSettings
        /\ \/ /\ d.pc = "stop" /\ troubles' = troubles
              /\ applied' = applied \ ss
              /\ admin' = [admin EXCEPT !.did = @ \ ss]
           \/ /\ d.pc = "failed" /\ admin' = admin
              /\ applied' = applied \cup c.done
              /\ \/ troubles' = troubles /\ \E s \in ss : s \notin applied
                 \/ troubles' = troubles \cup {"revert"}
  BY <1>1, RevertAdminIs
<1>4. /\ d.by = c.by /\ d.orphan = c.orphan /\ d.kind = c.kind /\ d.flags = c.flags
      /\ main' = main /\ store' = store /\ revert' = revert
  BY <1>2, <1>3 DEF SameRun, ConfigFrame
<1>5. /\ Reverts(c) /\ c.done \cap AdminSettings = {} /\ c.done \cap applied = {}
      /\ c.flags \subseteq c.done \cup AdminSettings
  BY <1>1, <1>2 DEF GoesOn, Reverts
<1>6. admin.on => applied \cap AdminSettings \subseteq admin.did
  BY DEF Left, AdminKnows
<1>7. CASE d.pc = "stop" /\ troubles' = troubles /\ applied' = applied \ ss
           /\ admin' = [admin EXCEPT !.did = @ \ ss]
  <2>1. applied' \cap c.flags = {} /\ applied' \subseteq applied
    BY <1>3, <1>5, <1>6, <1>7
  <2>2. RevertsAtOnce(c) => RevertsAtOnce(d)' /\ ~d.orphan
    BY <1>4, <1>7, <2>1 DEF RevertsAtOnce
  <2>3. RevertsStored(c) => RevertsStored(d)' /\ applied' \subseteq store'
    BY <1>4, <1>7, <2>1 DEF RevertsStored
  <2>4. GoesOn(d)' /\ (d.orphan => applied' \subseteq store')
    BY <1>2, <1>3, <1>4, <1>5, <1>7, <2>1, <2>2, <2>3 DEF GoesOn, Reverts
  <2>5. admin'.on = admin.on /\ admin'.did = admin.did \ ss
    BY <1>7, AdminTypes DEF LauncherTypes
  <2>6. AdminKnows'
    BY <1>6, <1>7, <2>5 DEF AdminKnows
  <2> QED
    BY <1>2, <1>3, <2>4, <2>6, LeftBecomes
<1>8. CASE /\ d.pc = "failed" /\ admin' = admin /\ applied' = applied \cup c.done
           /\ \/ troubles' = troubles /\ \E s \in ss : s \notin applied
              \/ troubles' = troubles \cup {"revert"}
  <2>1. ~RevertsAtOnce(c)
    BY <1>2, <1>3, <1>5, <1>8 DEF RevertsAtOnce, Unexcused
  <2>2. RevertsStored(c)
    BY <1>5, <2>1 DEF Reverts
  <2>3. RevertsStored(d)' /\ applied' \subseteq store'
    BY <1>1, <1>4, <1>8, <2>2 DEF RevertsStored
  <2>4. GoesOn(d)'
    BY <1>2, <1>3, <1>4, <1>5, <1>8, <2>3 DEF GoesOn, Reverts
  <2>5. AdminKnows'
    BY <1>5, <1>6, <1>8 DEF AdminKnows
  <2> QED
    BY <1>2, <1>3, <2>3, <2>4, <2>5, LeftBecomes
<1> QED
  BY <1>3, <1>7, <1>8

LEMMA StopAgentLeft ==
  ASSUME LauncherTypes, Left, NEW c \in configs, StopAgentIfNeeded(c)
  PROVE  Left'
<1>1. WellFormed(c) /\ c.kind \in {"setup", "revert"} /\ GoesOn(c)
  BY KindsOfConfig DEF Left
<1>2. ConfigFrame /\ applied' = applied /\ c.pc = "stop"
  BY <1>1, StopAgentIs
<1>3. PICK d :
        /\ SameRun(c, d) /\ Become(c, d) /\ d.done = c.done
        /\ \/ d.pc = "ok" /\ admin' = NoAdmin /\ troubles' = troubles
           \/ d.pc = "failed" /\ admin' = admin /\ troubles' = troubles \cup {"stop"}
  BY <1>1, StopAgentIs
<1>4. /\ d.by = c.by /\ d.orphan = c.orphan /\ d.kind = c.kind /\ d.flags = c.flags
      /\ main' = main /\ store' = store /\ revert' = revert
  BY <1>2, <1>3 DEF SameRun, ConfigFrame
<1>5. Reverts(c) /\ c.kind = "revert"
  BY <1>1, <1>2 DEF GoesOn, SetsUp
<1>6. RevertsAtOnce(c) => RevertsAtOnce(d)' /\ ~d.orphan
  BY <1>2, <1>3, <1>4 DEF RevertsAtOnce
<1>7. RevertsStored(c) => RevertsStored(d)' /\ applied' \subseteq store'
  BY <1>2, <1>3, <1>4 DEF RevertsStored
<1>8. GoesOn(d)' /\ (d.orphan => applied' \subseteq store')
  BY <1>1, <1>2, <1>3, <1>4, <1>5, <1>6, <1>7 DEF GoesOn, Reverts
<1>9. AdminKnows'
  BY <1>2, <1>3 DEF Left, AdminKnows, NoAdmin
<1> QED
  BY <1>2, <1>3, <1>8, <1>9, LeftBecomes

\* A step that touches no launcher-config.
LEMMA LeftFramed ==
  ASSUME Left, configs' = configs, applied' = applied, store' = store,
         troubles \subseteq troubles',
         \A c \in configs : revert[c.by].at = "run" => revert'[c.by].at = "run",
         \A c \in ChildOf(Main) : main.pc = "setup" => main'.pc = "setup",
         AdminKnows'
  PROVE  Left'
<1>1. OneConfig' /\ QuietStored'
  BY DEF Left, OneConfig, QuietStored
<1>2. Owned'
  BY DEF Left, Owned, ChildOf
<1>3. ASSUME NEW c \in configs PROVE GoesOn(c)'
  <2>1. /\ SetsUp(c) => SetsUp(c)'
        /\ RevertsAtOnce(c) => RevertsAtOnce(c)'
        /\ RevertsStored(c) => RevertsStored(c)'
    BY DEF ChildOf, SetsUp, Adds, RevertsAtOnce, RevertsStored
  <2> QED
    BY <2>1 DEF Left, GoesOn, Reverts
<1> QED
  BY <1>1, <1>2, <1>3 DEF Left

\* The launcher-config has ended, and nobody minds.
LEMMA LeftNone ==
  ASSUME configs' = {}, applied' \subseteq store', AdminKnows'
  PROVE  Left'
BY DEF Left, OneConfig, Owned, QuietStored

\* The goroutines ps are gone: all that they may leave behind reverts what is stored.
LEMMA LeftOrphaned ==
  ASSUME LauncherTypes, Left, NEW ps, configs' = Orphaned(ps),
         applied' = applied, store' = store, admin' = admin, troubles \subseteq troubles',
         \A c \in configs : c.by \in ps => c.kind = "revert" /\ RevertsStored(c),
         \A c \in configs : c.by \notin ps =>
            /\ revert[c.by].at = "run" => revert'[c.by].at = "run"
            /\ main.pc = "setup" => main'.pc = "setup"
  PROVE  Left'
<1>1. AdminKnows'
  BY DEF Left, AdminKnows
<1>2. CASE \A c \in configs : c.by \notin ps
  <2>1. configs' = Kept(configs)
    BY <1>2 DEF Orphaned
  <2>2. CASE configs' = configs
    BY <1>1, <1>2, <2>2, LeftFramed DEF ChildOf
  <2>3. CASE configs' # configs
    <3>1. PICK c \in configs : c.orphan /\ Ended(c)
      BY <2>1, <2>3 DEF Kept
    <3>2. configs = {c}
      BY <3>1 DEF Left, OneConfig
    <3>3. configs' = {}
      BY <2>1, <3>1, <3>2 DEF Kept
    <3>4. RevertsStored(c)
      BY <3>1, KindsOfConfig DEF Left, GoesOn, SetsUp, Reverts, RevertsAtOnce
    <3> QED
      BY <1>1, <3>3, <3>4, LeftNone DEF RevertsStored
  <2> QED
    BY <2>2, <2>3
<1>3. ASSUME NEW c \in configs, c.by \in ps PROVE Left'
  <2>1. configs = {c}
    BY DEF Left, OneConfig
  <2>2. WellFormed(c) /\ c \in Config
    BY KindsOfConfig DEF WellFormed
  <2>3. PICK e : e = [c EXCEPT !.orphan = TRUE]
    OBVIOUS
  <2>4. /\ e.by = c.by /\ e.orphan /\ e.kind = c.kind
        /\ e.pc = c.pc /\ e.flags = c.flags /\ e.done = c.done
    BY <2>2, <2>3, OrphanIs
  <2>5. configs' = Kept({e})
    BY <1>3, <2>1, <2>3 DEF Orphaned
  <2>6. c.kind = "revert" /\ RevertsStored(c) /\ GoesOn(c)
    BY <1>3 DEF Left
  <2>7. configs' \subseteq {e}
    BY <2>5 DEF Kept
  <2>8. OneConfig' /\ Owned'
    BY <2>4, <2>7 DEF OneConfig, Owned
  <2>9. QuietStored'
    BY <2>6 DEF RevertsStored, QuietStored
  <2>10. RevertsStored(e)'
    BY <2>4, <2>6 DEF RevertsStored
  <2>11. GoesOn(e)'
    BY <2>4, <2>6, <2>10 DEF GoesOn, Reverts
  <2> QED
    BY <1>1, <2>7, <2>8, <2>9, <2>11 DEF Left
<1> QED
  BY <1>2, <1>3

\* The settings of a set-up are all the administrator's, or none is.
LEMMA GroupsUnmixed ==
  ASSUME OtherTypes, NEW g \in 1 .. 3, NEW flags, flags \subseteq Groups[g] \cap wanted
  PROVE  flags \subseteq AdminSettings \/ flags \cap AdminSettings = {}
<1>1. ~({"localCert", "userCert"} \subseteq wanted)
  BY SettingsAssumption DEF OtherTypes
<1>2. g = 1 \/ g = 2 \/ g = 3
  OBVIOUS
<1> QED
  BY <1>1, <1>2, GroupsAre DEF AdminSettings

\* A launcher-config is started, and no other runs.
LEMMA LeftRuns ==
  ASSUME Left, NEW d, configs' = configs \cup {d}, configs = {}, GoesOn(d)',
         d.orphan \/ (d.by = Main /\ main'.pc = "setup") \/ revert'[d.by].at = "run",
         AdminKnows'
  PROVE  Left'
<1>1. configs' = {d}
  OBVIOUS
<1> QED
  BY <1>1 DEF Left, OneConfig, Owned, QuietStored

LEMMA AgentEndsLeft ==
  ASSUME LauncherTypes, Turns, Left, NEW n \in Agents, NEW r, RevertTypes(r), AgentEnds(n, r),
         \A q \in Actors : revert[q].at = "run" => r[q].at = "run",
         UNCHANGED <<applied, store, main, admin>>, troubles \subseteq troubles'
  PROVE  Left'
<1>1. \A q \in Actors : q \notin ActorsOf(n) => revert'[q] = r[q]
  BY AgentEndsTypes
<1>2. Main \notin ActorsOf(n)
  BY ActorsDiffer DEF ActorsOf
<1>3. \A c \in configs : c.by \in ActorsOf(n) => c.kind = "revert" /\ RevertsStored(c)
  BY <1>2, KindsOfConfig DEF Left, GoesOn, SetsUp, Reverts, RevertsAtOnce
<1>4. \A c \in configs : c.by \notin ActorsOf(n) =>
        /\ revert[c.by].at = "run" => revert'[c.by].at = "run"
        /\ main.pc = "setup" => main'.pc = "setup"
  BY <1>1, KindsOfConfig
<1>5. configs' = Orphaned(ActorsOf(n))
  BY DEF AgentEnds
<1> QED
  BY <1>3, <1>4, <1>5, LeftOrphaned

LEMMA LauncherEndsLeft ==
  ASSUME LauncherTypes, Left, LauncherEnds, main.pc # "setup",
         UNCHANGED <<applied, store, admin>>, troubles \subseteq troubles'
  PROVE  Left'
<1>1. \A q \in Actors : q \notin LauncherActors => revert'[q] = revert[q]
  BY LauncherEndsTypes
<1>2. \A c \in configs : c.by \in LauncherActors => c.kind = "revert" /\ RevertsStored(c)
  BY KindsOfConfig DEF Left, GoesOn, SetsUp, Reverts, RevertsAtOnce
<1>3. \A c \in configs : c.by \notin LauncherActors =>
        /\ revert[c.by].at = "run" => revert'[c.by].at = "run"
        /\ main.pc = "setup" => main'.pc = "setup"
  BY <1>1, KindsOfConfig
<1>4. configs' = Orphaned(LauncherActors)
  BY DEF LauncherEnds
<1> QED
  BY <1>2, <1>3, <1>4, LeftOrphaned

\* p's ConfigRevert moves, and had not started a launcher-config.
LEMMA MoveLeft ==
  ASSUME LauncherTypes, Left, NEW p \in Actors, NEW x, Moved(revert', revert, p, x),
         revert[p].at # "run", UNCHANGED <<configs, applied, store>>,
         troubles \subseteq troubles',
         \A c \in ChildOf(Main) : main.pc = "setup" => main'.pc = "setup",
         AdminKnows'
  PROVE  Left'
<1>1. \A c \in configs : revert[c.by].at = "run" => revert'[c.by].at = "run"
  BY KindsOfConfig DEF Moved
<1> QED
  BY <1>1, LeftFramed

LEMMA RevertStepLeft ==
  ASSUME LauncherTypes, Turns, Left, Unexcused', NEW p \in Actors, RevertStep(p)
  PROVE  Left'
<1>0. OtherTypes /\ ConfigTypes /\ RevertTypes(revert)
  BY TypesAre
<1> USE DEF launcherVars, agentVars, started, bounds
<1>1. ASSUME Interrupt(p) PROVE Left'
  <2>1. UNCHANGED <<configs, applied, store, troubles, main, admin>>
    BY <1>1 DEF Interrupt
  <2>2. AdminKnows'
    BY <2>1 DEF Left, AdminKnows
  <2>3. \A q \in Actors : revert[q].at = "run" => revert'[q].at = "run"
    <3>0. revert[p].at = "interrupt"
      BY <1>1 DEF Interrupt
    <3>1. CASE revert' = [revert EXCEPT ![p].at = "load"]
      <4>1. Moved(revert', revert, p, "load")
        BY <1>0, <3>1, MovedIs
      <4> QED
        BY <3>0, <4>1 DEF Moved
    <3>2. ASSUME NEW n \in Agents, revert' = [revert EXCEPT ![p] = [at |-> "kill", agent |-> n]]
          PROVE  \A q \in Actors : revert[q].at = "run" => revert'[q].at = "run"
      <4>1. PICK r : /\ r = [revert EXCEPT ![p] = [at |-> "kill", agent |-> n]]
                     /\ \A q \in Actors : q # p => r[q] = revert[q]
        BY <1>0, KillIs
      <4> QED
        BY <3>0, <3>2, <4>1
    <3>3. ASSUME NEW n \in Agents \ signalled,
                 revert' = [revert EXCEPT ![p] = [at |-> "kill", agent |-> n],
                                          ![AgentHandler(n)].at = "load"]
          PROVE  \A q \in Actors : revert[q].at = "run" => revert'[q].at = "run"
      <4>1. PICK r : /\ r = [revert EXCEPT ![p] = [at |-> "kill", agent |-> n]]
                     /\ RevertTypes(r) /\ \A q \in Actors : q # p => r[q] = revert[q]
        BY <1>0, KillIs
      <4>2. revert' = [r EXCEPT ![AgentHandler(n)].at = "load"] /\ AgentHandler(n) \in Actors
        BY <3>3, <4>1, ActorsAre
      <4>3. Moved(revert', r, AgentHandler(n), "load")
        BY <4>1, <4>2, MovedIs
      <4>4. revert[AgentHandler(n)].at = "idle"
        BY <3>3 DEF Turns, AgentsTurns
      <4> QED
        BY <3>0, <4>1, <4>3, <4>4 DEF Moved
    <3> QED
      BY <1>1, <3>1, <3>2, <3>3 DEF Interrupt, Listed
  <2> QED
    BY <2>1, <2>2, <2>3, KindsOfConfig, LeftFramed
<1>2. ASSUME Kill(p) PROVE Left'
  <2>1. PICK r : /\ r = [revert EXCEPT ![p] = [at |-> "load", agent |-> 0]]
                 /\ RevertTypes(r) /\ r[p].at = "load"
                 /\ \A q \in Actors : q # p => r[q] = revert[q]
    BY <1>0, KilledIs
  <2>2. /\ revert[p].agent \in Agents
        /\ \A q \in Actors : revert[q].at = "run" => r[q].at = "run"
    BY <1>0, <1>2, <2>1 DEF Kill, RevertTypes
  <2>3. AgentEnds(revert[p].agent, r) /\ UNCHANGED <<applied, store, main, admin, troubles>>
    BY <1>2, <2>1 DEF Kill
  <2> QED
    BY <2>1, <2>2, <2>3, AgentEndsLeft
<1>3. ASSUME Load(p) PROVE Left'
  <2>1. revert[p].at = "load" /\ UNCHANGED <<applied, store, main>>
    BY <1>3 DEF Load
  <2>2. CASE revert' = [revert EXCEPT ![p].at = "idle"] /\ UNCHANGED configs
             /\ (admin' = NoAdmin \/ admin' = admin) /\ troubles \subseteq troubles'
    <3>1. Moved(revert', revert, p, "idle")
      BY <1>0, <2>2, MovedIs
    <3>2. AdminKnows'
      BY <2>1, <2>2 DEF Left, AdminKnows, NoAdmin
    <3> QED
      BY <2>1, <2>2, <3>1, <3>2, MoveLeft
  <2>3. CASE /\ store # {} /\ revert' = [revert EXCEPT ![p].at = "run"]
             /\ Run(p, "revert", store) /\ UNCHANGED <<admin, troubles>>
    <3>1. Moved(revert', revert, p, "run")
      BY <1>0, <2>3, MovedIs
    <3>2. configs = {} /\ configs' = configs \cup {Spawn(p, "revert", store)}
      BY <2>3 DEF Run, Unexcused
    <3>3. PICK d : /\ d = Spawn(p, "revert", store)
                   /\ d.by = p /\ ~d.orphan /\ d.kind = "revert"
                   /\ d.flags = store /\ d.done = {}
                   /\ d.pc = StartsAt(store)
      BY <1>0, SpawnIs DEF OtherTypes
    <3>4. applied' \subseteq store' /\ AdminKnows'
      BY <2>1, <2>3, <3>2 DEF Left, QuietStored, AdminKnows
    <3>5. RevertsStored(d)'
      BY <2>1, <2>3, <3>1, <3>3, <3>4 DEF RevertsStored, Moved, StartsAt
    <3>6. GoesOn(d)'
      BY <3>3, <3>5 DEF GoesOn, Reverts, StartsAt
    <3>7. revert'[d.by].at = "run"
      BY <3>1, <3>3 DEF Moved
    <3> QED
      BY <3>2, <3>3, <3>4, <3>6, <3>7, LeftRuns
  <2> QED
    BY <1>3, <2>2, <2>3 DEF Load, Trouble
<1>4. ASSUME Delete(p) PROVE Left'
  <2>1. PICK c \in ChildOf(p) : /\ Ended(c) /\ configs' = configs \ {c}
                                /\ store' = IF c.pc = "ok" THEN {} ELSE store
    BY <1>4 DEF Delete
  <2>2. c \in configs /\ c.by = p /\ ~c.orphan /\ configs = {c}
    BY <2>1 DEF ChildOf, Left, OneConfig
  <2>3. revert[p].at = "run" /\ UNCHANGED <<applied, admin>>
    BY <1>4 DEF Delete
  <2>4. ~(c.by = Main /\ main.pc = "setup")
    BY <2>2, <2>3 DEF Turns, LaunchersTurns
  <2>5. RevertsStored(c)
    BY <2>2, <2>4, KindsOfConfig DEF Left, GoesOn, SetsUp, Reverts, RevertsAtOnce
  <2>6. applied' \subseteq store' /\ configs' = {}
    BY <2>1, <2>2, <2>3, <2>5 DEF RevertsStored
  <2>7. AdminKnows'
    BY <2>3 DEF Left, AdminKnows
  <2> QED
    BY <2>6, <2>7, LeftNone
<1> QED
  BY <1>1, <1>2, <1>3, <1>4 DEF RevertStep

LEMMA FailLeft ==
  ASSUME LauncherTypes, Left, Moved(revert', revert, Main, "interrupt"), revert[Main] = Idle,
         UNCHANGED <<configs, applied, store, admin>>, troubles \subseteq troubles',
         main.pc # "setup" \/ ChildOf(Main) = {}
  PROVE  Left'
<1>1. AdminKnows'
  BY DEF Left, AdminKnows
<1>2. Main \in Actors /\ revert[Main].at # "run"
  BY ActorsAre DEF Idle
<1> QED
  BY <1>1, <1>2, MoveLeft

LEMMA StoreFlagsLeft ==
  ASSUME LauncherTypes, Turns, Left, Unexcused', StoreFlags
  PROVE  Left'
<1>1. main.pc = "setup" /\ revert[Main] = Idle /\ UNCHANGED <<applied, admin>>
  BY DEF StoreFlags, At, mainFrame
<1>2. PICK c \in ChildOf(Main) :
        /\ Ended(c)
        /\ \/ /\ c.pc = "ok" /\ c.kind = "setup"
              /\ store' = store \cup c.flags
              /\ configs' = configs \ {c}
           \/ /\ c.pc = "ok" /\ c.kind = "setup" /\ Trouble("store")
              /\ configs' = (configs \ {c}) \cup {Spawn(Main, "revert", c.flags)}
              /\ UNCHANGED <<store, main, revert>>
           \/ /\ c.pc = "failed" \/ c.kind = "revert"
              /\ configs' = configs \ {c}
              /\ UNCHANGED <<store, troubles>>
  BY DEF StoreFlags
<1>3. c \in configs /\ c.by = Main /\ ~c.orphan /\ configs \ {c} = {} /\ GoesOn(c)
  BY <1>2 DEF ChildOf, Left, OneConfig
<1>4. ~RevertsStored(c)
  BY <1>1, <1>3 DEF RevertsStored, Idle
<1>5. /\ c.kind \in {"setup", "revert"}
      /\ c.kind = "setup" => SetsUp(c)
      /\ c.kind = "revert" => RevertsAtOnce(c)
  BY <1>3, <1>4, KindsOfConfig DEF GoesOn, Reverts
<1>6. AdminKnows'
  BY <1>1 DEF Left, AdminKnows
<1>7. CASE /\ c.pc = "ok" /\ c.kind = "setup"
           /\ store' = store \cup c.flags
           /\ configs' = configs \ {c}
  BY <1>1, <1>3, <1>5, <1>6, <1>7, LeftNone DEF SetsUp, Adds
<1>8. CASE /\ c.pc = "ok" /\ c.kind = "setup" /\ Trouble("store")
           /\ configs' = (configs \ {c}) \cup {Spawn(Main, "revert", c.flags)}
           /\ UNCHANGED <<store, main, revert>>
  <2>1. Main \in Actors /\ c.flags \in SUBSET Settings
    BY <1>3, ActorsAre, KindsOfConfig
  <2>2. PICK d : /\ d = Spawn(Main, "revert", c.flags)
                 /\ d.by = Main /\ ~d.orphan /\ d.kind = "revert"
                 /\ d.flags = c.flags /\ d.done = {}
                 /\ d.pc = StartsAt(c.flags)
    BY <2>1, SpawnIs
  <2>3. configs' = {d}
    BY <1>3, <1>8, <2>2
  <2>4. c.flags \subseteq applied /\ applied \subseteq store \cup c.flags
    BY <1>5, <1>8 DEF SetsUp, Adds
  <2>5. RevertsAtOnce(d)'
    BY <1>1, <1>8, <2>2, <2>4 DEF RevertsAtOnce, Trouble, StartsAt
  <2>6. GoesOn(d)'
    BY <2>2, <2>5 DEF GoesOn, Reverts, StartsAt
  <2>7. OneConfig' /\ Owned' /\ QuietStored'
    BY <1>1, <1>8, <2>2, <2>3 DEF OneConfig, Owned, QuietStored
  <2> QED
    BY <1>6, <2>3, <2>6, <2>7 DEF Left
<1>9. CASE /\ c.pc = "failed" \/ c.kind = "revert"
           /\ configs' = configs \ {c}
           /\ UNCHANGED <<store, troubles>>
  <2>1. applied \subseteq store
    <3>1. CASE c.kind = "setup"
      BY <1>5, <1>9, <3>1 DEF SetsUp, Adds
    <3>2. CASE c.kind = "revert"
      BY <1>2, <1>5, <3>2 DEF RevertsAtOnce, Ended
    <3> QED
      BY <1>5, <3>1, <3>2
  <2> QED
    BY <1>1, <1>3, <1>6, <1>9, <2>1, LeftNone
<1> QED
  BY <1>2, <1>7, <1>8, <1>9

LEMMA LauncherStepLeft ==
  ASSUME LauncherTypes, Turns, Left, Unexcused', Start \/ LauncherStep
  PROVE  Left'
<1>0. OtherTypes /\ ConfigTypes /\ RevertTypes(revert) /\ Main \in Actors
  BY TypesAre, ActorsAre
<1> USE DEF launcherVars, agentVars, started, bounds, mainFrame
<1>1. {"off", "wait", "cleanup", "flush", "setup", "launch", "game", "revert"} \subseteq Places
  BY DEF Places
<1>2. ASSUME UNCHANGED <<configs, applied, store, admin, revert>>, troubles \subseteq troubles',
             main.pc # "setup" \/ main'.pc = "setup" \/ ChildOf(Main) = {}
      PROVE  Left'
  <2>1. AdminKnows'
    BY <1>2 DEF Left, AdminKnows
  <2> QED
    BY <1>2, <2>1, LeftFramed
<1>3. ASSUME Start PROVE Left'
  BY <1>2, <1>3 DEF Start
<1>4. ASSUME Waited PROVE Left'
  <2>1. Moved(revert', revert, Main, "interrupt")
    BY <1>0, <1>4, FailIs, BeginRevertIs DEF Waited
  <2>2. troubles \subseteq troubles' /\ main.pc = "wait" /\ revert[Main] = Idle
        /\ UNCHANGED <<configs, applied, store, admin>>
    BY <1>4 DEF Waited, Trouble, At
  <2> QED
    BY <2>1, <2>2, FailLeft
<1>5. ASSUME CleanedUp PROVE Left'
  BY <1>2, <1>5 DEF CleanedUp, At
<1>6. ASSUME FlushCache PROVE Left'
  <2>1. troubles \subseteq troubles' /\ main.pc = "flush" /\ revert[Main] = Idle
        /\ UNCHANGED <<configs, applied, store>>
    BY <1>6 DEF FlushCache, Fails, Trouble, At
  <2>2. CASE Fail /\ UNCHANGED admin
    BY <1>0, <2>1, <2>2, FailIs, FailLeft
  <2>3. CASE UNCHANGED <<revert, admin>>
    BY <1>2, <2>1, <2>3
  <2>4. CASE /\ admin' = [on |-> TRUE, did |-> {}] /\ UNCHANGED revert
             /\ unknowing' = (unknowing \/ applied \cap AdminSettings # {})
    <3>1. AdminKnows'
      BY <2>1, <2>4 DEF AdminKnows, Unexcused
    <3> QED
      BY <2>1, <2>4, <3>1, LeftFramed
  <2> QED
    BY <1>6, <2>2, <2>3, <2>4 DEF FlushCache
<1>7. ASSUME SetUp PROVE Left'
  <2>1. main.pc = "setup" /\ ChildOf(Main) = {} /\ revert[Main] = Idle
        /\ UNCHANGED <<revert, admin, applied, store, troubles>>
    BY <1>7 DEF SetUp, At
  <2>2. CASE UNCHANGED configs
    BY <1>2, <2>1, <2>2
  <2>3. ASSUME NEW flags, flags # {}, main.group \in 1 .. 3,
               flags \subseteq Groups[main.group] \cap wanted,
               Run(Main, "setup", flags), UNCHANGED main
        PROVE  Left'
    <3>1. flags \in SUBSET Settings
      BY <2>3, GroupsAre
    <3>2. PICK d : /\ d = Spawn(Main, "setup", flags)
                   /\ d.by = Main /\ ~d.orphan /\ d.kind = "setup"
                   /\ d.flags = flags /\ d.done = {}
                   /\ d.pc = StartsAt(flags)
      BY <1>0, <3>1, SpawnIs
    <3>3. configs = {} /\ configs' = configs \cup {d}
      BY <2>3, <3>2 DEF Run, Unexcused
    <3>4. flags \subseteq AdminSettings \/ flags \cap AdminSettings = {}
      BY <1>0, <2>3, GroupsUnmixed
    <3>5. applied \subseteq store
      BY <3>3 DEF Left, QuietStored
    <3>6. SetsUp(d)'
      BY <2>1, <2>3, <3>2, <3>4, <3>5 DEF SetsUp, Adds, StartsAt
    <3>7. GoesOn(d)' /\ AdminKnows'
      BY <2>1, <3>2, <3>6 DEF GoesOn, Left, AdminKnows, StartsAt
    <3> QED
      BY <2>1, <2>3, <3>2, <3>3, <3>7, LeftRuns
  <2>4. CASE ~(main.group > Len(Groups))
    <3>1. main.group \in 1 .. 3
      BY <1>0, <2>4, GroupsAre DEF OtherTypes
    <3>2. PICK inOrder :
            LET flags == (Groups[main.group] \cap wanted) \ (Manual \cup inOrder) IN
            IF flags = {}
            THEN main' = [main EXCEPT !.group = @ + 1] /\ UNCHANGED <<configs, overlap>>
            ELSE Run(Main, "setup", flags) /\ UNCHANGED main
      BY <1>7, <2>4 DEF SetUp
    <3>3. PICK flags : flags = (Groups[main.group] \cap wanted) \ (Manual \cup inOrder)
      OBVIOUS
    <3> QED
      BY <2>2, <2>3, <3>1, <3>2, <3>3
  <2> QED
    BY <1>7, <2>2, <2>4 DEF SetUp
<1>8. ASSUME StoreFlags PROVE Left'
  BY <1>8, StoreFlagsLeft
<1>9. ASSUME StartAgent PROVE Left'
  <2>1. troubles \subseteq troubles' /\ main.pc = "launch" /\ revert[Main] = Idle
        /\ UNCHANGED <<configs, applied, store, admin>>
    BY <1>9 DEF StartAgent, Trouble, At
  <2>2. CASE Fail
    BY <1>0, <2>1, <2>2, FailIs, FailLeft
  <2>3. CASE UNCHANGED revert
    BY <1>2, <2>1, <2>3
  <2> QED
    BY <1>9, <2>2, <2>3 DEF StartAgent
<1>10. ASSUME StartGame PROVE Left'
  <2>1. troubles \subseteq troubles' /\ main.pc = "game" /\ revert[Main] = Idle
        /\ UNCHANGED <<applied, store, admin>>
    BY <1>10 DEF StartGame, Trouble, At
  <2>2. CASE Fail /\ UNCHANGED configs
    BY <1>0, <2>1, <2>2, FailIs, FailLeft
  <2>3. CASE LauncherEnds
    BY <2>1, <2>3, LauncherEndsLeft
  <2> QED
    BY <1>10, <2>2, <2>3 DEF StartGame
<1>11. ASSUME CheckFails PROVE Left'
  <2>1. troubles \subseteq troubles' /\ revert[Main] = Idle
        /\ (main.pc = "wait" \/ ChildOf(Main) = {})
        /\ UNCHANGED <<configs, applied, store, admin>> /\ Fail
    BY <1>11 DEF CheckFails, Trouble, At
  <2> QED
    BY <1>0, <2>1, FailIs, FailLeft
<1>12. ASSUME Exit PROVE Left'
  <2>1. UNCHANGED <<applied, store, admin, troubles>> /\ LauncherEnds
        /\ (main.pc = "revert" \/ handler)
    BY <1>12 DEF Exit, At
  <2>2. ~handler
    BY <2>1 DEF Turns, LaunchersTurns, Unexcused, Befell
  <2> QED
    BY <2>1, <2>2, LauncherEndsLeft
<1> QED
  BY <1>3, <1>4, <1>5, <1>6, <1>7, <1>8, <1>9, <1>10, <1>11, <1>12 DEF LauncherStep

LEMMA AgentStepLeft ==
  ASSUME LauncherTypes, Turns, Left, NEW n \in Agents, AgentStep(n)
  PROVE  Left'
<1>0. OtherTypes /\ ConfigTypes /\ RevertTypes(revert) /\ Watch(n) \in Actors
  BY TypesAre, ActorsAre
<1> USE DEF launcherVars, started, agentFrame
<1>1. troubles \subseteq troubles' /\ UNCHANGED <<applied, store, main, admin>>
  BY DEF AgentStep, SeeGame, SeeEnd, EndWatch, Unlist, AgentExits, Trouble
<1>2. AdminKnows'
  BY <1>1 DEF Left, AdminKnows
<1>3. ASSUME UNCHANGED <<revert, configs>> PROVE Left'
  BY <1>1, <1>2, <1>3, LeftFramed
<1>4. ASSUME SeeGame(n) \/ Unlist(n) PROVE Left'
  BY <1>3, <1>4 DEF SeeGame, Unlist
<1>5. ASSUME SeeEnd(n) PROVE Left'
  <2>1. Moved(revert', revert, Watch(n), "load") /\ UNCHANGED configs
    BY <1>0, <1>5, EndWatchIs DEF SeeEnd, EndWatch
  <2>2. revert[Watch(n)].at = "idle"
    BY <1>5 DEF SeeEnd, Turns, AgentsTurns
  <2> QED
    BY <1>0, <1>1, <1>2, <2>1, <2>2, MoveLeft
<1>6. ASSUME AgentExits(n) PROVE Left'
  BY <1>0, <1>1, <1>6, AgentEndsLeft DEF AgentExits
<1> QED
  BY <1>4, <1>5, <1>6 DEF AgentStep

LEMMA DisturbLeft ==
  ASSUME LauncherTypes, Turns, Left, Unexcused', Disturb
  PROVE  Left'
<1>0. OtherTypes /\ ConfigTypes /\ RevertTypes(revert)
  BY TypesAre
<1> USE DEF launcherVars, agentVars, started, agentFrame
<1>1. ~SignalLauncher /\ ~KillLauncher
  BY DEF SignalLauncher, KillLauncher, Trouble, Unexcused, Befell
<1>2. ASSUME KillAdminAgent PROVE Left'
  <2>1. AdminKnows'
    BY <1>2 DEF KillAdminAgent, AdminKnows, NoAdmin
  <2> QED
    BY <1>2, <2>1, LeftFramed DEF KillAdminAgent, Trouble
<1>3. ASSUME NEW n \in Agents, SignalAgent(n) PROVE Left'
  <2>1. Moved(revert', revert, AgentHandler(n), "load") /\ AgentHandler(n) \in Actors
    BY <1>0, <1>3, ActorsAre, MovedIs DEF SignalAgent
  <2>2. revert[AgentHandler(n)].at = "idle"
    BY <1>3 DEF SignalAgent, Turns, AgentsTurns
  <2>3. troubles \subseteq troubles' /\ UNCHANGED <<configs, applied, store, main, admin>>
    BY <1>3 DEF SignalAgent, Trouble
  <2>4. AdminKnows'
    BY <2>3 DEF Left, AdminKnows
  <2> QED
    BY <2>1, <2>2, <2>3, <2>4, MoveLeft
<1>4. ASSUME NEW n \in Agents, KillLauncherAgent(n) PROVE Left'
  BY <1>0, <1>4, AgentEndsLeft DEF KillLauncherAgent, Trouble
<1> QED
  BY <1>1, <1>2, <1>3, <1>4 DEF Disturb

LEMMA LeftStays ==
  ASSUME LauncherTypes, Turns, Left, Unexcused', [Next]_vars
  PROVE  Left'
<1>1. ASSUME ConfigStep PROVE Left'
  BY <1>1, ChangeLocalLeft, SetUpAdminLeft, RevertAdminLeft, StopAgentLeft DEF ConfigStep
<1>2. ASSUME GameStep PROVE Left'
  <2>1. UNCHANGED <<applied, store, configs, revert, main, admin, troubles>>
    BY <1>2 DEF GameStep, launcherVars, bounds
  <2>2. AdminKnows'
    BY <2>1 DEF Left, AdminKnows
  <2> QED
    BY <2>1, <2>2, LeftFramed
<1>3. ASSUME UNCHANGED vars PROVE Left'
  <2>1. UNCHANGED <<applied, store, configs, revert, main, admin, troubles>>
    BY <1>3 DEF vars, launcherVars, bounds
  <2>2. AdminKnows'
    BY <2>1 DEF Left, AdminKnows
  <2> QED
    BY <2>1, <2>2, LeftFramed
<1> QED
  BY <1>1, <1>2, <1>3, RevertStepLeft, LauncherStepLeft, AgentStepLeft, DisturbLeft DEF Next

LEMMA InitLeft == Init => Left
BY DEF Init, Left, OneConfig, Owned, QuietStored, AdminKnows, NoAdmin

\* However often the launcher is started and whatever befalls it, the values stay in range, an
\* actor reverts only when its turn has come, and what is changed is known to the file of revert
\* flags or to the one launcher-config that runs (StoreFlags, Delete, RunSetUp).
THEOREM LauncherInvariant == Spec => []LauncherInv
<1>1. Init => LauncherInv
  BY InitTypes, InitTurns, InitLeft DEF LauncherInv
<1>2. LauncherInv /\ [Next]_vars => LauncherInv'
  <2> SUFFICES ASSUME LauncherInv, [Next]_vars PROVE LauncherInv'
    OBVIOUS
  <2>1. LauncherTypes /\ Turns /\ (Unexcused => Left)
    BY DEF LauncherInv
  <2>2. LauncherTypes'
    BY <2>1, TypesStay
  <2>3. Turns'
    BY <2>1, TurnsStay
  <2>4. Unexcused' => Left'
    BY <2>1, UnexcusedBefore, LeftStays
  <2> QED
    BY <2>2, <2>3, <2>4 DEF LauncherInv
<1> QED
  BY <1>1, <1>2, PTL DEF Spec

\* When every process has ended, what is still changed on the PC is in the file of revert flags,
\* for any number of runs and troubles (StoreFlags, Delete).
THEOREM LeftoversCorrect == Spec => []LeftoversAreStored
<1>1. LauncherInv => LeftoversAreStored
  BY DEF LauncherInv, Unexcused, Left, QuietStored, LeftoversAreStored, AtRest
<1> QED
  BY <1>1, LauncherInvariant, PTL

-----------------------------------------------------------------------------
(* One after the other *)

\* Nobody has been signalled or killed, and no two launcher-config have run at once.
InOrder == ~overlap /\ ~Befell({"signal", "kill", "agentSignal"})

NobodyRuns == \A n \in Agents : ~Running(n)

OneAgent == \A m, n \in Agents : Running(m) /\ Running(n) => m = n

\* The agent that the launcher has interrupted, it kills next; there is no other.
KilledIfSignalled ==
  /\ unlisted \subseteq signalled
  /\ \A n \in signalled : revert[Main].at = "kill" /\ revert[Main].agent = n

KillsTheOne ==
  revert[Main].at = "kill" => \A n \in Agents : Running(n) => n = revert[Main].agent

SetsUpByMain(c) == c.by = Main /\ ~c.orphan /\ main.pc = "setup"

RevertsFile(c) ==
  /\ c.flags = store /\ store # {}
  /\ c.orphan \/ revert[c.by].at = "run"

\* The initial clean-up leaves no agent and no launcher-config behind.
CleansUp ==
  main.pc = "cleanup" =>
    /\ revert[Main].at \in {"idle", "load", "run"} => NobodyRuns
    /\ revert[Main].at = "idle" => configs = {}

\* While the launcher sets up it is alone.
Alone ==
  main.pc \in {"flush", "setup", "launch"} =>
    /\ NobodyRuns
    /\ \A c \in configs : SetsUpByMain(c)

FirstGroup == main.pc \in {"off", "wait", "cleanup", "flush"} => main.group = 1

Order ==
  /\ OneConfig /\ OneAgent /\ KilledIfSignalled /\ KillsTheOne
  /\ CleansUp /\ Alone /\ FirstGroup
  /\ \A c \in configs : SetsUpByMain(c) \/ RevertsFile(c)

LEMMA InOrderBefore ==
  ASSUME LauncherTypes, [Next]_vars, InOrder'
  PROVE  InOrder
<1>1. troubles \subseteq troubles' /\ (overlap => overlap')
  BY HistoryStays
<1> QED
  BY <1>1 DEF InOrder, Befell

\* The handler of the launcher and those of its agents have nothing to do.
LEMMA NoHandler ==
  ASSUME Turns, InOrder, KilledIfSignalled
  PROVE  /\ ~handler /\ revert[Handler].at = "idle"
         /\ \A n \in Agents : revert[AgentHandler(n)].at # "idle" =>
              n \in signalled /\ Running(n) /\ revert[Main].at = "kill"
BY DEF Turns, LaunchersTurns, AgentsTurns, InOrder, Befell, KilledIfSignalled

\* A step of launcher-config, or one that touches nothing of this.
LEMMA OrderFramed ==
  ASSUME Order, store' = store, revert' = revert, main' = main,
         signalled' = signalled, unlisted' = unlisted,
         \A n \in Agents : Running(n)' = Running(n),
         \/ configs' = configs
         \/ \E c \in configs : \E d : Become(c, d) /\ SameRun(c, d)
  PROVE  Order'
<1>1. /\ OneAgent' /\ KilledIfSignalled' /\ KillsTheOne' /\ FirstGroup'
      /\ NobodyRuns => NobodyRuns'
  BY DEF Order, OneAgent, KilledIfSignalled, KillsTheOne, FirstGroup, NobodyRuns
<1>2. CASE configs' = configs
  <2>1. OneConfig' /\ CleansUp' /\ Alone'
    BY <1>1, <1>2 DEF Order, OneConfig, CleansUp, Alone, SetsUpByMain
  <2>2. (\A c \in configs : SetsUpByMain(c) \/ RevertsFile(c))'
    BY <1>2 DEF Order, SetsUpByMain, RevertsFile
  <2> QED
    BY <1>1, <2>1, <2>2 DEF Order
<1>3. ASSUME NEW c \in configs, NEW d, Become(c, d), SameRun(c, d)
      PROVE  Order'
  <2>1. configs = {c}
    BY DEF Order, OneConfig
  <2>2. configs' \subseteq {d}
    BY <1>3, <2>1 DEF Become, Kept
  <2>3. OneConfig' /\ (configs = {} => configs' = {})
    BY <2>1, <2>2 DEF OneConfig
  <2>4. d.by = c.by /\ d.orphan = c.orphan /\ d.flags = c.flags
    BY <1>3 DEF SameRun
  <2>5. /\ SetsUpByMain(c) => SetsUpByMain(d)'
        /\ RevertsFile(c) => RevertsFile(d)'
    BY <2>4 DEF SetsUpByMain, RevertsFile
  <2>6. CleansUp' /\ Alone'
    BY <1>1, <2>1, <2>2, <2>5 DEF Order, CleansUp, Alone
  <2>7. (\A e \in configs : SetsUpByMain(e) \/ RevertsFile(e))'
    BY <2>1, <2>2, <2>5 DEF Order
  <2> QED
    BY <1>1, <2>3, <2>6, <2>7 DEF Order
<1> QED
  BY <1>2, <1>3

LEMMA ConfigStepIs ==
  ASSUME LauncherTypes, ConfigStep
  PROVE  ConfigFrame /\ \E c \in configs : \E d : Become(c, d) /\ SameRun(c, d)
<1>1. PICK c \in configs : ChangeLocal(c) \/ SetUpAdmin(c) \/ RevertAdmin(c)
                           \/ StopAgentIfNeeded(c)
  BY DEF ConfigStep
<1>2. WellFormed(c)
  BY KindsOfConfig
<1>3. CASE ChangeLocal(c)
  BY <1>2, <1>3, ChangeLocalIs
<1>4. CASE SetUpAdmin(c)
  BY <1>2, <1>4, SetUpAdminIs
<1>5. CASE RevertAdmin(c)
  BY <1>2, <1>5, RevertAdminIs
<1>6. CASE StopAgentIfNeeded(c)
  BY <1>2, <1>6, StopAgentIs
<1> QED
  BY <1>1, <1>3, <1>4, <1>5, <1>6

LEMMA ConfigStepOrder ==
  ASSUME LauncherTypes, Order, ConfigStep
  PROVE  Order'
BY ConfigStepIs, OrderFramed DEF ConfigFrame, Running

\* What a step does to the launcher-config processes, when nobody starts one.
LEMMA FewerConfigs ==
  ASSUME LauncherTypes, Order, NEW ps, configs' = Orphaned(ps)
  PROVE  /\ OneConfig' /\ (configs = {} => configs' = {})
         /\ \A e \in configs' :
              \/ e \in configs /\ e.by \notin ps
              \/ \E c \in configs : c.by \in ps /\ e.by = c.by /\ e.orphan /\ e.flags = c.flags
<1>1. \A c \in configs : WellFormed(c)
  BY DEF LauncherTypes
<1>2. \A e \in Orphaned(ps) :
        \/ e \in configs /\ e.by \notin ps
        \/ \E c \in configs : /\ e = [c EXCEPT !.orphan = TRUE] /\ c.by \in ps
                              /\ WellFormed(e) /\ e.by = c.by /\ e.orphan
                              /\ e.kind = c.kind /\ e.pc = c.pc /\ e.flags = c.flags
                              /\ e.done = c.done
  BY <1>1, OrphanedAre
<1>3. \A e \in configs' :
        \/ e \in configs /\ e.by \notin ps
        \/ \E c \in configs : /\ c.by \in ps /\ e.by = c.by /\ e.orphan /\ e.flags = c.flags
  BY <1>2
<1>4. \A e \in configs' : \E c \in configs :
         e = IF c.by \in ps THEN [c EXCEPT !.orphan = TRUE] ELSE c
  BY DEF Orphaned, Kept
<1>5. OneConfig'
  <2>1. ASSUME NEW e \in configs', NEW f \in configs' PROVE e = f
    <3>1. PICK c \in configs : e = IF c.by \in ps THEN [c EXCEPT !.orphan = TRUE] ELSE c
      BY <1>4
    <3>2. PICK d \in configs : f = IF d.by \in ps THEN [d EXCEPT !.orphan = TRUE] ELSE d
      BY <1>4
    <3>3. c = d
      BY DEF Order, OneConfig
    <3> QED
      BY <3>1, <3>2, <3>3
  <2> QED
    BY <2>1 DEF OneConfig
<1> QED
  BY <1>3, <1>4, <1>5

\* ConfigRevert asks an agent to end, or finds none.
LEMMA InterruptIs ==
  ASSUME LauncherTypes, NEW p \in LauncherActors, Interrupt(p)
  PROVE  /\ revert[p].at = "interrupt"
         /\ UNCHANGED <<applied, store, configs, launcherVars, agent, unlisted, admin, game,
                        bounds, overlap>>
         /\ \/ /\ Listed = {} /\ signalled' = signalled
               /\ Moved(revert', revert, p, "load")
            \/ \E n \in Listed :
                 /\ revert'[p].at = "kill" /\ revert'[p].agent = n
                 /\ \A q \in Actors : q # p /\ q # AgentHandler(n) => revert'[q] = revert[q]
                 /\ \/ /\ signalled' = signalled
                       /\ revert'[AgentHandler(n)] = revert[AgentHandler(n)]
                    \/ /\ n \notin signalled /\ signalled' = signalled \cup {n}
                       /\ revert'[AgentHandler(n)].at = "load"
<1>0. RevertTypes(revert) /\ p \in Actors
  BY TypesAre, ActorsAre
<1>1. /\ revert[p].at = "interrupt"
      /\ UNCHANGED <<applied, store, configs, launcherVars, agent, unlisted, admin, game,
                     bounds, overlap>>
  BY DEF Interrupt
<1>2. \A n \in Agents : AgentHandler(n) \in Actors /\ AgentHandler(n) # p
  BY ActorsAre, ActorsDiffer
<1>3. CASE Listed = {} /\ revert' = [revert EXCEPT ![p].at = "load"] /\ UNCHANGED signalled
  <2>1. Moved(revert', revert, p, "load")
    BY <1>0, <1>3, MovedIs
  <2> QED
    BY <1>1, <1>3, <2>1
<1>4. ASSUME NEW n \in Listed, UNCHANGED signalled,
             revert' = [revert EXCEPT ![p] = [at |-> "kill", agent |-> n]]
      PROVE  /\ revert'[p].at = "kill" /\ revert'[p].agent = n
             /\ \A q \in Actors : q # p /\ q # AgentHandler(n) => revert'[q] = revert[q]
             /\ revert'[AgentHandler(n)] = revert[AgentHandler(n)]
  <2>1. n \in Agents
    BY DEF Listed
  <2>2. PICK r : /\ r = [revert EXCEPT ![p] = [at |-> "kill", agent |-> n]]
                 /\ r[p].at = "kill" /\ r[p].agent = n
                 /\ \A q \in Actors : q # p => r[q] = revert[q]
    BY <1>0, <2>1, KillIs
  <2>3. r = revert'
    BY <1>4, <2>2
  <2> QED
    BY <1>2, <2>1, <2>2, <2>3
<1>5. ASSUME NEW n \in Listed \ signalled, signalled' = signalled \cup {n},
             revert' = [revert EXCEPT ![p] = [at |-> "kill", agent |-> n],
                                      ![AgentHandler(n)].at = "load"]
      PROVE  /\ revert'[p].at = "kill" /\ revert'[p].agent = n
             /\ \A q \in Actors : q # p /\ q # AgentHandler(n) => revert'[q] = revert[q]
             /\ revert'[AgentHandler(n)].at = "load"
  <2>1. n \in Agents
    BY DEF Listed
  <2>2. PICK r : /\ r = [revert EXCEPT ![p] = [at |-> "kill", agent |-> n]]
                 /\ RevertTypes(r) /\ r[p].at = "kill" /\ r[p].agent = n
                 /\ \A q \in Actors : q # p => r[q] = revert[q]
    BY <1>0, <2>1, KillIs
  <2>3. RevertTypes(r) /\ AgentHandler(n) \in Actors
    BY <1>2, <2>1, <2>2
  <2>4. revert' = [r EXCEPT ![AgentHandler(n)].at = "load"]
    BY <1>5, <2>2
  <2>5. Moved(revert', r, AgentHandler(n), "load")
    BY <2>3, <2>4, MovedIs
  <2> QED
    BY <1>0, <1>2, <2>1, <2>2, <2>5 DEF Moved
<1> QED
  BY <1>1, <1>3, <1>4, <1>5 DEF Interrupt

\* It has killed one.
LEMMA KillsAre ==
  ASSUME LauncherTypes, NEW p \in LauncherActors, Kill(p)
  PROVE  /\ revert[p].at = "kill" /\ revert[p].agent \in Agents
         /\ UNCHANGED <<applied, store, launcherVars, admin, game, bounds, overlap>>
         /\ \E n \in Agents :
              /\ n = revert[p].agent
              /\ configs' = Orphaned(ActorsOf(n))
              /\ agent'[n] = "off" /\ \A m \in Agents : m # n => agent'[m] = agent[m]
              /\ signalled' = signalled \ {n} /\ unlisted' = unlisted \ {n}
              /\ revert'[p].at = "load"
              /\ \A q \in ActorsOf(n) : revert'[q] = Idle
              /\ \A q \in Actors : q # p /\ q \notin ActorsOf(n) => revert'[q] = revert[q]
<1>0. RevertTypes(revert) /\ p \in Actors
  BY TypesAre, ActorsAre
<1>1. /\ revert[p].at = "kill" /\ revert[p].agent \in Agents
      /\ UNCHANGED <<applied, store, launcherVars, admin, game, bounds, overlap>>
  BY <1>0 DEF Kill, RevertTypes
<1>2. PICK r : /\ r = [revert EXCEPT ![p] = [at |-> "load", agent |-> 0]]
               /\ RevertTypes(r) /\ r[p].at = "load"
               /\ \A q \in Actors : q # p => r[q] = revert[q]
  BY <1>0, KilledIs
<1>3. PICK n \in Agents : n = revert[p].agent
  BY <1>1
<1>4. RevertTypes(r) /\ AgentEnds(n, r)
  BY <1>2, <1>3 DEF Kill
<1>5. /\ signalled' = signalled \ {n} /\ unlisted' = unlisted \ {n}
      /\ agent'[n] = "off" /\ \A m \in Agents : m # n => agent'[m] = agent[m]
      /\ \A q \in Actors : IF q \in ActorsOf(n) THEN revert'[q] = Idle
                                                ELSE revert'[q] = r[q]
  BY <1>4, AgentEndsTypes
<1>6. p \notin ActorsOf(n) /\ ActorsOf(n) \subseteq Actors /\ configs' = Orphaned(ActorsOf(n))
  BY <1>4, ActorsAre, ActorsDiffer DEF ActorsOf, AgentEnds
<1> QED
  BY <1>0, <1>1, <1>2, <1>3, <1>5, <1>6

\* It has read the file.
LEMMA LoadIs ==
  ASSUME LauncherTypes, NEW p \in Actors, Load(p)
  PROVE  /\ revert[p].at = "load"
         /\ UNCHANGED <<applied, store, launcherVars, agentVars, game, started>>
         /\ troubles \subseteq troubles'
         /\ \/ /\ Moved(revert', revert, p, "idle")
               /\ UNCHANGED <<configs, overlap>>
               /\ \/ /\ store = {} /\ troubles' = troubles
                     /\ admin' = IF StopsAdmin(p) /\ adminStarted THEN NoAdmin ELSE admin
                  \/ store = {} /\ "stopAgent" \in troubles' /\ admin' = admin
                  \/ p \in AgentActors /\ store # {} /\ admin' = admin
            \/ /\ Moved(revert', revert, p, "run")
               /\ store # {} /\ UNCHANGED <<admin, troubles>>
               /\ overlap' = (overlap \/ configs # {})
               /\ \E d : /\ configs' = configs \cup {d}
                         /\ WellFormed(d) /\ d.by = p /\ ~d.orphan /\ d.kind = "revert"
                         /\ d.flags = store /\ d.done = {} /\ d.pc = StartsAt(store)
<1>0. OtherTypes /\ RevertTypes(revert)
  BY TypesAre
<1>1. /\ revert[p].at = "load"
      /\ UNCHANGED <<applied, store, launcherVars, agentVars, game, started>>
  BY DEF Load
<1>2. CASE /\ revert' = [revert EXCEPT ![p].at = "idle"]
           /\ UNCHANGED <<configs, overlap>> /\ troubles \subseteq troubles'
           /\ \/ /\ store = {} /\ troubles' = troubles
                 /\ admin' = IF StopsAdmin(p) /\ adminStarted THEN NoAdmin ELSE admin
              \/ store = {} /\ "stopAgent" \in troubles' /\ admin' = admin
              \/ p \in AgentActors /\ store # {} /\ admin' = admin
  <2>1. Moved(revert', revert, p, "idle")
    BY <1>0, <1>2, MovedIs
  <2> QED
    BY <1>1, <1>2, <2>1
<1>3. CASE /\ store # {} /\ revert' = [revert EXCEPT ![p].at = "run"]
           /\ Run(p, "revert", store) /\ UNCHANGED <<admin, troubles>>
  <2>1. Moved(revert', revert, p, "run")
    BY <1>0, <1>3, MovedIs
  <2>2. PICK d : /\ d = Spawn(p, "revert", store)
                 /\ WellFormed(d) /\ d.by = p /\ ~d.orphan /\ d.kind = "revert"
                 /\ d.flags = store /\ d.done = {} /\ d.pc = StartsAt(store)
    BY <1>0, SpawnIs DEF OtherTypes
  <2>3. configs' = configs \cup {d} /\ overlap' = (overlap \/ configs # {})
    BY <1>3, <2>2 DEF Run
  <2> QED
    BY <1>1, <1>3, <2>1, <2>2, <2>3
<1> QED
  BY <1>2, <1>3 DEF Load, Trouble

LEMMA DeleteIs ==
  ASSUME LauncherTypes, NEW p \in Actors, Delete(p)
  PROVE  /\ revert[p].at = "run" /\ Moved(revert', revert, p, "idle")
         /\ UNCHANGED <<applied, launcherVars, agentVars, admin, game, bounds, overlap>>
         /\ \E c \in configs : /\ c.by = p /\ ~c.orphan /\ Ended(c)
                               /\ configs' = configs \ {c}
                               /\ store' = IF c.pc = "ok" THEN {} ELSE store
<1>0. RevertTypes(revert)
  BY TypesAre
<1>1. revert' = [revert EXCEPT ![p].at = "idle"]
  BY DEF Delete
<1>2. Moved(revert', revert, p, "idle")
  BY <1>0, <1>1, MovedIs
<1> QED
  BY <1>2 DEF Delete, ChildOf

\* An agent is gone, and p, if it killed it, goes on.
LEMMA AgentGoneOrder ==
  ASSUME LauncherTypes, Turns, InOrder, Order, NEW n \in Agents,
         configs' = Orphaned(ActorsOf(n)), store' = store, main' = main,
         agent'[n] = "off", \A m \in Agents : m # n => agent'[m] = agent[m],
         signalled' = signalled \ {n}, unlisted' = unlisted \ {n},
         \A q \in Actors : q # Main /\ q \notin ActorsOf(n) => revert'[q] = revert[q],
         \/ revert'[Main] = revert[Main]
         \/ revert[Main].at = "kill" /\ revert[Main].agent = n /\ revert'[Main].at = "load"
  PROVE  Order'
<1>1. /\ OneConfig' /\ (configs = {} => configs' = {})
      /\ \A e \in configs' :
           \/ e \in configs /\ e.by \notin ActorsOf(n)
           \/ \E c \in configs : /\ c.by \in ActorsOf(n) /\ e.by = c.by /\ e.orphan
                                 /\ e.flags = c.flags
  BY FewerConfigs
<1>2. \A m \in Agents : Running(m)' => Running(m) /\ m # n
  BY DEF Running
<1>3. OneAgent' /\ (NobodyRuns => NobodyRuns')
  BY <1>2 DEF Order, OneAgent, NobodyRuns
<1>4. KilledIfSignalled' /\ KillsTheOne'
  BY <1>2 DEF Order, KilledIfSignalled, KillsTheOne
<1>5. Main \notin ActorsOf(n)
  BY ActorsDiffer DEF ActorsOf
<1>6. ASSUME NEW e \in configs'
      PROVE  /\ SetsUpByMain(e)' \/ RevertsFile(e)'
             /\ main.pc \in {"flush", "setup", "launch"} => SetsUpByMain(e)'
  <2>1. CASE e \in configs /\ e.by \notin ActorsOf(n)
    <3>1. e.by \in Actors
      BY <2>1, KindsOfConfig
    <3>2. revert[e.by].at = "run" => revert'[e.by].at = "run"
      BY <2>1, <3>1
    <3> QED
      BY <2>1, <3>2 DEF Order, Alone, SetsUpByMain, RevertsFile
  <2>2. CASE \E c \in configs : c.by \in ActorsOf(n) /\ e.by = c.by /\ e.orphan
                                /\ e.flags = c.flags
    BY <1>5, <2>2 DEF Order, Alone, SetsUpByMain, RevertsFile
  <2> QED
    BY <1>1, <2>1, <2>2
<1>7. CleansUp'
  <2>1. revert[Main].at = "kill" /\ revert[Main].agent = n => NobodyRuns'
    BY <1>2 DEF Order, KillsTheOne, NobodyRuns
  <2> QED
    BY <1>1, <1>3, <2>1 DEF Order, CleansUp
<1>8. Alone' /\ FirstGroup'
  BY <1>3, <1>6 DEF Order, Alone, FirstGroup
<1> QED
  BY <1>1, <1>3, <1>4, <1>6, <1>7, <1>8 DEF Order

\* Who reverts, apart from the main goroutine, is of an agent that runs.
LEMMA OthersTurn ==
  ASSUME Turns, InOrder, KilledIfSignalled, NEW p \in Actors, revert[p].at # "idle"
  PROVE  p = Main \/ (p \in AgentActors /\ p # Main /\ ~NobodyRuns)
<1>1. p # Handler
  BY NoHandler
<1>2. CASE p \in AgentActors
  <2>1. PICK n \in Agents : p = Watch(n) \/ p = AgentHandler(n)
    BY <1>2, ActorsAre
  <2>2. Running(n)
    BY <2>1 DEF Turns, AgentsTurns, Running
  <2> QED
    BY <1>2, <2>1, <2>2, ActorsDiffer DEF NobodyRuns
<1> QED
  BY <1>1, <1>2, ActorsAre

LEMMA RevertStepOrder ==
  ASSUME LauncherTypes, Turns, InOrder, InOrder', Order, NEW p \in Actors, RevertStep(p)
  PROVE  Order'
<1>0. Main \in Actors /\ Main \in LauncherActors /\ KilledIfSignalled
  BY ActorsAre DEF Order
<1> USE DEF launcherVars, agentVars, started, bounds
<1>1. ASSUME Interrupt(p) PROVE Order'
  <2>1. revert[p].at = "interrupt" /\ p \in LauncherActors
    BY <1>1 DEF Interrupt, Turns, LaunchersKill
  <2>2. p = Main
    BY <1>0, <2>1, NoHandler, ActorsAre
  <2>3. /\ UNCHANGED <<store, configs, main, agent, unlisted>>
        /\ \/ /\ Listed = {} /\ signalled' = signalled
              /\ Moved(revert', revert, Main, "load")
           \/ \E n \in Listed :
                /\ revert'[Main].at = "kill" /\ revert'[Main].agent = n
                /\ \A q \in Actors : q # Main /\ q # AgentHandler(n) => revert'[q] = revert[q]
                /\ \/ /\ signalled' = signalled
                      /\ revert'[AgentHandler(n)] = revert[AgentHandler(n)]
                   \/ /\ n \notin signalled /\ signalled' = signalled \cup {n}
                      /\ revert'[AgentHandler(n)].at = "load"
    BY <1>1, <2>1, <2>2, InterruptIs
  <2>4. signalled = {} /\ unlisted = {}
    BY <2>1, <2>2 DEF Order, KilledIfSignalled
  <2>5. /\ OneConfig' /\ OneAgent' /\ FirstGroup' /\ (NobodyRuns => NobodyRuns')
    BY <2>3 DEF Order, OneConfig, OneAgent, FirstGroup, NobodyRuns, Running
  <2>6. main.pc \in {"cleanup", "revert"}
    BY <2>1, <2>2 DEF Turns, LaunchersTurns
  <2>7. Alone'
    BY <2>3, <2>6 DEF Alone
  <2>8. CASE Listed = {} /\ signalled' = signalled /\ Moved(revert', revert, Main, "load")
    <3>1. NobodyRuns
      BY <2>4, <2>8 DEF Listed, NobodyRuns
    <3>2. KilledIfSignalled' /\ KillsTheOne' /\ CleansUp'
      BY <2>3, <2>4, <2>5, <2>8, <3>1
         DEF KilledIfSignalled, KillsTheOne, CleansUp, Moved
    <3>3. ASSUME NEW c \in configs PROVE SetsUpByMain(c)' \/ RevertsFile(c)'
      <4>1. c.by \in Actors
        BY KindsOfConfig
      <4>2. revert[c.by].at = "run" => revert'[c.by].at = "run"
        BY <2>1, <2>2, <2>8, <4>1 DEF Moved
      <4> QED
        BY <2>3, <4>2 DEF Order, SetsUpByMain, RevertsFile
    <3> QED
      BY <2>3, <2>5, <2>7, <3>2, <3>3 DEF Order
  <2>9. ASSUME NEW n \in Listed, revert'[Main].at = "kill", revert'[Main].agent = n,
               \A q \in Actors : q # Main /\ q # AgentHandler(n) => revert'[q] = revert[q],
               \/ /\ signalled' = signalled
                  /\ revert'[AgentHandler(n)] = revert[AgentHandler(n)]
               \/ signalled' = signalled \cup {n}
        PROVE  Order'
    <3>1. n \in Agents /\ Running(n)
      BY DEF Listed
    <3>2. KilledIfSignalled' /\ CleansUp'
      BY <2>3, <2>4, <2>9 DEF KilledIfSignalled, CleansUp
    <3>3. KillsTheOne'
      BY <2>3, <2>9, <3>1 DEF Order, OneAgent, KillsTheOne, Running
    <3>4. revert[AgentHandler(n)].at = "idle"
      BY <2>4, <3>1 DEF Turns, AgentsTurns
    <3>5. ASSUME NEW c \in configs PROVE SetsUpByMain(c)' \/ RevertsFile(c)'
      <4>1. c.by \in Actors
        BY KindsOfConfig
      <4>2. revert[c.by].at = "run" => revert'[c.by].at = "run"
        BY <2>1, <2>2, <2>9, <3>4, <4>1
      <4> QED
        BY <2>3, <4>2 DEF Order, SetsUpByMain, RevertsFile
    <3> QED
      BY <2>3, <2>5, <2>7, <3>2, <3>3, <3>5 DEF Order
  <2> QED
    BY <2>3, <2>8, <2>9
<1>2. ASSUME Kill(p) PROVE Order'
  <2>1. revert[p].at = "kill" /\ p \in LauncherActors
    BY <1>2 DEF Kill, Turns, LaunchersKill
  <2>2. p = Main
    BY <1>0, <2>1, NoHandler, ActorsAre
  <2>3. /\ UNCHANGED <<store, main>>
        /\ \E n \in Agents :
             /\ n = revert[Main].agent
             /\ configs' = Orphaned(ActorsOf(n))
             /\ agent'[n] = "off" /\ \A m \in Agents : m # n => agent'[m] = agent[m]
             /\ signalled' = signalled \ {n} /\ unlisted' = unlisted \ {n}
             /\ revert'[Main].at = "load"
             /\ \A q \in Actors : q # Main /\ q \notin ActorsOf(n) => revert'[q] = revert[q]
    BY <1>2, <2>1, <2>2, KillsAre
  <2> QED
    BY <2>1, <2>2, <2>3, AgentGoneOrder
<1>3. ASSUME Load(p) PROVE Order'
  <2>1. /\ revert[p].at = "load" /\ UNCHANGED <<store, main, agent, signalled, unlisted>>
        /\ \/ /\ Moved(revert', revert, p, "idle") /\ configs' = configs
              /\ store = {} \/ p \in AgentActors
           \/ /\ Moved(revert', revert, p, "run") /\ store # {}
              /\ overlap' = (overlap \/ configs # {})
              /\ \E d : /\ configs' = configs \cup {d}
                        /\ d.by = p /\ ~d.orphan /\ d.flags = store
    BY <1>3, LoadIs
  <2>2. p = Main \/ (p \in AgentActors /\ p # Main /\ ~NobodyRuns)
    BY <1>0, <2>1, OthersTurn
  <2>3. p = Main => main.pc \in {"cleanup", "revert"}
    BY <2>1 DEF Turns, LaunchersTurns
  <2>4. /\ OneAgent' /\ FirstGroup' /\ (NobodyRuns => NobodyRuns')
    BY <2>1 DEF Order, OneAgent, FirstGroup, NobodyRuns, Running
  <2>5. /\ p # Main => revert'[Main] = revert[Main]
        /\ p = Main => revert'[Main].at \in {"idle", "run"}
    BY <1>0, <2>1 DEF Moved
  <2>6. KilledIfSignalled' /\ KillsTheOne'
    BY <1>0, <2>1, <2>5 DEF Order, KilledIfSignalled, KillsTheOne, Running
  <2>7. CASE Moved(revert', revert, p, "idle") /\ configs' = configs
             /\ (store = {} \/ p \in AgentActors)
    <3>1. OneConfig' /\ Alone'
      BY <2>1, <2>4, <2>7 DEF Order, OneConfig, Alone, SetsUpByMain
    <3>2. CleansUp'
      <4>1. p = Main => store = {}
        BY <2>7, ActorsAre, ActorsDiffer
      <4>2. p = Main /\ main.pc = "cleanup" => configs = {}
        BY <4>1 DEF Order, SetsUpByMain, RevertsFile
      <4> QED
        BY <2>1, <2>2, <2>4, <2>5, <2>7, <4>2 DEF Order, CleansUp
    <3>3. ASSUME NEW c \in configs PROVE SetsUpByMain(c)' \/ RevertsFile(c)'
      <4>1. c.by \in Actors
        BY KindsOfConfig
      <4>2. revert[c.by].at = "run" => revert'[c.by].at = "run"
        BY <2>1, <2>7, <4>1 DEF Moved
      <4> QED
        BY <2>1, <4>2 DEF Order, SetsUpByMain, RevertsFile
    <3> QED
      BY <2>4, <2>6, <2>7, <3>1, <3>2, <3>3 DEF Order
  <2>8. ASSUME NEW d, Moved(revert', revert, p, "run"), store # {}, configs = {},
               configs' = configs \cup {d}, d.by = p, ~d.orphan, d.flags = store
        PROVE  Order'
    <3>1. configs' = {d}
      BY <2>8
    <3>2. OneConfig' /\ RevertsFile(d)'
      BY <2>1, <2>8, <3>1 DEF OneConfig, RevertsFile, Moved
    <3>3. CleansUp'
      BY <2>1, <2>2, <2>4, <2>5, <2>8 DEF Order, CleansUp, Moved
    <3>4. Alone'
      BY <2>1, <2>2, <2>3 DEF Order, Alone
    <3> QED
      BY <2>4, <2>6, <3>1, <3>2, <3>3, <3>4 DEF Order
  <2>9. ~overlap'
    BY DEF InOrder
  <2> QED
    BY <2>1, <2>7, <2>8, <2>9
<1>4. ASSUME Delete(p) PROVE Order'
  <2>1. /\ revert[p].at = "run" /\ Moved(revert', revert, p, "idle")
        /\ UNCHANGED <<main, agent, signalled, unlisted>>
        /\ \E c \in configs : configs' = configs \ {c}
    BY <1>4, DeleteIs
  <2>2. configs' = {}
    BY <2>1 DEF Order, OneConfig
  <2>3. /\ OneAgent' /\ FirstGroup' /\ (NobodyRuns => NobodyRuns')
    BY <2>1 DEF Order, OneAgent, FirstGroup, NobodyRuns, Running
  <2>4. /\ p # Main => revert'[Main] = revert[Main]
        /\ p = Main => revert'[Main].at = "idle"
    BY <1>0, <2>1 DEF Moved
  <2>5. KilledIfSignalled' /\ KillsTheOne' /\ OneConfig'
    BY <1>0, <2>1, <2>2, <2>4 DEF Order, KilledIfSignalled, KillsTheOne, Running, OneConfig
  <2>6. CleansUp' /\ Alone'
    BY <2>1, <2>2, <2>3, <2>4 DEF Order, CleansUp, Alone
  <2> QED
    BY <2>2, <2>3, <2>5, <2>6 DEF Order
<1> QED
  BY <1>1, <1>2, <1>3, <1>4 DEF RevertStep

\* A step of the main goroutine that starts no agent: its launcher-config, if any, has ended.
LEMMA MainOrder ==
  ASSUME LauncherTypes, Turns, Order, UNCHANGED agentVars, revert[Main].at = "idle",
         \A q \in Actors : q # Main => revert'[q] = revert[q],
         revert'[Main].at \in {"idle", "interrupt"},
         main'.pc = "cleanup" => main.pc = "cleanup" \/ revert'[Main].at = "interrupt",
         main'.pc \in {"flush", "setup", "launch"} =>
           main.pc \in {"flush", "setup", "launch"} \/ (main.pc = "cleanup" /\ configs = {}),
         main'.pc \in {"off", "wait", "cleanup", "flush"} =>
           \/ main'.group = main.group /\ main.pc \in {"off", "wait", "cleanup", "flush"}
           \/ main'.group = 1,
         \/ configs' = {}
         \/ /\ configs' = configs /\ store' = store
            /\ main'.pc = main.pc \/ main.pc # "setup"
         \/ /\ main.pc = "setup" /\ main'.pc = "setup"
            /\ \E d : configs' = {d} /\ d.by = Main /\ ~d.orphan
  PROVE  Order'
<1>1. OneAgent' /\ (NobodyRuns => NobodyRuns')
  BY DEF Order, OneAgent, NobodyRuns, Running, agentVars
<1>2. KilledIfSignalled' /\ KillsTheOne'
  BY DEF Order, KilledIfSignalled, KillsTheOne, agentVars
<1>3. FirstGroup'
  BY DEF Order, FirstGroup
<1>4. configs = {} => configs' = {} \/ main'.pc = "setup"
  OBVIOUS
<1>5. OneConfig'
  BY DEF Order, OneConfig
<1>6. CleansUp'
  BY <1>1, <1>4 DEF Order, CleansUp
<1>7. main'.pc \in {"flush", "setup", "launch"} => NobodyRuns'
  BY <1>1 DEF Order, Alone, CleansUp
<1>8. CASE configs' = {}
  BY <1>1, <1>2, <1>3, <1>5, <1>6, <1>7, <1>8 DEF Order, Alone
<1>9. CASE configs' = configs /\ store' = store /\ (main'.pc = main.pc \/ main.pc # "setup")
  <2>1. ASSUME NEW c \in configs PROVE SetsUpByMain(c)' \/ RevertsFile(c)'
    <3>1. c.by \in Actors
      BY KindsOfConfig
    <3>2. revert[c.by].at = "run" => revert'[c.by].at = "run"
      BY <3>1
    <3> QED
      BY <1>9, <3>2 DEF Order, SetsUpByMain, RevertsFile
  <2>2. Alone'
    BY <1>7, <1>9 DEF Order, Alone, SetsUpByMain
  <2> QED
    BY <1>1, <1>2, <1>3, <1>5, <1>6, <1>9, <2>1, <2>2 DEF Order
<1>10. CASE /\ main.pc = "setup" /\ main'.pc = "setup"
            /\ \E d : configs' = {d} /\ d.by = Main /\ ~d.orphan
  <2>1. \A e \in configs' : SetsUpByMain(e)'
    BY <1>10 DEF SetsUpByMain
  <2> QED
    BY <1>1, <1>2, <1>3, <1>5, <1>6, <1>7, <2>1 DEF Order, Alone
<1> QED
  BY <1>8, <1>9, <1>10

LEMMA LauncherEndsOrder ==
  ASSUME LauncherTypes, Turns, Order, InOrder, LauncherEnds, UNCHANGED <<agentVars, store>>,
         main.pc # "setup", revert[Main].at = "idle"
  PROVE  Order'
<1>1. /\ main'.pc = "off"
      /\ \A q \in Actors : IF q \in LauncherActors THEN revert'[q] = Idle
                                                   ELSE revert'[q] = revert[q]
  BY LauncherEndsTypes
<1>2. main'.group = 1 /\ configs' = Orphaned(LauncherActors)
  BY DEF LauncherEnds
<1>3. /\ OneConfig'
      /\ \A e \in configs' :
           \/ e \in configs /\ e.by \notin LauncherActors
           \/ \E c \in configs : /\ c.by \in LauncherActors /\ e.by = c.by /\ e.orphan
                                 /\ e.flags = c.flags
  BY <1>2, FewerConfigs
<1>4. revert'[Main].at = "idle"
  BY <1>1, ActorsAre DEF Idle
<1>5. OneAgent' /\ KilledIfSignalled' /\ KillsTheOne' /\ CleansUp' /\ Alone' /\ FirstGroup'
  BY <1>1, <1>2, <1>4 DEF Order, OneAgent, KilledIfSignalled, KillsTheOne, CleansUp, Alone,
     FirstGroup, Running, agentVars
<1>6. ASSUME NEW e \in configs' PROVE RevertsFile(e)'
  <2>1. CASE e \in configs /\ e.by \notin LauncherActors
    <3>1. e.by \in Actors
      BY <2>1, KindsOfConfig
    <3>2. revert'[e.by] = revert[e.by]
      BY <1>1, <2>1, <3>1
    <3> QED
      BY <2>1, <3>2 DEF Order, SetsUpByMain, RevertsFile
  <2>2. CASE \E c \in configs : /\ c.by \in LauncherActors /\ e.by = c.by /\ e.orphan
                                /\ e.flags = c.flags
    BY <2>2 DEF Order, SetsUpByMain, RevertsFile
  <2> QED
    BY <1>3, <2>1, <2>2
<1> QED
  BY <1>3, <1>5, <1>6 DEF Order

LEMMA LauncherStepOrder ==
  ASSUME LauncherTypes, Turns, InOrder, InOrder', Order, Start \/ LauncherStep
  PROVE  Order'
<1>0. OtherTypes /\ ConfigTypes /\ RevertTypes(revert) /\ Main \in Actors
  BY TypesAre, ActorsAre
<1> USE DEF launcherVars, agentVars, started, bounds, mainFrame
<1>1. {"off", "wait", "cleanup", "flush", "setup", "launch", "game", "revert"} \subseteq Places
  BY DEF Places
<1>2. Idle.at = "idle"
  BY DEF Idle
<1>3. \A x \in Places : GoTo(x) => main'.pc = x /\ main'.group = main.group
  BY <1>0, GoToIs
<1>4. Fail => /\ main'.pc = "revert" /\ revert'[Main].at = "interrupt"
              /\ \A q \in Actors : q # Main => revert'[q] = revert[q]
  BY <1>0, FailIs DEF Moved
<1>5. ASSUME Start PROVE Order'
  <2>1. main.pc = "off" /\ main'.pc = "wait" /\ main'.group = main.group
        /\ UNCHANGED <<configs, store, revert, agentVars>>
    BY <1>1, <1>3, <1>5 DEF Start
  <2>2. revert[Main].at = "idle"
    BY <2>1 DEF Turns, LaunchersTurns
  <2> QED
    BY <2>1, <2>2, MainOrder
<1>6. ASSUME Waited PROVE Order'
  <2>1. main.pc = "wait" /\ revert[Main].at = "idle" /\ UNCHANGED <<configs, store, agentVars>>
    BY <1>2, <1>6 DEF Waited, At
  <2>2. CASE Fail
    BY <1>4, <2>1, <2>2, MainOrder
  <2>3. CASE GoTo("cleanup") /\ BeginRevert(Main)
    <3>1. main'.pc = "cleanup" /\ main'.group = main.group
      BY <1>1, <1>3, <2>3
    <3>2. revert'[Main].at = "interrupt" /\ \A q \in Actors : q # Main => revert'[q] = revert[q]
      BY <1>0, <2>3, BeginRevertIs DEF Moved
    <3> QED
      BY <2>1, <3>1, <3>2, MainOrder
  <2> QED
    BY <1>6, <2>2, <2>3 DEF Waited
<1>7. ASSUME CleanedUp PROVE Order'
  <2>1. /\ main.pc = "cleanup" /\ revert[Main].at = "idle"
        /\ UNCHANGED <<configs, store, revert, agentVars>>
        /\ main'.pc = "flush" /\ main'.group = main.group
    BY <1>1, <1>2, <1>3, <1>7 DEF CleanedUp, At
  <2>2. configs = {}
    BY <2>1 DEF Order, CleansUp
  <2> QED
    BY <2>1, <2>2, MainOrder
<1>8. ASSUME FlushCache PROVE Order'
  <2>1. main.pc = "flush" /\ revert[Main].at = "idle" /\ UNCHANGED <<configs, store, agentVars>>
    BY <1>2, <1>8 DEF FlushCache, At
  <2>2. CASE Fail
    BY <1>4, <2>1, <2>2, MainOrder
  <2>3. CASE GoTo("setup") /\ UNCHANGED revert
    <3>1. main'.pc = "setup"
      BY <1>1, <1>3, <2>3
    <3> QED
      BY <2>1, <2>3, <3>1, MainOrder
  <2> QED
    BY <1>8, <2>2, <2>3 DEF FlushCache
<1>9. ASSUME SetUp PROVE Order'
  <2>1. /\ main.pc = "setup" /\ revert[Main].at = "idle" /\ ChildOf(Main) = {}
        /\ UNCHANGED <<revert, store, agentVars>>
    BY <1>2, <1>9 DEF SetUp, At
  <2>2. configs = {}
    BY <2>1 DEF Order, Alone, SetsUpByMain, ChildOf
  <2>3. CASE GoTo("launch") /\ UNCHANGED configs
    <3>1. main'.pc = "launch"
      BY <1>1, <1>3, <2>3
    <3> QED
      BY <2>1, <2>2, <2>3, <3>1, MainOrder
  <2>4. CASE ~(main.group > Len(Groups))
    <3>0. main.group \in 1 .. 3
      BY <1>0, <2>4, GroupsAre DEF OtherTypes
    <3>1. PICK inOrder :
            LET flags == (Groups[main.group] \cap wanted) \ (Manual \cup inOrder) IN
            IF flags = {}
            THEN main' = [main EXCEPT !.group = @ + 1] /\ UNCHANGED <<configs, overlap>>
            ELSE Run(Main, "setup", flags) /\ UNCHANGED main
      BY <1>9, <2>4 DEF SetUp
    <3>2. PICK flags : flags = (Groups[main.group] \cap wanted) \ (Manual \cup inOrder)
      OBVIOUS
    <3>3. CASE main' = [main EXCEPT !.group = @ + 1] /\ UNCHANGED configs
      <4>1. main'.pc = "setup"
        BY <1>0, <2>1, <3>3, MainTypes
      <4> QED
        BY <2>1, <2>2, <3>3, <4>1, MainOrder
    <3>4. CASE Run(Main, "setup", flags) /\ UNCHANGED main
      <4>1. flags \in SUBSET Settings
        BY <3>0, <3>2, GroupsAre
      <4>2. PICK d : d = Spawn(Main, "setup", flags) /\ d.by = Main /\ ~d.orphan
        BY <1>0, <4>1, SpawnIs
      <4>3. configs' = {d}
        BY <2>2, <3>4, <4>2 DEF Run
      <4> QED
        BY <2>1, <3>4, <4>2, <4>3, MainOrder
    <3> QED
      BY <3>1, <3>2, <3>3, <3>4
  <2> QED
    BY <1>9, <2>3, <2>4 DEF SetUp
<1>10. ASSUME StoreFlags PROVE Order'
  <2>1. main.pc = "setup" /\ revert[Main].at = "idle" /\ UNCHANGED agentVars
    BY <1>2, <1>10 DEF StoreFlags, At
  <2>2. PICK c \in ChildOf(Main) :
          \/ /\ main' = [main EXCEPT !.group = @ + 1] /\ configs' = configs \ {c}
             /\ UNCHANGED revert
          \/ /\ configs' = (configs \ {c}) \cup {Spawn(Main, "revert", c.flags)}
             /\ UNCHANGED <<store, main, revert>>
          \/ Fail /\ configs' = configs \ {c}
    BY <1>10 DEF StoreFlags
  <2>3. configs \ {c} = {} /\ c \in configs
    BY <2>2 DEF Order, OneConfig, ChildOf
  <2>4. CASE /\ main' = [main EXCEPT !.group = @ + 1] /\ configs' = configs \ {c}
             /\ UNCHANGED revert
    <3>1. main'.pc = "setup"
      BY <1>0, <2>1, <2>4, MainTypes
    <3> QED
      BY <2>1, <2>3, <2>4, <3>1, MainOrder
  <2>5. CASE /\ configs' = (configs \ {c}) \cup {Spawn(Main, "revert", c.flags)}
             /\ UNCHANGED <<store, main, revert>>
    <3>1. c.flags \in SUBSET Settings
      BY <2>3, KindsOfConfig
    <3>2. PICK d : d = Spawn(Main, "revert", c.flags) /\ d.by = Main /\ ~d.orphan
      BY <1>0, <3>1, SpawnIs
    <3>3. configs' = {d}
      BY <2>3, <2>5, <3>2
    <3> QED
      BY <2>1, <2>5, <3>2, <3>3, MainOrder
  <2>6. CASE Fail /\ configs' = configs \ {c}
    BY <1>4, <2>1, <2>3, <2>6, MainOrder
  <2> QED
    BY <2>2, <2>4, <2>5, <2>6
<1>11. ASSUME StartAgent PROVE Order'
  <2>1. main.pc = "launch" /\ revert[Main].at = "idle"
        /\ UNCHANGED <<configs, store, signalled, unlisted>>
    BY <1>2, <1>11 DEF StartAgent, At
  <2>2. NobodyRuns /\ configs = {}
    BY <2>1 DEF Order, Alone, SetsUpByMain
  <2>3. CASE Fail /\ UNCHANGED agent
    BY <1>4, <2>1, <2>3, MainOrder
  <2>4. CASE GoTo("game") /\ UNCHANGED <<agent, revert>>
    <3>1. main'.pc = "game"
      BY <1>1, <1>3, <2>4
    <3> QED
      BY <2>1, <2>4, <3>1, MainOrder
  <2>5. CASE /\ agent' = [agent EXCEPT ![runs] = "game"] /\ GoTo("game") /\ UNCHANGED revert
    <3>1. main'.pc = "game"
      BY <1>1, <1>3, <2>5
    <3>2. \A n \in Agents : Running(n)' => n = runs
      BY <1>0, <2>2, <2>5 DEF NobodyRuns, Running, OtherTypes
    <3>3. OneAgent' /\ OneConfig'
      BY <2>1, <2>2, <3>2 DEF OneAgent, OneConfig
    <3>4. KilledIfSignalled' /\ KillsTheOne'
      BY <2>1, <2>5 DEF Order, KilledIfSignalled, KillsTheOne
    <3>5. CleansUp' /\ Alone' /\ FirstGroup'
      BY <3>1 DEF CleansUp, Alone, FirstGroup
    <3> QED
      BY <2>1, <2>2, <3>3, <3>4, <3>5 DEF Order
  <2> QED
    BY <1>11, <2>3, <2>4, <2>5 DEF StartAgent
<1>12. ASSUME StartGame PROVE Order'
  <2>1. main.pc = "game" /\ revert[Main].at = "idle" /\ UNCHANGED <<store, agentVars>>
    BY <1>2, <1>12 DEF StartGame, At
  <2>2. CASE Fail /\ UNCHANGED configs
    BY <1>4, <2>1, <2>2, MainOrder
  <2>3. CASE LauncherEnds
    BY <2>1, <2>3, LauncherEndsOrder
  <2> QED
    BY <1>12, <2>2, <2>3 DEF StartGame
<1>13. ASSUME CheckFails PROVE Order'
  <2>1. /\ main.pc = "wait" \/ (main.pc = "setup" /\ ChildOf(Main) = {})
        /\ revert[Main].at = "idle" /\ UNCHANGED <<configs, store, agentVars>> /\ Fail
    BY <1>2, <1>13 DEF CheckFails, At
  <2>2. main.pc = "setup" => configs = {}
    BY <2>1 DEF Order, Alone, SetsUpByMain, ChildOf
  <2> QED
    BY <1>4, <2>1, <2>2, MainOrder
<1>14. ASSUME Exit PROVE Order'
  <2>1. LauncherEnds /\ UNCHANGED <<store, agentVars>> /\ ~handler
    BY <1>14, NoHandler DEF Exit, Order
  <2>2. main.pc = "revert" /\ revert[Main].at = "idle"
    BY <1>2, <1>14, <2>1 DEF Exit, At
  <2> QED
    BY <2>1, <2>2, LauncherEndsOrder
<1> QED
  BY <1>5, <1>6, <1>7, <1>8, <1>9, <1>10, <1>11, <1>12, <1>13, <1>14 DEF LauncherStep

LEMMA AgentStepOrder ==
  ASSUME LauncherTypes, Turns, InOrder, Order, NEW n \in Agents, AgentStep(n)
  PROVE  Order'
<1>0. OtherTypes /\ RevertTypes(revert) /\ Main \in Actors /\ Watch(n) # Main
  BY TypesAre, ActorsAre, ActorsDiffer
<1> USE DEF launcherVars, started, agentFrame
<1>1. ASSUME SeeGame(n) PROVE Order'
  <2>1. \A m \in Agents : Running(m)' = Running(m)
    BY <1>0, <1>1 DEF SeeGame, Running, OtherTypes
  <2> QED
    BY <1>1, <2>1, OrderFramed DEF SeeGame
<1>2. ASSUME SeeEnd(n) PROVE Order'
  <2>1. /\ agent'[n] = "revert" /\ (\A m \in Agents : m # n => agent'[m] = agent[m])
        /\ Moved(revert', revert, Watch(n), "load")
    BY <1>0, <1>2, EndWatchIs DEF SeeEnd
  <2>2. UNCHANGED <<configs, store, main, signalled, unlisted>>
    BY <1>2 DEF SeeEnd, EndWatch
  <2>3. \A m \in Agents : Running(m)' = Running(m)
    BY <1>2, <2>1 DEF SeeEnd, Running
  <2>4. revert'[Main] = revert[Main]
    BY <1>0, <2>1 DEF Moved
  <2>5. revert[Watch(n)].at = "idle"
    BY <1>2 DEF SeeEnd, Turns, AgentsTurns
  <2>6. /\ OneConfig' /\ OneAgent' /\ KilledIfSignalled' /\ KillsTheOne' /\ CleansUp' /\ Alone'
        /\ FirstGroup'
    BY <2>2, <2>3, <2>4 DEF Order, OneConfig, OneAgent, KilledIfSignalled, KillsTheOne, CleansUp,
       Alone, FirstGroup, NobodyRuns, SetsUpByMain
  <2>7. ASSUME NEW c \in configs PROVE SetsUpByMain(c)' \/ RevertsFile(c)'
    <3>1. c.by \in Actors
      BY KindsOfConfig
    <3>2. revert[c.by].at = "run" => revert'[c.by].at = "run"
      BY <2>1, <2>5, <3>1 DEF Moved
    <3> QED
      BY <2>2, <3>2 DEF Order, SetsUpByMain, RevertsFile
  <2> QED
    BY <2>2, <2>6, <2>7 DEF Order
<1>3. ASSUME Unlist(n) PROVE Order'
  <2>1. n \in signalled /\ unlisted' = unlisted \cup {n}
        /\ UNCHANGED <<configs, store, main, revert, agent, signalled>>
    BY <1>3 DEF Unlist
  <2>2. /\ OneConfig' /\ OneAgent' /\ KilledIfSignalled' /\ KillsTheOne' /\ CleansUp' /\ Alone'
        /\ FirstGroup'
    BY <2>1 DEF Order, OneConfig, OneAgent, KilledIfSignalled, KillsTheOne, CleansUp,
       Alone, FirstGroup, NobodyRuns, SetsUpByMain, Running
  <2>3. (\A c \in configs : SetsUpByMain(c) \/ RevertsFile(c))'
    BY <2>1 DEF Order, SetsUpByMain, RevertsFile
  <2> QED
    BY <2>2, <2>3 DEF Order
<1>4. ASSUME AgentExits(n) PROVE Order'
  <2>1. AgentEnds(n, revert) /\ UNCHANGED <<store, main>>
    BY <1>4 DEF AgentExits
  <2>2. /\ signalled' = signalled \ {n} /\ unlisted' = unlisted \ {n}
        /\ agent'[n] = "off" /\ \A m \in Agents : m # n => agent'[m] = agent[m]
        /\ \A q \in Actors : IF q \in ActorsOf(n) THEN revert'[q] = Idle
                                                  ELSE revert'[q] = revert[q]
    BY <1>0, <2>1, AgentEndsTypes
  <2>3. configs' = Orphaned(ActorsOf(n)) /\ Main \notin ActorsOf(n)
    BY <2>1, ActorsDiffer DEF AgentEnds, ActorsOf
  <2> QED
    BY <1>0, <2>1, <2>2, <2>3, AgentGoneOrder
<1> QED
  BY <1>1, <1>2, <1>3, <1>4 DEF AgentStep

LEMMA DisturbOrder ==
  ASSUME LauncherTypes, Turns, InOrder, InOrder', Order, Disturb
  PROVE  Order'
<1>0. RevertTypes(revert) /\ Main \in Actors
  BY TypesAre, ActorsAre
<1> USE DEF launcherVars, agentVars, started, agentFrame
<1>1. ~SignalLauncher /\ ~KillLauncher /\ \A n \in Agents : ~SignalAgent(n)
  BY DEF SignalLauncher, KillLauncher, SignalAgent, Trouble, InOrder, Befell
<1>2. ASSUME KillAdminAgent PROVE Order'
  BY <1>2, OrderFramed DEF KillAdminAgent, Running
<1>3. ASSUME NEW n \in Agents, KillLauncherAgent(n) PROVE Order'
  <2>1. AgentEnds(n, revert) /\ UNCHANGED <<store, main>>
    BY <1>3 DEF KillLauncherAgent
  <2>2. /\ signalled' = signalled \ {n} /\ unlisted' = unlisted \ {n}
        /\ agent'[n] = "off" /\ \A m \in Agents : m # n => agent'[m] = agent[m]
        /\ \A q \in Actors : IF q \in ActorsOf(n) THEN revert'[q] = Idle
                                                  ELSE revert'[q] = revert[q]
    BY <1>0, <2>1, AgentEndsTypes
  <2>3. configs' = Orphaned(ActorsOf(n)) /\ Main \notin ActorsOf(n)
    BY <2>1, ActorsDiffer DEF AgentEnds, ActorsOf
  <2> QED
    BY <1>0, <2>1, <2>2, <2>3, AgentGoneOrder
<1> QED
  BY <1>1, <1>2, <1>3 DEF Disturb

LEMMA GameStepRuns ==
  ASSUME LauncherTypes, GameStep
  PROVE  \A n \in Agents : Running(n)' = Running(n)
BY DEF GameStep, Running, LauncherTypes

LEMMA OrderStays ==
  ASSUME LauncherTypes, Turns, InOrder, InOrder', Order, [Next]_vars
  PROVE  Order'
<1>1. ASSUME GameStep PROVE Order'
  BY <1>1, GameStepRuns, OrderFramed DEF GameStep, launcherVars
<1>2. ASSUME UNCHANGED vars PROVE Order'
  BY <1>2, OrderFramed DEF vars, launcherVars, agentVars, Running
<1> QED
  BY <1>1, <1>2, ConfigStepOrder, RevertStepOrder, LauncherStepOrder, AgentStepOrder, DisturbOrder
     DEF Next

LEMMA InitOrder == Init => Order
BY DEF Init, Order, OneConfig, OneAgent, KilledIfSignalled, KillsTheOne, CleansUp, Alone,
   FirstGroup, Running, Idle

\* With nobody signalled or killed, and no two launcher-config at once, an agent and a
\* launcher-config are one at most, and a launcher that sets up is alone (KillAgent, the initial
\* clean-up).
THEOREM OrderCorrect == Spec => [](InOrder => Order)
<1>1. Init => (InOrder => Order)
  BY InitOrder
<1>2. LauncherInv /\ (InOrder => Order) /\ [Next]_vars => (InOrder => Order)'
  BY InOrderBefore, OrderStays DEF LauncherInv
<1> QED
  BY <1>1, <1>2, LauncherInvariant, PTL DEF Spec

-----------------------------------------------------------------------------
(* What a game is started with *)

\* None of what GameStartsSetUp excuses has come about.
OnTime == InOrder /\ ~Befell({"timeout", "late"})

Wanted(g) == (Groups[g] \cap wanted) \ Manual

\* From the clean-up on there is no game, and none of its agents does more than wait for it.
NoGame == main.pc \in {"cleanup", "flush", "setup", "launch", "game"} => game = "off"

Ready ==
  main.pc = "game" => configs = {} /\ \A n \in Agents : agent[n] \in {"off", "game"}

\* The groups before the next are made.
Made ==
  /\ main.pc \in {"setup", "launch", "game"} =>
       \A g \in 1 .. 3 : g < main.group => Wanted(g) \subseteq applied
  /\ main.pc \in {"launch", "game"} => main.group > 3

\* The process works at the next group, and what it does not set up is there.
Makes(c) ==
  /\ main.group \in 1 .. 3 /\ c.flags \subseteq Groups[main.group]
  /\ Wanted(main.group) \subseteq c.flags \cup applied
  /\ c.kind = "setup" =>
       /\ c.pc \notin {"ok", "failed"} => c.done \subseteq applied
       /\ c.pc = "admin" => c.flags \subseteq c.done \cup AdminSettings
       /\ c.pc = "ok" => c.flags \subseteq applied
       /\ c.pc # "stop"

Starts == NoGame /\ Ready /\ Made /\ (main.pc = "setup" => \A c \in configs : Makes(c))

LEMMA OnTimeBefore ==
  ASSUME LauncherTypes, [Next]_vars, OnTime'
  PROVE  OnTime
<1>1. troubles \subseteq troubles' /\ (overlap => overlap')
  BY HistoryStays
<1> QED
  BY <1>1 DEF OnTime, InOrder, Befell

\* A step that changes no setting and starts no launcher-config.
LEMMA StartsFramed ==
  ASSUME Order, Starts, applied' = applied, wanted' = wanted,
         \/ main' = main
         \/ main'.pc \in {"off", "wait", "revert"}
         \/ main'.pc = "cleanup" /\ game = "off"
         \/ main'.pc = "flush" /\ main.pc = "cleanup",
         main'.pc = "setup" => configs' \subseteq configs,
         main'.pc = "game" => configs' \subseteq configs /\ \A n \in Agents :
            agent'[n] = agent[n] \/ agent'[n] = "off",
         game' = "off" \/ game' = game \/ main'.pc = "off"
  PROVE  Starts'
<1>1. NoGame'
  BY DEF Starts, NoGame
<1>2. Ready'
  BY DEF Starts, Ready
<1>3. (main.pc = main'.pc /\ main'.group = main.group)
      \/ main'.pc \notin {"setup", "launch", "game"}
  OBVIOUS
<1>4. Made'
  BY <1>3 DEF Starts, Made, Wanted
<1>5. (main.pc = "setup" => \A c \in configs : Makes(c))'
  BY <1>3 DEF Starts, Makes, Wanted
<1> QED
  BY <1>1, <1>2, <1>4, <1>5 DEF Starts

LEMMA GroupsApart ==
  \A g, h \in 1 .. 3 : g # h => Groups[g] \cap Groups[h] = {}
BY GroupsAre

\* The launcher-config of the main goroutine goes on as d.
LEMMA StartsBecomes ==
  ASSUME LauncherTypes, Order, Starts, NEW c \in configs, NEW d, Become(c, d), SameRun(c, d),
         ConfigFrame, main.pc = "setup" => Makes(d)',
         main.pc = "setup" => applied \subseteq applied' \cup c.flags
  PROVE  Starts'
<1>1. main.pc = "setup" \/ main.pc \notin {"flush", "launch", "game"}
  BY DEF Order, Alone, SetsUpByMain, Starts, Ready
<1>2. configs' \subseteq {d}
  BY DEF Order, OneConfig, Become, Kept
<1>3. UNCHANGED <<main, wanted, agent, game>>
  BY DEF ConfigFrame
<1>4. NoGame' /\ Ready'
  BY <1>1, <1>3 DEF Starts, NoGame, Ready
<1>5. CASE main.pc = "setup"
  <2>1. main.group \in 1 .. 3 /\ c.flags \subseteq Groups[main.group]
    BY <1>5 DEF Starts, Makes
  <2>2. \A g \in 1 .. 3 : g < main.group => Groups[g] \cap c.flags = {}
    BY <2>1, GroupsApart
  <2>3. Made'
    BY <1>3, <1>5, <2>2 DEF Starts, Made, Wanted
  <2> QED
    BY <1>2, <1>4, <1>5, <2>3 DEF Starts
<1>6. CASE main.pc # "setup"
  <2>1. Made'
    BY <1>1, <1>3, <1>6 DEF Made
  <2> QED
    BY <1>3, <1>4, <1>6, <2>1 DEF Starts
<1> QED
  BY <1>5, <1>6

LEMMA ConfigStepStarts ==
  ASSUME LauncherTypes, Order, Starts, ConfigStep
  PROVE  Starts'
<1>1. PICK c \in configs : ChangeLocal(c) \/ SetUpAdmin(c) \/ RevertAdmin(c)
                           \/ StopAgentIfNeeded(c)
  BY DEF ConfigStep
<1>2. /\ WellFormed(c) /\ c.kind \in {"setup", "revert"} /\ c.done \subseteq c.flags
      /\ main.pc = "setup" => Makes(c)
  BY KindsOfConfig DEF Starts
<1>3. CASE ChangeLocal(c)
  <2>1. /\ ConfigFrame /\ c.pc = "local"
        /\ \E d, s :
             /\ SameRun(c, d) /\ Become(c, d)
             /\ s \in (c.flags \ c.done) \ AdminSettings
             /\ \/ /\ Possible(c.kind, s)
                   /\ applied' = Changed(c.kind, {s}) /\ troubles' = troubles
                   /\ d.done = c.done \cup {s}
                   /\ d.pc = IF (c.flags \ d.done) \ AdminSettings # {} THEN "local"
                             ELSE IF c.flags \cap AdminSettings # {} THEN "admin" ELSE "ok"
                \/ /\ \/ ~Possible(c.kind, s) /\ troubles' = troubles
                      \/ troubles' = troubles \cup {c.kind}
                   /\ applied' = Undone(c)
                   /\ d.done = c.done /\ d.pc = "failed"
    BY <1>2, <1>3, ChangeLocalIs
  <2>2. PICK d, s :
          /\ SameRun(c, d) /\ Become(c, d)
          /\ s \in (c.flags \ c.done) \ AdminSettings
          /\ \/ /\ applied' = Changed(c.kind, {s})
                /\ d.done = c.done \cup {s}
                /\ d.pc = IF (c.flags \ d.done) \ AdminSettings # {} THEN "local"
                          ELSE IF c.flags \cap AdminSettings # {} THEN "admin" ELSE "ok"
             \/ /\ applied' = Undone(c)
                /\ d.done = c.done /\ d.pc = "failed"
    BY <2>1
  <2>3. d.kind = c.kind /\ d.flags = c.flags /\ main' = main /\ wanted' = wanted
    BY <2>1, <2>2 DEF SameRun, ConfigFrame
  <2>4. applied \subseteq applied' \cup c.flags
    BY <1>2, <2>2 DEF Changed, Undone
  <2>5. CASE c.kind = "setup" /\ applied' = applied \cup {s} /\ d.done = c.done \cup {s}
             /\ d.pc = IF (c.flags \ d.done) \ AdminSettings # {} THEN "local"
                       ELSE IF c.flags \cap AdminSettings # {} THEN "admin" ELSE "ok"
    <3>1. main.pc = "setup" => d.done \subseteq applied'
      BY <1>2, <2>1, <2>5 DEF Makes
    <3>2. /\ d.pc # "local" => c.flags \subseteq d.done \cup AdminSettings
          /\ d.pc = "ok" => c.flags \subseteq d.done
      BY <2>5
    <3> QED
      BY <1>2, <2>3, <2>4, <2>5, <3>1, <3>2, <2>1, <2>2, StartsBecomes DEF Makes, Wanted
  <2>6. CASE c.kind = "revert" \/ d.pc = "failed"
    <3>1. (main.pc = "setup" => Makes(d)')
      BY <1>2, <2>3, <2>4, <2>6 DEF Makes, Wanted
    <3> QED
      BY <2>1, <2>2, <2>4, <3>1, StartsBecomes
  <2> QED
    BY <1>2, <2>2, <2>5, <2>6 DEF Changed
<1>4. CASE SetUpAdmin(c)
  <2>1. /\ ConfigFrame /\ c.kind = "setup" /\ c.pc = "admin"
        /\ \E d :
             /\ SameRun(c, d) /\ Become(c, d) /\ d.done = c.done
             /\ \/ d.pc = "ok" /\ applied' = applied \cup (c.flags \cap AdminSettings)
                \/ /\ d.pc = "failed"
                   /\ applied' = applied \ c.done \/ applied' = applied
    BY <1>2, <1>4, SetUpAdminIs
  <2>2. PICK d :
          /\ SameRun(c, d) /\ Become(c, d) /\ d.done = c.done
          /\ \/ d.pc = "ok" /\ applied' = applied \cup (c.flags \cap AdminSettings)
             \/ /\ d.pc = "failed"
                /\ applied' = applied \ c.done \/ applied' = applied
    BY <2>1
  <2>3. d.kind = c.kind /\ d.flags = c.flags /\ main' = main /\ wanted' = wanted
    BY <2>1, <2>2 DEF SameRun, ConfigFrame
  <2>4. applied \subseteq applied' \cup c.flags
    BY <1>2, <2>2
  <2>5. main.pc = "setup" /\ d.pc = "ok" => c.flags \subseteq applied'
    BY <1>2, <2>1, <2>2 DEF Makes
  <2>6. main.pc = "setup" => Makes(d)'
    BY <1>2, <2>2, <2>3, <2>4, <2>5 DEF Makes, Wanted
  <2> QED
    BY <2>1, <2>2, <2>4, <2>6, StartsBecomes
<1>5. CASE RevertAdmin(c) \/ StopAgentIfNeeded(c)
  <2>1. ConfigFrame /\ c.pc \in {"admin", "stop"} /\ (RevertAdmin(c) => c.kind = "revert")
    BY <1>2, <1>5, RevertAdminIs, StopAgentIs
  <2>2. \E d : /\ SameRun(c, d) /\ Become(c, d)
               /\ \/ \E ss : ss \subseteq c.flags /\ applied' = applied \ ss
                  \/ applied' = applied \cup c.done \/ applied' = applied
    <3>1. CASE RevertAdmin(c)
      <4>1. \E d, ss :
              /\ SameRun(c, d) /\ Become(c, d)
              /\ ss = IF admin.on THEN (c.flags \cap AdminSettings) \cap admin.did
                                  ELSE c.flags \cap AdminSettings
              /\ applied' = applied \ ss \/ applied' = applied \cup c.done
        BY <1>2, <3>1, RevertAdminIs
      <4>2. PICK d, ss :
              /\ SameRun(c, d) /\ Become(c, d)
              /\ ss = IF admin.on THEN (c.flags \cap AdminSettings) \cap admin.did
                                  ELSE c.flags \cap AdminSettings
              /\ applied' = applied \ ss \/ applied' = applied \cup c.done
        BY <4>1
      <4>3. ss \subseteq c.flags
        BY <4>2
      <4> QED
        BY <4>2, <4>3
    <3>2. CASE StopAgentIfNeeded(c)
      BY <1>2, <3>2, StopAgentIs
    <3> QED
      BY <1>5, <3>1, <3>2
  <2>3. PICK d : /\ SameRun(c, d) /\ Become(c, d)
                 /\ \/ \E ss : ss \subseteq c.flags /\ applied' = applied \ ss
                    \/ applied' = applied \cup c.done \/ applied' = applied
    BY <2>2
  <2>4. d.kind = c.kind /\ d.flags = c.flags /\ main' = main /\ wanted' = wanted
    BY <2>1, <2>3 DEF SameRun, ConfigFrame
  <2>5. applied \subseteq applied' \cup c.flags
    BY <2>3
  <2>6. main.pc = "setup" => c.kind = "revert"
    BY <1>2, <1>5, <2>1, StopAgentIs DEF Makes
  <2>7. main.pc = "setup" => Makes(d)'
    BY <1>2, <2>4, <2>5, <2>6 DEF Makes, Wanted
  <2> QED
    BY <2>1, <2>3, <2>5, <2>7, StartsBecomes
<1> QED
  BY <1>1, <1>3, <1>4, <1>5

\* Nobody reverts from the flush to the game.
LEMMA NobodyReverts ==
  ASSUME Turns, InOrder, Order, Ready, NEW p \in Actors, RevertStep(p)
  PROVE  main.pc \notin {"flush", "setup", "launch", "game"}
<1>1. revert[p].at # "idle"
  BY DEF RevertStep, Interrupt, Kill, Load, Delete
<1>2. KilledIfSignalled
  BY DEF Order
<1>3. p = Main \/ (p \in AgentActors /\ p # Main /\ ~NobodyRuns)
  BY <1>1, <1>2, OthersTurn
<1>4. ASSUME main.pc \in {"flush", "setup", "launch"} PROVE FALSE
  BY <1>1, <1>3, <1>4 DEF Order, Alone, Turns, LaunchersTurns
<1>5. ASSUME main.pc = "game" PROVE FALSE
  <2>1. revert[Main].at = "idle"
    BY <1>5 DEF Turns, LaunchersTurns
  <2>2. PICK n \in Agents : p = Watch(n) \/ p = AgentHandler(n)
    BY <1>1, <1>3, <2>1, ActorsAre
  <2>3. p # Watch(n)
    BY <1>1, <1>5 DEF Ready, Turns, AgentsTurns
  <2>4. p # AgentHandler(n)
    BY <1>1, <1>2, <2>1, NoHandler
  <2> QED
    BY <2>2, <2>3, <2>4
<1> QED
  BY <1>4, <1>5

LEMMA RevertStepStarts ==
  ASSUME LauncherTypes, Turns, InOrder, Order, Starts, NEW p \in Actors, RevertStep(p)
  PROVE  Starts'
<1>1. UNCHANGED <<applied, wanted, main, game>>
  BY DEF RevertStep, Interrupt, Kill, Load, Delete, launcherVars, started, bounds
<1>2. main.pc \notin {"flush", "setup", "launch", "game"}
  BY NobodyReverts DEF Starts
<1> QED
  BY <1>1, <1>2, StartsFramed

LEMMA SetUpStarts ==
  ASSUME LauncherTypes, Turns, Order, Starts, SetUp
  PROVE  Starts'
<1>0. OtherTypes /\ Main \in Actors
  BY TypesAre, ActorsAre
<1>1. /\ main.pc = "setup" /\ ChildOf(Main) = {}
      /\ UNCHANGED <<applied, wanted, agent, game>>
  BY DEF SetUp, At, agentVars, bounds, started
<1>2. configs = {}
  BY <1>1 DEF Order, Alone, SetsUpByMain, ChildOf
<1>3. game = "off" /\ \A g \in 1 .. 3 : g < main.group => Wanted(g) \subseteq applied
  BY <1>1 DEF Starts, NoGame, Made
<1>4. CASE main.group > Len(Groups) /\ GoTo("launch") /\ UNCHANGED configs
  <2>1. main'.pc = "launch" /\ main'.group = main.group
    BY <1>0, <1>4, GoToIs DEF Places
  <2>2. Made'
    BY <1>1, <1>3, <1>4, <2>1, GroupsAre DEF Made, Wanted
  <2> QED
    BY <1>1, <1>3, <2>1, <2>2 DEF Starts, NoGame, Ready
<1>5. CASE ~(main.group > Len(Groups))
  <2>1. main.group \in 1 .. 3
    BY <1>0, <1>5, GroupsAre DEF OtherTypes
  <2>2. PICK inOrder \in SUBSET (Checked \cap applied) :
          LET flags == (Groups[main.group] \cap wanted) \ (Manual \cup inOrder) IN
          IF flags = {}
          THEN main' = [main EXCEPT !.group = @ + 1] /\ UNCHANGED <<configs, overlap>>
          ELSE Run(Main, "setup", flags) /\ UNCHANGED main
    BY <1>5 DEF SetUp
  <2>3. PICK flags : flags = (Groups[main.group] \cap wanted) \ (Manual \cup inOrder)
    OBVIOUS
  <2>4. Wanted(main.group) \subseteq flags \cup applied
    BY <2>2, <2>3 DEF Wanted
  <2>5. CASE flags = {} /\ main' = [main EXCEPT !.group = @ + 1] /\ UNCHANGED configs
    <3>1. main'.pc = "setup" /\ main'.group = main.group + 1
      BY <1>0, <1>1, <2>5, MainTypes
    <3>2. \A g \in 1 .. 3 : g < main.group + 1 => g < main.group \/ g = main.group
      BY <2>1
    <3>3. Made'
      BY <1>1, <1>3, <2>4, <2>5, <3>1, <3>2 DEF Made, Wanted
    <3> QED
      BY <1>1, <1>2, <1>3, <2>5, <3>1, <3>3 DEF Starts, NoGame, Ready
  <2>6. CASE Run(Main, "setup", flags) /\ UNCHANGED main
    <3>1. flags \in SUBSET Settings /\ flags \subseteq Groups[main.group]
      BY <2>1, <2>3, GroupsAre
    <3>2. PICK d : /\ d = Spawn(Main, "setup", flags) /\ d.kind = "setup"
                   /\ d.flags = flags /\ d.done = {} /\ d.pc = StartsAt(flags)
      BY <1>0, <3>1, SpawnIs
    <3>3. configs' = {d}
      BY <1>2, <2>6, <3>2 DEF Run
    <3>4. (d.pc = "admin" => flags \subseteq AdminSettings)
          /\ (d.pc = "ok" => flags = {}) /\ d.pc # "stop"
      BY <3>2 DEF StartsAt
    <3>5. Makes(d)'
      BY <1>1, <2>1, <2>4, <2>6, <3>1, <3>2, <3>4 DEF Makes, Wanted
    <3>6. Made'
      BY <1>1, <1>3, <2>6 DEF Made, Wanted
    <3> QED
      BY <1>1, <1>3, <2>6, <3>3, <3>5, <3>6 DEF Starts, NoGame, Ready
  <2> QED
    BY <2>2, <2>3, <2>5, <2>6
<1> QED
  BY <1>4, <1>5 DEF SetUp

LEMMA StoreFlagsStarts ==
  ASSUME LauncherTypes, Order, Starts, StoreFlags
  PROVE  Starts'
<1>0. OtherTypes /\ RevertTypes(revert) /\ Main \in Actors
  BY TypesAre, ActorsAre
<1>1. main.pc = "setup" /\ UNCHANGED <<applied, wanted, agent, game>>
  BY DEF StoreFlags, At, mainFrame, agentVars, started
<1>2. PICK c \in ChildOf(Main) :
        \/ /\ c.pc = "ok" /\ c.kind = "setup"
           /\ main' = [main EXCEPT !.group = @ + 1] /\ configs' = configs \ {c}
        \/ /\ configs' = (configs \ {c}) \cup {Spawn(Main, "revert", c.flags)}
           /\ UNCHANGED main
        \/ Fail
  BY DEF StoreFlags
<1>3. c \in configs /\ configs \ {c} = {} /\ Makes(c)
  BY <1>1, <1>2 DEF Order, OneConfig, Starts, ChildOf
<1>4. game = "off" /\ \A g \in 1 .. 3 : g < main.group => Wanted(g) \subseteq applied
  BY <1>1 DEF Starts, NoGame, Made
<1>5. CASE /\ c.pc = "ok" /\ c.kind = "setup"
           /\ main' = [main EXCEPT !.group = @ + 1] /\ configs' = configs \ {c}
  <2>1. main'.pc = "setup" /\ main'.group = main.group + 1
    BY <1>0, <1>1, <1>5, MainTypes
  <2>2. Wanted(main.group) \subseteq applied /\ main.group \in 1 .. 3
    BY <1>3, <1>5 DEF Makes
  <2>3. \A g \in 1 .. 3 : g < main.group + 1 => g < main.group \/ g = main.group
    BY <2>2
  <2>4. Made'
    BY <1>1, <1>4, <2>1, <2>2, <2>3 DEF Made, Wanted
  <2> QED
    BY <1>1, <1>3, <1>4, <1>5, <2>1, <2>4 DEF Starts, NoGame, Ready
<1>6. CASE /\ configs' = (configs \ {c}) \cup {Spawn(Main, "revert", c.flags)}
           /\ UNCHANGED main
  <2>1. c.flags \in SUBSET Settings
    BY <1>3, KindsOfConfig
  <2>2. PICK d : /\ d = Spawn(Main, "revert", c.flags) /\ d.kind = "revert"
                 /\ d.flags = c.flags
    BY <1>0, <2>1, SpawnIs
  <2>3. Makes(d)'
    BY <1>1, <1>3, <1>6, <2>2 DEF Makes, Wanted
  <2>4. Made'
    BY <1>1, <1>4, <1>6 DEF Made, Wanted
  <2> QED
    BY <1>1, <1>3, <1>4, <1>6, <2>2, <2>3, <2>4 DEF Starts, NoGame, Ready
<1>7. CASE Fail
  <2>1. main'.pc = "revert"
    BY <1>0, <1>7, FailIs
  <2> QED
    BY <1>1, <2>1, StartsFramed
<1> QED
  BY <1>2, <1>5, <1>6, <1>7

LEMMA LauncherStepStarts ==
  ASSUME LauncherTypes, Turns, InOrder, OnTime', Order, Starts, Start \/ LauncherStep
  PROVE  Starts'
<1>0. OtherTypes /\ RevertTypes(revert)
  BY TypesAre
<1> USE DEF launcherVars, agentVars, started, bounds, mainFrame
<1>1. {"off", "wait", "cleanup", "flush", "setup", "launch", "game", "revert"} \subseteq Places
  BY DEF Places
<1>2. \A x \in Places : GoTo(x) => main'.pc = x /\ main'.group = main.group
  BY <1>0, GoToIs
<1>3. Fail => main'.pc = "revert"
  BY <1>0, FailIs
<1>4. LauncherEnds => main'.pc = "off"
  BY DEF LauncherEnds
<1>5. ASSUME Start PROVE Starts'
  <2>1. main'.pc = "wait"
    BY <1>1, <1>2, <1>5 DEF Start
  <2> QED
    BY <1>5, <2>1, StartsFramed DEF Start
<1>6. ASSUME Waited PROVE Starts'
  <2>1. game \in {"off", "starting", "on"} /\ game # "starting"
    BY <1>0, <1>6 DEF Waited, OtherTypes, Trouble, OnTime, Befell
  <2>2. main'.pc = "revert" \/ (main'.pc = "cleanup" /\ game = "off")
    BY <1>1, <1>2, <1>3, <1>6, <2>1 DEF Waited
  <2> QED
    BY <1>6, <2>2, StartsFramed DEF Waited
<1>7. ASSUME CleanedUp PROVE Starts'
  <2>1. main.pc = "cleanup" /\ main'.pc = "flush"
    BY <1>1, <1>2, <1>7 DEF CleanedUp, At
  <2> QED
    BY <1>7, <2>1, StartsFramed DEF CleanedUp
<1>8. ASSUME FlushCache PROVE Starts'
  <2>1. main.pc = "flush" /\ UNCHANGED <<applied, wanted, agent, game, configs>>
    BY <1>8 DEF FlushCache, At
  <2>2. CASE Fail
    BY <1>3, <2>1, <2>2, StartsFramed
  <2>3. CASE GoTo("setup")
    <3>1. main'.pc = "setup" /\ main'.group = main.group
      BY <1>1, <1>2, <2>3
    <3>2. main.group = 1 /\ configs = {} /\ game = "off"
      BY <2>1 DEF Order, FirstGroup, Alone, SetsUpByMain, Starts, NoGame
    <3>3. Made'
      BY <3>1, <3>2 DEF Made
    <3> QED
      BY <2>1, <3>1, <3>2, <3>3 DEF Starts, NoGame, Ready
  <2> QED
    BY <1>8, <2>2, <2>3 DEF FlushCache
<1>9. ASSUME StartAgent PROVE Starts'
  <2>1. main.pc = "launch" /\ UNCHANGED <<applied, wanted, game, configs>>
    BY <1>9 DEF StartAgent, At
  <2>2. CASE Fail
    BY <1>3, <2>1, <2>2, StartsFramed
  <2>3. CASE GoTo("game") /\ (agent' = agent \/ agent' = [agent EXCEPT ![runs] = "game"])
    <3>1. main'.pc = "game" /\ main'.group = main.group
      BY <1>1, <1>2, <2>3
    <3>2. NobodyRuns /\ configs = {} /\ game = "off"
      BY <2>1 DEF Order, Alone, SetsUpByMain, Starts, NoGame
    <3>3. \A n \in Agents : agent'[n] \in {"off", "game"}
      BY <1>0, <2>3, <3>2 DEF NobodyRuns, Running, OtherTypes
    <3>4. Made'
      BY <2>1, <3>1 DEF Starts, Made, Wanted
    <3> QED
      BY <2>1, <3>1, <3>2, <3>3, <3>4 DEF Starts, NoGame, Ready
  <2> QED
    BY <1>9, <2>2, <2>3 DEF StartAgent
<1>10. ASSUME StartGame PROVE Starts'
  <2>1. UNCHANGED <<applied, wanted>> /\ (game' = game \/ LauncherEnds) /\ (Fail \/ LauncherEnds)
    BY <1>10 DEF StartGame
  <2> QED
    BY <1>3, <1>4, <2>1, StartsFramed
<1>11. ASSUME CheckFails PROVE Starts'
  BY <1>3, <1>11, StartsFramed DEF CheckFails
<1>12. ASSUME Exit PROVE Starts'
  BY <1>4, <1>12, StartsFramed DEF Exit
<1> QED
  BY <1>5, <1>6, <1>7, <1>8, <1>9, <1>10, <1>11, <1>12, SetUpStarts, StoreFlagsStarts
     DEF LauncherStep

LEMMA OtherStepStarts ==
  ASSUME LauncherTypes, Turns, InOrder, OnTime', Order, Starts,
         GameStep \/ Disturb \/ (\E n \in Agents : AgentStep(n)) \/ UNCHANGED vars
  PROVE  Starts'
<1>0. OtherTypes /\ RevertTypes(revert)
  BY TypesAre
<1> USE DEF launcherVars, agentVars, started, bounds, agentFrame
<1>1. ASSUME GameStep PROVE Starts'
  <2>1. main.pc # "game"
    BY <1>1 DEF GameStep, Starts, NoGame
  <2>2. game' \in {"on", "off"} /\ game # "off"
    BY <1>1 DEF GameStep
  <2>3. main'.pc \notin {"cleanup", "flush", "setup", "launch", "game"}
    BY <1>1, <2>2 DEF GameStep, Starts, NoGame
  <2> QED
    BY <1>1, <2>3 DEF GameStep, Starts, NoGame, Ready, Made
<1>2. ASSUME UNCHANGED vars PROVE Starts'
  BY <1>2, StartsFramed DEF vars
<1>3. ASSUME NEW n \in Agents, AgentEnds(n, revert),
             UNCHANGED <<applied, wanted, main, game>>
      PROVE  Starts'
  <2>1. \A m \in Agents : agent'[m] = agent[m] \/ agent'[m] = "off"
    BY <1>0, <1>3 DEF AgentEnds, OtherTypes
  <2>2. configs' = Orphaned(ActorsOf(n)) /\ Main \notin ActorsOf(n)
    BY <1>3, ActorsDiffer DEF AgentEnds, ActorsOf
  <2>3. /\ configs = {} => configs' = {}
        /\ \A e \in configs' :
             \/ e \in configs /\ e.by \notin ActorsOf(n)
             \/ \E c \in configs : /\ c.by \in ActorsOf(n) /\ e.by = c.by /\ e.orphan
                                   /\ e.flags = c.flags
    BY <2>2, FewerConfigs
  <2>4. main.pc = "setup" => configs' \subseteq configs
    BY <2>2, <2>3 DEF Order, Alone, SetsUpByMain
  <2>5. main.pc = "game" => configs' \subseteq configs
    BY <2>3 DEF Starts, Ready
  <2> QED
    BY <1>3, <2>1, <2>4, <2>5, StartsFramed
<1>4. ASSUME Disturb PROVE Starts'
  <2>1. ~SignalLauncher /\ ~KillLauncher /\ \A n \in Agents : ~SignalAgent(n)
    BY DEF SignalLauncher, KillLauncher, SignalAgent, Trouble, OnTime, InOrder, Befell
  <2>2. CASE KillAdminAgent
    BY <2>2, StartsFramed DEF KillAdminAgent
  <2>3. ASSUME NEW n \in Agents, KillLauncherAgent(n) PROVE Starts'
    BY <1>3, <2>3 DEF KillLauncherAgent
  <2> QED
    BY <1>4, <2>1, <2>2, <2>3 DEF Disturb
<1>5. ASSUME NEW n \in Agents, AgentStep(n) PROVE Starts'
  <2>1. CASE SeeGame(n)
    <3>1. main.pc # "game"
      BY <2>1 DEF SeeGame, Starts, NoGame
    <3> QED
      BY <2>1, <3>1, StartsFramed DEF SeeGame
  <2>2. CASE SeeEnd(n)
    <3>1. main.pc # "game"
      BY <2>2 DEF SeeEnd, EndWatch, Starts, Ready, Trouble, OnTime, Befell
    <3> QED
      BY <2>2, <3>1, StartsFramed DEF SeeEnd, EndWatch
  <2>3. CASE Unlist(n)
    BY <2>3, StartsFramed DEF Unlist
  <2>4. CASE AgentExits(n)
    BY <1>3, <2>4 DEF AgentExits
  <2> QED
    BY <1>5, <2>1, <2>2, <2>3, <2>4 DEF AgentStep
<1> QED
  BY <1>1, <1>2, <1>4, <1>5

LEMMA InitStarts == Init => Starts
BY DEF Init, Starts, NoGame, Ready, Made

LEMMA StartsStay ==
  ASSUME LauncherTypes, Turns, InOrder, OnTime', Order, Starts, [Next]_vars
  PROVE  Starts'
BY ConfigStepStarts, RevertStepStarts, LauncherStepStarts, OtherStepStarts DEF Next

\* The game is started with all groups made.
LEMMA GameStartIsSetUp ==
  ASSUME LauncherTypes, Starts, [Next]_vars, game = "off", game' = "starting"
  PROVE  wanted \ Manual \subseteq applied
<1>1. main.pc = "game"
  <2>1. StartGame \/ game' = game \/ game # "off"
    BY DEF Next, LauncherStep, ConfigStep, GameStep, Disturb, AgentStep, RevertStep, vars,
       Start, Waited, CleanedUp, FlushCache, SetUp, StoreFlags, StartAgent, CheckFails, Exit,
       ChangeLocal, SetUpAdmin, RevertAdmin, StopAgentIfNeeded, configFrame, agentFrame,
       SignalLauncher, KillLauncher, KillAdminAgent, SignalAgent, KillLauncherAgent,
       SeeGame, SeeEnd, EndWatch, Unlist, AgentExits, Interrupt, Kill, Load, Delete
  <2> QED
    BY <2>1 DEF StartGame, At
<1>2. \A g \in 1 .. 3 : Wanted(g) \subseteq applied
  BY <1>1 DEF Starts, Made, LauncherTypes
<1>3. wanted \subseteq Settings
  BY SettingsAssumption DEF LauncherTypes
<1>4. /\ Wanted(1) \subseteq applied /\ Wanted(2) \subseteq applied /\ Wanted(3) \subseteq applied
  BY <1>2
<1> QED
  BY <1>3, <1>4, GroupsAre DEF Wanted, Settings

\* A game is started with every setting made, whatever earlier launchers and their agents were
\* doing, for any number of them (the clean-up, SetUp, StartGame).
THEOREM GameStartsCorrect == Spec => GameStartsSetUp
<1>1. Init => (OnTime => Starts)
  BY InitStarts
<1>2. LauncherInv /\ (InOrder => Order) /\ (OnTime => Starts) /\ [Next]_vars
        => (OnTime => Starts)'
  BY OnTimeBefore, StartsStay DEF LauncherInv, OnTime
<1>3. LauncherInv /\ (OnTime => Starts) /\ [Next]_vars
        => [game = "off" /\ game' = "starting" =>
              \/ wanted \ Manual \subseteq applied
              \/ overlap
              \/ Befell({"signal", "kill", "agentSignal", "timeout", "late"})]_vars
  BY GameStartIsSetUp DEF LauncherInv, OnTime, InOrder, Befell
<1> QED
  BY <1>1, <1>2, <1>3, LauncherInvariant, OrderCorrect, PTL DEF Spec, GameStartsSetUp

-----------------------------------------------------------------------------
(* The elevated agent *)

\* None of what AdminAgentEnds excuses has come about.
Fine == InOrder /\ ~unknowing /\ ~Befell({"stopAgent", "revert"})

AdminWanted == wanted \cap AdminSettings # {}

Stored == store \cap AdminSettings # {}

\* The launcher will stop it for want of flags.
StopsIt ==
  /\ adminStarted
  /\ \/ main.pc = "setup"
     \/ main.pc = "revert" /\ revert[Main].at \in {"interrupt", "kill", "load"}

AllOfGroup(c) ==
  /\ main.group \in 1 .. 3 /\ c.flags # {}
  /\ c.flags = Groups[main.group] \cap wanted

\* The first group that is set up is the administrator's, and nothing of it is in order.
NoneYet ==
  main.pc = "setup" =>
    /\ \A g \in 1 .. 3 : g < main.group => Groups[g] \cap wanted = {}
    /\ \A c \in configs : AllOfGroup(c)

\* This launcher-config has stopped the agent.
HasStopped(c) ==
  c.kind = "revert" /\ c.pc = "ok" /\ c.flags \cap AdminSettings # {} => ~admin.on

Ends ==
  /\ admin.on => AdminWanted
  /\ AdminWanted => store = {} \/ Stored
  /\ AdminWanted /\ store = {} => NoneYet
  /\ admin.on /\ store = {} => StopsIt
  /\ \A c \in configs : HasStopped(c)

LEMMA FineBefore ==
  ASSUME LauncherTypes, [Next]_vars, Fine'
  PROVE  Fine
<1>1. troubles \subseteq troubles' /\ (overlap => overlap') /\ (unknowing => unknowing')
  BY HistoryStays
<1> QED
  BY <1>1 DEF Fine, InOrder, Befell

LEMMA FineUnexcused == Fine => Unexcused
BY DEF Fine, InOrder, Unexcused, Befell

\* A step that starts no agent and leaves the file as it is.
LEMMA EndsFramed ==
  ASSUME Ends, store' = store, wanted' = wanted, admin'.on => admin.on,
         \A e \in configs' : HasStopped(e)',
         main'.pc = "setup" =>
           main' = main /\ \A e \in configs' : \E c \in configs : e.flags = c.flags,
         admin'.on /\ store = {} => StopsIt'
  PROVE  Ends'
<1>1. AdminWanted' = AdminWanted /\ Stored' = Stored
  BY DEF AdminWanted, Stored
<1>2. NoneYet => NoneYet'
  BY DEF NoneYet, AllOfGroup
<1> QED
  BY <1>1, <1>2 DEF Ends

\* The first group wanted holds what the administrator changes.
LEMMA FirstIsAdmins ==
  ASSUME OtherTypes, AdminWanted, NEW g \in 1 .. 3,
         \A h \in 1 .. 3 : h < g => Groups[h] \cap wanted = {}
  PROVE  Groups[g] \cap wanted # {} => Groups[g] \cap wanted \cap AdminSettings # {}
<1>1. ~({"localCert", "userCert"} \subseteq wanted)
  BY SettingsAssumption DEF OtherTypes
<1>2. g = 1 \/ g = 2 \/ g = 3
  OBVIOUS
<1>3. CASE g = 1
  BY <1>3, GroupsAre DEF AdminSettings
<1>4. CASE g = 2
  <2>1. "hosts" \notin wanted
    BY <1>4, GroupsAre
  <2>2. "localCert" \in wanted
    BY <2>1 DEF AdminWanted, AdminSettings
  <2> QED
    BY <1>4, <2>2, GroupsAre DEF AdminSettings
<1>5. CASE g = 3
  <2>1. "hosts" \notin wanted /\ "localCert" \notin wanted
    BY <1>5, GroupsAre
  <2> QED
    BY <2>1 DEF AdminWanted, AdminSettings
<1> QED
  BY <1>2, <1>3, <1>4, <1>5

LEMMA ConfigStepEnds ==
  ASSUME LauncherTypes, Order, Ends, ConfigStep
  PROVE  Ends'
<1>1. PICK c \in configs : ChangeLocal(c) \/ SetUpAdmin(c) \/ RevertAdmin(c)
                           \/ StopAgentIfNeeded(c)
  BY DEF ConfigStep
<1>2. WellFormed(c) /\ configs = {c}
  BY KindsOfConfig DEF Order, OneConfig
<1>3. admin \in [on : BOOLEAN, did : SUBSET AdminSettings] /\ ~NoAdmin.on
  BY DEF LauncherTypes, NoAdmin
<1>4. ASSUME NEW d, SameRun(c, d), Become(c, d), ConfigFrame, admin'.on => admin.on,
             d.kind = "revert" /\ d.pc = "ok" /\ d.flags \cap AdminSettings # {} => ~admin'.on
      PROVE  Ends'
  <2>1. configs' \subseteq {d}
    BY <1>2, <1>4 DEF Become, Kept
  <2>2. d.flags = c.flags /\ UNCHANGED <<store, wanted, main, revert, adminStarted>>
    BY <1>4 DEF SameRun, ConfigFrame
  <2>3. StopsIt => StopsIt'
    BY <2>2 DEF StopsIt
  <2>4. HasStopped(d)'
    BY <1>4 DEF HasStopped
  <2> QED
    BY <1>2, <1>4, <2>1, <2>2, <2>3, <2>4, EndsFramed DEF Ends
<1>5. CASE ChangeLocal(c)
  <2>1. /\ ConfigFrame /\ admin' = admin
        /\ \E d, s :
             /\ SameRun(c, d) /\ Become(c, d)
             /\ s \in (c.flags \ c.done) \ AdminSettings
             /\ \/ d.pc = IF (c.flags \ d.done) \ AdminSettings # {} THEN "local"
                          ELSE IF c.flags \cap AdminSettings # {} THEN "admin" ELSE "ok"
                \/ d.pc = "failed"
    BY <1>2, <1>5, ChangeLocalIs
  <2>2. PICK d :
          /\ SameRun(c, d) /\ Become(c, d)
          /\ \/ d.pc = IF (c.flags \ d.done) \ AdminSettings # {} THEN "local"
                       ELSE IF c.flags \cap AdminSettings # {} THEN "admin" ELSE "ok"
             \/ d.pc = "failed"
    BY <2>1
  <2>3. d.pc = "ok" => d.flags \cap AdminSettings = {}
    BY <2>2 DEF SameRun
  <2> QED
    BY <1>4, <2>1, <2>2, <2>3
<1>6. CASE SetUpAdmin(c)
  <2>1. /\ ConfigFrame /\ c.kind = "setup"
        /\ \E d :
             /\ SameRun(c, d) /\ Become(c, d)
             /\ \/ admin' = admin
                \/ admin.on
                \/ admin' = NoAdmin
    BY <1>2, <1>6, SetUpAdminIs
  <2>2. PICK d : /\ SameRun(c, d) /\ Become(c, d)
                 /\ \/ admin' = admin
                    \/ admin.on
                    \/ admin' = NoAdmin
    BY <2>1
  <2>3. d.kind = "setup" /\ (admin'.on => admin.on)
    BY <1>3, <2>1, <2>2 DEF SameRun
  <2> QED
    BY <1>4, <2>1, <2>2, <2>3
<1>7. CASE RevertAdmin(c)
  <2>1. /\ ConfigFrame
        /\ \E d, ss : /\ SameRun(c, d) /\ Become(c, d)
                      /\ \/ d.pc = "stop" /\ admin' = [admin EXCEPT !.did = @ \ ss]
                         \/ d.pc = "failed" /\ admin' = admin
    BY <1>2, <1>7, RevertAdminIs
  <2>2. PICK d, ss : /\ SameRun(c, d) /\ Become(c, d)
                     /\ \/ d.pc = "stop" /\ admin' = [admin EXCEPT !.did = @ \ ss]
                        \/ d.pc = "failed" /\ admin' = admin
    BY <2>1
  <2>3. admin'.on = admin.on
    BY <1>3, <2>2, AdminTypes
  <2> QED
    BY <1>4, <2>1, <2>2, <2>3
<1>8. CASE StopAgentIfNeeded(c)
  <2>1. /\ ConfigFrame
        /\ \E d : /\ SameRun(c, d) /\ Become(c, d)
                  /\ \/ d.pc = "ok" /\ admin' = NoAdmin
                     \/ d.pc = "failed" /\ admin' = admin
    BY <1>2, <1>8, StopAgentIs
  <2> QED
    BY <1>3, <1>4, <2>1
<1> QED
  BY <1>1, <1>5, <1>6, <1>7, <1>8

\* What is left of the launcher-config processes when others end.
LEMMA StoppedOrphans ==
  ASSUME LauncherTypes, Ends, NEW ps, configs' = Orphaned(ps), admin' = admin
  PROVE  /\ \A e \in configs' : HasStopped(e)'
         /\ \A e \in configs' : \E c \in configs : e.flags = c.flags
<1>1. \A c \in configs : WellFormed(c)
  BY DEF LauncherTypes
<1>2. \A e \in Orphaned(ps) :
        \/ e \in configs /\ e.by \notin ps
        \/ \E c \in configs : /\ e = [c EXCEPT !.orphan = TRUE] /\ c.by \in ps
                              /\ WellFormed(e) /\ e.by = c.by /\ e.orphan
                              /\ e.kind = c.kind /\ e.pc = c.pc /\ e.flags = c.flags
                              /\ e.done = c.done
  BY <1>1, OrphanedAre
<1>3. \A e \in configs' :
        \E c \in configs : e.kind = c.kind /\ e.pc = c.pc /\ e.flags = c.flags
  BY <1>2
<1> QED
  BY <1>3 DEF Ends, HasStopped

LEMMA RevertStepEnds ==
  ASSUME LauncherTypes, Turns, Left, InOrder, Fine', Order, Ends, NEW p \in Actors, RevertStep(p)
  PROVE  Ends'
<1>0. OtherTypes /\ Main \in Actors /\ Main \in LauncherActors /\ KilledIfSignalled
      /\ Main # Handler /\ ~NoAdmin.on
  BY TypesAre, ActorsAre DEF Order, NoAdmin
<1> USE DEF launcherVars, agentVars, started, bounds
<1>1. main.pc # "setup"
  <2>1. revert[p].at # "idle"
    BY DEF RevertStep, Interrupt, Kill, Load, Delete
  <2>2. p = Main \/ (p \in AgentActors /\ p # Main /\ ~NobodyRuns)
    BY <1>0, <2>1, OthersTurn
  <2> QED
    BY <2>1, <2>2 DEF Order, Alone, Turns, LaunchersTurns
<1>2. ASSUME Interrupt(p) PROVE Ends'
  <2>1. revert[p].at = "interrupt" /\ p \in LauncherActors
    BY <1>2 DEF Interrupt, Turns, LaunchersKill
  <2>2. p = Main
    BY <1>0, <2>1, NoHandler, ActorsAre
  <2>3. UNCHANGED <<store, configs, main, admin, adminStarted, wanted>>
        /\ revert'[Main].at \in {"load", "kill"}
    BY <1>2, <2>1, <2>2, InterruptIs DEF Moved
  <2>4. StopsIt => StopsIt'
    BY <2>3 DEF StopsIt
  <2> QED
    BY <2>3, <2>4, EndsFramed DEF Ends, HasStopped
<1>3. ASSUME Kill(p) PROVE Ends'
  <2>1. revert[p].at = "kill" /\ p \in LauncherActors
    BY <1>3 DEF Kill, Turns, LaunchersKill
  <2>2. p = Main
    BY <1>0, <2>1, NoHandler, ActorsAre
  <2>3. /\ UNCHANGED <<store, main, admin, adminStarted, wanted>> /\ revert'[Main].at = "load"
        /\ \E n \in Agents : configs' = Orphaned(ActorsOf(n))
    BY <1>3, <2>1, <2>2, KillsAre
  <2>4. StopsIt => StopsIt'
    BY <2>3 DEF StopsIt
  <2>5. \A e \in configs' : HasStopped(e)'
    BY <2>3, StoppedOrphans
  <2> QED
    BY <1>1, <2>3, <2>4, <2>5, EndsFramed DEF Ends
<1>4. ASSUME Load(p) PROVE Ends'
  <2>1. /\ revert[p].at = "load"
        /\ UNCHANGED <<store, main, adminStarted, wanted>> /\ "stopAgent" \notin troubles'
        /\ \/ /\ Moved(revert', revert, p, "idle") /\ UNCHANGED configs
              /\ \/ /\ store = {}
                    /\ admin' = IF StopsAdmin(p) /\ adminStarted THEN NoAdmin ELSE admin
                 \/ p \in AgentActors /\ store # {} /\ admin' = admin
           \/ /\ store # {} /\ UNCHANGED admin
              /\ overlap' = (overlap \/ configs # {})
              /\ \E d : /\ configs' = configs \cup {d}
                        /\ d.flags = store /\ d.pc = StartsAt(store)
    BY <1>4, LoadIs DEF Fine, Befell
  <2>2. admin' = NoAdmin \/ admin' = admin
    BY <2>1
  <2>3. admin'.on => admin.on
    BY <1>0, <2>2
  <2>4. ASSUME store = {}, admin'.on PROVE StopsIt'
    <3>1. StopsIt /\ adminStarted /\ admin' = admin
      BY <1>0, <2>2, <2>3, <2>4 DEF Ends, StopsIt
    <3>2. main.pc = "revert"
      BY <1>1, <3>1 DEF StopsIt
    <3>3. p # Main
      BY <1>0, <2>1, <2>4, <3>1, <3>2 DEF StopsAdmin
    <3>4. revert'[Main] = revert[Main]
      BY <1>0, <2>1, <2>4, <3>3 DEF Moved
    <3> QED
      BY <2>1, <3>1, <3>4 DEF StopsIt
  <2>5. \A e \in configs' : HasStopped(e)'
    <3>1. \A c \in configs : HasStopped(c)'
      BY <2>3 DEF Ends, HasStopped
    <3>2. ASSUME NEW d, d.flags = store, d.pc = StartsAt(store) PROVE HasStopped(d)'
      BY <3>2 DEF HasStopped, StartsAt
    <3> QED
      BY <2>1, <3>1, <3>2
  <2> QED
    BY <1>1, <2>1, <2>3, <2>4, <2>5, EndsFramed
<1>5. ASSUME Delete(p) PROVE Ends'
  <2>1. /\ revert[p].at = "run"
        /\ UNCHANGED <<main, admin, adminStarted, wanted>>
        /\ \E c \in configs : /\ c.by = p /\ ~c.orphan
                              /\ configs' = configs \ {c}
                              /\ store' = IF c.pc = "ok" THEN {} ELSE store
    BY <1>5, DeleteIs
  <2>2. PICK c \in configs : /\ c.by = p /\ ~c.orphan
                             /\ configs' = configs \ {c}
                             /\ store' = IF c.pc = "ok" THEN {} ELSE store
    BY <2>1
  <2>3. configs' = {} /\ RevertsFile(c)
    BY <1>1, <2>2 DEF Order, OneConfig, SetsUpByMain
  <2>4. c.kind = "revert"
    BY <1>1, KindsOfConfig DEF Left, GoesOn, SetsUp
  <2>5. c.flags = store /\ store # {}
    BY <2>3 DEF RevertsFile
  <2>6. admin.on => c.pc # "ok"
    BY <2>4, <2>5 DEF Ends, HasStopped, Stored
  <2>7. AdminWanted' = AdminWanted /\ (store' = store => Stored' = Stored)
    BY <2>1 DEF AdminWanted, Stored
  <2>8. NoneYet'
    BY <1>1, <2>1 DEF NoneYet
  <2> QED
    BY <2>1, <2>2, <2>3, <2>5, <2>6, <2>7, <2>8 DEF Ends
<1> QED
  BY <1>2, <1>3, <1>4, <1>5 DEF RevertStep

LEMMA LauncherStepEnds ==
  ASSUME LauncherTypes, Turns, Left, InOrder, Order, Ends, Manual = {}, Start \/ LauncherStep
  PROVE  Ends'
<1>0. OtherTypes /\ RevertTypes(revert) /\ Main \in Actors
  BY TypesAre, ActorsAre
<1> USE DEF launcherVars, agentVars, started, bounds, mainFrame
<1>1. {"off", "wait", "cleanup", "flush", "setup", "launch", "game", "revert"} \subseteq Places
  BY DEF Places
<1>2. \A x \in Places : GoTo(x) => main'.pc = x /\ main'.group = main.group
  BY <1>0, GoToIs
<1>3. Fail => main'.pc = "revert" /\ revert'[Main].at = "interrupt"
  BY <1>0, FailIs DEF Moved
<1>4. ASSUME UNCHANGED <<store, wanted, admin, configs>>, main'.pc # "setup",
             main.pc \notin {"setup", "revert"}
      PROVE  Ends'
  BY <1>4, EndsFramed DEF Ends, StopsIt, HasStopped
<1>5. ASSUME LauncherEnds, UNCHANGED <<store, wanted, admin>>, main.pc # "setup",
             main.pc = "revert" => revert[Main].at = "idle"
      PROVE  Ends'
  <2>1. main'.pc = "off" /\ configs' = Orphaned(LauncherActors)
    BY <1>5 DEF LauncherEnds
  <2>2. \A e \in configs' : HasStopped(e)'
    BY <1>5, <2>1, StoppedOrphans
  <2> QED
    BY <1>5, <2>1, <2>2, EndsFramed DEF Ends, StopsIt
<1>6. ASSUME Fail, UNCHANGED <<store, wanted, admin, adminStarted>>, configs' \subseteq configs,
             main.pc = "setup"
      PROVE  Ends'
  <2>1. StopsIt => StopsIt'
    BY <1>3, <1>6 DEF StopsIt
  <2> QED
    BY <1>3, <1>6, <2>1, EndsFramed DEF Ends, HasStopped
<1>7. ASSUME Start \/ Waited \/ CleanedUp PROVE Ends'
  <2>1. /\ main'.pc \in {"wait", "revert", "cleanup", "flush"}
        /\ main.pc \in {"off", "wait", "cleanup"}
        /\ UNCHANGED <<store, wanted, admin, configs>>
    BY <1>1, <1>2, <1>3, <1>7 DEF Start, Waited, CleanedUp, At
  <2> QED
    BY <1>4, <2>1
<1>8. ASSUME FlushCache PROVE Ends'
  <2>1. main.pc = "flush" /\ UNCHANGED <<store, wanted, configs>>
    BY <1>8 DEF FlushCache, At
  <2>2. main.group = 1 /\ configs = {}
    BY <2>1 DEF Order, FirstGroup, Alone, SetsUpByMain
  <2>3. CASE Fail /\ UNCHANGED admin
    BY <1>3, <1>4, <2>1, <2>3
  <2>4. CASE /\ GoTo("setup")
             /\ \/ ~AdminWanted /\ UNCHANGED admin
                \/ AdminWanted /\ adminStarted' = TRUE
    <3>1. main'.pc = "setup" /\ main'.group = 1
      BY <1>1, <1>2, <2>2, <2>4
    <3>2. NoneYet'
      BY <2>1, <2>2, <3>1 DEF NoneYet
    <3>3. AdminWanted' = AdminWanted /\ Stored' = Stored
      BY <2>1 DEF AdminWanted, Stored
    <3>4. admin'.on => AdminWanted /\ StopsIt'
      BY <2>4, <3>1 DEF Ends, StopsIt
    <3> QED
      BY <2>1, <2>2, <3>2, <3>3, <3>4 DEF Ends
  <2> QED
    BY <1>8, <2>3, <2>4 DEF FlushCache, AdminWanted
<1>9. ASSUME SetUp PROVE Ends'
  <2>1. /\ main.pc = "setup" /\ ChildOf(Main) = {}
        /\ UNCHANGED <<applied, store, wanted, admin, adminStarted>>
    BY <1>9 DEF SetUp, At
  <2>2. configs = {}
    BY <2>1 DEF Order, Alone, SetsUpByMain, ChildOf
  <2>3. AdminWanted' = AdminWanted /\ Stored' = Stored
    BY <2>1 DEF AdminWanted, Stored
  <2>4. CASE main.group > Len(Groups) /\ GoTo("launch") /\ UNCHANGED configs
    <3>1. main'.pc = "launch"
      BY <1>1, <1>2, <2>4
    <3>2. AdminWanted => store # {}
      <4>1. ASSUME AdminWanted, store = {} PROVE FALSE
        <5>1. \A g \in 1 .. 3 : g < main.group
          BY <1>0, <2>4, GroupsAre DEF OtherTypes
        <5>2. Groups[1] \cap wanted = {} /\ Groups[2] \cap wanted = {}
          BY <2>1, <4>1, <5>1 DEF Ends, NoneYet
        <5> QED
          BY <4>1, <5>2, GroupsAre DEF AdminWanted, AdminSettings
      <4> QED
        BY <4>1
    <3> QED
      BY <2>1, <2>2, <2>4, <3>1, <3>2, EndsFramed DEF Ends
  <2>5. CASE ~(main.group > Len(Groups))
    <3>1. main.group \in 1 .. 3
      BY <1>0, <2>5, GroupsAre DEF OtherTypes
    <3>2. PICK inOrder \in SUBSET (Checked \cap applied) :
            LET flags == (Groups[main.group] \cap wanted) \ (Manual \cup inOrder) IN
            IF flags = {}
            THEN main' = [main EXCEPT !.group = @ + 1] /\ UNCHANGED <<configs, overlap>>
            ELSE Run(Main, "setup", flags) /\ UNCHANGED main
      BY <1>9, <2>5 DEF SetUp
    <3>3. PICK flags : flags = (Groups[main.group] \cap wanted) \ (Manual \cup inOrder)
      OBVIOUS
    <3>4. store = {} => flags = Groups[main.group] \cap wanted
      BY <2>2, <3>2, <3>3 DEF Left, QuietStored
    <3>5. CASE flags = {} /\ main' = [main EXCEPT !.group = @ + 1] /\ UNCHANGED configs
      <4>1. main'.pc = "setup" /\ main'.group = main.group + 1
        BY <1>0, <2>1, <3>5, MainTypes
      <4>2. \A g \in 1 .. 3 : g < main.group + 1 => g < main.group \/ g = main.group
        BY <3>1
      <4>3. NoneYet /\ store = {} => NoneYet'
        BY <2>1, <2>2, <3>4, <3>5, <4>1, <4>2 DEF NoneYet
      <4>4. StopsIt => StopsIt'
        BY <2>1, <4>1 DEF StopsIt
      <4> QED
        BY <2>1, <2>2, <2>3, <3>5, <4>3, <4>4 DEF Ends
    <3>6. CASE flags # {} /\ Run(Main, "setup", flags) /\ UNCHANGED main
      <4>1. flags \in SUBSET Settings
        BY <3>1, <3>3, GroupsAre
      <4>2. PICK d : /\ d = Spawn(Main, "setup", flags) /\ d.kind = "setup" /\ d.flags = flags
        BY <1>0, <4>1, SpawnIs
      <4>3. configs' = {d}
        BY <2>2, <3>6, <4>2 DEF Run
      <4>4. store = {} => AllOfGroup(d)'
        BY <2>1, <3>1, <3>4, <3>6, <4>2 DEF AllOfGroup
      <4>5. NoneYet /\ store = {} => NoneYet'
        BY <2>1, <3>6, <4>3, <4>4 DEF NoneYet
      <4>6. StopsIt => StopsIt'
        BY <2>1, <3>6 DEF StopsIt
      <4>7. \A e \in configs' : HasStopped(e)'
        BY <4>2, <4>3 DEF HasStopped
      <4> QED
        BY <2>1, <2>3, <4>5, <4>6, <4>7 DEF Ends
    <3> QED
      BY <3>2, <3>3, <3>5, <3>6
  <2> QED
    BY <1>9, <2>4, <2>5 DEF SetUp
<1>10. ASSUME StoreFlags PROVE Ends'
  <2>1. main.pc = "setup" /\ UNCHANGED <<wanted, admin, adminStarted>>
    BY <1>10 DEF StoreFlags, At
  <2>2. PICK c \in ChildOf(Main) :
          \/ /\ store' = store \cup c.flags /\ main' = [main EXCEPT !.group = @ + 1]
             /\ configs' = configs \ {c}
          \/ /\ configs' = (configs \ {c}) \cup {Spawn(Main, "revert", c.flags)}
             /\ UNCHANGED <<store, main, revert>>
          \/ Fail /\ configs' = configs \ {c} /\ UNCHANGED store
    BY <1>10 DEF StoreFlags
  <2>3. c \in configs /\ configs \ {c} = {}
    BY <2>2 DEF Order, OneConfig, ChildOf
  <2>4. CASE /\ store' = store \cup c.flags /\ main' = [main EXCEPT !.group = @ + 1]
             /\ configs' = configs \ {c}
    <3>1. AdminWanted => Stored'
      <4>1. CASE Stored
        BY <2>4, <4>1 DEF Stored
      <4>2. ASSUME AdminWanted, store = {} PROVE Stored'
        <5>1. AllOfGroup(c) /\ \A g \in 1 .. 3 : g < main.group => Groups[g] \cap wanted = {}
          BY <2>1, <2>3, <4>2 DEF Ends, NoneYet
        <5>2. c.flags \cap AdminSettings # {}
          BY <1>0, <4>2, <5>1, FirstIsAdmins DEF AllOfGroup
        <5> QED
          BY <2>4, <5>2 DEF Stored
      <4> QED
        BY <4>1, <4>2 DEF Ends
    <3>2. AdminWanted' = AdminWanted /\ (Stored' => store' # {})
      BY <2>1 DEF AdminWanted, Stored
    <3> QED
      BY <2>1, <2>3, <2>4, <3>1, <3>2 DEF Ends
  <2>5. CASE /\ configs' = (configs \ {c}) \cup {Spawn(Main, "revert", c.flags)}
             /\ UNCHANGED <<store, main, revert>>
    <3>1. c.flags \in SUBSET Settings
      BY <2>3, KindsOfConfig
    <3>2. PICK d : /\ d = Spawn(Main, "revert", c.flags) /\ d.flags = c.flags
                   /\ d.pc = StartsAt(c.flags)
      BY <1>0, <3>1, SpawnIs
    <3>3. configs' = {d}
      BY <2>3, <2>5, <3>2
    <3>4. HasStopped(d)'
      BY <3>2 DEF HasStopped, StartsAt
    <3>5. StopsIt => StopsIt'
      BY <2>1, <2>5 DEF StopsIt
    <3> QED
      BY <2>1, <2>3, <2>5, <3>2, <3>3, <3>4, <3>5, EndsFramed DEF Ends
  <2>6. CASE Fail /\ configs' = configs \ {c} /\ UNCHANGED store
    BY <1>6, <2>1, <2>6
  <2> QED
    BY <2>2, <2>4, <2>5, <2>6
<1>11. ASSUME StartAgent PROVE Ends'
  <2>1. /\ main.pc = "launch" /\ main'.pc \in {"game", "revert"}
        /\ UNCHANGED <<store, wanted, admin, configs>>
    BY <1>1, <1>2, <1>3, <1>11 DEF StartAgent, At
  <2> QED
    BY <1>4, <2>1
<1>12. ASSUME StartGame PROVE Ends'
  <2>1. main.pc = "game" /\ UNCHANGED <<store, wanted, admin>>
        /\ (LauncherEnds \/ (Fail /\ UNCHANGED configs))
    BY <1>12 DEF StartGame, At
  <2> QED
    BY <1>3, <1>4, <1>5, <2>1
<1>13. ASSUME CheckFails PROVE Ends'
  <2>1. Fail /\ main.pc \in {"wait", "setup"}
        /\ UNCHANGED <<store, wanted, admin, adminStarted, configs>>
    BY <1>13 DEF CheckFails, At
  <2> QED
    BY <1>3, <1>4, <1>6, <2>1
<1>14. ASSUME Exit PROVE Ends'
  <2>1. LauncherEnds /\ UNCHANGED <<store, wanted, admin>> /\ ~handler
    BY <1>14, NoHandler DEF Exit, Order
  <2>2. main.pc = "revert" /\ revert[Main].at = "idle"
    BY <1>14, <2>1 DEF Exit, At, Idle
  <2> QED
    BY <1>5, <2>1, <2>2
<1> QED
  BY <1>7, <1>8, <1>9, <1>10, <1>11, <1>12, <1>13, <1>14 DEF LauncherStep

LEMMA OtherStepEnds ==
  ASSUME LauncherTypes, Turns, InOrder, InOrder', Order, Ends,
         GameStep \/ Disturb \/ (\E n \in Agents : AgentStep(n)) \/ UNCHANGED vars
  PROVE  Ends'
<1>0. OtherTypes /\ RevertTypes(revert) /\ Main \in Actors /\ ~NoAdmin.on
  BY TypesAre, ActorsAre DEF NoAdmin
<1> USE DEF launcherVars, agentVars, started, bounds, agentFrame
<1>1. ASSUME UNCHANGED <<store, wanted, main, adminStarted, configs>>,
             revert'[Main] = revert[Main], admin' = admin \/ admin' = NoAdmin
      PROVE  Ends'
  <2>1. StopsIt => StopsIt'
    BY <1>1 DEF StopsIt
  <2>2. admin'.on => admin.on
    BY <1>0, <1>1
  <2>3. \A e \in configs' : HasStopped(e)'
    BY <1>1, <2>2 DEF Ends, HasStopped
  <2> QED
    BY <1>1, <2>1, <2>2, <2>3, EndsFramed DEF Ends
<1>2. ASSUME NEW n \in Agents, AgentEnds(n, revert),
             UNCHANGED <<store, wanted, main, adminStarted, admin>>
      PROVE  Ends'
  <2>1. configs' = Orphaned(ActorsOf(n)) /\ Main \notin ActorsOf(n)
    BY <1>2, ActorsDiffer DEF AgentEnds, ActorsOf
  <2>2. revert'[Main] = revert[Main]
    BY <1>0, <1>2, <2>1, AgentEndsTypes
  <2>3. StopsIt => StopsIt'
    BY <1>2, <2>2 DEF StopsIt
  <2>4. /\ \A e \in configs' : HasStopped(e)'
        /\ \A e \in configs' : \E c \in configs : e.flags = c.flags
    BY <1>2, <2>1, StoppedOrphans
  <2> QED
    BY <1>2, <2>3, <2>4, EndsFramed DEF Ends
<1>3. ASSUME GameStep PROVE Ends'
  BY <1>1, <1>3 DEF GameStep
<1>4. ASSUME UNCHANGED vars PROVE Ends'
  BY <1>1, <1>4 DEF vars
<1>5. ASSUME Disturb PROVE Ends'
  <2>1. ~SignalLauncher /\ ~KillLauncher /\ \A n \in Agents : ~SignalAgent(n)
    BY DEF SignalLauncher, KillLauncher, SignalAgent, Trouble, InOrder, Befell
  <2>2. CASE KillAdminAgent
    BY <1>1, <2>2 DEF KillAdminAgent
  <2>3. ASSUME NEW n \in Agents, KillLauncherAgent(n) PROVE Ends'
    BY <1>2, <2>3 DEF KillLauncherAgent
  <2> QED
    BY <1>5, <2>1, <2>2, <2>3 DEF Disturb
<1>6. ASSUME NEW n \in Agents, AgentStep(n) PROVE Ends'
  <2>1. CASE SeeGame(n)
    BY <1>1, <2>1 DEF SeeGame
  <2>2. CASE SeeEnd(n)
    <3>1. Moved(revert', revert, Watch(n), "load") /\ Watch(n) # Main
      BY <1>0, <2>2, EndWatchIs, ActorsDiffer DEF SeeEnd
    <3>2. revert'[Main] = revert[Main]
      BY <1>0, <3>1 DEF Moved
    <3> QED
      BY <1>1, <2>2, <3>2 DEF SeeEnd, EndWatch
  <2>3. CASE Unlist(n)
    BY <1>1, <2>3 DEF Unlist
  <2>4. CASE AgentExits(n)
    BY <1>2, <2>4 DEF AgentExits
  <2> QED
    BY <1>6, <2>1, <2>2, <2>3, <2>4 DEF AgentStep
<1> QED
  BY <1>3, <1>4, <1>5, <1>6

LEMMA InitEnds == Init => Ends
BY DEF Init, Ends, NoAdmin, NoneYet

LEMMA EndsStay ==
  ASSUME Manual = {}, LauncherTypes, Turns, Left, InOrder, Fine', Order, Ends, [Next]_vars
  PROVE  Ends'
<1>1. InOrder'
  BY DEF Fine
<1> QED
  BY <1>1, ConfigStepEnds, RevertStepEnds, LauncherStepEnds, OtherStepEnds DEF Next

\* When every process has ended, the elevated agent is left only with flags in the file whose
\* revert stops it, if the user has arranged nothing by hand (FlushCache, Load,
\* StopAgentIfNeeded).
THEOREM AdminEndsCorrect == Manual = {} => (Spec => []AdminAgentEnds)
<1> SUFFICES ASSUME Manual = {} PROVE Spec => []AdminAgentEnds
  OBVIOUS
<1>1. Init => (Fine => Ends)
  BY InitEnds
<1>2. LauncherInv /\ (InOrder => Order) /\ (Fine => Ends) /\ [Next]_vars => (Fine => Ends)'
  <2> SUFFICES ASSUME LauncherInv, InOrder => Order, Fine => Ends, [Next]_vars, Fine'
               PROVE  Ends'
    OBVIOUS
  <2>1. Fine /\ LauncherTypes /\ Turns
    BY FineBefore DEF LauncherInv
  <2>2. Left /\ InOrder /\ Order /\ Ends
    BY <2>1, FineUnexcused DEF LauncherInv, Fine
  <2> QED
    BY <2>1, <2>2, EndsStay
<1>3. (Fine => Ends) => AdminAgentEnds
  <2> SUFFICES ASSUME Fine => Ends, AtRest, admin.on
               PROVE  \/ Stored \/ overlap \/ unknowing
                      \/ Befell({"signal", "kill", "stopAgent", "revert", "agentSignal"})
    BY DEF AdminAgentEnds, Stored
  <2>1. CASE Fine
    BY <2>1 DEF Ends, StopsIt, AtRest
  <2>2. CASE ~Fine
    BY <2>2 DEF Fine, InOrder, Befell
  <2> QED
    BY <2>1, <2>2
<1> QED
  BY <1>1, <1>2, <1>3, LauncherInvariant, OrderCorrect, PTL DEF Spec

-----------------------------------------------------------------------------
(* A game that runs *)

\* None of what GameKeepsSetUp excuses has come about.
KeepFine == runs <= 1 /\ ~Befell({"signal", "agentSignal", "timeout"})

\* The game of the first run is not yet started.
Before == main.pc \in {"wait", "cleanup", "flush", "setup", "launch", "game"} \/ runs = 0

\* Only the launcher changes settings, and no agent does more than wait for the game.
OnlyMain ==
  /\ OneConfig
  /\ \A c \in configs : /\ c.by = Main /\ ~c.orphan
                        /\ main.pc = "setup" \/ revert[Main].at = "run"
  /\ \A n \in Agents : agent[n] \in {"off", "game"}
  /\ main.pc # "game" => NobodyRuns
  /\ signalled = {}

\* Until the game has ended nobody changes a setting.
Undisturbed ==
  game # "off" =>
    /\ main.pc = "off" /\ runs > 0 /\ configs = {}
    /\ \A p \in Actors : revert[p].at = "idle"
    /\ \A n \in Agents : agent[n] \in {"off", "game", "end"}

Keeps ==
  /\ Before => OnlyMain
  /\ Undisturbed
  /\ runs = 0 => main.pc = "off"

LEMMA KeepFineBefore ==
  ASSUME LauncherTypes, [Next]_vars, KeepFine'
  PROVE  KeepFine
<1>1. troubles \subseteq troubles'
  BY HistoryStays
<1>2. runs \in Nat /\ (runs' = runs \/ runs' = runs + 1)
  <2> USE DEF bounds, started, mainFrame, agentFrame
  <2>1. runs \in Nat
    BY BoundAssumption DEF LauncherTypes
  <2>2. ConfigStep => runs' = runs
    BY DEF ConfigStep, ChangeLocal, SetUpAdmin, RevertAdmin, StopAgentIfNeeded, configFrame
  <2>3. LauncherStep => runs' = runs
    BY DEF LauncherStep, Waited, CleanedUp, FlushCache, SetUp, StoreFlags, StartAgent, StartGame,
       CheckFails, Exit
  <2>4. \A n \in Agents : AgentStep(n) => runs' = runs
    BY DEF AgentStep, SeeGame, SeeEnd, EndWatch, Unlist, AgentExits
  <2>5. \A p \in Actors : RevertStep(p) => runs' = runs
    BY DEF RevertStep, Interrupt, Kill, Load, Delete
  <2>6. Disturb => runs' = runs
    BY DEF Disturb, SignalLauncher, KillLauncher, KillAdminAgent, SignalAgent, KillLauncherAgent
  <2>7. GameStep \/ UNCHANGED vars => runs' = runs
    BY DEF GameStep, vars
  <2> QED
    BY <2>1, <2>2, <2>3, <2>4, <2>5, <2>6, <2>7 DEF Next, Start
<1> QED
  BY <1>1, <1>2 DEF KeepFine, Befell

\* Before the game the launcher alone reverts, and only when it cleans up.
LEMMA LauncherReverts ==
  ASSUME LauncherTypes, Turns, KeepFine, Keeps, Before
  PROVE  /\ ~handler /\ \A p \in Actors : p # Main => revert[p].at = "idle"
         /\ main.pc # "cleanup" => revert[Main].at = "idle"
         /\ main.pc # "setup" /\ revert[Main].at # "run" => configs = {}
         /\ OnlyMain
<1>1. OnlyMain
  BY DEF Keeps
<1>2. ~handler /\ revert[Handler].at = "idle"
  BY DEF Turns, LaunchersTurns, KeepFine, Befell
<1>3. \A n \in Agents : revert[Watch(n)].at = "idle" /\ revert[AgentHandler(n)].at = "idle"
  BY <1>1 DEF Turns, AgentsTurns, OnlyMain
<1>4. main.pc # "revert"
  BY DEF Before, Keeps
<1>5. main.pc # "cleanup" => revert[Main].at = "idle"
  BY <1>4 DEF Turns, LaunchersTurns
<1> QED
  BY <1>1, <1>2, <1>3, <1>5, ActorsAre DEF OnlyMain

\* A step before the game.
LEMMA OnlyMainStays ==
  ASSUME OnlyMain, signalled' = {},
         \A n \in Agents : agent'[n] = agent[n] \/ agent'[n] = "off",
         main'.pc = "game" \/ main.pc # "game",
         \/ configs' = {}
         \/ configs' = configs /\ main'.pc = main.pc /\ revert'[Main].at = revert[Main].at
         \/ /\ main'.pc = "setup" \/ revert'[Main].at = "run"
            /\ \E d : configs' = {d} /\ d.by = Main /\ ~d.orphan
  PROVE  OnlyMain'
<1>1. /\ \A n \in Agents : agent'[n] \in {"off", "game"}
      /\ main'.pc # "game" => NobodyRuns'
  BY DEF OnlyMain, NobodyRuns, Running
<1>2. /\ OneConfig'
      /\ \A c \in configs' : /\ c.by = Main /\ ~c.orphan
                             /\ main'.pc = "setup" \/ revert'[Main].at = "run"
  BY DEF OnlyMain, OneConfig
<1> QED
  BY <1>1, <1>2 DEF OnlyMain

LEMMA NoOrphans ==
  ASSUME configs = {}, NEW ps
  PROVE  Orphaned(ps) = {}
BY DEF Orphaned, Kept

LEMMA UndisturbedStays ==
  ASSUME LauncherTypes, Turns, KeepFine', Undisturbed, game # "off", [Next]_vars
  PROVE  Undisturbed'
<1>0. OtherTypes /\ RevertTypes(revert)
  BY TypesAre
<1>1. /\ main.pc = "off" /\ runs > 0 /\ configs = {}
      /\ \A p \in Actors : revert[p].at = "idle"
      /\ \A n \in Agents : agent[n] \in {"off", "game", "end"}
  BY DEF Undisturbed
<1>2. KeepFine
  BY KeepFineBefore
<1>3. ~handler
  BY <1>2 DEF Turns, LaunchersTurns, KeepFine, Befell
<1> USE DEF launcherVars, agentVars, started, bounds, agentFrame
<1>4. ~Start
  <2>1. runs \in Nat
    BY BoundAssumption DEF LauncherTypes
  <2> QED
    BY <1>1, <2>1 DEF Start, KeepFine
<1>5. ~LauncherStep
  BY <1>1, <1>3 DEF LauncherStep, Waited, CleanedUp, FlushCache, SetUp, StoreFlags, StartAgent,
     StartGame, CheckFails, Exit, At
<1>6. ~ConfigStep
  BY <1>1 DEF ConfigStep
<1>7. \A p \in Actors : ~RevertStep(p)
  BY <1>1 DEF RevertStep, Interrupt, Kill, Load, Delete
<1>8. ASSUME NEW n \in Agents, AgentEnds(n, revert), UNCHANGED <<main, runs>> PROVE Undisturbed'
  <2>1. configs' = {}
    BY <1>1, <1>8, NoOrphans DEF AgentEnds
  <2>2. /\ agent'[n] = "off" /\ \A m \in Agents : m # n => agent'[m] = agent[m]
        /\ \A q \in Actors : IF q \in ActorsOf(n) THEN revert'[q] = Idle
                                                  ELSE revert'[q] = revert[q]
    BY <1>0, <1>8, AgentEndsTypes
  <2>3. \A q \in Actors : revert'[q].at = "idle"
    BY <1>1, <2>2 DEF Idle
  <2> QED
    BY <1>1, <1>8, <2>1, <2>2, <2>3 DEF Undisturbed
<1>9. ASSUME Disturb PROVE Undisturbed'
  <2>1. ~SignalLauncher /\ ~KillLauncher
    BY <1>1 DEF SignalLauncher, KillLauncher
  <2>2. \A n \in Agents : ~SignalAgent(n)
    BY DEF SignalAgent, Trouble, KeepFine, Befell
  <2>3. CASE KillAdminAgent
    BY <1>1, <2>3 DEF KillAdminAgent, Undisturbed
  <2>4. ASSUME NEW n \in Agents, KillLauncherAgent(n) PROVE Undisturbed'
    BY <1>8, <2>4 DEF KillLauncherAgent
  <2> QED
    BY <1>9, <2>1, <2>2, <2>3, <2>4 DEF Disturb
<1>10. ASSUME NEW n \in Agents, AgentStep(n) PROVE Undisturbed'
  <2>1. CASE SeeGame(n)
    <3>1. \A m \in Agents : agent'[m] = agent[m] \/ agent'[m] = "end"
      BY <1>0, <2>1 DEF SeeGame, OtherTypes
    <3> QED
      BY <1>1, <2>1, <3>1 DEF SeeGame, Undisturbed
  <2>2. ~SeeEnd(n)
    <3>1. game \in {"off", "starting", "on"}
      BY <1>0 DEF OtherTypes
    <3> QED
      BY <1>1, <3>1 DEF SeeEnd, Trouble, KeepFine, Befell
  <2>3. CASE Unlist(n)
    BY <1>1, <2>3 DEF Unlist, Undisturbed
  <2>4. ~AgentExits(n)
    BY <1>1 DEF AgentExits
  <2> QED
    BY <1>10, <2>1, <2>2, <2>3, <2>4 DEF AgentStep
<1>11. ASSUME GameStep PROVE Undisturbed'
  BY <1>1, <1>11 DEF GameStep, Undisturbed
<1>12. ASSUME UNCHANGED vars PROVE Undisturbed'
  BY <1>1, <1>12 DEF vars, Undisturbed
<1> QED
  BY <1>4, <1>5, <1>6, <1>7, <1>9, <1>10, <1>11, <1>12 DEF Next

LEMMA RevertStepKeeps ==
  ASSUME LauncherTypes, Turns, KeepFine, Keeps, game = "off", NEW p \in Actors, RevertStep(p)
  PROVE  Keeps'
<1>0. RevertTypes(revert) /\ Main \in Actors /\ Main \in LauncherActors
      /\ Main \notin AgentActors
  BY TypesAre, ActorsAre, ActorsDiffer
<1> USE DEF launcherVars, agentVars, started, bounds
<1>1. UNCHANGED <<main, runs, game>>
  BY DEF RevertStep, Interrupt, Kill, Load, Delete
<1>2. Before => OnlyMain'
  <2> SUFFICES ASSUME Before PROVE OnlyMain'
    OBVIOUS
  <2>1. /\ \A q \in Actors : q # Main => revert[q].at = "idle"
        /\ main.pc # "cleanup" => revert[Main].at = "idle"
        /\ main.pc # "setup" /\ revert[Main].at # "run" => configs = {}
        /\ OnlyMain
    BY LauncherReverts
  <2>2. p = Main /\ main.pc = "cleanup"
    BY <2>1 DEF RevertStep, Interrupt, Kill, Load, Delete
  <2>3. NobodyRuns /\ signalled = {}
    BY <2>1, <2>2 DEF OnlyMain
  <2>4. CASE Interrupt(p)
    <3>1. Listed = {}
      BY <2>3 DEF Listed, NobodyRuns
    <3>2. /\ revert[Main].at = "interrupt" /\ signalled' = signalled
          /\ UNCHANGED <<agent, configs>>
      BY <1>0, <2>2, <2>4, <3>1, InterruptIs
    <3> QED
      BY <1>1, <2>1, <2>2, <2>3, <3>2, OnlyMainStays
  <2>5. CASE Kill(p)
    <3>1. /\ revert[Main].at = "kill"
          /\ \E n \in Agents :
               /\ configs' = Orphaned(ActorsOf(n)) /\ signalled' = signalled \ {n}
               /\ agent'[n] = "off" /\ \A m \in Agents : m # n => agent'[m] = agent[m]
      BY <1>0, <2>2, <2>5, KillsAre
    <3>2. configs = {}
      BY <2>1, <2>2, <3>1
    <3>3. configs' = {}
      BY <3>1, <3>2, NoOrphans
    <3> QED
      BY <1>1, <2>1, <2>2, <2>3, <3>1, <3>3, OnlyMainStays
  <2>6. CASE Load(p)
    <3>1. /\ revert[Main].at = "load" /\ UNCHANGED <<agent, signalled>>
          /\ \/ UNCHANGED configs
             \/ /\ revert'[Main].at = "run"
                /\ \E d : configs' = configs \cup {d} /\ d.by = Main /\ ~d.orphan
      BY <1>0, <2>2, <2>6, LoadIs DEF Moved
    <3>2. configs = {}
      BY <2>1, <2>2, <3>1
    <3> QED
      BY <1>1, <2>1, <2>2, <2>3, <3>1, <3>2, OnlyMainStays
  <2>7. CASE Delete(p)
    <3>1. UNCHANGED <<agent, signalled>> /\ \E c \in configs : configs' = configs \ {c}
      BY <2>7, DeleteIs
    <3>2. configs' = {}
      BY <2>1, <3>1 DEF OnlyMain, OneConfig
    <3> QED
      BY <1>1, <2>1, <2>2, <2>3, <3>1, <3>2, OnlyMainStays
  <2> QED
    BY <2>4, <2>5, <2>6, <2>7 DEF RevertStep
<1> QED
  BY <1>1, <1>2 DEF Keeps, Before, Undisturbed

LEMMA LauncherStepKeeps ==
  ASSUME LauncherTypes, Turns, KeepFine, KeepFine', Keeps, game = "off", Start \/ LauncherStep
  PROVE  Keeps'
<1>0. OtherTypes /\ RevertTypes(revert) /\ Main \in Actors /\ Idle.at = "idle" /\ runs \in Nat
  BY TypesAre, ActorsAre, BoundAssumption DEF Idle, OtherTypes
<1> USE DEF launcherVars, agentVars, started, bounds, mainFrame
<1>1. {"off", "wait", "cleanup", "flush", "setup", "launch", "game", "revert"} \subseteq Places
  BY DEF Places
<1>2. \A x \in Places : GoTo(x) => main'.pc = x
  BY <1>0, GoToIs
<1>3. Fail => main'.pc = "revert"
  BY <1>0, FailIs
<1>4. ASSUME main'.pc \in {"off", "revert"}, main.pc # "off", runs' = runs, game' = game
      PROVE  Keeps'
  BY <1>4 DEF Keeps, Before, Undisturbed
<1>5. ASSUME Before, game' = game, runs' = runs, main.pc # "off", main.pc # "game",
             UNCHANGED signalled,
             \A n \in Agents : agent'[n] = agent[n] \/ agent'[n] = "off",
             \/ configs' = {}
             \/ configs' = configs /\ main'.pc = main.pc /\ revert'[Main].at = revert[Main].at
             \/ main'.pc = "setup" /\ \E d : configs' = {d} /\ d.by = Main /\ ~d.orphan
      PROVE  Keeps'
  <2>1. OnlyMain
    BY <1>5 DEF Keeps
  <2>2. signalled' = {}
    BY <1>5, <2>1 DEF OnlyMain
  <2>3. OnlyMain'
    BY <1>5, <2>1, <2>2, OnlyMainStays
  <2> QED
    BY <1>5, <2>3 DEF Keeps, Before, Undisturbed
<1>6. ASSUME Start PROVE Keeps'
  <2>1. main.pc = "off" /\ main'.pc = "wait" /\ runs' = runs + 1
        /\ UNCHANGED <<configs, revert, agent, signalled, game>>
    BY <1>1, <1>2, <1>6 DEF Start
  <2>2. runs = 0 /\ Before
    BY <1>0, <2>1 DEF KeepFine, Before
  <2>3. OnlyMain /\ configs = {}
    BY <2>1, <2>2, LauncherReverts
  <2>4. signalled' = {}
    BY <2>1, <2>3 DEF OnlyMain
  <2>5. OnlyMain'
    BY <2>1, <2>3, <2>4, OnlyMainStays
  <2> QED
    BY <1>0, <2>1, <2>2, <2>5 DEF Keeps, Undisturbed
<1>7. ASSUME Waited PROVE Keeps'
  <2>1. main.pc = "wait" /\ revert[Main].at = "idle" /\ Before
        /\ UNCHANGED <<configs, agent, signalled, game, runs>>
    BY <1>0, <1>7 DEF Waited, At, Before
  <2>2. configs = {}
    BY <2>1, LauncherReverts
  <2> QED
    BY <1>5, <2>1, <2>2
<1>8. ASSUME CleanedUp PROVE Keeps'
  <2>1. main.pc = "cleanup" /\ revert[Main].at = "idle" /\ Before
        /\ UNCHANGED <<configs, agent, signalled, game, runs>>
    BY <1>0, <1>8 DEF CleanedUp, At, Before
  <2>2. configs = {}
    BY <2>1, LauncherReverts
  <2> QED
    BY <1>5, <2>1, <2>2
<1>9. ASSUME FlushCache PROVE Keeps'
  <2>1. main.pc = "flush" /\ revert[Main].at = "idle" /\ Before
        /\ UNCHANGED <<configs, agent, signalled, game, runs>>
    BY <1>0, <1>9 DEF FlushCache, At, Before
  <2>2. configs = {}
    BY <2>1, LauncherReverts
  <2> QED
    BY <1>5, <2>1, <2>2
<1>10. ASSUME SetUp PROVE Keeps'
  <2>1. main.pc = "setup" /\ ChildOf(Main) = {} /\ Before
        /\ UNCHANGED <<revert, agent, signalled, game, runs>>
    BY <1>10 DEF SetUp, At, Before
  <2>2. configs = {}
    BY <2>1 DEF Keeps, OnlyMain, ChildOf
  <2>3. CASE UNCHANGED configs
    BY <1>5, <2>1, <2>2, <2>3
  <2>4. CASE ~(main.group > Len(Groups))
    <3>0. main.group \in 1 .. 3
      BY <1>0, <2>4, GroupsAre DEF OtherTypes
    <3>1. PICK inOrder :
            LET flags == (Groups[main.group] \cap wanted) \ (Manual \cup inOrder) IN
            IF flags = {}
            THEN main' = [main EXCEPT !.group = @ + 1] /\ UNCHANGED <<configs, overlap>>
            ELSE Run(Main, "setup", flags) /\ UNCHANGED main
      BY <1>10, <2>4 DEF SetUp
    <3>2. PICK flags : flags = (Groups[main.group] \cap wanted) \ (Manual \cup inOrder)
      OBVIOUS
    <3>3. CASE Run(Main, "setup", flags) /\ UNCHANGED main
      <4>1. flags \in SUBSET Settings
        BY <3>0, <3>2, GroupsAre
      <4>2. PICK d : d = Spawn(Main, "setup", flags) /\ d.by = Main /\ ~d.orphan
        BY <1>0, <4>1, SpawnIs
      <4>3. configs' = {d}
        BY <2>2, <3>3, <4>2 DEF Run
      <4> QED
        BY <1>5, <2>1, <3>3, <4>2, <4>3
    <3> QED
      BY <2>3, <3>1, <3>2, <3>3
  <2> QED
    BY <1>10, <2>3, <2>4 DEF SetUp
<1>11. ASSUME StoreFlags PROVE Keeps'
  <2>1. main.pc = "setup" /\ Before /\ UNCHANGED <<agent, signalled, game, runs>>
    BY <1>11 DEF StoreFlags, At, Before
  <2>2. PICK c \in ChildOf(Main) :
          \/ configs' = configs \ {c}
          \/ /\ configs' = (configs \ {c}) \cup {Spawn(Main, "revert", c.flags)}
             /\ UNCHANGED <<store, main, revert>>
    BY <1>11 DEF StoreFlags
  <2>3. configs \ {c} = {} /\ c \in configs
    BY <2>1, <2>2 DEF Keeps, OnlyMain, OneConfig, ChildOf
  <2>4. CASE configs' = configs \ {c}
    BY <1>5, <2>1, <2>3, <2>4
  <2>5. CASE /\ configs' = (configs \ {c}) \cup {Spawn(Main, "revert", c.flags)}
             /\ UNCHANGED <<store, main, revert>>
    <3>1. c.flags \in SUBSET Settings
      BY <2>3, KindsOfConfig
    <3>2. PICK d : d = Spawn(Main, "revert", c.flags) /\ d.by = Main /\ ~d.orphan
      BY <1>0, <3>1, SpawnIs
    <3>3. configs' = {d}
      BY <2>3, <2>5, <3>2
    <3> QED
      BY <1>5, <2>1, <2>5, <3>2, <3>3
  <2> QED
    BY <2>2, <2>4, <2>5
<1>12. ASSUME StartAgent PROVE Keeps'
  <2>1. main.pc = "launch" /\ revert[Main].at = "idle" /\ Before
        /\ UNCHANGED <<configs, signalled, game, runs>>
    BY <1>0, <1>12 DEF StartAgent, At, Before
  <2>2. OnlyMain /\ configs = {}
    BY <2>1, LauncherReverts
  <2>3. CASE Fail
    BY <1>3, <1>4, <2>1, <2>3
  <2>4. CASE /\ GoTo("game")
             /\ agent' = agent \/ agent' = [agent EXCEPT ![runs] = "game"]
    <3>1. main'.pc = "game"
      BY <1>1, <1>2, <2>4
    <3>2. \A n \in Agents : agent'[n] \in {"off", "game"}
      BY <1>0, <2>2, <2>4 DEF OnlyMain, OtherTypes
    <3>3. OnlyMain'
      BY <2>1, <2>2, <3>1, <3>2 DEF OnlyMain, OneConfig
    <3> QED
      BY <2>1, <3>3 DEF Keeps, Undisturbed
  <2> QED
    BY <1>12, <2>3, <2>4 DEF StartAgent
<1>13. ASSUME StartGame PROVE Keeps'
  <2>1. main.pc = "game" /\ revert[Main].at = "idle" /\ Before /\ UNCHANGED <<agent, runs>>
    BY <1>0, <1>13 DEF StartGame, At, Before
  <2>2. CASE Fail /\ UNCHANGED game
    BY <1>3, <1>4, <2>1, <2>2
  <2>3. CASE LauncherEnds
    <3>1. OnlyMain /\ configs = {} /\ (\A q \in Actors : revert[q].at = "idle") /\ runs > 0
      BY <1>0, <2>1, LauncherReverts DEF Keeps
    <3>2. main'.pc = "off" /\ configs' = {}
      BY <2>3, <3>1, NoOrphans DEF LauncherEnds
    <3>3. \A q \in Actors : revert'[q].at = "idle"
      BY <1>0, <2>3, <3>1, LauncherEndsTypes
    <3> QED
      BY <1>0, <2>1, <3>1, <3>2, <3>3 DEF Keeps, Before, Undisturbed, OnlyMain
  <2> QED
    BY <1>13, <2>2, <2>3 DEF StartGame
<1>14. ASSUME CheckFails PROVE Keeps'
  BY <1>3, <1>4, <1>14 DEF CheckFails, At
<1>15. ASSUME Exit PROVE Keeps'
  <2>1. main.pc # "off"
    BY <1>15 DEF Exit, At, Turns, LaunchersTurns, KeepFine, Befell
  <2> QED
    BY <1>4, <1>15, <2>1 DEF Exit, LauncherEnds
<1> QED
  BY <1>6, <1>7, <1>8, <1>9, <1>10, <1>11, <1>12, <1>13, <1>14, <1>15 DEF LauncherStep

LEMMA OtherStepKeeps ==
  ASSUME LauncherTypes, Turns, KeepFine, KeepFine', Keeps, game = "off",
         \/ ConfigStep \/ GameStep \/ Disturb \/ UNCHANGED vars
         \/ \E n \in Agents : AgentStep(n)
  PROVE  Keeps'
<1>0. OtherTypes /\ RevertTypes(revert) /\ Main \in Actors
  BY TypesAre, ActorsAre
<1> USE DEF launcherVars, agentVars, started, bounds, agentFrame
<1>1. ASSUME UNCHANGED <<main, runs, game>>, Before => OnlyMain' PROVE Keeps'
  BY <1>1 DEF Keeps, Before, Undisturbed
<1>2. ASSUME UNCHANGED <<main, runs, game, configs, agent, signalled, revert>> PROVE Keeps'
  <2>1. OnlyMain => OnlyMain'
    BY <1>2 DEF OnlyMain, OneConfig, NobodyRuns, Running
  <2> QED
    BY <1>1, <1>2, <2>1 DEF Keeps
<1>3. ASSUME ConfigStep PROVE Keeps'
  <2>1. ConfigFrame
    BY <1>3, ConfigStepIs
  <2>2. ASSUME OnlyMain PROVE OnlyMain'
    <3>1. PICK c \in configs : \E d : Become(c, d) /\ SameRun(c, d)
      BY <1>3, ConfigStepIs
    <3>2. PICK d : Become(c, d) /\ SameRun(c, d)
      BY <3>1
    <3>3. configs = {c} /\ c.by = Main /\ ~c.orphan
      BY <2>2 DEF OnlyMain, OneConfig
    <3>4. configs' \subseteq {d} /\ d.by = Main /\ ~d.orphan
      BY <3>2, <3>3 DEF Become, Kept, SameRun
    <3> QED
      BY <2>1, <2>2, <3>4 DEF ConfigFrame, OnlyMain, OneConfig, NobodyRuns, Running
  <2> QED
    BY <1>1, <2>1, <2>2 DEF ConfigFrame, Keeps
<1>4. ~GameStep
  BY DEF GameStep
<1>5. ASSUME NEW n \in Agents, Running(n), AgentEnds(n, revert), UNCHANGED <<main, runs, game>>
      PROVE  Keeps'
  <2>1. ASSUME Before PROVE OnlyMain'
    <3>1. OnlyMain /\ main.pc = "game"
      BY <1>5, <2>1 DEF Keeps, OnlyMain, NobodyRuns
    <3>2. configs = {}
      BY <2>1, <3>1, LauncherReverts
    <3>3. configs' = {}
      BY <1>5, <3>2, NoOrphans DEF AgentEnds
    <3>4. /\ signalled' = signalled \ {n}
          /\ agent'[n] = "off" /\ \A m \in Agents : m # n => agent'[m] = agent[m]
      BY <1>0, <1>5, AgentEndsTypes
    <3>5. signalled' = {}
      BY <3>1, <3>4 DEF OnlyMain
    <3> QED
      BY <1>5, <3>1, <3>3, <3>4, <3>5, OnlyMainStays
  <2> QED
    BY <1>1, <1>5, <2>1
<1>6. ASSUME Disturb PROVE Keeps'
  <2>1. ~SignalLauncher /\ \A n \in Agents : ~SignalAgent(n)
    BY DEF SignalLauncher, SignalAgent, Trouble, KeepFine, Befell
  <2>2. CASE KillLauncher
    <3>1. main.pc # "off" /\ main'.pc = "off" /\ UNCHANGED <<runs, game>>
      BY <2>2 DEF KillLauncher, LauncherEnds
    <3> QED
      BY <3>1 DEF Keeps, Before, Undisturbed
  <2>3. CASE KillAdminAgent
    BY <1>2, <2>3 DEF KillAdminAgent
  <2>4. ASSUME NEW n \in Agents, KillLauncherAgent(n) PROVE Keeps'
    BY <1>5, <2>4 DEF KillLauncherAgent
  <2> QED
    BY <1>6, <2>1, <2>2, <2>3, <2>4 DEF Disturb
<1>7. ASSUME NEW n \in Agents, AgentStep(n) PROVE Keeps'
  <2>1. ~SeeGame(n)
    BY DEF SeeGame
  <2>2. CASE SeeEnd(n)
    <3>1. ~Before
      <4>1. ASSUME Before PROVE FALSE
        <5>1. OnlyMain /\ Running(n)
          BY <2>2, <4>1 DEF Keeps, SeeEnd, Running
        <5>2. main.pc = "game" /\ agent[n] \in {"off", "game"}
          BY <5>1 DEF OnlyMain, NobodyRuns
        <5> QED
          BY <2>2, <5>2 DEF SeeEnd, Trouble, KeepFine, Befell
      <4> QED
        BY <4>1
    <3> QED
      BY <1>1, <2>2, <3>1 DEF SeeEnd, EndWatch
  <2>3. CASE Unlist(n)
    BY <1>2, <2>3 DEF Unlist
  <2>4. CASE AgentExits(n)
    BY <1>5, <2>4 DEF AgentExits, Running
  <2> QED
    BY <1>7, <2>1, <2>2, <2>3, <2>4 DEF AgentStep
<1>8. ASSUME UNCHANGED vars PROVE Keeps'
  BY <1>2, <1>8 DEF vars
<1> QED
  BY <1>3, <1>4, <1>6, <1>7, <1>8

LEMMA KeepsStay ==
  ASSUME LauncherTypes, Turns, KeepFine', Keeps, [Next]_vars
  PROVE  Keeps'
<1>1. KeepFine
  BY KeepFineBefore
<1>2. CASE game = "off"
  BY <1>1, <1>2, RevertStepKeeps, LauncherStepKeeps, OtherStepKeeps DEF Next
<1>3. CASE game # "off"
  <2>1. Undisturbed'
    BY <1>3, UndisturbedStays DEF Keeps
  <2>2. UNCHANGED <<runs, main>>
    <3>1. main.pc = "off" /\ runs > 0 /\ configs = {} /\ \A p \in Actors : revert[p].at = "idle"
      BY <1>3 DEF Keeps, Undisturbed
    <3>2. ~handler /\ runs \in Nat
      BY <1>1, BoundAssumption DEF Turns, LaunchersTurns, KeepFine, Befell, LauncherTypes
    <3>3. ~Start /\ ~LauncherStep /\ ~ConfigStep /\ ~SignalLauncher /\ ~KillLauncher
      BY <3>1, <3>2 DEF Start, KeepFine, LauncherStep, Waited, CleanedUp, FlushCache, SetUp,
         StoreFlags, StartAgent, StartGame, CheckFails, Exit, At, ConfigStep, SignalLauncher,
         KillLauncher
    <3>4. \A p \in Actors : ~RevertStep(p)
      BY <3>1 DEF RevertStep, Interrupt, Kill, Load, Delete
    <3> QED
      BY <3>3, <3>4 DEF Next, GameStep, Disturb, KillAdminAgent, SignalAgent, KillLauncherAgent,
         AgentStep, SeeGame, SeeEnd, EndWatch, Unlist, AgentExits, vars, bounds, started,
         launcherVars, agentFrame
  <2>3. ~Before'
    BY <1>3, <2>2 DEF Keeps, Undisturbed, Before
  <2> QED
    BY <2>1, <2>2, <2>3 DEF Keeps
<1> QED
  BY <1>2, <1>3

LEMMA InitKeeps == Init => Keeps
BY DEF Init, Keeps, Before, OnlyMain, OneConfig, NobodyRuns, Running, Undisturbed

LEMMA NothingChanges ==
  ASSUME LauncherTypes, configs = {}, [Next]_vars
  PROVE  applied' = applied
BY DEF Next, LauncherStep, ConfigStep, GameStep, Disturb, AgentStep, RevertStep, vars, bounds,
   started, mainFrame, agentFrame, Start, Waited, CleanedUp, FlushCache, SetUp, StoreFlags,
   StartAgent, StartGame, CheckFails, Exit, SignalLauncher, KillLauncher, KillAdminAgent,
   SignalAgent, KillLauncherAgent, SeeGame, SeeEnd, EndWatch, Unlist, AgentExits, Interrupt,
   Kill, Load, Delete

\* Nothing is reverted while the game of the first run runs (StartGame, SeeEnd, KillAgent).
THEOREM GameKeepsCorrect == Spec => GameKeepsSetUp
<1>1. Init => (KeepFine => Keeps)
  BY InitKeeps
<1>2. LauncherInv /\ (KeepFine => Keeps) /\ [Next]_vars => (KeepFine => Keeps)'
  BY KeepFineBefore, KeepsStay DEF LauncherInv
<1>3. LauncherInv /\ (KeepFine => Keeps) /\ [Next]_vars
        => [game = "on" /\ game' = "on" =>
              \/ applied \subseteq applied'
              \/ runs > 1
              \/ Befell({"signal", "agentSignal", "timeout"})]_vars
  <2> SUFFICES ASSUME LauncherInv, KeepFine => Keeps, [Next]_vars, game = "on",
                      ~(runs > 1), ~Befell({"signal", "agentSignal", "timeout"})
               PROVE  applied \subseteq applied'
    OBVIOUS
  <2>1. runs \in Nat /\ LauncherTypes
    BY BoundAssumption DEF LauncherInv, LauncherTypes
  <2>2. configs = {}
    BY <2>1 DEF KeepFine, Keeps, Undisturbed
  <2> QED
    BY <2>1, <2>2, NothingChanges
<1> QED
  BY <1>1, <1>2, <1>3, LauncherInvariant, PTL DEF Spec, GameKeepsSetUp
=============================================================================
