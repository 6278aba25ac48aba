------------------------------- MODULE HostScan -------------------------------
(***************************************************************************)
(* One scan of a host by the agent, while the host goes on living.         *)
(* scanAndShip asks one collector after the other; a collector lists what  *)
(* there is and then reads one thing after the other, and between any two  *)
(* calls containers, processes, files and services come and go.            *)
(***************************************************************************)
EXTENDS Naturals, Sequences, FiniteSets, FiniteSetsExt

CONSTANTS
  Containers,
  Pids,
  Programs,     \* what a process may run: records of a command line, the
                \* executable and directory behind its links, and whether the
                \* agent may read those
  Automations,  \* the command lines that classifyProcess recognises
  Tree,         \* Tree[r]: the traces of n8n (a file or directory each) that
                \* the root r of the search holds; roots may overlap
  Roots,        \* the sequence of these roots: the built-in and the configured
  Crontabs,     \* Crontabs[f]: the lines of automations the crontab f may hold
  Targets,      \* the sequence of addresses to probe
  Services,     \* Services[s]: the markers the service s answers, each with a
                \* status
  Workflows,    \* the workflows of the n8n whose API is asked
  PageLimit,    \* how many workflows are asked for (250)
  MaxChanges    \* bound: changes of the host

\* Assumed of the constants by the modules that give them values.
PageAssumption == PageLimit \in Nat \ {0}
ChangesAssumption == MaxChanges \in Nat
\* What the search comes to is where the roots lead.
SearchAssumption ==
  /\ Roots \in Seq(DOMAIN Tree)
  /\ \A r \in DOMAIN Tree : \E n \in DOMAIN Roots : Roots[n] = r
  /\ Targets \in Seq({Targets[n] : n \in DOMAIN Targets})

VARIABLES
  there,    \* what is on the host now
  pc,       \* the collector that runs, or the read it is at
  left,     \* the roots, or targets, this collector has not come to
  todo,     \* what it has listed and not read yet
  held,     \* what it has read of the thing at hand
  batch,    \* the observations
  stood,    \* history: what has been there since the scan began
  unread,   \* history: what could not be read, by a failure of the read
  changes   \* how often the host has changed

vars == <<there, pc, left, todo, held, batch, stood, unread, changes>>
history == <<stood, unread>>
host == <<there, changes>>

-----------------------------------------------------------------------------
(***************************************************************************)
(* What there may be on a host.                                            *)
(***************************************************************************)
AllTraces == UNION {Tree[r] : r \in DOMAIN Tree}

Things ==
  {<<"container", c>> : c \in Containers}
    \cup {<<"process", p, g>> : p \in Pids, g \in DOMAIN Programs}
    \cup {<<"trace", f>> : f \in AllTraces}
    \cup (UNION {{<<"cron", f, l>> : l \in Crontabs[f]} : f \in DOMAIN Crontabs})
    \cup {<<"service", t, s>> : t \in {Targets[n] : n \in DOMAIN Targets}, s \in DOMAIN Services}
    \cup {<<"workflow", w>> : w \in Workflows}

\* One process has a number, and one service an address, at a time.
Place(t) == IF t[1] \in {"process", "service"} THEN {<<t[1], t[2]>>} ELSE {}
Fits(t) == \A u \in there : Place(t) \cap Place(u) = {}

On(kind) == {t \in there : t[1] = kind}
ProgramOf(p) == {t[3] : t \in {u \in On("process") : u[2] = p}}
ServiceAt(a) == {t[3] : t \in {u \in On("service") : u[2] = a}}

Appear(t) ==
  /\ changes < MaxChanges
  /\ changes' = changes + 1
  /\ t \notin there
  /\ Fits(t)
  /\ there' = there \cup {t}
  /\ UNCHANGED <<pc, left, todo, held, batch, stood, unread>>

Vanish(t) ==
  /\ changes < MaxChanges
  /\ changes' = changes + 1
  /\ t \in there
  /\ there' = there \ {t}
  /\ stood' = stood \ {t}
  /\ UNCHANGED <<pc, left, todo, held, batch, unread>>

-----------------------------------------------------------------------------
(***************************************************************************)
(* scanAndShip.                                                            *)
(***************************************************************************)
Nothing == << >>

Order == <<"docker", "process", "filesystem", "cron", "network", "n8n-api", "ship">>
After(c) == Order[1 + CHOOSE n \in DOMAIN Order : Order[n] = c]

\* The next collector, with the list it goes through.
Proceed(c) ==
  /\ pc' = After(c)
  /\ left' = CASE After(c) = "filesystem" -> Roots
               [] After(c) = "network"    -> Targets
               [] OTHER                   -> << >>
  /\ todo' = {}
  /\ held' = Nothing

StartScan ==
  /\ pc = "rest"
  /\ pc' = "docker"
  /\ left' = << >>
  /\ todo' = {}
  /\ held' = Nothing
  /\ batch' = {}
  /\ stood' = there
  /\ unread' = {}
  /\ UNCHANGED host

\* The batch goes to the spool.
Ship ==
  /\ pc = "ship"
  /\ pc' = "rest"
  /\ UNCHANGED <<host, left, todo, held, batch, history>>

\* An error of a collector is logged, and the scan goes on with the next.
CollectorFails(c, part) ==
  /\ pc = c
  /\ Proceed(c)
  /\ unread' = unread \cup part
  /\ UNCHANGED <<host, batch, stood>>

-----------------------------------------------------------------------------
(***************************************************************************)
(* Docker: a list, and an inspection of each container on it.              *)
(***************************************************************************)
ListContainers ==
  /\ pc = "docker"
  /\ pc' = "inspect"
  /\ todo' = {t[2] : t \in On("container")}
  /\ UNCHANGED <<host, left, held, batch, history>>

Inspect(c) ==
  /\ pc = "inspect"
  /\ c \in todo
  /\ <<"container", c>> \in there
  /\ todo' = todo \ {c}
  /\ batch' = batch \cup {<<"docker.container", c>>}
  /\ UNCHANGED <<host, pc, left, held, history>>

\* Faulty variant: a failed inspection is repeated.
InspectAgain(c) ==
  /\ pc = "inspect"
  /\ c \in todo
  /\ unread' = unread \cup {<<"container", c>>}
  /\ UNCHANGED <<host, pc, left, todo, held, batch, stood>>

\* Faulty variant: a failed inspection ends the collector.
InspectFailsAll(c) ==
  /\ pc = "inspect"
  /\ c \in todo
  /\ Proceed("docker")
  /\ unread' = unread \cup {<<"container", c>>}
  /\ UNCHANGED <<host, batch, stood>>

\* "container may have vanished between list and inspect", or time has run out.
InspectFails(c) ==
  /\ pc = "inspect"
  /\ c \in todo
  /\ todo' = todo \ {c}
  /\ unread' = unread \cup {<<"container", c>>}
  /\ UNCHANGED <<host, pc, left, held, batch, stood>>

EndDocker ==
  /\ pc = "inspect"
  /\ todo = {}
  /\ Proceed("docker")
  /\ UNCHANGED <<host, batch, history>>

-----------------------------------------------------------------------------
(***************************************************************************)
(* Processes: the command line, then the link to the executable, then the  *)
(* link to the working directory, of whatever has the number by then.      *)
(***************************************************************************)
ListProcesses ==
  /\ pc = "process"
  /\ pc' = "cmdline"
  /\ todo' = {t[2] : t \in On("process")}
  /\ UNCHANGED <<host, left, held, batch, history>>

\* classifyProcess knows the process by its command line, or passes it over.
ReadCmdline(p) ==
  /\ pc = "cmdline"
  /\ held = Nothing
  /\ p \in todo
  /\ LET found == {g \in ProgramOf(p) : Programs[g].cmd \in Automations}
     IN  IF found = {} THEN todo' = todo \ {p} /\ UNCHANGED held
         ELSE /\ held' = <<p, Programs[CHOOSE g \in found : TRUE].cmd>>
              /\ UNCHANGED todo
  /\ UNCHANGED <<host, pc, left, batch, history>>

\* What a link of process p says: nothing if it may not be read or is gone.
Link(p, field) ==
  LET mine == {g \in ProgramOf(p) : Programs[g].readable}
  IN  IF mine = {} THEN "" ELSE Programs[CHOOSE g \in mine : TRUE][field]

ReadExe ==
  /\ pc = "cmdline"
  /\ Len(held) = 2
  /\ held' = Append(held, Link(held[1], "exe"))
  /\ UNCHANGED <<host, pc, left, todo, batch, history>>

\* Faulty variant: what was read is kept for the next process.
ReadCwdKeeping ==
  /\ pc = "cmdline"
  /\ Len(held) = 3
  /\ batch' = batch \cup {<<"process", held[3], Link(held[1], "cwd"), held[2]>>}
  /\ todo' = todo \ {held[1]}
  /\ UNCHANGED <<host, pc, left, held, history>>

\* The identity of the observation is exe|cwd.
ReadCwd ==
  /\ pc = "cmdline"
  /\ Len(held) = 3
  /\ batch' = batch \cup {<<"process", held[3], Link(held[1], "cwd"), held[2]>>}
  /\ todo' = todo \ {held[1]}
  /\ held' = Nothing
  /\ UNCHANGED <<host, pc, left, history>>

EndProcesses ==
  /\ pc = "cmdline"
  /\ todo = {}
  /\ Proceed("process")
  /\ UNCHANGED <<host, batch, history>>

-----------------------------------------------------------------------------
(***************************************************************************)
(* Files: the roots of the search one after the other, and the crontabs.   *)
(***************************************************************************)
\* WalkDir lists a root, and comes to what it has listed.
WalkRoot ==
  /\ pc = "filesystem"
  /\ todo = {}
  /\ left # << >>
  /\ left' = Tail(left)
  /\ todo' = {f \in Tree[Head(left)] : <<"trace", f>> \in there}
  /\ UNCHANGED <<host, pc, held, batch, history>>

\* A file that is gone is passed over.  Opening what bears the name of one is
\* taken to return: a named pipe without a writer would hold grepFile up.
VisitFile(f) ==
  /\ pc = "filesystem"
  /\ f \in todo
  /\ todo' = todo \ {f}
  /\ batch' = batch \cup ({<<"fs.artifact", f>>} \cap {<<"fs.artifact", t[2]>> : t \in On("trace")})
  /\ UNCHANGED <<host, pc, left, held, history>>

EndFiles ==
  /\ pc = "filesystem"
  /\ left = << >>
  /\ todo = {}
  /\ Proceed("filesystem")
  /\ UNCHANGED <<host, batch, history>>

\* A systemd service with a timer counts as a crontab with one line, its first
\* ExecStart, and reads as one.
ListCrontabs ==
  /\ pc = "cron"
  /\ pc' = "crontab"
  /\ todo' = DOMAIN Crontabs
  /\ UNCHANGED <<host, left, held, batch, history>>

\* parseCrontab reads the lines a file has when it is opened.
ParseCrontab(f) ==
  /\ pc = "crontab"
  /\ f \in todo
  /\ todo' = todo \ {f}
  /\ batch' = batch \cup {<<"cron.entry", t[2], t[3]>> : t \in {u \in On("cron") : u[2] = f}}
  /\ UNCHANGED <<host, pc, left, held, history>>

EndCron ==
  /\ pc = "crontab"
  /\ todo = {}
  /\ Proceed("cron")
  /\ UNCHANGED <<host, batch, history>>

-----------------------------------------------------------------------------
(***************************************************************************)
(* Network: a connection, then one request for each marker.                *)
(***************************************************************************)
Markers == {"/rest", "/api/v1/docs", "/healthz", "/rest-settings"}

\* An n8n answers two of its markers at least.
MarkerAssumption ==
  "n8n" \in DOMAIN Services => Cardinality({m \in Markers : Services["n8n"][m] # 404}) >= 2

\* A target that refuses is passed over.
Dial ==
  /\ pc = "network"
  /\ todo = {}
  /\ held = Nothing
  /\ left # << >>
  /\ IF ServiceAt(Head(left)) = {} THEN left' = Tail(left) /\ UNCHANGED <<todo, held>>
     ELSE todo' = Markers /\ held' = <<{}>> /\ UNCHANGED left
  /\ UNCHANGED <<host, pc, batch, history>>

\* A connection that fails though something listens: the target is passed
\* over just the same.
DialFails ==
  /\ pc = "network"
  /\ todo = {}
  /\ held = Nothing
  /\ left # << >>
  /\ left' = Tail(left)
  /\ unread' = unread \cup {<<"service", Head(left), s>> : s \in ServiceAt(Head(left))}
  /\ UNCHANGED <<host, pc, todo, held, batch, stood>>

\* Whatever is answered, but "not found", is a marker.
Probe(m) ==
  /\ pc = "network"
  /\ m \in todo
  /\ todo' = todo \ {m}
  /\ held' = IF \E s \in ServiceAt(Head(left)) : Services[s][m] # 404
             THEN <<held[1] \cup {m}>> ELSE held
  /\ UNCHANGED <<host, pc, left, batch, history>>

\* A request that times out counts as no marker.
ProbeFails(m) ==
  /\ pc = "network"
  /\ m \in todo
  /\ todo' = todo \ {m}
  /\ unread' = unread \cup {<<"service", Head(left), s>> : s \in ServiceAt(Head(left))}
  /\ UNCHANGED <<host, pc, left, held, batch, stood>>

\* Two markers make an n8n.
Fingerprinted ==
  /\ pc = "network"
  /\ todo = {}
  /\ held # Nothing
  /\ batch' = batch \cup {<<"network.service", Head(left), Cardinality(held[1]) >= 2>>}
  /\ left' = Tail(left)
  /\ held' = Nothing
  /\ UNCHANGED <<host, pc, todo, history>>

EndNetwork ==
  /\ pc = "network"
  /\ left = << >>
  /\ Proceed("network")
  /\ UNCHANGED <<host, batch, history>>

-----------------------------------------------------------------------------
\* One page of workflows is fetched.
FetchWorkflows ==
  /\ pc = "n8n-api"
  /\ LET all == {t[2] : t \in On("workflow")}
     IN  \E page \in kSubset(Min({PageLimit, Cardinality(all)}), all) :
           batch' = batch \cup {<<"n8n.api", page>>}
  /\ Proceed("n8n-api")
  /\ UNCHANGED <<host, history>>

-----------------------------------------------------------------------------
\* The host when the agent is started.
Initially == {t \in Things : t[1] \in {"container", "trace", "cron", "workflow"}}

Init ==
  /\ there = Initially
  /\ pc = "rest"
  /\ left = << >>
  /\ todo = {}
  /\ held = Nothing
  /\ batch = {}
  /\ stood = {}
  /\ unread = {}
  /\ changes = 0

HostChanges == \E t \in Things : Appear(t) \/ Vanish(t)

Docker ==
  \/ ListContainers \/ EndDocker
  \/ \E c \in Containers : Inspect(c) \/ InspectFails(c)
  \/ CollectorFails("docker", {<<"container", c>> : c \in Containers})

Process ==
  ListProcesses \/ ReadExe \/ ReadCwd \/ EndProcesses \/ \E p \in Pids : ReadCmdline(p)

Files ==
  \/ WalkRoot \/ EndFiles \/ ListCrontabs \/ EndCron
  \/ \E f \in AllTraces : VisitFile(f)
  \/ \E f \in DOMAIN Crontabs : ParseCrontab(f)

Network ==
  Dial \/ DialFails \/ Fingerprinted \/ EndNetwork \/ \E m \in Markers : Probe(m) \/ ProbeFails(m)

N8NAPI ==
  FetchWorkflows \/ CollectorFails("n8n-api", {<<"workflow", w>> : w \in Workflows})

Scan == StartScan \/ Docker \/ Process \/ Files \/ Network \/ N8NAPI \/ Ship

Next == Scan \/ HostChanges

Spec == Init /\ [][Next]_vars

\* Calls of a scan return: requests have a time-out, and files are local and
\* plain ones.
FairSpec == Spec /\ WF_vars(Scan)

-----------------------------------------------------------------------------
TypeOK ==
  /\ there \subseteq Things
  /\ \A t, u \in there : t # u => Place(t) \cap Place(u) = {}
  /\ pc \in {"rest", "inspect", "cmdline", "crontab"} \cup {Order[n] : n \in DOMAIN Order}
  /\ todo \subseteq Containers \cup Pids \cup AllTraces \cup DOMAIN Crontabs \cup Markers
  /\ pc = "cmdline" /\ held # Nothing => held[1] \in todo /\ Len(held) \in 2 .. 3
  /\ stood \subseteq there
  /\ unread \subseteq Things
  /\ changes \in 0 .. MaxChanges

\* How the batch shows a thing of each kind that should be found.
Shown(t) ==
  CASE t[1] = "container" -> <<"docker.container", t[2]>> \in batch
    [] t[1] = "process" ->
         Programs[t[3]].cmd \in Automations =>
           LET g == Programs[t[3]]
           IN  <<"process", IF g.readable THEN g.exe ELSE "", IF g.readable THEN g.cwd ELSE "",
                 g.cmd>> \in batch
    [] t[1] = "trace" -> <<"fs.artifact", t[2]>> \in batch
    [] t[1] = "cron" -> <<"cron.entry", t[2], t[3]>> \in batch
    [] t[1] = "service" -> t[3] = "n8n" => <<"network.service", t[2], TRUE>> \in batch
    [] OTHER -> TRUE

\* Whatever comes and goes, and whichever read or collector fails, a thing
\* that has been there all the time, and could be read itself, is in the
\* batch (Collect of each collector, scanAndShip).  Workflows are apart.
StandingIsReported == pc = "ship" => \A t \in stood \ unread : Shown(t)

\* A scan comes to its end and is shipped, on a host that never stands still.
ScanEnds == pc = "docker" ~> pc = "ship"
=============================================================================
