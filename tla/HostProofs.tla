------------------------------- MODULE HostProofs -------------------------------
(***************************************************************************)
(* The proof that a scan finds what stands still, for every value of the   *)
(* constants of HostScan.  FoundInv follows each kind of thing through the *)
(* collector that looks for it: what stands and has not been found yet is  *)
(* still on a list, under a root or at a target that is left, or is what   *)
(* the collector holds, and what it holds is true of the thing at hand.    *)
(* Last, the types: a scan is at one of its places and holds what its      *)
(* collectors list.                                                        *)
(***************************************************************************)
EXTENDS ReleaseProofs

-----------------------------------------------------------------------------
(***************************************************************************)
(* The course of a scan.                                                   *)
(***************************************************************************)
AfterNetwork == {"n8n-api", "ship"}
AfterCron    == {"network"} \cup AfterNetwork
AfterFiles   == {"cron", "crontab"} \cup AfterCron
AfterProcess == {"filesystem"} \cup AfterFiles
AfterDocker  == {"process", "cmdline"} \cup AfterProcess

\* The order in which the collectors follow each other.
LEMMA Course ==
  /\ After("docker") = "process"
  /\ After("process") = "filesystem"
  /\ After("filesystem") = "cron"
  /\ After("cron") = "network"
  /\ After("network") = "n8n-api"
  /\ After("n8n-api") = "ship"
<1>1. DOMAIN Order = 1 .. 7
  BY DEF Order
<1>2. /\ Order[1] = "docker" /\ Order[2] = "process" /\ Order[3] = "filesystem"
      /\ Order[4] = "cron" /\ Order[5] = "network" /\ Order[6] = "n8n-api" /\ Order[7] = "ship"
  BY DEF Order
<1>3. \A n \in 1 .. 7 : n = 1 \/ n = 2 \/ n = 3 \/ n = 4 \/ n = 5 \/ n = 6 \/ n = 7
  OBVIOUS
<1>4. (CHOOSE n \in DOMAIN Order : Order[n] = "docker") = 1
  BY <1>1, <1>2, <1>3
<1>5. (CHOOSE n \in DOMAIN Order : Order[n] = "process") = 2
  BY <1>1, <1>2, <1>3
<1>6. (CHOOSE n \in DOMAIN Order : Order[n] = "filesystem") = 3
  BY <1>1, <1>2, <1>3
<1>7. (CHOOSE n \in DOMAIN Order : Order[n] = "cron") = 4
  BY <1>1, <1>2, <1>3
<1>8. (CHOOSE n \in DOMAIN Order : Order[n] = "network") = 5
  BY <1>1, <1>2, <1>3
<1>9. (CHOOSE n \in DOMAIN Order : Order[n] = "n8n-api") = 6
  BY <1>1, <1>2, <1>3
<1>10. 1 + 1 = 2 /\ 1 + 2 = 3 /\ 1 + 3 = 4 /\ 1 + 4 = 5 /\ 1 + 5 = 6 /\ 1 + 6 = 7
  OBVIOUS
<1> HIDE DEF Order
<1>11. After("docker") = "process" /\ After("process") = "filesystem"
  BY <1>2, <1>4, <1>5, <1>10 DEF After
<1>12. After("filesystem") = "cron" /\ After("cron") = "network"
  BY <1>2, <1>6, <1>7, <1>10 DEF After
<1>13. After("network") = "n8n-api" /\ After("n8n-api") = "ship"
  BY <1>2, <1>8, <1>9, <1>10 DEF After
<1> QED
  BY <1>11, <1>12, <1>13

\* What the steps of a scan do to the place it is at; observations are added,
\* nothing that stood is forgotten but by the host itself.
Adds == batch \subseteq batch' /\ stood' = stood /\ unread \subseteq unread' /\ there' = there

\* The container collector runs, or hands over to the processes.
LEMMA DockerCourse ==
  ASSUME Docker
  PROVE  /\ pc \in {"docker", "inspect"} /\ pc' \in {"inspect", "process"} /\ Adds
         /\ pc' = "process" => held' = Nothing /\ left' = << >>
BY Course DEF Docker, ListContainers, EndDocker, Inspect, InspectFails, CollectorFails, Proceed,
   Adds, host, history

\* The process collector runs, or hands over to the search, which begins with all roots.
LEMMA ProcessCourse ==
  ASSUME Process
  PROVE  /\ pc \in {"process", "cmdline"} /\ pc' \in {"cmdline", "filesystem"} /\ Adds
         /\ pc' = "filesystem" => EndProcesses /\ held' = Nothing /\ left' = Roots /\ todo' = {}
BY Course DEF Process, ListProcesses, ReadExe, ReadCwd, EndProcesses, ReadCmdline, Proceed,
   Adds, host, history

\* The search and the crontabs run, or hand over to the probing of all targets.
LEMMA FilesCourse ==
  ASSUME Files
  PROVE  /\ \/ pc = "filesystem" /\ pc' \in {"filesystem", "cron"}
            \/ pc = "cron" /\ pc' = "crontab"
            \/ pc = "crontab" /\ pc' \in {"crontab", "network"}
         /\ Adds
         /\ pc' = "network" => EndCron /\ held' = Nothing /\ left' = Targets /\ todo' = {}
BY Course DEF Files, WalkRoot, EndFiles, ListCrontabs, EndCron, VisitFile, ParseCrontab, Proceed,
   Adds, host, history

\* The probing runs, or hands over to the API.
LEMMA NetworkCourse ==
  ASSUME Network
  PROVE  pc = "network" /\ pc' \in {"network", "n8n-api"} /\ Adds
BY Course DEF Network, Dial, DialFails, Fingerprinted, EndNetwork, Probe, ProbeFails, Proceed,
   Adds, host, history

\* The API is the last that is asked, whether or not it answers.
LEMMA N8NAPICourse ==
  ASSUME N8NAPI
  PROVE  pc = "n8n-api" /\ pc' = "ship" /\ Adds
BY Course DEF N8NAPI, FetchWorkflows, CollectorFails, Proceed, Adds, host, history

\* The host changes between any two reads.
LEMMA HostCourse ==
  ASSUME HostChanges \/ UNCHANGED vars
  PROVE  /\ UNCHANGED <<pc, left, todo, held>> /\ batch' = batch
         /\ stood' \subseteq stood /\ unread' = unread
BY DEF HostChanges, Appear, Vanish, vars

-----------------------------------------------------------------------------
(***************************************************************************)
(* Types, and what is held of the thing at hand.                           *)
(***************************************************************************)
Stops == DOMAIN Tree \cup {Targets[n] : n \in DOMAIN Targets}

\* No two things on the host are in one place.
Apart == \A t, u \in there : t # u => Place(t) \cap Place(u) = {}

\* What has been read of a process: nothing, the command line, or the
\* executable as well.
HeldOfProcess ==
  \/ held = Nothing
  \/ /\ \E S : held \in Seq(S)
     /\ Len(held) \in 2 .. 3
     /\ held[1] \in todo

\* What has been read of a service: the markers it has shown.
HeldOfService ==
  \/ held = Nothing /\ todo = {}
  \/ left # << >> /\ \E M \in SUBSET Markers : held = <<M>>

\* What the collectors go through, and what they hold at each place.
Shape ==
  /\ there \subseteq Things
  /\ stood \subseteq there
  /\ Apart
  /\ left \in Seq(Stops)
  /\ pc = "process" => held = Nothing
  /\ pc = "cmdline" => HeldOfProcess
  /\ pc = "network" => HeldOfService

\* The host cannot put two things in one place, nor a thing that does not exist.
LEMMA ShapeHost ==
  ASSUME Shape, HostChanges
  PROVE  Shape'
<1>1. UNCHANGED <<pc, left, todo, held>>
  BY HostCourse
<1>2. PICK t \in Things : Appear(t) \/ Vanish(t)
  BY DEF HostChanges
<1>3. CASE Appear(t)
  <2>1. there' = there \cup {t} /\ stood' = stood /\ Fits(t)
    BY <1>3 DEF Appear
  <2>2. there' \subseteq Things /\ stood' \subseteq there'
    BY <2>1 DEF Shape
  <2>3. Apart'
    BY <2>1 DEF Shape, Apart, Fits, Place
  <2> QED
    BY <1>1, <2>2, <2>3 DEF Shape, HeldOfProcess, HeldOfService
<1>4. CASE Vanish(t)
  <2>1. there' = there \ {t} /\ stood' = stood \ {t}
    BY <1>4 DEF Vanish
  <2>2. there' \subseteq Things /\ stood' \subseteq there'
    BY <2>1 DEF Shape
  <2>3. Apart'
    BY <2>1 DEF Shape, Apart, Place
  <2> QED
    BY <1>1, <2>2, <2>3 DEF Shape, HeldOfProcess, HeldOfService
<1> QED
  BY <1>2, <1>3, <1>4

\* A step of the scan leaves the host alone.
LEMMA ShapeFrame ==
  ASSUME Shape, there' = there, stood' = stood, left' \in Seq(Stops),
         pc' = "process" => held' = Nothing,
         pc' = "cmdline" => HeldOfProcess', pc' = "network" => HeldOfService'
  PROVE  Shape'
BY DEF Shape, Apart, Place

\* The steps of the container collector keep the shape.
LEMMA ShapeDocker ==
  ASSUME Shape, Docker
  PROVE  Shape'
<1>1. left' \in Seq(Stops)
  <2>1. left' = left \/ left' = << >>
    BY Course DEF Docker, ListContainers, EndDocker, Inspect, InspectFails, CollectorFails, Proceed
  <2>2. left \in Seq(Stops) /\ << >> \in Seq(Stops)
    BY DEF Shape
  <2> QED
    BY <2>1, <2>2
<1> QED
  BY <1>1, DockerCourse, ShapeFrame DEF Adds

\* The executable is read for the process whose command line was read.
LEMMA ShapeProcess ==
  ASSUME SearchAssumption, Shape, Process
  PROVE  Shape'
<1>1. left' \in Seq(Stops)
  <2>1. left' = left \/ left' = Roots
    BY Course DEF Process, ListProcesses, ReadExe, ReadCwd, EndProcesses, ReadCmdline, Proceed
  <2>2. Roots \in Seq(Stops)
    BY DEF SearchAssumption, Stops
  <2> QED
    BY <2>1, <2>2 DEF Shape
<1>2. pc' = "cmdline" => HeldOfProcess'
  <2>1. CASE ListProcesses
    BY <2>1 DEF ListProcesses, Shape, HeldOfProcess
  <2>2. ASSUME NEW p \in Pids, ReadCmdline(p) PROVE HeldOfProcess'
    <3>1. \/ held' = Nothing
          \/ todo' = todo /\ p \in todo /\ \E c : held' = <<p, c>>
      BY <2>2 DEF ReadCmdline
    <3>2. CASE \E c : held' = <<p, c>>
      <4>1. PICK c : held' = <<p, c>>
        BY <3>2
      <4>2. held' \in Seq({p, c}) /\ Len(held') = 2 /\ held'[1] = p
        BY <4>1
      <4>3. held' # Nothing
        BY <4>2 DEF Nothing
      <4> QED
        BY <3>1, <4>2, <4>3 DEF HeldOfProcess
    <3> QED
      BY <3>1, <3>2 DEF HeldOfProcess
  <2>3. CASE ReadExe
    <3>1. todo' = todo /\ Len(held) = 2 /\ held' = Append(held, Link(held[1], "exe")) /\ HeldOfProcess
      BY <2>3 DEF ReadExe, Shape
    <3> DEFINE x == Link(held[1], "exe")
    <3> HIDE DEF x
    <3>2. held # Nothing
      BY <3>1 DEF Nothing
    <3>3. PICK S : held \in Seq(S)
      BY <3>1, <3>2 DEF HeldOfProcess
    <3> DEFINE T == S \cup {x}
    <3>4. held \in Seq(T) /\ held[1] \in todo /\ x \in T
      <4>1. held[1] \in todo
        BY <3>1, <3>2 DEF HeldOfProcess
      <4>2. held \in Seq(T)
        BY <3>3
      <4>3. x \in T
        BY DEF T
      <4> QED
        BY <4>1, <4>2, <4>3
    <3> HIDE DEF T
    <3>5. held' = Append(held, x) /\ Len(held) = 2
      BY <3>1 DEF x
    <3>6. Append(held, x) \in Seq(T)
      BY <3>4
    <3>7. Len(Append(held, x)) = 3 /\ Append(held, x)[1] = held[1]
      <4>1. held \in Seq(T) /\ x \in T
        BY <3>4
      <4>2. Len(Append(held, x)) = Len(held) + 1
        BY ONLY <4>1
      <4>3. \A n \in 1 .. Len(held) : Append(held, x)[n] = held[n]
        BY ONLY <4>1
      <4> QED
        BY <3>5, <4>1, <4>2, <4>3
    <3> QED
      BY <3>1, <3>4, <3>5, <3>6, <3>7 DEF HeldOfProcess
  <2>4. CASE ReadCwd
    BY <2>4 DEF ReadCwd, HeldOfProcess
  <2>5. CASE EndProcesses
    BY <2>5, Course DEF EndProcesses, Proceed
  <2> QED
    BY <2>1, <2>2, <2>3, <2>4, <2>5 DEF Process
<1> QED
  BY <1>1, <1>2, ProcessCourse, ShapeFrame DEF Adds

\* What is left of the search is part of the roots, and is not held.
LEMMA ShapeFiles ==
  ASSUME SearchAssumption, Shape, Files
  PROVE  Shape'
<1>1. left' \in Seq(Stops)
  <2>1. \/ left' = left \/ (left # << >> /\ left' = Tail(left)) \/ left' = << >> \/ left' = Targets
    BY Course DEF Files, WalkRoot, EndFiles, ListCrontabs, EndCron, VisitFile, ParseCrontab, Proceed
  <2>2. Targets \in Seq(Stops)
    BY DEF SearchAssumption, Stops
  <2>3. left \in Seq(Stops) /\ << >> \in Seq(Stops) /\ (left # << >> => Tail(left) \in Seq(Stops))
    <3>1. left \in Seq(Stops)
      BY DEF Shape
    <3> QED
      BY <3>1
  <2> QED
    BY <2>1, <2>2, <2>3
<1>2. pc' = "network" => HeldOfService'
  BY FilesCourse DEF HeldOfService
<1> QED
  BY <1>1, <1>2, FilesCourse, ShapeFrame DEF Adds

\* Markers are asked for one target, and counted in one set.
LEMMA ShapeNetwork ==
  ASSUME Shape, Network
  PROVE  Shape'
<1>1. pc = "network" /\ HeldOfService /\ left \in Seq(Stops)
  BY NetworkCourse DEF Shape
<1>2. left' \in Seq(Stops) /\ (pc' = "network" => HeldOfService')
  <2>1. CASE Dial
    BY <1>1, <2>1 DEF Dial, HeldOfService
  <2>2. ASSUME NEW m \in Markers, Probe(m) \/ ProbeFails(m)
        PROVE  left' \in Seq(Stops) /\ HeldOfService'
    <3>1. /\ left' = left /\ (held' = held \/ held' = <<held[1] \cup {m}>>)
          /\ m \in todo
      BY <2>2 DEF Probe, ProbeFails
    <3>2. PICK M \in SUBSET Markers : left # << >> /\ held = <<M>>
      BY <1>1, <3>1 DEF HeldOfService
    <3>3. held[1] = M
      BY <3>2
    <3>4. \E N \in SUBSET Markers : held' = <<N>>
      BY <3>1, <3>2, <3>3
    <3> QED
      BY <1>1, <3>1, <3>2, <3>4 DEF HeldOfService
  <2>5. CASE DialFails
    BY <1>1, <2>5 DEF DialFails, HeldOfService
  <2>3. CASE Fingerprinted
    BY <1>1, <2>3 DEF Fingerprinted, HeldOfService
  <2>4. CASE EndNetwork
    <3>1. left' = << >> /\ pc' = "n8n-api"
      BY <2>4, Course DEF EndNetwork, Proceed
    <3> QED
      BY <3>1
  <2> QED
    BY <2>1, <2>2, <2>3, <2>4, <2>5 DEF Network
<1> QED
  BY <1>2, NetworkCourse, ShapeFrame DEF Adds

\* The shape at the ends of a scan.
LEMMA ShapeRest ==
  ASSUME Shape, N8NAPI \/ StartScan \/ Ship \/ UNCHANGED vars
  PROVE  Shape'
<1>1. CASE N8NAPI
  <2>1. left' = << >>
    BY <1>1, Course DEF N8NAPI, FetchWorkflows, CollectorFails, Proceed
  <2>2. left' \in Seq(Stops)
    BY <2>1
  <2> QED
    BY <1>1, <2>2, N8NAPICourse, ShapeFrame DEF Adds
<1>2. CASE StartScan
  BY <1>2 DEF StartScan, Shape, Apart, Place, host
<1>3. CASE Ship
  BY <1>3, ShapeFrame DEF Ship, Shape, history, host
<1>4. CASE UNCHANGED vars
  BY <1>4 DEF vars, Shape, Apart, Place, HeldOfProcess, HeldOfService
<1> QED
  BY <1>1, <1>2, <1>3, <1>4

\* Every step keeps the shape.
LEMMA ShapeStep ==
  ASSUME SearchAssumption, Shape, [Next]_vars
  PROVE  Shape'
BY ShapeHost, ShapeDocker, ShapeProcess, ShapeFiles, ShapeNetwork, ShapeRest DEF Next, Scan

-----------------------------------------------------------------------------
(***************************************************************************)
(* What stands is found: for each kind of thing, that it is still to come, *)
(* at hand, or in the batch.                                               *)
(***************************************************************************)
Standing(t) == t \in stood \ unread

\* What every step does to the batch and the history, but the start of a scan.
Forward == batch \subseteq batch' /\ stood' \subseteq stood /\ unread \subseteq unread'

\* A container that stands is still to be inspected, or in the batch.
ContainersFound ==
  \A c \in Containers : Standing(<<"container", c>>) =>
    /\ pc = "inspect" => c \in todo \/ <<"docker.container", c>> \in batch
    /\ pc \in AfterDocker => <<"docker.container", c>> \in batch

\* A step that is none of the Docker collector.
LEMMA ContainersElsewhere ==
  ASSUME ContainersFound, Forward,
         pc' = "inspect" => pc = "inspect" /\ todo' = todo,
         pc' \in AfterDocker => pc \in AfterDocker
  PROVE  ContainersFound'
BY DEF ContainersFound, Standing, Forward

\* A container that stands is on the list, and its inspection fails or is in the batch.
LEMMA ContainersDocker ==
  ASSUME Shape, ContainersFound, Docker
  PROVE  ContainersFound'
<1>1. Forward /\ pc' \in {"inspect", "process"} /\ there' = there
  BY DockerCourse DEF Adds, Forward
<1>2. CASE ListContainers
  <2>1. pc' = "inspect" /\ todo' = {t[2] : t \in On("container")} /\ stood' = stood
    BY <1>2 DEF ListContainers, history
  <2>2. ASSUME NEW c \in Containers, <<"container", c>> \in there
        PROVE  c \in todo'
    BY <2>1, <2>2 DEF On
  <2> QED
    BY <2>1, <2>2 DEF ContainersFound, Standing, Shape, AfterDocker, AfterProcess, AfterFiles,
       AfterCron, AfterNetwork
<1>3. CASE EndDocker
  <2>1. pc = "inspect" /\ todo = {}
    BY <1>3 DEF EndDocker
  <2> QED
    BY <1>1, <2>1 DEF ContainersFound, Standing, Forward
<1>4. ASSUME NEW c \in Containers, Inspect(c) \/ InspectFails(c)
      PROVE  ContainersFound'
  <2>1. /\ pc = "inspect" /\ pc' = pc /\ todo' = todo \ {c}
        /\ <<"docker.container", c>> \in batch' \/ <<"container", c>> \in unread'
    BY <1>4 DEF Inspect, InspectFails
  <2> QED
    BY <1>1, <2>1 DEF ContainersFound, Standing, Forward, AfterDocker, AfterProcess, AfterFiles,
       AfterCron, AfterNetwork
<1>5. CASE CollectorFails("docker", {<<"container", c>> : c \in Containers})
  <2>1. \A c \in Containers : <<"container", c>> \in unread'
    BY <1>5 DEF CollectorFails
  <2> QED
    BY <2>1 DEF ContainersFound, Standing
<1> QED
  BY <1>2, <1>3, <1>4, <1>5 DEF Docker

-----------------------------------------------------------------------------
\* What a link of a process with program g says, and how the batch shows it.
Says(g, f) == IF Programs[g].readable THEN Programs[g][f] ELSE ""

\* The observation of a process that runs g.
ShownProcess(g) == <<"process", Says(g, "exe"), Says(g, "cwd"), Programs[g].cmd>>

\* A process that stands is still on the list, or in the batch; what is held of
\* it is what it runs.
ProcessesFound ==
  \A p \in Pids, g \in DOMAIN Programs :
    Standing(<<"process", p, g>>) /\ Programs[g].cmd \in Automations =>
      /\ pc = "cmdline" =>
           /\ p \in todo \/ ShownProcess(g) \in batch
           /\ held # Nothing /\ held[1] = p =>
                held[2] = Programs[g].cmd /\ (Len(held) = 3 => held[3] = Says(g, "exe"))
      /\ pc \in AfterProcess => ShownProcess(g) \in batch

\* Steps of others do not touch what is found of processes.
LEMMA ProcessesElsewhere ==
  ASSUME ProcessesFound, Forward,
         pc' = "cmdline" => pc = "cmdline" /\ todo' = todo /\ held' = held,
         pc' \in AfterProcess => pc \in AfterProcess
  PROVE  ProcessesFound'
BY DEF ProcessesFound, Standing, Forward, ShownProcess, Says

\* A number belongs to one process, so that all reads are of its program.
LEMMA OneProgram ==
  ASSUME Shape, NEW p, NEW g, <<"process", p, g>> \in there
  PROVE  ProgramOf(p) = {g}
<1> DEFINE t == <<"process", p, g>>
<1>1. t[1] = "process" /\ t[2] = p /\ t[3] = g
  OBVIOUS
<1>2. g \in ProgramOf(p)
  BY <1>1 DEF ProgramOf, On
<1>3. ASSUME NEW h \in ProgramOf(p)
      PROVE  h = g
  <2>1. PICK u \in there : u[1] = "process" /\ u[2] = p /\ u[3] = h
    BY DEF ProgramOf, On
  <2>2. Place(u) = {<<"process", p>>} /\ Place(t) = {<<"process", p>>}
    BY <1>1, <2>1 DEF Place
  <2>3. u = t
    BY <2>2 DEF Shape, Apart
  <2> QED
    BY <1>1, <2>1, <2>3
<1> QED
  BY <1>2, <1>3

\* A link of a process that alone has its number says what that process says.
LEMMA LinkSays ==
  ASSUME NEW p, NEW g, ProgramOf(p) = {g}, NEW f
  PROVE  Link(p, f) = Says(g, f)
<1> DEFINE mine == {h \in ProgramOf(p) : Programs[h].readable}
<1>1. CASE Programs[g].readable
  <2>1. mine = {g}
    BY <1>1
  <2>2. (CHOOSE h \in mine : TRUE) = g
    BY <2>1
  <2> QED
    BY <1>1, <2>1, <2>2 DEF Link, Says
<1>2. CASE ~ Programs[g].readable
  <2>1. mine = {}
    BY <1>2
  <2> QED
    BY <1>2, <2>1 DEF Link, Says
<1> QED
  BY <1>1, <1>2

\* A process that stands is known by its command line, and its links are still its own
\* when they are read.
LEMMA ProcessesRead ==
  ASSUME Shape, ProcessesFound, Process
  PROVE  ProcessesFound'
<1> SUFFICES ASSUME NEW p \in Pids, NEW g \in DOMAIN Programs,
                    Standing(<<"process", p, g>>)', Programs[g].cmd \in Automations
             PROVE  /\ pc' = "cmdline" =>
                         /\ p \in todo' \/ ShownProcess(g) \in batch'
                         /\ held' # Nothing /\ held'[1] = p =>
                              /\ held'[2] = Programs[g].cmd
                              /\ Len(held') = 3 => held'[3] = Says(g, "exe")
                    /\ pc' \in AfterProcess => ShownProcess(g) \in batch'
  BY DEF ProcessesFound, ShownProcess, Says
<1> DEFINE t == <<"process", p, g>>
           cmd == Programs[g].cmd
<1>1. /\ pc \in {"process", "cmdline"} /\ pc' \in {"cmdline", "filesystem"}
      /\ batch \subseteq batch' /\ Standing(t) /\ t \in there
      /\ pc' = "filesystem" => EndProcesses
  BY ProcessCourse DEF Adds, Standing, Shape
<1>2. ProgramOf(p) = {g}
  BY <1>1, OneProgram
<1>3. /\ pc = "cmdline" =>
           /\ p \in todo \/ ShownProcess(g) \in batch
           /\ held # Nothing /\ held[1] = p =>
                held[2] = cmd /\ (Len(held) = 3 => held[3] = Says(g, "exe"))
  BY <1>1 DEF ProcessesFound
<1>4. pc' = "cmdline" => pc' \notin AfterProcess
  BY DEF AfterProcess, AfterFiles, AfterCron, AfterNetwork
<1>5. CASE ListProcesses
  <2>1. /\ pc = "process" /\ pc' = "cmdline" /\ held' = held
        /\ todo' = {u[2] : u \in On("process")}
    BY <1>5 DEF ListProcesses
  <2>2. t[1] = "process" /\ t[2] = p
    OBVIOUS
  <2>3. p \in todo'
    BY <1>1, <2>1, <2>2 DEF On
  <2> QED
    BY <1>4, <2>1, <2>3 DEF Shape
<1>6. ASSUME NEW q \in Pids, ReadCmdline(q)
      PROVE  /\ pc' = "cmdline"
             /\ p \in todo' \/ ShownProcess(g) \in batch'
             /\ held' # Nothing /\ held'[1] = p => held'[2] = cmd /\ Len(held') # 3
  <2> DEFINE match == {h \in ProgramOf(q) : Programs[h].cmd \in Automations}
  <2>1. /\ pc = "cmdline" /\ pc' = pc /\ held = Nothing /\ q \in todo /\ batch' = batch
        /\ IF match = {} THEN todo' = todo \ {q} /\ held' = held
           ELSE /\ held' = <<q, Programs[CHOOSE h \in match : TRUE].cmd>>
                /\ todo' = todo
    BY <1>6 DEF ReadCmdline
  <2>2. CASE q = p
    <3>1. match = {g}
      BY <1>2, <2>2
    <3>2. (CHOOSE h \in match : TRUE) = g
      BY <3>1
    <3>3. held' = <<p, cmd>> /\ todo' = todo
      BY <2>1, <2>2, <3>1, <3>2
    <3>4. held'[2] = cmd /\ Len(held') = 2
      BY <3>3
    <3> QED
      BY <2>1, <2>2, <3>3, <3>4
  <2>3. CASE q # p
    <3>1. held' # Nothing => held'[1] = q
      BY <2>1
    <3>2. p \in todo => p \in todo'
      BY <2>1, <2>3
    <3> QED
      BY <1>3, <2>1, <2>3, <3>1, <3>2
  <2> QED
    BY <2>2, <2>3
<1>7. CASE ReadExe
  <2> DEFINE x == Link(held[1], "exe")
  <2>1. /\ pc = "cmdline" /\ pc' = pc /\ Len(held) = 2 /\ held' = Append(held, x)
        /\ todo' = todo /\ batch' = batch
    BY <1>7 DEF ReadExe
  <2>2. held # Nothing
    <3>1. Len(Nothing) = 0
      BY DEF Nothing
    <3>2. Len(held) = 2
      BY <2>1
    <3> QED
      BY <3>1, <3>2
  <2>3. PICK S : held \in Seq(S)
    BY <2>1, <2>2 DEF Shape, HeldOfProcess
  <2> DEFINE T == S \cup {x}
  <2>4. held \in Seq(T) /\ x \in T
    BY <2>3
  <2> HIDE DEF T, x
  <2>5. Append(held, x)[Len(held) + 1] = x /\ \A n \in 1 .. Len(held) : Append(held, x)[n] = held[n]
    BY <2>4
  <2>6. held'[1] = held[1] /\ held'[2] = held[2] /\ held'[3] = x
    <3>1. 1 \in 1 .. 2 /\ 2 \in 1 .. 2 /\ 2 + 1 = 3
      OBVIOUS
    <3> QED
      BY <2>1, <2>5, <3>1
  <2>7. held[1] = p => x = Says(g, "exe")
    BY <1>2, LinkSays DEF x
  <2> QED
    BY <1>3, <1>4, <2>1, <2>2, <2>6, <2>7
<1>8. CASE ReadCwd
  <2> DEFINE q == held[1]
             o == <<"process", held[3], Link(q, "cwd"), held[2]>>
  <2>1. /\ pc = "cmdline" /\ pc' = pc /\ Len(held) = 3 /\ held' = Nothing
        /\ todo' = todo \ {q} /\ batch' = batch \cup {o}
    BY <1>8 DEF ReadCwd
  <2>2. held # Nothing
    BY <2>1 DEF Nothing
  <2>3. CASE q = p
    <3>1. held[2] = cmd /\ held[3] = Says(g, "exe")
      BY <1>3, <2>1, <2>2, <2>3
    <3>2. Link(q, "cwd") = Says(g, "cwd")
      BY <1>2, <2>3, LinkSays
    <3>3. o = ShownProcess(g)
      BY <3>1, <3>2 DEF ShownProcess
    <3> QED
      BY <1>4, <2>1, <3>3
  <2>4. CASE q # p
    BY <1>3, <1>4, <2>1, <2>4
  <2> QED
    BY <2>3, <2>4
<1>9. CASE EndProcesses
  <2>1. pc = "cmdline" /\ todo = {}
    BY <1>9 DEF EndProcesses
  <2>2. pc' = "filesystem"
    BY <1>9, Course DEF EndProcesses, Proceed
  <2> QED
    BY <1>1, <1>3, <2>1, <2>2
<1> QED
  BY <1>4, <1>5, <1>6, <1>7, <1>8, <1>9 DEF Process

-----------------------------------------------------------------------------
\* A trace that stands is under a root that is left, still to be visited, or in
\* the batch.
FilesFound ==
  \A f \in AllTraces : Standing(<<"trace", f>>) =>
    /\ pc = "filesystem" => \/ \E n \in DOMAIN left : f \in Tree[left[n]]
                            \/ f \in todo
                            \/ <<"fs.artifact", f>> \in batch
    /\ pc \in AfterFiles => <<"fs.artifact", f>> \in batch

\* A line that stands is in a crontab that is left, or in the batch.
CronsFound ==
  \A f \in DOMAIN Crontabs : \A l \in Crontabs[f] : Standing(<<"cron", f, l>>) =>
    /\ pc = "crontab" => f \in todo \/ <<"cron.entry", f, l>> \in batch
    /\ pc \in AfterCron => <<"cron.entry", f, l>> \in batch

\* Steps of others do not touch what is found of files.
LEMMA FilesElsewhere ==
  ASSUME FilesFound, Forward,
         pc' = "filesystem" => pc = "filesystem" /\ todo' = todo /\ left' = left,
         pc' \in AfterFiles => pc \in AfterFiles
  PROVE  FilesFound'
BY DEF FilesFound, Standing, Forward

\* Steps of others do not touch what is found of crontabs.
LEMMA CronsElsewhere ==
  ASSUME CronsFound, Forward,
         pc' = "crontab" => pc = "crontab" /\ todo' = todo,
         pc' \in AfterCron => pc \in AfterCron
  PROVE  CronsFound'
BY DEF CronsFound, Standing, Forward

\* The search begins with all roots.
LEMMA FilesBegin ==
  ASSUME SearchAssumption, left' = Roots, pc' = "filesystem"
  PROVE  FilesFound'
<1>1. ASSUME NEW f \in AllTraces PROVE \E n \in DOMAIN left' : f \in Tree[left'[n]]
  BY DEF SearchAssumption, AllTraces
<1> QED
  BY <1>1 DEF FilesFound, AfterFiles, AfterCron, AfterNetwork

\* A trace that stands is under a root that is left, on the list, or in the batch.
LEMMA FilesSearched ==
  ASSUME Shape, FilesFound, Files
  PROVE  FilesFound'
<1> SUFFICES ASSUME NEW f \in AllTraces, Standing(<<"trace", f>>)'
             PROVE  /\ pc' = "filesystem" => \/ \E n \in DOMAIN left' : f \in Tree[left'[n]]
                                             \/ f \in todo'
                                             \/ <<"fs.artifact", f>> \in batch'
                    /\ pc' \in AfterFiles => <<"fs.artifact", f>> \in batch'
  BY DEF FilesFound
<1> DEFINE t == <<"trace", f>>
           Shows == <<"fs.artifact", f>> \in batch
<1>1. /\ batch \subseteq batch' /\ Standing(t) /\ t \in there /\ left \in Seq(Stops)
      /\ \/ pc = "filesystem" /\ pc' \in {"filesystem", "cron"}
         \/ pc \in {"cron", "crontab"} /\ pc' \in {"crontab", "network"}
  BY FilesCourse DEF Adds, Standing, Shape
<1>2. /\ pc = "filesystem" => (\E n \in DOMAIN left : f \in Tree[left[n]]) \/ f \in todo \/ Shows
      /\ pc \in AfterFiles => Shows
  BY <1>1 DEF FilesFound
<1>3. pc = "filesystem" => pc \notin AfterFiles
  BY DEF AfterFiles, AfterCron, AfterNetwork
<1>4. CASE WalkRoot
  <2>1. /\ pc = "filesystem" /\ pc' = pc /\ todo = {} /\ left # << >> /\ left' = Tail(left)
        /\ todo' = {e \in Tree[Head(left)] : <<"trace", e>> \in there}
    BY <1>4 DEF WalkRoot
  <2>2. CASE Shows
    BY <1>1, <1>3, <2>1, <2>2
  <2>3. ASSUME NEW n \in DOMAIN left, f \in Tree[left[n]]
        PROVE  f \in todo' \/ \E k \in DOMAIN left' : f \in Tree[left'[k]]
    <3>1. CASE n = 1
      <4>1. Head(left) = left[n]
        BY <1>1, <2>1, <3>1
      <4> QED
        BY <1>1, <2>1, <2>3, <4>1
    <3>2. CASE n # 1
      <4>1. n - 1 \in DOMAIN left' /\ left'[n - 1] = left[n]
        BY <1>1, <2>1, <3>2
      <4> QED
        BY <2>3, <4>1
    <3> QED
      BY <3>1, <3>2
  <2> QED
    BY <1>2, <1>3, <2>1, <2>2, <2>3
<1>5. ASSUME NEW e \in AllTraces, VisitFile(e)
      PROVE  /\ pc' = pc /\ pc = "filesystem" /\ left' = left
             /\ f \in todo => f \in todo' \/ <<"fs.artifact", f>> \in batch'
  <2>1. /\ pc = "filesystem" /\ pc' = pc /\ left' = left /\ todo' = todo \ {e}
        /\ batch' = batch \cup ({<<"fs.artifact", e>>} \cap {<<"fs.artifact", u[2]>> : u \in On("trace")})
    BY <1>5 DEF VisitFile
  <2>2. t \in On("trace") /\ t[2] = f
    BY <1>1 DEF On
  <2>3. e = f => <<"fs.artifact", f>> \in batch'
    BY <2>1, <2>2
  <2> QED
    BY <2>1, <2>3
<1>6. CASE EndFiles
  <2>1. pc = "filesystem" /\ left = << >> /\ todo = {}
    BY <1>6 DEF EndFiles
  <2>2. DOMAIN left = {}
    BY <2>1
  <2>3. pc' = "cron"
    BY <1>6, Course DEF EndFiles, Proceed
  <2> QED
    BY <1>1, <1>2, <2>1, <2>2, <2>3
<1>7. CASE pc \in {"cron", "crontab"}
  <2>1. pc \in AfterFiles /\ pc' # "filesystem"
    BY <1>1, <1>7 DEF AfterFiles
  <2> QED
    BY <1>1, <1>2, <2>1
<1>8. pc = "filesystem" => WalkRoot \/ EndFiles \/ \E e \in AllTraces : VisitFile(e)
  BY DEF Files, ListCrontabs, EndCron, ParseCrontab
<1> QED
  BY <1>1, <1>2, <1>3, <1>4, <1>5, <1>6, <1>7, <1>8

\* A line that stands is in the crontab whenever it is opened.
LEMMA CronsParsed ==
  ASSUME Shape, CronsFound, Files
  PROVE  CronsFound'
<1> SUFFICES ASSUME NEW f \in DOMAIN Crontabs, NEW l \in Crontabs[f], Standing(<<"cron", f, l>>)'
             PROVE  /\ pc' = "crontab" => f \in todo' \/ <<"cron.entry", f, l>> \in batch'
                    /\ pc' \in AfterCron => <<"cron.entry", f, l>> \in batch'
  BY DEF CronsFound
<1> DEFINE t == <<"cron", f, l>>
<1>1. /\ batch \subseteq batch' /\ Standing(t) /\ t \in there
      /\ pc \in {"filesystem", "cron", "crontab"}
      /\ pc = "filesystem" => pc' \in {"filesystem", "cron"}
  BY FilesCourse DEF Adds, Standing, Shape
<1>2. pc = "crontab" => f \in todo \/ <<"cron.entry", f, l>> \in batch
  BY <1>1 DEF CronsFound
<1>3. pc' \in {"filesystem", "cron", "crontab"} => pc' \notin AfterCron
  BY DEF AfterCron, AfterNetwork
<1>4. CASE ListCrontabs
  BY <1>3, <1>4 DEF ListCrontabs
<1>5. ASSUME NEW e \in DOMAIN Crontabs, ParseCrontab(e)
      PROVE  pc' = "crontab" /\ (f \in todo' \/ <<"cron.entry", f, l>> \in batch')
  <2>1. /\ pc = "crontab" /\ pc' = pc /\ todo' = todo \ {e}
        /\ batch' = batch \cup {<<"cron.entry", u[2], u[3]>> : u \in {v \in On("cron") : v[2] = e}}
    BY <1>5 DEF ParseCrontab
  <2>2. t \in On("cron") /\ t[2] = f /\ t[3] = l
    BY <1>1 DEF On
  <2>3. e = f => <<"cron.entry", f, l>> \in batch'
    BY <2>1, <2>2
  <2> QED
    BY <1>2, <2>1, <2>3
<1>6. CASE EndCron
  <2>1. pc = "crontab" /\ todo = {}
    BY <1>6 DEF EndCron
  <2>2. pc' = "network"
    BY <1>6, Course DEF EndCron, Proceed
  <2> QED
    BY <1>1, <1>2, <2>1, <2>2
<1>7. CASE pc = "filesystem"
  BY <1>1, <1>3, <1>7
<1>8. pc # "filesystem" => ListCrontabs \/ EndCron \/ \E e \in DOMAIN Crontabs : ParseCrontab(e)
  BY DEF Files, WalkRoot, EndFiles, VisitFile
<1> QED
  BY <1>3, <1>4, <1>5, <1>6, <1>7, <1>8

-----------------------------------------------------------------------------
\* The markers of an n8n that do not answer "not found".
N8NMarkers == {m \in Markers : Services["n8n"][m] # 404}

\* A service that stands is at a target that is left, or in the batch; the markers
\* that were asked for and answered are held.
ServicesFound ==
  \A a : Standing(<<"service", a, "n8n">>) =>
    /\ pc = "network" =>
         /\ (\E n \in DOMAIN left : left[n] = a) \/ <<"network.service", a, TRUE>> \in batch
         /\ held # Nothing /\ Head(left) = a => N8NMarkers \ todo \subseteq held[1]
    /\ pc \in AfterNetwork => <<"network.service", a, TRUE>> \in batch

\* Steps of others do not touch what is found of services.
LEMMA ServicesElsewhere ==
  ASSUME ServicesFound, Forward,
         pc' = "network" => pc = "network" /\ todo' = todo /\ left' = left /\ held' = held,
         pc' \in AfterNetwork => pc \in AfterNetwork
  PROVE  ServicesFound'
BY DEF ServicesFound, Standing, Forward

\* A service that stands is at one of the targets.
LEMMA ServiceIsTarget ==
  ASSUME NEW a, NEW s, <<"service", a, s>> \in Things
  PROVE  a \in {Targets[n] : n \in DOMAIN Targets} /\ s \in DOMAIN Services
<1> DEFINE t == <<"service", a, s>>
<1>1. t[1] = "service" /\ t[2] = a /\ t[3] = s
  OBVIOUS
<1>2. t \in {<<"service", b, r>> : b \in {Targets[n] : n \in DOMAIN Targets}, r \in DOMAIN Services}
  <2>1. t \notin {<<"container", c>> : c \in Containers}
    BY <1>1
  <2>2. t \notin {<<"process", p, g>> : p \in Pids, g \in DOMAIN Programs}
    BY <1>1
  <2>3. t \notin {<<"trace", f>> : f \in AllTraces}
    BY <1>1
  <2>4. t \notin UNION {{<<"cron", f, l>> : l \in Crontabs[f]} : f \in DOMAIN Crontabs}
    BY <1>1
  <2>5. t \notin {<<"workflow", w>> : w \in Workflows}
    BY <1>1
  <2> QED
    BY <2>1, <2>2, <2>3, <2>4, <2>5 DEF Things
<1> QED
  BY <1>1, <1>2

\* The probing begins with all targets.
LEMMA ServicesBegin ==
  ASSUME Shape', left' = Targets, pc' = "network", held' = Nothing
  PROVE  ServicesFound'
<1>1. ASSUME NEW a, <<"service", a, "n8n">> \in stood'
      PROVE  \E n \in DOMAIN left' : left'[n] = a
  <2>1. <<"service", a, "n8n">> \in Things
    BY <1>1 DEF Shape
  <2> QED
    BY <2>1, ServiceIsTarget
<1> QED
  BY <1>1 DEF ServicesFound, Standing, AfterNetwork

\* Two markers make an n8n, and an n8n shows two.
LEMMA MarkersShow ==
  ASSUME MarkerAssumption, "n8n" \in DOMAIN Services, NEW M \in SUBSET Markers,
         N8NMarkers \subseteq M
  PROVE  Cardinality(M) >= 2
<1>1. IsFiniteSet(Markers)
  <2>1. /\ IsFiniteSet({"/rest"}) /\ IsFiniteSet({"/api/v1/docs"})
        /\ IsFiniteSet({"/healthz"}) /\ IsFiniteSet({"/rest-settings"})
    BY FS_Singleton
  <2>2. IsFiniteSet({"/rest"} \cup {"/api/v1/docs"}) /\ IsFiniteSet({"/healthz"} \cup {"/rest-settings"})
    BY <2>1, FS_Union
  <2>3. Markers = ({"/rest"} \cup {"/api/v1/docs"}) \cup ({"/healthz"} \cup {"/rest-settings"})
    BY DEF Markers
  <2> QED
    BY <2>2, <2>3, FS_Union
<1>2. IsFiniteSet(M)
  BY <1>1, FS_Subset
<1>3. Cardinality(N8NMarkers) <= Cardinality(M) /\ IsFiniteSet(N8NMarkers)
  BY <1>2, FS_Subset
<1>4. Cardinality(M) \in Nat /\ Cardinality(N8NMarkers) \in Nat
  BY <1>2, <1>3, FS_CardinalityType
<1>5. Cardinality(N8NMarkers) >= 2
  BY DEF MarkerAssumption, N8NMarkers
<1> QED
  BY <1>3, <1>4, <1>5

\* A service that stands gives all its markers before it is judged, unless a request fails.
LEMMA ServicesProbed ==
  ASSUME MarkerAssumption, Shape, ServicesFound, Network
  PROVE  ServicesFound'
<1> SUFFICES ASSUME NEW a, Standing(<<"service", a, "n8n">>)'
             PROVE  /\ pc' = "network" =>
                         /\ \/ \E n \in DOMAIN left' : left'[n] = a
                            \/ <<"network.service", a, TRUE>> \in batch'
                         /\ held' # Nothing /\ Head(left') = a =>
                              N8NMarkers \ todo' \subseteq held'[1]
                    /\ pc' \in AfterNetwork => <<"network.service", a, TRUE>> \in batch'
  BY DEF ServicesFound, N8NMarkers
<1> DEFINE t == <<"service", a, "n8n">>
           Shows == <<"network.service", a, TRUE>> \in batch
<1>1. /\ pc = "network" /\ pc' \in {"network", "n8n-api"} /\ batch \subseteq batch'
      /\ Standing(t) /\ t \in there /\ t \in Things /\ left \in Seq(Stops) /\ HeldOfService
  BY NetworkCourse DEF Adds, Standing, Shape
<1>2. /\ (\E n \in DOMAIN left : left[n] = a) \/ Shows
      /\ held # Nothing /\ Head(left) = a => N8NMarkers \ todo \subseteq held[1]
  BY <1>1 DEF ServicesFound
<1>3. "network" \notin AfterNetwork
  BY DEF AfterNetwork
<1>4. "n8n" \in ServiceAt(a) /\ "n8n" \in DOMAIN Services
  <2>1. t[1] = "service" /\ t[2] = a /\ t[3] = "n8n"
    OBVIOUS
  <2>2. "n8n" \in ServiceAt(a)
    BY <1>1, <2>1 DEF ServiceAt, On
  <2> QED
    BY <1>1, <2>2, ServiceIsTarget
<1>5. ASSUME left # << >>, Head(left) # a, left' = Tail(left)
      PROVE  (\E n \in DOMAIN left' : left'[n] = a) \/ Shows
  <2>1. CASE Shows
    BY <2>1
  <2>2. ASSUME NEW n \in DOMAIN left, left[n] = a
        PROVE  \E k \in DOMAIN left' : left'[k] = a
    <3>1. n # 1
      BY <1>1, <1>5, <2>2
    <3>2. n - 1 \in DOMAIN left' /\ left'[n - 1] = left[n]
      BY <1>1, <1>5, <3>1
    <3> QED
      BY <2>2, <3>2
  <2> QED
    BY <1>2, <2>1, <2>2
<1>6. CASE Dial
  <2>1. /\ pc' = pc /\ left # << >> /\ batch' = batch /\ held = Nothing
        /\ \/ ServiceAt(Head(left)) = {} /\ left' = Tail(left) /\ todo' = todo /\ held' = held
           \/ todo' = Markers /\ held' = <<{}>> /\ left' = left
    BY <1>6 DEF Dial
  <2>2. CASE ServiceAt(Head(left)) = {} /\ left' = Tail(left) /\ held' = held
    <3>1. Head(left) # a
      BY <1>4, <2>2
    <3> QED
      BY <1>1, <1>3, <1>5, <2>1, <2>2, <3>1
  <2>3. CASE todo' = Markers /\ left' = left
    BY <1>1, <1>2, <1>3, <2>1, <2>3 DEF N8NMarkers
  <2> QED
    BY <2>1, <2>2, <2>3
<1>12. CASE DialFails
  <2>1. /\ pc' = pc /\ left # << >> /\ batch' = batch /\ held' = Nothing
        /\ left' = Tail(left)
        /\ unread' = unread \cup {<<"service", Head(left), s>> : s \in ServiceAt(Head(left))}
    BY <1>12 DEF DialFails
  <2>2. Head(left) # a
    BY <1>4, <2>1 DEF Standing
  <2> QED
    BY <1>1, <1>3, <1>5, <2>1, <2>2
<1>7. ASSUME NEW m \in Markers, Probe(m)
      PROVE  /\ pc' = "network" /\ left' = left /\ batch' = batch
             /\ Head(left') = a => N8NMarkers \ todo' \subseteq held'[1]
  <2>1. /\ pc' = "network" /\ left' = left /\ batch' = batch
        /\ m \in todo /\ todo' = todo \ {m}
        /\ held' = IF \E s \in ServiceAt(Head(left)) : Services[s][m] # 404
                   THEN <<held[1] \cup {m}>> ELSE held
    BY <1>1, <1>7 DEF Probe
  <2>2. held # Nothing
    <3>1. todo # {}
      BY <2>1
    <3>2. PICK M \in SUBSET Markers : held = <<M>>
      BY <1>1, <3>1 DEF HeldOfService
    <3>3. Len(held) = 1 /\ Len(Nothing) = 0
      BY <3>2 DEF Nothing
    <3> QED
      BY <3>3
  <2>3. ASSUME Head(left) = a PROVE N8NMarkers \ todo' \subseteq held'[1]
    <3>1. N8NMarkers \ todo \subseteq held[1]
      BY <1>2, <2>2, <2>3
    <3>2. m \in N8NMarkers => held'[1] = held[1] \cup {m}
      <4>1. m \in N8NMarkers => held' = <<held[1] \cup {m}>>
        BY <1>4, <2>1, <2>3 DEF N8NMarkers
      <4> QED
        BY <4>1
    <3>3. held[1] \subseteq held'[1]
      <4>1. CASE held' = held
        BY <4>1
      <4>2. CASE held' = <<held[1] \cup {m}>>
        BY <4>2
      <4> QED
        BY <2>1, <4>1, <4>2
    <3> QED
      BY <2>1, <3>1, <3>2, <3>3
  <2> QED
    BY <2>1, <2>3
<1>8. ASSUME NEW m \in Markers, ProbeFails(m)
      PROVE  pc' = "network" /\ left' = left /\ batch' = batch /\ Head(left) # a
  <2>1. /\ pc' = "network" /\ left' = left /\ batch' = batch
        /\ unread' = unread \cup {<<"service", Head(left), s>> : s \in ServiceAt(Head(left))}
    BY <1>1, <1>8 DEF ProbeFails
  <2>2. Head(left) # a
    BY <1>4, <2>1 DEF Standing
  <2> QED
    BY <2>1, <2>2
<1>9. CASE Fingerprinted
  <2> DEFINE yes == Cardinality(held[1]) >= 2
  <2>1. /\ pc' = pc /\ todo = {} /\ held # Nothing /\ left' = Tail(left) /\ held' = Nothing
        /\ batch' = batch \cup {<<"network.service", Head(left), yes>>}
    BY <1>9 DEF Fingerprinted
  <2>2. PICK M \in SUBSET Markers : left # << >> /\ held = <<M>>
    BY <1>1, <2>1 DEF HeldOfService
  <2>3. CASE Head(left) = a
    <3>1. held[1] = M
      BY <2>2
    <3>2. N8NMarkers \subseteq M
      BY <1>2, <2>1, <2>3, <3>1
    <3>3. yes = TRUE
      BY <1>4, <3>1, <3>2, MarkersShow
    <3> HIDE DEF yes
    <3> QED
      BY <1>1, <1>3, <2>1, <2>3, <3>3
  <2>4. CASE Head(left) # a
    BY <1>1, <1>3, <1>5, <2>1, <2>2, <2>4
  <2> QED
    BY <2>3, <2>4
<1>10. CASE EndNetwork
  <2>1. left = << >> /\ pc' = "n8n-api"
    BY <1>10, Course DEF EndNetwork, Proceed
  <2>2. DOMAIN left = {}
    BY <2>1
  <2> QED
    BY <1>1, <1>2, <2>1, <2>2
<1>11. Dial \/ DialFails \/ Fingerprinted \/ EndNetwork \/ \E m \in Markers : Probe(m) \/ ProbeFails(m)
  BY DEF Network
<1> QED
  BY <1>1, <1>2, <1>3, <1>6, <1>7, <1>8, <1>9, <1>10, <1>11, <1>12

-----------------------------------------------------------------------------
\* The invariant behind StandingIsReported.
FoundInv ==
  Shape /\ ContainersFound /\ ProcessesFound /\ FilesFound /\ CronsFound /\ ServicesFound

\* Every step keeps the invariant.
LEMMA FoundStep ==
  ASSUME SearchAssumption, MarkerAssumption, FoundInv, [Next]_vars
  PROVE  FoundInv'
<1> USE DEF AfterDocker, AfterProcess, AfterFiles, AfterCron, AfterNetwork
<1>1. Shape'
  BY ShapeStep DEF FoundInv
<1>2. CASE HostChanges \/ UNCHANGED vars
  <2>1. Forward /\ UNCHANGED <<pc, left, todo, held>>
    BY <1>2, HostCourse DEF Forward
  <2> QED
    BY <1>1, <2>1, ContainersElsewhere, ProcessesElsewhere, FilesElsewhere, CronsElsewhere,
       ServicesElsewhere DEF FoundInv
<1>3. CASE Docker
  <2>1. Forward /\ pc \in {"docker", "inspect"} /\ pc' \in {"inspect", "process"}
    BY <1>3, DockerCourse DEF Adds, Forward
  <2> QED
    BY <1>1, <1>3, <2>1, ContainersDocker, ProcessesElsewhere, FilesElsewhere, CronsElsewhere,
       ServicesElsewhere DEF FoundInv
<1>4. CASE Process
  <2>1. /\ Forward /\ pc \in {"process", "cmdline"} /\ pc' \in {"cmdline", "filesystem"}
        /\ pc' = "filesystem" => left' = Roots
    BY <1>4, ProcessCourse DEF Adds, Forward
  <2>2. FilesFound'
    BY <2>1, FilesBegin, FilesElsewhere DEF FoundInv
  <2> QED
    BY <1>1, <1>4, <2>1, <2>2, ContainersElsewhere, ProcessesRead, CronsElsewhere,
       ServicesElsewhere DEF FoundInv
<1>5. CASE Files
  <2>1. /\ Forward /\ pc \in {"filesystem", "cron", "crontab"}
        /\ pc' \in {"filesystem", "cron", "crontab", "network"}
        /\ pc' = "network" => held' = Nothing /\ left' = Targets
    BY <1>5, FilesCourse DEF Adds, Forward
  <2>2. ServicesFound'
    BY <1>1, <2>1, ServicesBegin, ServicesElsewhere DEF FoundInv
  <2> QED
    BY <1>1, <1>5, <2>1, <2>2, ContainersElsewhere, ProcessesElsewhere, FilesSearched, CronsParsed
       DEF FoundInv
<1>6. CASE Network
  <2>1. Forward /\ pc = "network" /\ pc' \in {"network", "n8n-api"}
    BY <1>6, NetworkCourse DEF Adds, Forward
  <2> QED
    BY <1>1, <1>6, <2>1, ContainersElsewhere, ProcessesElsewhere, FilesElsewhere, CronsElsewhere,
       ServicesProbed DEF FoundInv
<1>7. CASE N8NAPI
  <2>1. Forward /\ pc = "n8n-api" /\ pc' = "ship"
    BY <1>7, N8NAPICourse DEF Adds, Forward
  <2> QED
    BY <1>1, <2>1, ContainersElsewhere, ProcessesElsewhere, FilesElsewhere, CronsElsewhere,
       ServicesElsewhere DEF FoundInv
<1>8. CASE StartScan \/ Ship
  <2>1. pc' \in {"docker", "rest"}
    BY <1>8 DEF StartScan, Ship
  <2> QED
    BY <1>1, <2>1 DEF FoundInv, ContainersFound, ProcessesFound, FilesFound, CronsFound,
       ServicesFound
<1> QED
  BY <1>2, <1>3, <1>4, <1>5, <1>6, <1>7, <1>8 DEF Next, Scan

\* What is found of each kind is what should be shown of each thing.
LEMMA FoundIsShown ==
  ASSUME FoundInv
  PROVE  StandingIsReported
<1> SUFFICES ASSUME pc = "ship", NEW t \in stood \ unread PROVE Shown(t)
  BY DEF StandingIsReported
<1> USE DEF AfterDocker, AfterProcess, AfterFiles, AfterCron, AfterNetwork
<1>1. t \in Things
  BY DEF FoundInv, Shape
<1>2. CASE t \in {<<"container", c>> : c \in Containers}
  <2>1. PICK c \in Containers : t = <<"container", c>>
    BY <1>2
  <2>2. t[1] = "container" /\ t[2] = c
    BY <2>1
  <2>3. <<"docker.container", c>> \in batch
    BY <2>1 DEF FoundInv, ContainersFound, Standing
  <2> QED
    BY <2>2, <2>3 DEF Shown
<1>3. CASE t \in {<<"process", p, g>> : p \in Pids, g \in DOMAIN Programs}
  <2>1. PICK p \in Pids, g \in DOMAIN Programs : t = <<"process", p, g>>
    BY <1>3
  <2>2. t[1] = "process" /\ t[2] = p /\ t[3] = g
    BY <2>1
  <2>3. Programs[g].cmd \in Automations => ShownProcess(g) \in batch
    BY <2>1 DEF FoundInv, ProcessesFound, Standing
  <2> QED
    BY <2>2, <2>3 DEF Shown, ShownProcess, Says
<1>4. CASE t \in {<<"trace", f>> : f \in AllTraces}
  <2>1. PICK f \in AllTraces : t = <<"trace", f>>
    BY <1>4
  <2>2. t[1] = "trace" /\ t[2] = f
    BY <2>1
  <2>3. <<"fs.artifact", f>> \in batch
    BY <2>1 DEF FoundInv, FilesFound, Standing
  <2> QED
    BY <2>2, <2>3 DEF Shown
<1>5. CASE t \in UNION {{<<"cron", f, l>> : l \in Crontabs[f]} : f \in DOMAIN Crontabs}
  <2>1. PICK f \in DOMAIN Crontabs : t \in {<<"cron", f, l>> : l \in Crontabs[f]}
    BY <1>5
  <2>2. PICK l \in Crontabs[f] : t = <<"cron", f, l>>
    BY <2>1
  <2>3. t[1] = "cron" /\ t[2] = f /\ t[3] = l
    BY <2>2
  <2>4. <<"cron.entry", f, l>> \in batch
    BY <2>2 DEF FoundInv, CronsFound, Standing
  <2> QED
    BY <2>3, <2>4 DEF Shown
<1>6. CASE t \in {<<"service", a, s>> : a \in {Targets[n] : n \in DOMAIN Targets}, s \in DOMAIN Services}
  <2>1. PICK a \in {Targets[n] : n \in DOMAIN Targets}, s \in DOMAIN Services : t = <<"service", a, s>>
    BY <1>6
  <2>2. t[1] = "service" /\ t[2] = a /\ t[3] = s
    BY <2>1
  <2>3. s = "n8n" => <<"network.service", a, TRUE>> \in batch
    BY <2>1 DEF FoundInv, ServicesFound, Standing
  <2> QED
    BY <2>2, <2>3 DEF Shown
<1>7. CASE t \in {<<"workflow", w>> : w \in Workflows}
  <2>1. t[1] = "workflow"
    BY <1>7
  <2> QED
    BY <2>1 DEF Shown
<1> QED
  BY <1>1, <1>2, <1>3, <1>4, <1>5, <1>6, <1>7 DEF Things

\* Whatever comes and goes, and whichever read or collector fails, what has
\* been there all the time, and could be read, is in the batch that is shipped.
THEOREM StandingIsFound ==
  ASSUME SearchAssumption, MarkerAssumption
  PROVE  Spec => []StandingIsReported
<1>1. Init => FoundInv
  <2> SUFFICES ASSUME Init PROVE FoundInv
    OBVIOUS
  <2>1. pc = "rest" /\ stood = {} /\ there = Initially /\ left = << >>
    BY DEF Init
  <2>2. \A t, u \in there : Place(t) \cap Place(u) = {}
    BY <2>1 DEF Initially, Place
  <2>3. Shape
    BY <2>1, <2>2 DEF Shape, Apart, Initially
  <2> QED
    BY <2>1, <2>3 DEF FoundInv, ContainersFound, ProcessesFound, FilesFound, CronsFound,
       ServicesFound, Standing
<1>2. FoundInv /\ [Next]_vars => FoundInv'
  BY FoundStep
<1>3. FoundInv => StandingIsReported
  BY FoundIsShown
<1> QED
  BY <1>1, <1>2, <1>3, PTL DEF Spec

-----------------------------------------------------------------------------
(***************************************************************************)
(* Types.                                                                  *)
(***************************************************************************)
\* The places a scan can be at, and what a collector can have left to read.
Stages == {"rest", "inspect", "cmdline", "crontab"} \cup {Order[n] : n \in DOMAIN Order}

Readable == Containers \cup Pids \cup AllTraces \cup DOMAIN Crontabs \cup Markers

\* The conjuncts of TypeOK that Shape leaves open.
Typed ==
  /\ pc \in Stages
  /\ todo \subseteq Readable
  /\ unread \subseteq Things
  /\ changes \in 0 .. MaxChanges
  /\ pc = "filesystem" => left \in Seq(DOMAIN Tree)

\* The places a scan can be at.
LEMMA StagesAre ==
  Stages = {"rest", "inspect", "cmdline", "crontab", "docker", "process", "filesystem", "cron",
            "network", "n8n-api", "ship"}
<1>1. DOMAIN Order = 1 .. 7
  BY DEF Order
<1>2. /\ Order[1] = "docker" /\ Order[2] = "process" /\ Order[3] = "filesystem"
      /\ Order[4] = "cron" /\ Order[5] = "network" /\ Order[6] = "n8n-api" /\ Order[7] = "ship"
  BY DEF Order
<1>3. \A n \in 1 .. 7 : n = 1 \/ n = 2 \/ n = 3 \/ n = 4 \/ n = 5 \/ n = 6 \/ n = 7
  OBVIOUS
<1>4. 1 \in 1 .. 7 /\ 2 \in 1 .. 7 /\ 3 \in 1 .. 7 /\ 4 \in 1 .. 7 /\ 5 \in 1 .. 7 /\ 6 \in 1 .. 7
      /\ 7 \in 1 .. 7
  OBVIOUS
<1>5. {Order[n] : n \in 1 .. 7} =
        {"docker", "process", "filesystem", "cron", "network", "n8n-api", "ship"}
  BY <1>2, <1>3, <1>4
<1> QED
  BY <1>1, <1>5 DEF Stages

\* What a collector lists is of the kind it looks for.
LEMMA Listed ==
  ASSUME there \subseteq Things
  PROVE  /\ {t[2] : t \in On("container")} \subseteq Containers
         /\ {t[2] : t \in On("process")} \subseteq Pids
         /\ \A a, s : s \in ServiceAt(a) => <<"service", a, s>> \in Things
<1>1. ASSUME NEW t \in On("container") PROVE t[2] \in Containers
  BY <1>1 DEF On, Things
<1>2. ASSUME NEW t \in On("process") PROVE t[2] \in Pids
  BY <1>2 DEF On, Things
<1>3. ASSUME NEW a, NEW s, s \in ServiceAt(a) PROVE <<"service", a, s>> \in Things
  <2>1. PICK u \in On("service") : u[2] = a /\ u[3] = s
    BY <1>3 DEF ServiceAt
  <2>2. u \in Things /\ u[1] = "service"
    BY <2>1 DEF On
  <2>3. PICK b \in {Targets[n] : n \in DOMAIN Targets}, r \in DOMAIN Services : u = <<"service", b, r>>
    BY <2>2 DEF Things
  <2>4. u = <<"service", a, s>>
    BY <2>1, <2>3
  <2> QED
    BY <2>2, <2>4
<1> QED
  BY <1>1, <1>2, <1>3

\* The steps of each collector keep the types.
LEMMA TypedDocker ==
  ASSUME Typed, there \subseteq Things, Docker
  PROVE  Typed'
<1>1. pc' \in Stages /\ pc' # "filesystem"
  BY StagesAre, Course DEF Docker, ListContainers, EndDocker, Inspect, InspectFails,
     CollectorFails, Proceed
<1>2. todo' \subseteq Readable
  BY Listed DEF Typed, Readable, Docker, ListContainers, EndDocker, Inspect, InspectFails,
     CollectorFails, Proceed
<1>3. unread' \subseteq unread \cup {<<"container", c>> : c \in Containers}
  BY DEF Docker, ListContainers, EndDocker, Inspect, InspectFails, CollectorFails, Proceed, history
<1>4. {<<"container", c>> : c \in Containers} \subseteq Things
  BY DEF Things
<1>5. changes' = changes
  BY DEF Docker, ListContainers, EndDocker, Inspect, InspectFails, CollectorFails, host
<1> QED
  BY <1>1, <1>2, <1>3, <1>4, <1>5 DEF Typed, Stages, Readable

\* The processes; after them come the files, with their roots.
LEMMA TypedProcess ==
  ASSUME SearchAssumption, Typed, there \subseteq Things, Process
  PROVE  Typed'
<1>1. pc' \in Stages /\ (pc' = "filesystem" => left' = Roots)
  BY StagesAre, Course DEF Process, ListProcesses, ReadExe, ReadCwd, EndProcesses, ReadCmdline,
     Proceed
<1>2. todo' \subseteq Readable
  BY Listed DEF Typed, Readable, Process, ListProcesses, ReadExe, ReadCwd, EndProcesses,
     ReadCmdline, Proceed
<1>3. unread' = unread /\ changes' = changes
  BY DEF Process, ListProcesses, ReadExe, ReadCwd, EndProcesses, ReadCmdline, history, host
<1> QED
  BY <1>1, <1>2, <1>3 DEF Typed, SearchAssumption, Stages, Readable

\* The files and the crontabs.
LEMMA TypedFiles ==
  ASSUME Typed, Files
  PROVE  Typed'
<1>1. pc' \in Stages
  BY StagesAre, Course DEF Typed, Files, WalkRoot, EndFiles, ListCrontabs, EndCron, VisitFile,
     ParseCrontab, Proceed
<1>2. CASE WalkRoot
  <2>1. left \in Seq(DOMAIN Tree) /\ left # << >> /\ left' = Tail(left)
    BY <1>2 DEF WalkRoot, Typed
  <2>2. Head(left) \in DOMAIN Tree /\ left' \in Seq(DOMAIN Tree)
    BY <2>1
  <2>3. Tree[Head(left)] \subseteq AllTraces
    BY <2>2 DEF AllTraces
  <2>4. todo' \subseteq Readable
    BY <1>2, <2>3 DEF WalkRoot, Readable
  <2>5. unread' = unread /\ changes' = changes
    BY <1>2 DEF WalkRoot, history, host
  <2> QED
    BY <1>1, <2>2, <2>4, <2>5 DEF Typed, Stages, Readable
<1>3. CASE ~ WalkRoot
  <2>1. todo' \subseteq Readable
    BY <1>3 DEF Typed, Readable, Files, EndFiles, ListCrontabs, EndCron, VisitFile, ParseCrontab,
       Proceed
  <2>2. unread' = unread /\ changes' = changes
    BY <1>3 DEF Files, EndFiles, ListCrontabs, EndCron, VisitFile, ParseCrontab, history, host
  <2>3. pc' = "filesystem" => pc = "filesystem" /\ left' = left
    BY <1>3, Course DEF Files, EndFiles, ListCrontabs, EndCron, VisitFile, ParseCrontab, Proceed
  <2> QED
    BY <1>1, <2>1, <2>2, <2>3 DEF Typed, Stages, Readable
<1> QED
  BY <1>2, <1>3

\* The targets.
LEMMA TypedNetwork ==
  ASSUME Typed, there \subseteq Things, Network
  PROVE  Typed'
<1>1. pc' \in Stages /\ pc' # "filesystem"
  BY StagesAre, Course DEF Typed, Network, Dial, DialFails, Fingerprinted, EndNetwork,
     Probe, ProbeFails, Proceed
<1>2. todo' \subseteq Readable
  BY DEF Typed, Readable, Network, Dial, DialFails, Fingerprinted, EndNetwork, Probe,
     ProbeFails, Proceed
<1>3. unread' \subseteq Things
  <2>1. unread' \subseteq unread \cup {<<"service", Head(left), s>> : s \in ServiceAt(Head(left))}
    BY DEF Network, Dial, DialFails, Fingerprinted, EndNetwork, Probe, ProbeFails, Proceed, history
  <2>2. \A s \in ServiceAt(Head(left)) : <<"service", Head(left), s>> \in Things
    BY Listed
  <2> QED
    BY <2>1, <2>2 DEF Typed
<1>4. changes' = changes
  BY DEF Network, Dial, DialFails, Fingerprinted, EndNetwork, Probe, ProbeFails, host
<1> QED
  BY <1>1, <1>2, <1>3, <1>4 DEF Typed, Stages, Readable

\* The ends of a scan, and the host.
LEMMA TypedRest ==
  ASSUME ChangesAssumption, Typed, N8NAPI \/ StartScan \/ Ship \/ HostChanges \/ UNCHANGED vars
  PROVE  Typed'
<1>1. CASE N8NAPI
  <2>1. pc' = "ship" /\ todo' = {} /\ changes' = changes
    BY <1>1, Course DEF N8NAPI, FetchWorkflows, CollectorFails, Proceed, host
  <2>2. unread' \subseteq unread \cup {<<"workflow", w>> : w \in Workflows}
    BY <1>1 DEF N8NAPI, FetchWorkflows, CollectorFails, history
  <2>3. {<<"workflow", w>> : w \in Workflows} \subseteq Things
    BY DEF Things
  <2> QED
    BY <2>1, <2>2, <2>3, StagesAre DEF Typed, Stages, Readable
<1>2. CASE StartScan
  BY <1>2, StagesAre DEF StartScan, Typed, Stages, Readable, host
<1>3. CASE Ship
  BY <1>3, StagesAre DEF Ship, Typed, Stages, Readable, host, history
<1>4. CASE HostChanges
  BY <1>4 DEF HostChanges, Appear, Vanish, Typed, Stages, Readable, ChangesAssumption
<1>5. CASE UNCHANGED vars
  BY <1>5 DEF vars, Typed, Stages, Readable
<1> QED
  BY <1>1, <1>2, <1>3, <1>4, <1>5

LEMMA TypesStart ==
  ASSUME ChangesAssumption, Init
  PROVE  Shape /\ Typed
<1>1. /\ pc = "rest" /\ stood = {} /\ there = Initially /\ left = << >> /\ todo = {}
      /\ unread = {} /\ changes = 0
  BY DEF Init
<1>2. \A t, u \in there : Place(t) \cap Place(u) = {}
  BY <1>1 DEF Initially, Place
<1>3. Shape
  BY <1>1, <1>2 DEF Shape, Apart, Initially
<1> QED
  BY <1>1, <1>3, StagesAre DEF Typed, ChangesAssumption

LEMMA TypesStep ==
  ASSUME SearchAssumption, ChangesAssumption, Shape, Typed, [Next]_vars
  PROVE  Shape' /\ Typed'
<1>1. there \subseteq Things
  BY DEF Shape
<1> QED
  BY <1>1, ShapeStep, TypedDocker, TypedProcess, TypedFiles, TypedNetwork, TypedRest DEF Next, Scan

LEMMA HostTypes ==
  ASSUME Shape, Typed
  PROVE  TypeOK
BY DEF Shape, Apart, HeldOfProcess, Typed, Stages, Readable, TypeOK

\* A scan is at a place of its course, and holds what its collectors list;
\* what stood is there, and what could not be read is a thing.
THEOREM TypeCorrect ==
  ASSUME SearchAssumption, ChangesAssumption
  PROVE  Spec => []TypeOK
BY TypesStart, TypesStep, HostTypes, PTL DEF Spec

\* Whichever part a behaviour of AgentHost belongs to, the scan and the release
\* keep their types.
THEOREM PartsTypeCorrect ==
  ASSUME SearchAssumption, ChangesAssumption,
         RL!NamesAssumption, RL!ArgumentsAssumption, RL!BoundAssumption
  PROVE  HostSpec => []PartsTypeOK
<1> DEFINE Inv == Shape /\ Typed /\ ReleaseShape /\ EditsInBounds
<1>1. HostInit => Inv
  BY TypesStart, ReleaseStart, EditsStart DEF HostInit
<1>2. [HostNext]_hostVars => [Next]_vars /\ [RL!Next]_(RL!vars)
  BY DEF HostNext, hostVars, scanVars, releaseVars, RL!vars, RL!operator, RL!host
<1>3. Inv /\ [HostNext]_hostVars => Inv'
  BY <1>2, TypesStep, ReleaseStep, EditsStep
<1>4. Inv => PartsTypeOK
  BY HostTypes, ReleaseTypes DEF PartsTypeOK
<1> QED
  BY <1>1, <1>3, <1>4, PTL DEF HostSpec

-----------------------------------------------------------------------------
(***************************************************************************)
(* For any buffer, limit and file: what the collectors read of a file line *)
(* by line (LineScan).  grepFile has counted no more bytes than come       *)
(* before the line it is at, since it leaves the line ends out; so when it *)
(* stops at the limit, the limit is behind the line ends too, and what was *)
(* passed held no hit.                                                     *)
(***************************************************************************)
\* The bytes of each line with its end, and the place a line begins at.
Size(s) == [k \in 1 .. Len(s) |-> s[k].len + 1]
StartOf(s, n) == SumOver(Size(s), 1 .. n - 1)

IsFile(s) == \E n \in 0 .. MaxLines : s \in [1 .. n -> LS!Line]

\* A line is a hit; none before the n-th is.
Hit(s, n) == s[n].hit
NoneBefore(s, n) == \A k \in 1 .. Len(s) : k < n => ~ Hit(s, k)

\* How far the reader has come, and why it stopped.
LinesInv ==
  /\ IsFile(file)
  /\ reader \in {"grep", "cron"}
  /\ at \in 0 .. Len(file) /\ read \in Nat
  /\ found \subseteq {n \in 1 .. Len(file) : Hit(file, n)}
  /\ reader = "cron" =>
       /\ \A n \in 1 .. at : Hit(file, n) => n \in found
       /\ reading = "done" => ~ LS!More
  /\ reader = "grep" /\ reading = "scan" =>
       NoneBefore(file, at + 1) /\ read <= StartOf(file, at + 1)
  /\ reader = "grep" /\ reading = "done" =>
       \/ found # {}
       \/ NoneBefore(file, at + 1) /\ ~ LS!More
       \/ at >= 1 /\ NoneBefore(file, at) /\ StartOf(file, at) >= ReadLimit

\* A file is a sequence of lines.
LEMMA FileIs ==
  ASSUME NEW s, IsFile(s)
  PROVE  /\ Len(s) \in Nat /\ DOMAIN s = 1 .. Len(s)
         /\ \A n \in 1 .. Len(s) : s[n].len \in Nat /\ s[n].hit \in BOOLEAN /\ (s[n].hit => s[n].len > 0)
         /\ IsFiniteSet(1 .. Len(s)) /\ Size(s) \in [1 .. Len(s) -> Nat]
<1>1. PICK k \in 0 .. MaxLines : s \in [1 .. k -> LS!Line]
  BY DEF IsFile
<1>2. s \in Seq(LS!Line) /\ Len(s) = k /\ k \in Nat
  BY <1>1
<1>3. ASSUME NEW n \in 1 .. Len(s)
      PROVE  s[n].len \in Nat /\ s[n].hit \in BOOLEAN /\ (s[n].hit => s[n].len > 0)
  <2>1. s[n] \in LS!Line
    BY <1>1, <1>2
  <2> QED
    BY <2>1 DEF LS!Line
<1>4. IsFiniteSet(1 .. Len(s))
  <2>1. 1 \in Int /\ Len(s) \in Int
    BY <1>2
  <2> QED
    BY <2>1, FS_Interval
<1>5. Size(s) \in [1 .. Len(s) -> Nat]
  BY <1>3 DEF Size
<1> QED
  BY <1>1, <1>2, <1>3, <1>4, <1>5

\* A line begins where the line before it ends.
LEMMA StartNext ==
  ASSUME NEW s, IsFile(s), NEW n \in 1 .. Len(s)
  PROVE  /\ StartOf(s, n) \in Nat
         /\ StartOf(s, n + 1) = StartOf(s, n) + s[n].len + 1
<1>1. Len(s) \in Nat /\ IsFiniteSet(1 .. Len(s)) /\ Size(s) \in [1 .. Len(s) -> Nat] /\ s[n].len \in Nat
  BY FileIs
<1>2. /\ 1 .. n \in SUBSET (1 .. Len(s)) /\ n \in 1 .. n
      /\ (1 .. n) \ {n} = 1 .. n - 1 /\ (n + 1) - 1 = n
  BY <1>1
<1> DEFINE D == 1 .. Len(s)
           F == Size(s)
           S == 1 .. n
<1>3. F[n] = s[n].len + 1
  BY DEF Size
<1>4. IsFiniteSet(D)
  BY <1>1
<1>5. F \in [D -> Nat]
  BY <1>1
<1>6. S \in SUBSET D /\ n \in S
  BY <1>2
<1> HIDE DEF D, F, S
<1>7. \A T \in SUBSET D :
         SumOver(F, T) \in Nat /\ \A x \in T : SumOver(F, T) = F[x] + SumOver(F, T \ {x})
  BY ONLY <1>4, <1>5, SumNext
<1>8. SumOver(F, S \ {n}) \in Nat /\ SumOver(F, S) = F[n] + SumOver(F, S \ {n})
  <2>1. S \ {n} \in SUBSET D
    BY <1>6
  <2> QED
    BY <1>7, <1>6, <2>1
<1>9. S \ {n} = 1 .. n - 1 /\ S = 1 .. (n + 1) - 1
  BY <1>2 DEF S
<1>10. StartOf(s, n) = SumOver(F, S \ {n}) /\ StartOf(s, n + 1) = SumOver(F, S)
  BY <1>9 DEF StartOf, F
<1> QED
  BY <1>1, <1>3, <1>8, <1>10

\* A later line begins later.
LEMMA StartGrows ==
  ASSUME NEW s, IsFile(s), NEW m \in 1 .. Len(s), NEW n \in 1 .. Len(s), m <= n
  PROVE  StartOf(s, m) \in Nat /\ StartOf(s, n) \in Nat /\ StartOf(s, m) <= StartOf(s, n)
<1> DEFINE D == 1 .. Len(s)
           F == Size(s)
           S == 1 .. m - 1
           T == 1 .. n - 1
<1>1. Len(s) \in Nat /\ IsFiniteSet(D) /\ F \in [D -> Nat]
  BY FileIs
<1>2. S \in SUBSET D /\ T \in SUBSET D /\ S \subseteq T
  BY <1>1
<1>3. StartOf(s, m) = SumOver(F, S) /\ StartOf(s, n) = SumOver(F, T)
  BY DEF StartOf
<1> HIDE DEF D, F, S, T
<1> QED
  BY <1>1, <1>2, <1>3, SumGrows

\* This is where LineScan says a line begins.
LEMMA BeginIs ==
  ASSUME IsFile(file), NEW n \in 1 .. Len(file)
  PROVE  LS!Begin(n) = StartOf(file, n)
<1> DEFINE S == 1 .. n - 1
           F == Size(file)
<1>1. \A k \in S : F[k] = file[k].len + 1
  <2>1. Len(file) \in Nat
    BY FileIs
  <2> QED
    BY <2>1 DEF Size
<1> DEFINE Lib(f) == f = [s \in SUBSET S |-> IF s = {} THEN 0
                            ELSE LET x == CHOOSE x \in s : TRUE IN (file[x].len + 1) + f[s \ {x}]]
<1>2. LS!Begin(n) = (CHOOSE f : Lib(f))[S]
  BY DEF LS!Begin, LS!MapThenSumSet, LS!MapThenFoldSet
<1> HIDE DEF S, F
<1>3. \A f : Lib(f) <=> IsSum(f, F, S)
  <2> SUFFICES ASSUME NEW f PROVE Lib(f) <=> IsSum(f, F, S)
    OBVIOUS
  <2>1. ASSUME NEW s \in SUBSET S
        PROVE  NextSum(f, F, s) = IF s = {} THEN 0
                 ELSE LET x == CHOOSE x \in s : TRUE IN (file[x].len + 1) + f[s \ {x}]
    <3>1. CASE s = {}
      BY <3>1 DEF NextSum
    <3>2. CASE s # {}
      <4> DEFINE x == CHOOSE x \in s : TRUE
      <4>1. x \in S
        BY <3>2
      <4>2. F[x] = file[x].len + 1
        BY <1>1, <4>1
      <4> QED
        BY <3>2, <4>2 DEF NextSum
    <3> QED
      BY <3>1, <3>2
  <2> QED
    BY <2>1 DEF IsSum
<1>5. SumOver(F, S) = (CHOOSE f : IsSum(f, F, S))[S]
  BY DEF SumOver, MapThenSumSet, MapThenFoldSet, IsSum, NextSum
<1>4. (CHOOSE f : Lib(f)) = (CHOOSE f : IsSum(f, F, S))
  <2> HIDE DEF Lib
  <2> QED
    BY <1>3
<1>6. LS!Begin(n) = SumOver(F, S)
  BY <1>2, <1>4, <1>5
<1> QED
  BY <1>6 DEF StartOf, S, F

\* A step of the reader: what was looked at before stays.
LEMMA GrepStep ==
  ASSUME LS!SizeAssumption, LinesInv, LS!Grep
  PROVE  LinesInv'
<1> DEFINE n == at + 1
<1>1. /\ reader = "grep" /\ reading = "scan" /\ LS!More /\ at' = n
      /\ file' = file /\ reader' = reader
  BY DEF LS!Grep
<1>2. /\ IsFile(file) /\ found \subseteq {k \in 1 .. Len(file) : Hit(file, k)}
      /\ NoneBefore(file, n) /\ read <= StartOf(file, n) /\ read \in Nat /\ at \in 0 .. Len(file)
  BY <1>1 DEF LinesInv
<1>3. /\ Len(file) \in Nat
      /\ \A k \in 1 .. Len(file) : file[k].len \in Nat /\ file[k].hit \in BOOLEAN
  BY <1>2, FileIs
<1>4. n \in 1 .. Len(file) /\ at' \in 0 .. Len(file)
  BY <1>1, <1>2, <1>3 DEF LS!More
<1>5. StartOf(file, n) \in Nat /\ StartOf(file, n + 1) = StartOf(file, n) + file[n].len + 1
  BY <1>2, <1>4, StartNext
<1>6. CASE read >= ReadLimit
  <2>1. reading' = "done" /\ read' = read /\ found' = found
    BY <1>6 DEF LS!Grep
  <2>2. n >= 1 /\ StartOf(file, n) >= ReadLimit
    BY <1>2, <1>4, <1>5, <1>6 DEF LS!SizeAssumption
  <2> HIDE DEF n
  <2> QED
    BY <1>1, <1>2, <1>4, <2>1, <2>2 DEF LinesInv
<1>7. CASE ~ (read >= ReadLimit)
  <2>1. /\ read' = read + file[n].len
        /\ found' = IF file[n].hit THEN {n} ELSE {}
        /\ reading' = IF file[n].hit THEN "done" ELSE "scan"
    BY <1>7 DEF LS!Grep
  <2>2. read' \in Nat
    BY <1>2, <1>3, <1>4, <2>1
  <2>3. CASE file[n].hit
    <3>1. found' = {n} /\ reading' = "done"
      BY <2>1, <2>3
    <3> HIDE DEF n
    <3> QED
      BY <1>1, <1>2, <1>4, <2>2, <2>3, <3>1 DEF LinesInv, Hit
  <2>4. CASE ~ file[n].hit
    <3>1. found' = {} /\ reading' = "scan"
      BY <2>1, <2>4
    <3>2. NoneBefore(file, n + 1)
      BY <1>2, <1>3, <1>4, <2>4 DEF NoneBefore, Hit
    <3>3. read' <= StartOf(file, n + 1)
      <4> DEFINE l == file[n].len
                 m == StartOf(file, n)
      <4>1. l \in Nat /\ m \in Nat /\ read <= m /\ read' = read + l /\ StartOf(file, n + 1) = m + l + 1
        BY <1>2, <1>3, <1>4, <1>5, <2>1
      <4> HIDE DEF l, m, n
      <4> QED
        BY <1>2, <4>1
    <3> HIDE DEF n
    <3> QED
      BY <1>1, <1>2, <1>4, <2>2, <3>1, <3>2, <3>3 DEF LinesInv
  <2> QED
    BY <2>3, <2>4
<1> QED
  BY <1>6, <1>7

\* parseCrontab passes no line, and each stops where there is no more to scan.
LEMMA LinesStep ==
  ASSUME LS!SizeAssumption, LinesInv, [LS!Next]_(LS!vars)
  PROVE  LinesInv'
<1>1. CASE LS!Grep
  BY <1>1, GrepStep
<1>2. CASE LS!Parse
  <2> DEFINE n == at + 1
  <2>1. /\ reader = "cron" /\ reading = "scan" /\ LS!More /\ at' = n /\ read' = read
        /\ file' = file /\ reader' = reader /\ reading' = reading
        /\ found' = found \cup (IF file[n].hit THEN {n} ELSE {})
    BY <1>2 DEF LS!Parse
  <2>2. Len(file) \in Nat
    BY FileIs DEF LinesInv
  <2>3. n \in 1 .. Len(file) /\ at' \in 0 .. Len(file)
    BY <2>1, <2>2 DEF LinesInv, LS!More
  <2>4. \A k \in 1 .. n : k \in 1 .. at \/ k = n
    BY <2>2 DEF LinesInv
  <2> HIDE DEF n
  <2> QED
    BY <2>1, <2>3, <2>4 DEF LinesInv, Hit
<1>3. CASE LS!Stop
  <2>1. /\ reading = "scan" /\ ~ LS!More /\ reading' = "done"
        /\ file' = file /\ reader' = reader /\ at' = at /\ read' = read /\ found' = found
    BY <1>3 DEF LS!Stop
  <2>2. ~ LS!More'
    BY <2>1 DEF LS!More, LS!FitsBuffer
  <2> QED
    BY <2>1, <2>2 DEF LinesInv
<1>4. CASE UNCHANGED LS!vars
  BY <1>4 DEF LS!vars, LinesInv, LS!More, LS!FitsBuffer
<1> QED
  BY <1>1, <1>2, <1>3, <1>4 DEF LS!Next

\* Of a file whose lines fit the buffer grepFile finds a hit that ends within
\* the limit, and parseCrontab each automation, for any buffer, limit and file.
LEMMA LinesAreRead ==
  ASSUME LS!SizeAssumption, LinesInv
  PROVE  LS!ShortLinesAreRead
<1>1. /\ Len(file) \in Nat /\ DOMAIN file = 1 .. Len(file) /\ IsFile(file) /\ at \in 0 .. Len(file)
      /\ \A k \in 1 .. Len(file) : file[k].len \in Nat /\ (file[k].hit => file[k].len > 0)
  BY FileIs DEF LinesInv
<1>2. LS!Hits = {k \in 1 .. Len(file) : Hit(file, k)}
  BY <1>1 DEF LS!Hits, Hit
<1>3. ASSUME NEW n \in LS!Hits, LS!Short(n), n > at PROVE LS!More
  <2>1. n \in 1 .. Len(file) /\ at + 1 \in 1 .. n /\ at < Len(file)
    BY <1>1, <1>2, <1>3
  <2> QED
    BY <1>3, <2>1 DEF LS!Short, LS!More, LS!FitsBuffer
<1>4. found \subseteq LS!Hits
  BY <1>2 DEF LinesInv
<1>5. ASSUME reading = "done", reader = "grep", NEW n \in LS!Hits, LS!InLimit(n), LS!Short(n)
      PROVE  found # {}
  <2>1. n \in 1 .. Len(file) /\ Hit(file, n) /\ n \in Nat
    BY <1>1, <1>2
  <2>2. CASE NoneBefore(file, at + 1) /\ ~ LS!More
    <3>1. ~ (n < at + 1)
      BY <2>1, <2>2 DEF NoneBefore
    <3>2. n > at
      BY <1>1, <2>1, <3>1
    <3> QED
      BY <1>3, <1>5, <2>2, <3>2
  <2>3. CASE at >= 1 /\ NoneBefore(file, at) /\ StartOf(file, at) >= ReadLimit
    <3>1. ~ (n < at)
      BY <2>1, <2>3 DEF NoneBefore
    <3>2. at <= n /\ at \in 1 .. Len(file)
      BY <1>1, <2>1, <2>3, <3>1
    <3>3. StartOf(file, at) \in Nat /\ StartOf(file, n) \in Nat /\ StartOf(file, at) <= StartOf(file, n)
      BY <1>1, <2>1, <3>2, StartGrows
    <3>4. StartOf(file, n) + file[n].len <= ReadLimit
      BY <1>1, <1>5, <2>1, BeginIs DEF LS!InLimit
    <3>5. file[n].len \in Nat /\ file[n].len > 0
      BY <1>1, <2>1 DEF Hit
    <3> DEFINE p == StartOf(file, at)
               q == StartOf(file, n)
               l == file[n].len
    <3>6. p \in Nat /\ q \in Nat /\ l \in Nat /\ p <= q /\ q + l <= ReadLimit /\ l > 0 /\ p >= ReadLimit
      BY <2>3, <3>3, <3>4, <3>5
    <3> HIDE DEF p, q, l
    <3> QED
      BY <3>6 DEF LS!SizeAssumption
  <2> QED
    BY <1>5, <2>2, <2>3 DEF LinesInv
<1>6. ASSUME reading = "done", reader = "cron", NEW n \in LS!Hits, LS!Short(n) PROVE n \in found
  <2>1. ~ LS!More
    BY <1>6 DEF LinesInv
  <2>2. n \in 1 .. Len(file) /\ Hit(file, n)
    BY <1>2
  <2>3. n \in 1 .. at
    BY <1>1, <1>3, <1>6, <2>1, <2>2
  <2> QED
    BY <1>6, <2>2, <2>3 DEF LinesInv
<1> QED
  BY <1>4, <1>5, <1>6 DEF LS!ShortLinesAreRead

\* What fits the buffer and begins within the limit is read, by both.
THEOREM ShortLinesAreReadAlways ==
  ASSUME LS!SizeAssumption
  PROVE  LS!Spec => []ShortLinesAreRead
<1>1. LS!Init => LinesInv
  <2> SUFFICES ASSUME LS!Init PROVE LinesInv
    OBVIOUS
  <2>1. /\ reader \in {"grep", "cron"} /\ reading = "scan" /\ at = 0 /\ read = 0 /\ found = {}
    BY DEF LS!Init
  <2>2. IsFile(file)
    BY DEF LS!Init, IsFile
  <2>3. Len(file) \in Nat /\ DOMAIN file = 1 .. Len(file)
    BY <2>2, FileIs
  <2>4. NoneBefore(file, 1)
    BY <2>3 DEF NoneBefore
  <2>5. 0 <= StartOf(file, 1)
    <3>1. 1 .. 1 - 1 = {}
      OBVIOUS
    <3>2. IsFiniteSet(1 .. Len(file)) /\ Size(file) \in [1 .. Len(file) -> Nat]
      BY <2>2, FileIs
    <3>3. SumOver(Size(file), {}) \in Nat
      BY <3>2, SumGrows
    <3> QED
      BY <3>1, <3>3 DEF StartOf
  <2> QED
    BY <2>1, <2>2, <2>3, <2>4, <2>5 DEF LinesInv
<1>2. LinesInv /\ [LS!Next]_(LS!vars) => LinesInv'
  BY LinesStep
<1>3. LinesInv => ShortLinesAreRead
  BY LinesAreRead DEF ShortLinesAreRead
<1> QED
  BY <1>1, <1>2, <1>3, PTL DEF LS!Spec
================================================================================
