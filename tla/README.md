# AutoGov in TLA+

AutoGov finds "shadow" automation (n8n instances, scripts, timers) on the hosts of an
organisation. An agent on every host scans it and ships *observations* to a control plane; the
control plane keeps an inventory of automation *instances*, scores the risk of each, stores one
*finding* per instance and alerts. This directory holds the specifications of the parts of that
program which carry its own logic, the TLC models that check them, and proofs.

Paths below are those of the repository, under `src/`.

## 1. Inventory

### How the parts interact

    agent process (one goroutine)              control plane process
    +--------------------------+   POST    +------------------------------------------------+
    | collectors -> spool dir  | --------> | ingest handlers (one goroutine per request)    |
    |  scan, enqueue, flush    | <-------- |   mark seen, publish                           |
    +--------------------------+  200/400  |        | bus (bounded channel)                 |
                                           |        v                                       |
                                           | dispatcher (one goroutine): discovery module,  |
                                           |   risk engine, notifiers                       |
    administrators, analysts  -----------> | API handlers (one goroutine per request)       |
                                           |        all use the store (one lock per call)   |
                                           | auto-flush every 5 s --> state.json            |
                                           +------------------------------------------------+

| Component | State | Operations | Correct when |
|---|---|---|---|
| Agent loop (`internal/agent/agent.go`) | position in the loop, listing being flushed | scan, ship, flush | batches are sent oldest first, a failure keeps the batch, an acknowledgement removes it |
| Spool (`internal/agent/spool`) | batch files | Enqueue (with trim), Pending, Load, Remove | nothing is lost but by the cap or a damaged file; order kept |
| Ingest (`internal/server/ingest.go`) | one handler per request | refuse, upsert host, mark, publish, acknowledge | idempotent; an acknowledged batch has been taken in |
| Bus (`internal/bus`) | queue of 8192 events, subscriptions | Publish (never waits), Run, Drain | one event at a time, in order |
| Store (`internal/store`) | hosts, instances, workflows, credentials, edges, findings, rules, dedup table; dirty flag; snapshot | upserts, MarkEventSeen, Flush, Open | every snapshot is consistent; merging loses nothing |
| Control plane process (`cmd/controlplane`, `internal/server/server.go`) | running, stopping | start, orderly stop | a stop keeps what was applied |
| Module runtime (`internal/modules/runtime.go`) | modules | PublishFinding, PublishEvent, Register | findings that changed are published |
| Discovery (`internal/modules/discovery`) | none of its own | six handlers, upsertAndScore, rescore | what is no automation is ignored; rules are applied; the finding follows the inventory |
| Risk engine (`internal/risk`) | weights, vulnerability feed | Score, CompareVersions | 0 to 100, falls only for a reason |
| Whitelist and finding API (`internal/server/api.go`) | one sweep per request | add and delete rules, applyWhitelist, ack/resolve/reopen | muting follows the listing; listed instances stay silent |
| Notification manager, channels, egress guard (`internal/notify`) | threshold, channels | NewManager with the guard, Notify, Send of four channels | every channel is given every announced finding once; external destinations are refused at the start; listed instances stay silent |
| Authentication, roles, audit trail (`server.go`, `api.go`, `store.go`) | audit file | requireRole, appendJSONL, TailAudit | what is changed is on file; gated data stay gated |
| Collectors (`internal/agent/collect`) | none: one read after the other | Collect of six collectors | what stands still is found, whatever else moves or fails; the scan ends |
| Release signing (`cmd/autogov-sign`, `internal/signing`, `agent/verify.go`) | keys, manifest, binary | keygen, sign, verifyRelease | with Enforce only a pinned binary passes; a complete release runs |
| Modules M2 to M4 (`internal/modules`) | none | Handle, Generate | each event served once per subscription; documents show what containers reach |
| Reports (`internal/report`) | none | Build, WritePDF | torn reads stay within a bound; the PDF holds every line |
| Sanitizer, dashboard, files and flags of the commands | none | | not modelled, see section 7 |

### What is hard here

*Concurrency.* Request handlers, the dispatcher and the flush timer share a store that is locked
per call, so everything that takes two calls can be interrupted: marking and publishing an
observation, matching the rules and merging, flipping the flag of an instance and setting the
status of its finding. A handler outlives a client that gave up, so the retry runs beside it.
*Failure.* The spool survives the agent, the snapshot survives the control plane, the queue and
the handlers survive nothing. *Ordering.* The agent sends in order; retries, a removal that
failed and two handlers of the same batch can undo it. *Limits.* The bus drops, the spool trims,
the dedup table is pruned. *Retries.* A batch is repeated until it is answered with a status below
300, whatever the reason for the refusal. *Reading what moves.* A scan, a report and the check of a
release read several things one after the other while somebody else changes them.
*One dispatcher.* Modules and channels share one goroutine, so that what one of them waits for
stops everything.

`PROJECT.json` lists the hazards at their lines, with the properties that watch them.

## 2. Modules

| Module | Models |
|---|---|
| `EventPipeline` | agent, spool, ingest, bus, dispatcher, dedup table, snapshot, process life |
| `ObservationLog` | the abstract promise that `EventPipeline` implements |
| `FindingLifecycle` | whitelist requests and sweeps, rescans, findings, alerts, analysts, crash |
| `InstanceRisk` | payload handlers, merging of evidence, scoring |
| `Versions` | the splitting and comparison of version tags |
| `Glob` | the patterns of whitelist rules, on bytes |
| `ControlPlane` | start with the egress guard, dispatcher and notifiers, flusher, listener, orderly stop |
| `Plugins` | registration of modules, subscriptions, dispatch, findings of M2 and M3, cascades |
| `AuditTrail` | roles of tokens and endpoints, the audit file, what handlers show and change |
| `ReportSnapshot` | reports and documents read lock by lock beside the dispatcher, flushes and a crash |
| `ReportText` | the lines of the PDF report and its numbered objects |
| `HostScan` | one scan of the agent on a host that goes on changing |
| `LineScan` | the two readers of files line by line |
| `Release` | keygen, sign, files on a host, verification by the agent |
| `MCEventPipeline`, `MCFindingLifecycle`, `MCControlPlane`, `MCInstanceRisk` | constant values for TLC, and the symmetry of the request slots in the first |
| `Bus` | `ControlPlane` beside `Plugins` |
| `AgentHost` | `HostScan` beside `Release` and `LineScan` |
| `ServerData` | `InstanceRisk` beside `ReportSnapshot`, `AuditTrail`, `ReportText`, `Glob` and `Versions` |
| `MCBus`, `MCAgentHost`, `MCServerData` | values for the constants of these three |
| `PipelineProofs` | of `EventPipeline`: types, at-most-once, the refinement, snapshots, what the process remembers, loss, order, the tail in the spool |
| `FindingProofs` | of `FindingLifecycle`: types, silence about the listed, no alert twice |
| `BusProofs` | of `ControlPlane`: every channel is given every announced finding, types; of `Plugins`: every subscription is served once and in order, types |
| `HostProofs` | of `HostScan`: what stands is found, types; of `LineScan`: short lines are read |
| `RiskProofs` | of `InstanceRisk`: the inventory is the summary of all reports, the score falls only for a reason, types; of `Versions`: the comparison is an order; of `Glob`: patterns mean on characters what they match on bytes, where `?` meets characters of one byte |
| `ReleaseProofs` | of `Release`: enforced verification; types |
| `ServerProofs` | of `ReportSnapshot`: closed stores, that what containers reach is shown, the bound on torn reports, types; of `AuditTrail`: entries of changes, gated data, the reader of the trail, types; of `ReportText`: explanations and the PDF are whole |
| `Lemmas` | what several of these need to know of finite sets of numbers, sums and sequences; induction over numbers |

`EventPipeline` and `FindingLifecycle` compose the parts that interact. The others meet at an
interface that is a choice in each of them: `ControlPlane` takes any finding the modules may
make; `HostScan` makes the payloads that `InstanceRisk` starts from; `InstanceRisk` starts from
numbers that `Versions` finds in tags.

*Several parts in one run.* `Bus`, `AgentHost` and `ServerData` extend one module and instantiate others that
share no state with it, each with variables and constants of its own. A variable `part` says which of them takes the
steps of a behaviour, and the others stay in one of their initial states. So the states of the run
are those of the parts one beside the other (not multiplied), and a property of one part holds in the
run exactly if it holds of that part alone; the fairness conditions name the part they are about.

### EventPipeline

A batch is its agent, the number of the scan, its size and whether the server will accept it; an
observation is its place in a batch, which stands for the random identifier drawn at collection.
The inventory is represented by the *log* of applied observations: what the discovery module makes
of them is a function of which were applied and in which order (that function is `InstanceRisk`).

| Code | Definitions |
|---|---|
| `scanAndShip`, `flushSpool`, `ship` | `Scan`, `ScanNotSpooled`, `QuietScan`, `StartFlush`, `LoadFails`, `Ship`, `ShipFails`, `ClientTimeout`, `ConnectionReset`, `Remove`, `RemoveFails`, `FinishFlush` |
| agent killed and started | `AgentCrash` (the spool stays; the handler goes on without a client: `Detach`) |
| `handleIngest` | `Reject`, `RegisterHost`, `MarkNew`, `SkipDuplicate`, `PublishObservation`, `Acknowledge`; one step per store call or publish |
| `MarkEventSeen` and pruning | `MarkEventSeen`, `Expired`; `forgotten` is a history variable of the pruned identifiers |
| `Bus.Publish`, `Run`, `dispatch` | `Publish` (drops when full), `Take`, `Apply`, `Emit`, `NotifyFinding` |
| `Flush`, `RunAutoFlush` | `Flush` (write to a temporary file and rename, under the lock: one step) |
| SIGTERM, `main` 104-108 | `Terminate`, `StopDispatch`, `FinalFlush`, `FinalFlushFails` (logged, and the process ends all the same), `Exit` |
| crash, `store.Open` | `Crash`, `ProcessGone`, `Restart` |

`ClientTimeout` may come in any state of the handler, and a handler that lost its client runs on
to the end, as in Go's `net/http` for a body that was read. A handler whose process stops is cut
off: `http.Shutdown` runs beside `main`, which does not wait for it. A batch file that cannot be loaded
is passed over, and its removal, whose error the agent ignores, may fail or not (`LoadFails`). `handleIngest`
also skips observations without an identifier or a type (`ingest.go:51-53`); the agent gives every observation both
when it makes it, so none of those modelled here is one.

### FindingLifecycle

The dispatcher's path for one instance in its separate store calls (`ApplyRules` or `ReadAPI`,
`UpsertInstance`, `ReadInstance`, `StoreFinding`), whitelist requests with their sweep
(`AddRule`, `DeleteRule`, `ListInstances`, then per instance `PassOver` or `Decide`,
`SetInstanceWhitelisted`, `SweepStatus`), analysts (`FindingAction`), the queue of finding events
(`PublishChanged`, `Notify`) and a crash. The instance in the runs is an n8n on the network that the agent
also asks over its API, the one kind that both ways of the discovery module report. The severity is any of a set, as the risk engine computes it
elsewhere. `sent`, `exposed` and `last` are history variables: who was notified about, which
instances were ever unlisted in the inventory, and the severity last announced. `CleanMeansSaved`
of `EventPipeline` (proved) is why the dirty flag is left out here.

### InstanceRisk

The six handlers of the discovery module turn a payload into an observation or ignore it
(`handleDocker` with its strong and weak signals, and so on); `Observe` records edges,
credentials and workflows, merges the instance and computes the finding. Scores are integers in thousandths,
exact for the default weights and both multipliers; confidence is in percent. Keywords are a
relation between systems and categories, because the code walks a Go map: where two categories
match, either may be the answer (`Classified`). `OwnerIsIT` is set nowhere in the code, so
every known owner but root counts as outside IT. Of the merge, the fields are modelled that scores and properties
depend on; status, kind of database, image, run and queue mode and ports (`store.go:214-240`) are left out.

### Versions and Glob

`Versions` takes a tag apart as `splitVer` does (a "v" cut off, fields between separators, the
number at the front of each) and compares as `CompareVersions` does; a tag is a sequence of symbols, the digits
among them. The property is that of an order, because `matchVuln` combines two comparisons.
`Glob` translates `globMatchImpl` on the *bytes* of pattern and subject; the reference `Means`
cuts the subject, on *characters*, into one piece for each symbol of the pattern. The two differ for a `?` that meets a
character of several bytes, which is why `GlobAsMeant` asks of a pattern with `?` that the characters of the name have one byte.

### ControlPlane

| Code | Definitions |
|---|---|
| `NewManager`, `EgressGuard.Check` | `InOrder`, `AddNotifier`, `Lookup`, `Check`: an IP address is what it is, a name may resolve to internal or external addresses, to both, or to nothing, and what resolves to nothing passes |
| `main` 83-109 | `Start`, `StopFlusher`, `FinalFlush`, `Return`; `Signal` and `ServerFails` from outside |
| `Server.Run` | `Shutdown` |
| `Bus.Run`, `dispatch`, `Attach`, `Notify` | `TakeObservation`, `Handle`, `PublishFinding`, `TakeFinding`, `Announced`, `EndNotify`, `EndLoop` |
| `Send` of the channels | `SendWithTimeout` (webhook, syslog, Telegram), `SendMail` (no timeout) |
| `RunAutoFlush` | `AutoFlush` |

`accepted`, `taken` and `tried` are history variables: the findings the queue took, those the dispatcher took
and what every notifier was given. The guard looks once, at the start: what a name stands for later, where a server redirects
to and which proxy the environment names are outside the code of the guard and outside the model, and no property
claims that nothing external is reached.

### Plugins

`Register` makes the subscriptions of a module or refuses its name, which ends `main`; `Take`, `Skip`,
`HandlerFails` and `Handle` are the steps of `dispatch` for one event, and `PublishFinding` queues an
announcement if the finding is new and there is room. `FindingOf` is how a module identifies its
finding: by the object (discovery, M3), or by the second of the touch (M2). `handled` is a history variable.

### AuditTrail

A request goes through `Arrive`, `Unauthorized` or `Permit`, `Record` or `RecordFails`, and one of
`Show`, `Change`, `ShowAudit`; requests interleave. The file is a sequence of entries (the number
of the request), line ends and torn pieces, so that a write that fails half-way spoils the line of the next one,
as for `appendJSONL` and `TailAudit`. Requests are numbered in the order they arrive. `lost` is a history variable of
the entries that were not written in full.

### ReportSnapshot and ReportText

`Build` reads hosts, instances, findings and edges with one lock each, `Generate` hosts, instances
and then the edges of one instance after the other; the dispatcher writes in the order of
`handleDocker` (edges first) or `handleN8NAPI` (edges last). What a store holds is a set of keys. `Reaching` are the instances that have
edges for certain, such as a container whose environment, which it keeps for life, names a database.
`ReportText` makes lines of findings (`wrap`) and instances, pages of the lines and numbered objects of
the pages; offsets are sums of sizes that depend on what was filled in.

### HostScan and LineScan

`Scan` is `scanAndShip`: the collectors in order, each a list and then one read per thing, with
`Appear` and `Vanish` of containers, processes, files, crontab lines, services and workflows between any two reads.
A read of what has gone fails; a read of what is there may fail too, a connection as well (`DialFails`). A systemd service with a timer
counts as a crontab of one line, its first `ExecStart`. `stood` and `unread` are
history variables: what was there from the start of the scan, and what could not be read though it was there.
`LineScan` is the `bufio.Scanner` under `grepFile` and `parseCrontab`, with its buffer and the limit of bytes.

### Release

The operator runs `KeygenPublic`, `KeygenPrivate`, `Sign`; on the host, manifest and binary arrive in
separate steps and may be damaged; the agent goes through `Exec`, `SkipVerification`, `RejectKey`,
`CheckManifest`, `CheckBinary`, reading each file at the moment of the step. A signature is the key and what
was signed: ed25519 and SHA-256 are taken at their word. `signed` is a history variable.

## 3. Runs

| Run | Question | Result |
|---|---|---|
| `PipelineFaults` | all faults together: type, at-most-once, snapshots, acknowledgement, orderly stop (its last flush may fail), refinement of `ObservationLog` | holds |
| `PipelineOrder` | are one agent's observations applied in order, and are those in the spool its latest, without a gap | holds without late handlers and failed removals |
| `PipelineDelivery` | is everything delivered while the server stays up and the bus has room | holds |
| `PipelineOverflow` | does the bus lose what was accepted | violated, section 4 |
| `FindingRaces` | listed instances silent, no repeated alert; do muting and listing come to agree | holds |
| `FindingReopens` | does a resolved finding reopen when its severity rises | violated, section 4 |
| `FindingUnlisted`, `FindingSilent` | do listings follow the rules, is risk announced | violated, section 4 |
| `Bus` | `ControlPlane`: `EveryChannelIsGivenAll`, `SignalEndsProcess`; `Plugins`: `ServedAsSubscribed`, `CascadesEnd` | holds |
| `ControlPlaneMail` | does every handler return | violated, section 4 |
| `AgentHost` | `Release`: `EnforcedIsPinned`, `SettledHostRuns`; `HostScan`: `StandingIsReported`, `ScanEnds`; `LineScan`: `ShortLinesAreRead` | holds |
| `ServerData` | `InstanceRisk`: `InventoryIsSummary`, `RiskFallsForAReason`; `AuditTrail`: `ChangeIsOnFile`, `ReachabilityIsGated`, `ReaderSeesItself`; `ReportSnapshot`: `StoreClosed`, `ReportMissesAtMostOne`, `ReachIsShown`; `ReportText`: `PdfIsWhole`, `ExplanationsAreWhole`; `Glob`: `GlobAsMeant`; `Versions`: `VersionsAreOrdered` | holds |

`PartsTypeOK` is the conjunction of the type invariants of the parts of a run.

### Bounds, and why they are enough

* `PipelineFaults`: one agent, one batch of two observations, two request slots, three faults out
  of all kinds, a bus of two, one derived event, a dedup table pruned above one record. Two slots
  let a retry race the handler it replaces; two observations let them interleave within a batch;
  three faults allow a timeout, a crash and a disk error in one behaviour; the bus overflows and the
  table is pruned within the batch. Agents share only the bus and the store, and the properties
  are about single observations; the proofs cover any number.
* `PipelineOrder`: three batches of one or two observations, some refused, spool cap two (so the
  trim happens), lost connections, stops and crashes. One slot, because without a reply timeout or
  an agent crash an agent has one request at a time. Excluded faults are those that break the
  order: a reply timeout or an agent crash, either of which leaves a handler that runs beside the retry, and a failed removal followed by a server crash,
  after which an old batch is applied after a newer one whose effects are in the snapshot. Three batches and a cap of two are
  enough for a trim that takes the wrong one to leave a gap.
* `PipelineDelivery`: two batches, two slots, any two of lost request, lost reply, agent crash. The
  bus holds everything and the server neither stops nor crashes, because those lose observations
  by design of the code; spool cap is not exceeded.
* `FindingRaces`: one instance, one rule that matches it, two request slots, two requests, one
  crash, one alert in the queue. Instances interact only through the rules, so one suffices; two requests are
  needed for sweeps that cross, the addition and the deletion of the rule. No symmetry, as the run checks liveness.
  The runs with a violation take one request slot and no crash: their traces are short.
* `Bus`, process: a queue of one (so that it is full when a handler publishes), two observations, two
  severities on both sides of the threshold, one name that may resolve to anything or nothing, and five
  configurations: mail, webhook and syslog together on premises; an external channel that is refused; a malformed one;
  external channels with permission and in the cloud. `SignalEndsProcess` is about configurations
  without mail, whose sending has no timeout. Modules: five of them, two with overlapping patterns and one
  fed by findings, and a list with a name twice; two events, two objects, a queue of two, a clock of two seconds.
* `AgentHost`, release: two keys, a release of two binaries and one of a single one, five changes: enough for
  keygen, sign, both copies and one more (damage, an upgrade, new configuration). Scan: two
  containers, one process number that different programs take in turn, two roots that share a file, a crontab, an n8n or a proxy at an
  address, three changes: one thing can vanish and come back as another between any two reads. Lines: three lines around a buffer of
  four bytes and a limit of six.
* `ServerData`, risk: nine families of payloads, each about one instance, four observations in a row, which reach the cap of 100
  and every reason for a falling score. Audit: two requests at any endpoint by callers of
  every role (the thirteen routes of `api.go` under twelve names, as both routes of the whitelist ask for the same role and change the same rules), one failed write, one crash, a window of one line: a later entry can push an earlier one
  out. Report: a container that reaches something (edges first), an n8n (edges last) and a process on one host, one crash: up to three
  instances can lack their finding if the bound is wrong. Text: pages of four lines, width of five bytes, explanations
  below, at and above the width. Patterns of up to four symbols and names of up to three
  characters of one and two bytes. 23 tags, all pairs, and triples for transitivity.
* All of these stop at their bounds or may rightly stop (a process that ended, a file that was read), hence
  `CHECK_DEADLOCK FALSE`; that something must go on is said by the liveness properties.

## 4. What the code does otherwise than it says

1. **Overflow loses accepted observations** (`PipelineOverflow`). `bus.go:60-61` counts on a
   resend; but the observation is marked and the batch acknowledged, and a resend would be taken for a duplicate.
2. **A rule may miss an instance for good** (`FindingUnlisted`), against `api.go:187-188`: the
   sweep runs between match and merge, and the merge never looks at the rules again.
3. **A critical finding nobody is told of** (`FindingSilent`), against `store.go:367-368`.
4. **A mail server can stop the analysis** (`ControlPlaneMail`), against `bus.go:18`: `smtp.SendMail`
   has no timeout and is called in the one dispatch loop.
5. **A resolved finding does not reopen** (`FindingReopens`), against `store.go:395`: a rescan that raises the severity
   announces the finding and leaves it resolved.

Met while reading and modelling, left out of the runs; the models contain the behaviour unless it says otherwise:

* A handler whose client timed out is overtaken by the retry (`agent.go:173-174`); a batch refused
  with 400 stays at the head of the spool (`spool.go:1-4`).
* The rescan of an instance unlisted a moment ago writes the empty status into its finding (`store.go:396-398`).
* After the listener has failed, `main` waits for a dispatcher nobody tells to stop (`main.go:105`).
* A finding published while the queue is full is stored and never announced (`runtime.go:51`);
  `finding.updated` of `runtime.go:39-40` is never emitted. Nothing publishes `honeynode.access` or
  `workflow.error`, which M2 and M3 subscribe to.
* A destination that does not resolve passes the egress guard, an IPv6 address in brackets without a port among them (`notify.go:81-96`). The
  default client follows redirects and takes a proxy from the environment (`notify.go:216-217`, `327-328`), past the guard; not modelled.
* A named pipe called `.env` holds `grepFile` up (`filesystem.go:131`), and the scan with it; not modelled.
* Two touches of a decoy in one second are one finding (`honeynodes.go:48`).
* A malformed public key keeps the agent from starting without Enforce too (`verify.go:29`, against 17-19). Two
  binaries of one base name leave one pin (`autogov-sign/main.go:87`). The file that is hashed may not be the one that runs,
  if it is renamed over in between (`verify.go:43`).
* A report is not a snapshot (`report.go:41`): see the bound `ReportMissesAtMostOne`.
* Processes whose links cannot be read share the identity `|` (`process.go:46-56`); a proxy that redirects
  everything counts as n8n (`network.go:67`); only 250 workflows are fetched (`n8napi.go:68`); a line of 64 KB or more ends
  the reading of a file without an error (`filesystem.go:137-139`).
* The audit entry is best effort, and a torn line takes the next one with it (`store.go:532`, against `model.go:171`).
* `?` in a pattern is one byte, not "any char" (`store.go:596`): two of them stand for a Cyrillic letter. `1.30.0-rc1` counts as `1.30.0` (`risk.go:296`).
* `ARCHITECTURE.md:70-76` says that one instance seen by several collectors is one asset, but each handler
  derives the identifier from a key of its own, so only the network and the API observations can meet.

## 5. Fairness

`EventPipeline`: weak fairness of each agent's own steps (a ticker fires every interval and the
loop runs to its end; every call has a timeout), of each handler and of the dispatcher (runnable
goroutines; nothing they call waits), of the flush (a ticker), and of the server's own steps
including the restart, which `deploy/docker-compose.yml` asks for (`restart: unless-stopped`).
New scans, faults and the clock have none. A flush of the timer that fails is a step that changes nothing, so that the fairness of the
flush says that it does not fail for ever. `FindingLifecycle`: weak fairness of the dispatcher's
steps and of each request; strong fairness of `Observe(i)`, since agents report every instance in
every scan and the queue is first-in first-out, so no instance is passed over for ever; it is
*strong* because the dispatcher is busy with others in between. Requests, analysts, crashes and
notifications have none.

`ControlPlane`: weak fairness of `main` and of the dispatcher (runnable goroutines; webhook,
Telegram and syslog time out after 5 or 10 s), strong fairness of the dispatcher's way out once the context is cancelled: `select`
chooses at random among the ready cases, so it does not take events for ever. The mail server has none, which is the
point of `ControlPlaneMail`. `Plugins`: weak fairness of the dispatch loop. `Release`: weak fairness of
the agent, which its supervisor starts again (`restart: unless-stopped` in `deploy/docker-compose.yml`); operators have none. `HostScan`: weak fairness of the scan (calls
of Docker and HTTP time out; files are local and taken to be plain ones, whose opening returns).

## 6. Proofs

Every theorem holds for all values of the constants, also where a run checks its property on a small instance;
the assumptions are those of the module, or are named in the theorem. The proofs about components that runs combine
extend the modules that combine them (`Bus`, `AgentHost`, `ServerData`), so that the property of a theorem is the very
definition the run checks; its behaviours are those of the component (`AT!Spec`, say), with no other part beside it. `PartsTypeCorrect`,
one in each of these, is about the behaviours of the run.

**The pipeline** (`PipelineProofs`), from `BatchAssumption`, `BoundsAssumption` and `AgentsAssumption` (batches are not empty;
the bounds are natural numbers; `NoAgent` is no agent), for any agents, slots, spool cap, bus capacity and any number of faults of every kind,
but where a theorem says otherwise.

* `TypeCorrect`. One lemma per group of fields that a step edits, then one step per action.
* `AtMostOnce`, `Implements`, `StopIsSafe`, `CleanIsSaved`.
  `AppliedAtMostOnce` alone is not inductive: it says nothing of an observation still in a handler,
  in the queue or in the dispatcher. `OnceInv` adds, for every observation that was not pruned: it
  is in at most one of these places or in the log (`Once`); wherever it is, it is marked seen, so that
  no handler starts it again; and the snapshot has no observation in its log without its dedup
  record (`SavedOnce`), so that a restart cannot open a second way. `StopIsSafe` and
  `CleanIsSaved` need no part of it: each has a short inductive argument of its own. `StopIsSafe` says that the log on disk is
  the beginning of the one in memory at any time, and all of it once the final flush has succeeded; where it fails, what
  was applied since the last flush is lost. The refinement
  maps `log` to `mem.log`, `saved` to `disk.log` and `exempt` to `forgotten`; `Apply` appends,
  `Flush` and `FinalFlush` save, a final flush that fails stutters, `ProcessGone` restores, pruning exempts, all other steps stutter.
* `AppliedIsSeen`, `AckedBatchIsSeen`. `StoresClosed` speaks of the log; `SeenInv` of every place on the way to it: an observation is
  taken in, and its host known, before it is published, and a handler has taken in all it is past (`Progress`).
  That the acknowledged batch is the one the agent waits for needs two more: an agent that waits is served by at most one handler, which
  has the oldest batch of the flush (`Links`), and no two files of an agent are of one scan (`Files`).
* `NothingIsLost`. What is marked as seen is in the log, in hand, in the queue or about to be published (`Kept`). It
  is assumed that the process neither stops nor crashes (`LivesAssumption`, over the kinds of faults) and that the queue never is full:
  a stop or a crash drops the queue, and `PipelineOverflow` shows the loss in a full one. Nothing is assumed of
  clients that give up, agents that crash, files that fail and dedup records that are pruned.
* `AppliedInOrderAlways`. The log alone says nothing of what comes next. `LineInOrder` puts log, hand, queue and what a
  handler is about to publish in one line, which is in order. So that what is published next belongs at its end, `Frontier`
  says of what is seen, in the process and in the snapshot, that of each agent it is of no later scan than what is in the spool,
  and within a batch it is the observations up to the last one seen: a retry after a restart goes on where the snapshot ended.
  `Attached` says that a handler has its client and that a flush has all of the spool before it.
  Each fault that `OrderAssumption` leaves out does break the order: a client that gives up leaves a handler that publishes beside the
  one that serves the retry, a crash of the agent likewise; a file that was acknowledged, but not removed, is sent
  after later ones when the server comes back from a crash without its records (TLC finds this with `"disk"` among the faults); a pruned record
  lets a batch in again. The faults that remain, lost connections, crashes and stops of the server, are those of the run
  `PipelineOrder`. TLC checked this invariant, as it did `OnceInv`, before it was proved.
* `SpoolIsTailAlways`, from `TailAssumption` (no disk operation of the agent fails); `AllListed` adds that what a flush has before it is the whole spool. The batches in the spool are the latest collected, without a gap:
  the trim takes the oldest, a flush goes through what it listed in order, and a removal follows the acknowledgement of the oldest one. A file that
  fails leaves a gap: a damaged batch is passed over, and one that could not be stored was never there.

**Findings** (`FindingProofs`), from `MatchesAssumption`, `SeverityAssumption` and `LimitsAssumption`, for any instances, rules and numbers of requests and crashes.

* `TypeCorrect`; `InHand` adds that the dispatcher and a request at work have an instance.
* `ListedStaysSilent`. `SilentInv`: whatever is unlisted in the store, in the snapshot, in the hands of the dispatcher between its
  reads, or in an alert that waits in the queue, was exposed at some time; an alert is taken from the queue long after the
  decision that made it, so that a statement about those that were sent is not inductive.
* `AlertsDoNotRepeat`, an action property. `LastKnown`: the severity announced last is the one in the store, so that a severity
  that differs from the stored one differs from it, too.

**The bus** (`BusProofs`), from the assumptions of `ControlPlane` and of `Plugins`, for any configurations, names, channels, severities, modules, patterns and capacities.

* `ChannelsAreGivenAll`. `Given` is `EveryChannelIsGivenAll` with what the fan-out has in hand: the finding taken last, which is one to be
  announced. Its lemmas say what `Among` selects from a sequence with one element more or one less. `Among` is a recursive function; the
  induction is over the length of the sequence, for a property given as a *set* of numbers (`NatSetInduction`, from the
  well-foundedness of <), because the library's induction theorems take an operator, which the provers cannot instantiate.
* `TypeCorrect`. That the notifiers are the first channels of `InOrder` needs that `InOrder` goes through all channels of the
  configuration (`AllInOrder`): what four kinds that make up a whole select from a sequence has, together, its length (`AmongFour`).
  That no more is applied than came in needs a count of the observations on the way (`Counts`): those in the queue, those applied and the
  one at hand are no more than came in; some were dropped.
* `ServedAsSubscribedAlways`, `PluginTypeCorrect`, of an instance of `Plugins`. `PluginInv`: what has been registered is what is subscribed, module
  by module (`Registered`); an event that waits has been handled by nobody, and no two of those that came from outside have the same number (`Apart`); of
  the event at hand, who has handled it, followed by whom the subscriptions that are left would serve, are all whom the subscriptions serve (`AtHand`). Both sides
  are what a sequence stands for element by element, in a row (`Chosen`), so that the lemmas are those on `FlattenSeq`, whose
  definition is a recursive function: what it makes of two sequences in a row is what it makes of each, in a row (`FlatConcat`). `MenusAssumption` says that menus and
  lists of patterns are sequences, and `CapacityAssumption` that the capacity is a number.

**The host** (`HostProofs`): `StandingIsFound`, from `SearchAssumption` (each root of the search is a root of the tree and is searched) and
`MarkerAssumption` (an n8n answers two markers). `FoundInv` has a part for each collector: what stands and was readable is in the batch, or still on
the list of the collector, or the collector has not come to it (for roots and addresses: is in what is `left` of them).
For processes it also says that what is held of one is what its program says, as nothing else can have the number while it stands.

`ShortLinesAreReadAlways`, of an instance of `LineScan`, from its `SizeAssumption`, for any buffer, limit and file. `LinesInv`: the reader has read no more
than what comes before the line it is at, and none of the lines before it is a hit that it had to report; so a hit that ends
within the limit is still within what may be read when its line comes up (`StartGrows`, a statement on sums).
`TypeCorrect`, from `SearchAssumption` and `ChangesAssumption`: `Typed` adds that during the search of files what is `left` are roots of the tree.

**The inventory** (`RiskProofs`): `InventoryIsSummaryAlways`, from `PayloadAssumption` (fingerprints have an address of one of the three kinds), for any families of payloads, keywords and
feed, any order and repetition. `SummaryInv` is the summary field by field, in a form that one more report extends:
`Highest` for exposure and confidence, `Merged` for those where the last report that knows one counts or all
are collected, `CredsKept`, `EdgesKept`, `FlowsKept` for what is kept beside the instance.

`RiskFallsForAReasonAlways` and `TypeCorrect` (a score lies between 0 and 100) need `KeywordsAssumption` too (the keywords of
a system stand for categories of the table of weights), and that the payload of an API lists finitely many workflows and nodes.
`RiskInv` adds to `SummaryInv` that the finding is the score of the inventory as it is stored (`Scored`), the first finding of an instance excepted,
which cannot fall below 0. Each term of the weight is then followed on its own (`WeightGrows`): without one of the
reasons the categories are a superset, the exposure ranks no lower, webhooks and credentials are no fewer; multipliers, cap and
rounding keep the order (`ScaledGrows`, `RoundGrows`). The sums are folds over sets; that there is such a sum,
that it does not depend on the element counted first, and that more elements make it no smaller (`SumExists`, `SumRemove`,
`SumGrows`) is proved by induction over the size of the set, in the form of a set of numbers that has 0 and with
each number the next (`NatSetInduction`), as `Total` is one fixed operator here.

`VersionsAreOrderedAlways`, of an instance of `Versions`, from `TagAssumption` (tags are sequences of symbols). `CompareVersions` goes field
by field, a missing one counting as 0, and `Decided` says what its answer is: the comparison of the first fields that differ,
or 0 if there is none; that there is a first one is `MinExists`. That swapping the tags swaps the answer (`Opposite`) and that
answers do not contradict each other along three tags (`Along`) follow from where two tags first differ. `NumberType` (the number at the front of a field is a number) is
an induction over the length of the field.

`GlobAsMeantAlways`, of an instance of `Glob`, for patterns with `?` where characters have one byte and for all others anywhere, from `BoundAssumption` and `EncodingAssumption`: what UTF-8 sees to, that no character is the
beginning of another and that the byte that begins one is nowhere else; names do not have the wildcards in them. The places of a pattern are
computed from its end, a run of stars as one star (`PlacesStep`). From the end back (`MatchMeans`), the place of a character is among them if and only if
what is left of the pattern means what is left of the name (`AgreeStar`, `AgreeChar`): the recursion on bytes also tries a star in the
middle of a character, but what could follow could also follow before a character (`BetweenCharacters`). A `?` takes one byte and means one
character, which is the same where each has one (`ByteWise`, `AgreeAny`)..

**Release, reports and audit**

* `EnforcedIsPinnedAlways` (`ReleaseProofs`), from `NamesAssumption` of `Release`, for any keys, hashes, names, releases and number of changes. `EnforcedIsPinned` says nothing of an agent between
  its two checks, nor of the manifest on the host. `PinInv` adds that every signature on the host was made by `Sign`,
  whatever became of the manifest around it, and that a manifest in the hands of the agent says
  what was signed under the configured key; so the hash it is compared with is a pinned one.
* `ReleaseTypeCorrect` (`ReleaseProofs`), with `ArgumentsAssumption` and `BoundAssumption`: `ReleaseShape` gives the manifests their fields, and what `sign` pins under a name is the
  hash of a file it was called with (`PinsAreFiles`), the last of that name (`MaxExists`), so that damage finds nothing else to deliver.

* `ReportTypeCorrect`, `StoreClosedAlways` (`ServerProofs`), from `HostAssumption` and `CrashAssumption` of
  `ReportSnapshot` (every instance has a host; the bound on crashes is a number). `ClosedInv` adds to the closed store
  where the dispatcher is: at one instance at most, whose host is in the store from `Handle` on, and which is in the store
  itself before its finding is computed.
* `ReachIsShownAlways`, from the same. `Led`: a store, and a snapshot, in which a container that reaches something is has its edges too, which
  the order of `handleDocker` sees to; and what a reader holds of a container was in the store when it was read, so that the edges,
  read later, are there, unless a crash came between, which ends the reader too.
* `ReportMissesFew`, with `FiniteAssumption` (finitely many instances). `ReportMissesAtMostOne` counts what a finished
  report lacks; `LeftBehind` bounds the count at every moment before: of the instances in the store without a
  finding, all but the one at hand were left by crashes, one by each, because a snapshot may have been taken between
  instance and finding; and what a report has read lacks no more than the store did when it read the instances, as findings
  are only added until the next crash, which ends the report too.
* `ChangeIsOnFileAlways`, `ReachabilityIsGatedAlways` (`ServerProofs`), without any assumption on the constants. `AuditInv`
  follows a request to its handler: once there, its entry is in the file or in `lost` (`Entered`; the file only grows),
  and its caller ranks no lower than the endpoint asks for (`Admitted`); a crash takes back changes, never entries.
  `Shape` says that requests are records with their fields, which the steps that edit them need.
* `ReaderSeesItselfAlways`, from `WindowAssumption`. While no write fails the file is whole lines (`WholeLines`), so that the line of an entry, which `TailAudit` finds by
  counting line ends, is its place among the entries (`LineIs`, `LinesAre`); then either it is among the last `Window` lines, and has a place of its own in
  what is shown (`Ranks`), or a window of entries comes after it. Only admins get as far as `ShowAudit`, and who was denied is none.
* `AuditTypeCorrect` (`ServerProofs`), without any assumption. What a reader is shown are requests, because each place of
  the tail has an entry of that rank (`RankOnto`: the ranks in a finite set of numbers are all numbers up to its size).
* `ExplanationsAreWholeAlways`, `PdfIsWholeAlways` (`ServerProofs`), from `SizeAssumption`, `BoundAssumption` and `WordsAssumption` of
  `ReportText` (an explanation is a sequence of words, a word its length). `Holds`: after each word, what `wrap` has put out and the line at hand have,
  in a row, the words so far, and no line is too long unless it is one word. `TextInv` says of the lines that those about a finding have its words;
  what lines in a row have is what each has, in a row (`WordsConcat`). `PagesInv`: the k-th page is object 3 + 2k, refers to the object before it,
  and the texts of the pages in a row are the lines up to `Upto`; so the numbers that are filled in at the end lead to all of them.

*Lemmas* (`Lemmas`). What a recursive definition, a fold or a sum comes to is proved by induction over numbers: a *set* of
numbers that has 0, and with each number the next, is all of them (`NatSetInduction`, from the well-foundedness of <), because the
induction theorems of the library take an operator, which the provers cannot instantiate. From it follow the
largest and the smallest of a finite set of numbers (`MaxExists`, `MinExists`), ranks (`Ranks`, `RankOnto`), sums over finite sets
(`SumExists` to `SumGrows`) and sequences of sequences put in a row, and where each lies in it (`FlatExists` to `FlatFour`).

*Only model-checked.* All liveness (fairness and ENABLED are outside the prover's reach).
These are `SpooledIsDelivered`, `ListingsSettle`, `SignalEndsProcess`, `CascadesEnd`, `SettledHostRuns` and `ScanEnds`, which hold on the
instances of their runs. Every invariant and action property of a passing run is a theorem.

## 7. Not modelled

* The environment sanitizer: it consists of regular expressions over names and values; a model would be a copy of the expressions.
* Payload text, wording and layout; TLS (a certificate that cannot be read is `ServerFails`) and the tokens of agents (a refused request is
  `Reject`); the event log that is only appended; the summary counts and the dashboard page; CSV and JSON, which the library encodes.
* Failing writes of the snapshot by the timer leave the dirty flag and the old file, a step that changes nothing; the last flush of
  `main` may fail in `EventPipeline` and in `ControlPlane`.
* Weights other than the defaults; explanations of the score.
* Reading of configuration files and flags; of `LoadConfig` the roles are modelled, of the rest the values it may come to.
* Redirects, proxies and names that come to stand for another address; named pipes among the files that are searched.
* The `verify` command of `autogov-sign`, which changes nothing; cryptography.

## 8. Plan

The pipeline came first, where data can be lost; then the lifecycle of findings, where concurrent
requests meet; then the process around the bus, the agent's host and what the server shows. Next:

1. A composition of `EventPipeline` with `InstanceRisk` for two agents, to say which fields of the inventory an order
   of application can change.
