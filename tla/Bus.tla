---------------------------------- MODULE Bus ----------------------------------
(***************************************************************************)
(* The two sides of the bus: ControlPlane, where it is part of the life of *)
(* the process, and Plugins, where it serves modules.  A behaviour belongs *)
(* to one of them, and the other stays as it begins.                       *)
(***************************************************************************)
EXTENDS ControlPlane

\* The constants of Plugins, by their names there but for Sendings.
CONSTANTS
  Menus, Outside, Objects, Capacity, MaxTime,
  Sendings                                           \* its MaxEvents

VARIABLES
  part,                                              \* whose behaviour it is
  offered, registered, subs, runtime, waiting, at,   \* Plugins
  findings, clock, sent, handled

PL == INSTANCE Plugins WITH main <- runtime, queue <- waiting, MaxEvents <- Sendings

processVars == vars
pluginVars == <<offered, registered, subs, runtime, waiting, at, findings, clock, sent, handled>>
busVars == <<part, processVars, pluginVars>>

-----------------------------------------------------------------------------
\* The other part begins in one of its states.
BusInit ==
  /\ part \in {"process", "plugins"}
  /\ IF part = "process" THEN Init
     ELSE config = (CHOOSE c \in Configs : TRUE) /\ Init
  /\ IF part = "plugins" THEN PL!Init ELSE offered = (CHOOSE m \in Menus : TRUE) /\ PL!Init

BusNext ==
  \/ part = "process" /\ Next /\ UNCHANGED <<part, pluginVars>>
  \/ part = "plugins" /\ PL!Next /\ UNCHANGED <<part, processVars>>

\* The fairness of ControlPlane and of Plugins, for a behaviour that is theirs.
BusSpec ==
  /\ BusInit
  /\ [][BusNext]_busVars
  /\ WF_processVars(part = "process" /\ Main)
  /\ WF_processVars(part = "process" /\ Dispatcher)
  /\ SF_processVars(part = "process" /\ Running /\ EndLoop)
  /\ WF_pluginVars(part = "plugins" /\ PL!Dispatch)

-----------------------------------------------------------------------------
\* The type invariants of the two parts.
PartsTypeOK == TypeOK /\ PL!TypeOK

\* Each subscription that matches an event is served once and in order, also
\* when another handler failed on it (Plugins).
ServedAsSubscribed == PL!ServedAsSubscribed

\* Findings of modules that listen to findings come to an end (Plugins).
CascadesEnd == PL!CascadesEnd
=============================================================================
