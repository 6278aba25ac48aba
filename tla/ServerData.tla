------------------------------- MODULE ServerData -------------------------------
(***************************************************************************)
(* What the server keeps and how it is asked: InstanceRisk, then           *)
(* ReportSnapshot, AuditTrail, ReportText, Glob and Versions.  They share  *)
(* nothing, so that they are put one beside the other: a behaviour belongs *)
(* to one part, and the others stay as they begin.                         *)
(***************************************************************************)
EXTENDS InstanceRisk

\* The constants of the parts, by their names there but for MaxCuts and Encoding.
CONSTANTS
  Hosts, Instances, HostOf, EdgesFirst, Reaching, MaxCrashes,     \* ReportSnapshot
  MaxRequests, Callers, Role, Asked, Window, MaxFailures,         \* AuditTrail
  MaxCuts,                                                        \* its MaxCrashes
  PerPage, Width, MaxShown, Heads, Explanations,                  \* ReportText
  MaxFindings, MaxInstances,
  Encoding,                                                       \* Glob: its Bytes
  MaxPattern, MaxSubject,
  Tags                                                            \* Versions

VARIABLES
  part,                                                           \* whose behaviour it is
  store, disk, disp, rep, crashes,                                \* ReportSnapshot
  req, mem, saved, trail, lost, cuts,                             \* AuditTrail
  found, instances, writing, lines, objects, pageNums, offsets,   \* ReportText
  pattern, subject, verdict,                                      \* Glob
  left, right, order                                              \* Versions

RS == INSTANCE ReportSnapshot
AT == INSTANCE AuditTrail WITH disk <- saved, crashes <- cuts, MaxCrashes <- MaxCuts
RT == INSTANCE ReportText WITH findings <- found, pc <- writing
GL == INSTANCE Glob WITH Bytes <- Encoding
VE == INSTANCE Versions WITH a <- left, b <- right

riskVars == vars
reportVars == <<store, disk, disp, rep, crashes>>
auditVars == <<req, mem, saved, trail, lost, cuts>>
textVars == <<found, instances, writing, lines, objects, pageNums, offsets>>
globVars == <<pattern, subject, verdict>>
versionVars == <<left, right, order>>
dataVars ==
  <<part, riskVars, auditVars, reportVars, textVars, globVars, versionVars>>

-----------------------------------------------------------------------------
\* The parts that begin in more than one state do so if the behaviour is theirs.
DataInit ==
  /\ part \in {"risk", "audit", "report", "text", "glob", "version"}
  /\ IF part = "risk" THEN Init ELSE family = (CHOOSE f \in Families : TRUE) /\ Init
  /\ RS!Init
  /\ AT!Init
  /\ IF part = "text" THEN RT!Init ELSE found = << >> /\ instances = 0 /\ RT!Init
  /\ IF part = "glob" THEN GL!Init ELSE pattern = << >> /\ subject = << >> /\ GL!Init
  /\ IF part = "version" THEN VE!Init ELSE left = << >> /\ right = << >> /\ VE!Init

DataNext ==
  \/ /\ part = "risk" /\ Next
     /\ UNCHANGED <<part, auditVars, reportVars, textVars, globVars, versionVars>>
  \/ /\ part = "audit" /\ AT!Next
     /\ UNCHANGED <<part, riskVars, reportVars, textVars, globVars, versionVars>>
  \/ /\ part = "report" /\ RS!Next
     /\ UNCHANGED <<part, riskVars, auditVars, textVars, globVars, versionVars>>
  \/ /\ part = "text" /\ RT!Next
     /\ UNCHANGED <<part, riskVars, auditVars, reportVars, globVars, versionVars>>
  \/ /\ part = "glob" /\ GL!Next
     /\ UNCHANGED <<part, riskVars, auditVars, reportVars, textVars, versionVars>>
  \/ /\ part = "version" /\ VE!Next
     /\ UNCHANGED <<part, riskVars, auditVars, reportVars, textVars, globVars>>

DataSpec == DataInit /\ [][DataNext]_dataVars

-----------------------------------------------------------------------------
\* The type invariants of the three parts that have one.
PartsTypeOK == TypeOK /\ RS!TypeOK /\ AT!TypeOK

\* The store and the snapshot have no finding without its instance and no
\* instance without its host (ReportSnapshot).
StoreClosed == RS!StoreClosed

\* A report misses the finding of one instance, and of one for each crash (ReportSnapshot).
ReportMissesAtMostOne == RS!ReportMissesAtMostOne

\* A report or document that shows a container shows what it reaches (ReportSnapshot).
ReachIsShown == RS!ReachIsShown

\* A change that is in the store has its entry in the audit file (AuditTrail).
ChangeIsOnFile == AT!ChangeIsOnFile

\* Edges and credentials are shown to analysts and admins only (AuditTrail).
ReachabilityIsGated == AT!ReachabilityIsGated

\* Who reads the audit trail finds the entry of that very request (AuditTrail).
ReaderSeesItself == AT!ReaderSeesItself

\* A reader of the PDF who follows its references finds all lines (ReportText).
PdfIsWhole == RT!PdfIsWhole

\* Wrapping an explanation loses no word of it (ReportText).
ExplanationsAreWhole == RT!ExplanationsAreWhole

\* The pattern of a whitelist rule means what it says on characters, where "?"
\* stands for a character of one byte (Glob).
GlobAsMeant == GL!GlobAsMeant

\* The comparison of versions is an order (Versions).
VersionsAreOrdered == VE!VersionsAreOrdered
=============================================================================
