------------------------------ MODULE AuditTrail ------------------------------
(***************************************************************************)
(* The API of the control plane as its callers meet it: the role of a      *)
(* token, the role an endpoint asks for, the audit trail and what a        *)
(* handler gives or changes.  Requests are served side by side; the trail  *)
(* is a file of lines under a mutex, written with best effort, while the   *)
(* changes are in memory until the next snapshot.                          *)
(***************************************************************************)
EXTENDS Integers, Sequences, FiniteSets, Functions

CONSTANTS
  MaxRequests, \* bound: requests, numbered in the order they arrive
  Callers,
  Role,        \* Role[c]: the role of the token c sends, "" if it is unknown
  Asked,       \* the endpoints that are asked
  Window,      \* how many lines the audit endpoint shows (500)
  MaxFailures, \* bound: writes of the trail that fail
  MaxCrashes   \* bound: crashes of the control plane

\* LoadConfig accepts no other role.
Roles == {"viewer", "analyst", "admin"}

\* Assumed of the constants by the modules that give them values.
RoleAssumption == Role \in [Callers -> Roles \cup {""}]
WindowAssumption == Window \in Nat \ {0}
BoundAssumption == MaxRequests \in Nat /\ MaxFailures \in Nat /\ MaxCrashes \in Nat

Requests == 1 .. MaxRequests

VARIABLES
  req,      \* the requests: where each is, whose it is, what it got
  mem,      \* the requests whose change is in the store
  disk,     \* those whose change is in the snapshot
  trail,    \* the audit file: entries, pieces of entries and line ends
  lost,     \* history: the requests whose entry was not written in full
  crashes   \* how many crashes there have been

vars == <<req, mem, disk, trail, lost, crashes>>

-----------------------------------------------------------------------------
roleRank(r) == CASE r = "viewer" -> 1 [] r = "analyst" -> 2 [] r = "admin" -> 3 [] OTHER -> 0

\* registerAPI: the role each endpoint asks for.
MinRole ==
  [summary |-> "viewer", hosts |-> "viewer", instances |-> "viewer", instance |-> "viewer",
   findings |-> "viewer", modules |-> "viewer", finding |-> "analyst",
   reachability |-> "analyst", infra |-> "analyst", whitelist |-> "admin",
   export |-> "admin", audit |-> "admin"]

AskedAssumption == Asked \subseteq DOMAIN MinRole

\* The endpoints that change the store.
Changing == {"finding", "whitelist"}

Ranked(r, role) == roleRank(Role[req[r].who]) >= roleRank(role)

Fresh == [pc |-> "none", who |-> "", what |-> "", got |-> {}, tail |-> << >>]

Move(r, at) == req' = [req EXCEPT ![r].pc = at]

Arrive(r, c, e) ==
  /\ req[r].pc = "none"
  /\ \A q \in 1 .. r - 1 : req[q].pc # "none"
  /\ req' = [req EXCEPT ![r] = [Fresh EXCEPT !.pc = "check", !.who = c, !.what = e]]
  /\ UNCHANGED <<mem, disk, trail, lost, crashes>>

-----------------------------------------------------------------------------
(***************************************************************************)
(* requireRole.                                                            *)
(***************************************************************************)
\* An unknown token gets no further, and leaves no entry.
Unauthorized(r) ==
  /\ req[r].pc = "check"
  /\ Role[req[r].who] = ""
  /\ Move(r, "answered")
  /\ UNCHANGED <<mem, disk, trail, lost, crashes>>

Permit(r) ==
  /\ req[r].pc = "check"
  /\ Role[req[r].who] # ""
  /\ Move(r, IF Ranked(r, MinRole[req[r].what]) THEN "permitted" ELSE "denied")
  /\ UNCHANGED <<mem, disk, trail, lost, crashes>>

\* What the file holds besides entries, which are the numbers of requests.
LineEnd == 0
Piece   == -1

\* The entry has been written, or not: the denied is answered, the handler of
\* the permitted is called.
Audited(r) == Move(r, IF req[r].pc = "denied" THEN "answered" ELSE "handle")

\* Faulty variant: the file is written from its start.
RecordOver(r) ==
  /\ req[r].pc \in {"permitted", "denied"}
  /\ trail' = <<r, LineEnd>>
  /\ Audited(r)
  /\ UNCHANGED <<mem, disk, lost, crashes>>

\* appendJSONL adds a line.
Record(r) ==
  /\ req[r].pc \in {"permitted", "denied"}
  /\ trail' = trail \o <<r, LineEnd>>
  /\ Audited(r)
  /\ UNCHANGED <<mem, disk, lost, crashes>>

\* The file cannot be opened, or the disk is full and takes nothing, a piece,
\* or all but the line end: nobody is told.
RecordFails(r) ==
  /\ Cardinality(lost) < MaxFailures
  /\ req[r].pc \in {"permitted", "denied"}
  /\ \E part \in {<< >>, <<Piece>>, <<r>>} : trail' = trail \o part
  /\ lost' = lost \cup {r}
  /\ Audited(r)
  /\ UNCHANGED <<mem, disk, crashes>>

-----------------------------------------------------------------------------
(***************************************************************************)
(* The handlers.                                                           *)
(***************************************************************************)
\* Faulty variant: the detail of an instance is the same for everybody.
ContentsForAll(r) ==
  CASE req[r].what = "instance"  -> {"inventory", "edges"}
    [] req[r].what \in {"reachability", "infra", "export"} -> {"edges"}
    [] OTHER -> {"inventory"}

\* The records a handler shows: apiInstanceDetail keeps those of credentials
\* and edges to itself below analyst.  Workflows and the explanations of
\* findings, which name systems too, count as inventory.
Contents(r) ==
  CASE req[r].what = "instance"  ->
         {"inventory"} \cup (IF Ranked(r, "analyst") THEN {"edges"} ELSE {})
    [] req[r].what \in {"reachability", "infra", "export"} -> {"edges"}
    [] OTHER -> {"inventory"}

Show(r) ==
  /\ req[r].pc = "handle"
  /\ req[r].what \notin Changing \cup {"audit"}
  /\ req' = [req EXCEPT ![r].pc = "answered", ![r].got = Contents(r)]
  /\ UNCHANGED <<mem, disk, trail, lost, crashes>>

\* apiFindingAction and the whitelist handlers change the store, or refuse:
\* a wrong method, an unknown action or object.
Change(r) ==
  /\ req[r].pc = "handle"
  /\ req[r].what \in Changing
  /\ mem' \in {mem, mem \cup {r}}
  /\ Move(r, "answered")
  /\ UNCHANGED <<disk, trail, lost, crashes>>

\* The lines of the file; what follows the last line end is one, too.
Ends(s) == {n \in 1 .. Len(s) : s[n] = LineEnd}
LineOf(s, n) == Cardinality({m \in Ends(s) : m < n})

\* A line is an entry if there is one whole entry on it and nothing else.
IsEntry(s, n) ==
  /\ s[n] \notin {LineEnd, Piece}
  /\ \A m \in 1 .. Len(s) : LineOf(s, m) = LineOf(s, n) => m = n \/ s[m] = LineEnd

Lines(s) == Cardinality({LineOf(s, n) : n \in 1 .. Len(s)})

\* Faulty variant: the tail starts at the beginning.
HeadAudit(s) ==
  LET shown == {n \in 1 .. Len(s) : IsEntry(s, n) /\ LineOf(s, n) < Window}
  IN  [k \in 1 .. Cardinality(shown) |->
         s[CHOOSE n \in shown : Cardinality({m \in shown : m <= n}) = k]]

\* TailAudit: the entries among the last lines.
TailAudit(s) ==
  LET shown == {n \in 1 .. Len(s) : IsEntry(s, n) /\ LineOf(s, n) + Window >= Lines(s)}
  IN  [k \in 1 .. Cardinality(shown) |->
         s[CHOOSE n \in shown : Cardinality({m \in shown : m <= n}) = k]]

ShowAudit(r) ==
  /\ req[r].pc = "handle"
  /\ req[r].what = "audit"
  /\ req' = [req EXCEPT ![r].pc = "answered", ![r].tail = TailAudit(trail)]
  /\ UNCHANGED <<mem, disk, trail, lost, crashes>>

-----------------------------------------------------------------------------
Flush ==
  /\ disk' = mem
  /\ UNCHANGED <<req, mem, trail, lost, crashes>>

\* The requests that are being served end without an answer.
Crash ==
  /\ crashes < MaxCrashes
  /\ crashes' = crashes + 1
  /\ mem' = disk
  /\ req' = [r \in Requests |->
               IF req[r].pc \in {"none", "answered"} THEN req[r] ELSE [Fresh EXCEPT !.pc = "cut"]]
  /\ UNCHANGED <<disk, trail, lost>>

Init ==
  /\ req = [r \in Requests |-> Fresh]
  /\ mem = {}
  /\ disk = {}
  /\ trail = << >>
  /\ lost = {}
  /\ crashes = 0

Serve(r) ==
  \/ \E c \in Callers, e \in Asked : Arrive(r, c, e)
  \/ Unauthorized(r) \/ Permit(r) \/ Record(r) \/ RecordFails(r)
  \/ Show(r) \/ Change(r) \/ ShowAudit(r)

Next == (\E r \in Requests : Serve(r)) \/ Flush \/ Crash

Spec == Init /\ [][Next]_vars

-----------------------------------------------------------------------------
TypeOK ==
  /\ \A r \in Requests :
       /\ req[r].pc \in {"none", "check", "permitted", "denied", "handle", "answered", "cut"}
       /\ req[r].pc \notin {"none", "cut"} => req[r].who \in Callers /\ req[r].what \in Asked
       /\ req[r].got \subseteq {"inventory", "edges"}
       /\ \A n \in DOMAIN req[r].tail : req[r].tail[n] \in Requests
  /\ mem \subseteq Requests
  /\ disk \subseteq mem
  /\ \A n \in DOMAIN trail : trail[n] \in Requests \cup {LineEnd, Piece}
  /\ lost \subseteq Requests

\* A change that is in the store or in the snapshot, after whatever crashes,
\* has its entry in the file, unless the file could not be written
\* (requireRole writes the entry before it calls the handler).
ChangeIsOnFile == \A r \in mem \cup disk : r \in Range(trail) \cup lost

\* The records of edges and credentials go to analysts and admins only, by
\* whichever endpoint: "the reachability map is gated at analyst+" (requireRole,
\* apiInstanceDetail).
ReachabilityIsGated ==
  \A r \in Requests :
    "edges" \in req[r].got => Role[req[r].who] \in {"analyst", "admin"}

\* As long as the file can be written, who reads the trail finds the entry of
\* that very request, unless a window of later ones has pushed it out.
ReaderSeesItself ==
  lost = {} => \A r \in Requests :
    req[r].pc = "answered" /\ req[r].what = "audit" /\ Role[req[r].who] = "admin" =>
      \/ r \in Range(req[r].tail)
      \/ \E n \in DOMAIN trail :
           trail[n] = r /\ Cardinality({m \in DOMAIN trail : m > n /\ trail[m] # LineEnd}) >= Window
=============================================================================
