---------------------------- MODULE MCInstanceRisk ----------------------------
(***************************************************************************)
(* Values for the constants of InstanceRisk: what may be reported of an    *)
(* n8n found on the network and asked over its API, of a container, of a   *)
(* file, of a process and of a timer.  Versions are what the wire format   *)
(* can carry; for an n8n on the network no collector of the repository     *)
(* fills them in yet.                                                      *)
(***************************************************************************)
EXTENDS Naturals, TLC

\* As in InstanceRisk.
LOCAL NoVersion == << >>
LOCAL NoOwner   == ""

\* The fingerprint of an address: nothing of an n8n, two or three markers, an
\* old version or a fixed one.
Network(ip) ==
  {[type |-> "network.service", ip |-> ip, port |-> 5678, isN8N |-> m >= 2, markers |-> m,
    version |-> v] : m \in {1, 3}, v \in {NoVersion, <<1, 9>>, <<1, 30, 0>>}}

Node(name) ==
  [name |-> name, webhook |-> FALSE, credential |-> "", credentialName |-> "", host |-> ""]

Hook(name) == [Node(name) EXCEPT !.webhook = TRUE]

Uses(credential) ==
  [Node(credential) EXCEPT !.credential = credential, !.credentialName = "of the accountant"]

\* A workflow that gains and loses webhooks, one that calls a system whose name
\* fits two categories, and one with two credentials and a webhook.
Workflows ==
  {[w1 |-> {}], [w1 |-> {Hook("in"), Hook("form")}],
   [w2 |-> {[Node("put") EXCEPT !.host = "s3.mail.ru"]}],
   [w1 |-> {Uses("stripeApi"), Uses("onecApi"), Hook("in")}]}

API(ip) ==
  {[type |-> "n8n.api", ip |-> ip, port |-> 5678, version |-> NoVersion, workflows |-> w] :
     w \in Workflows}

\* A container publishes its port while it runs, and not while it is stopped:
\* an n8n, one that only looks like an n8n, and one of another automation.
Container(image, env, bindings) ==
  [type |-> "docker.container", id |-> "c1", image |-> image, port5678 |-> bindings # {},
   n8nEnv |-> env, links |-> 0, bindings |-> bindings, postgres |-> env, tag |-> <<1, 29, 4>>,
   secrets |-> {"STRIPE_KEY", "N8N_ENCRYPTION_KEY", "SESSION_KEY"}]

Docker(image, env) == {Container(image, env, b) : b \in {{}, {"loopback", "address"}}}

\* An .env file whose owner changes.
EnvFile ==
  {[type |-> "fs.artifact", file |-> "env_file", path |-> "/srv/.env", encryptionKey |-> TRUE,
    owner |-> o] : o \in {"root", "accountant"}}

\* The owner of a process that has just ended is not known.
Process ==
  {[type |-> "process", signature |-> "node", exe |-> "/usr/bin/node", user |-> u] :
     u \in {NoOwner, "root", "accountant"}}

Timer == {[type |-> "cron.entry", source |-> "systemd", command |-> "sync", user |-> "root"]}

MCFamilies ==
  {Network(ip) \cup API(ip) : ip \in {"loopback", "private", "public"}}
  \cup {Docker("n8n", FALSE), Docker("other", TRUE), Docker("automation", FALSE)}
  \cup {EnvFile, Process, Timer}

MCVulns == {[engine |-> "n8n", max |-> <<1, 30>>]}

MCKeywords ==
  [stripeApi |-> {"payments"}, onecApi |-> {"erp_1c"}, STRIPE_KEY |-> {"payments"},
   SESSION_KEY |-> {}]
  @@ ("s3.mail.ru" :> {"cloud", "messaging"})
  @@ ("postgres (n8n backend)" :> {"database"})
  @@ ("n8n credential store" :> {})
=============================================================================
