------------------------------ MODULE MCAgentHost ------------------------------
(***************************************************************************)
(* Values for the constants of AgentHost.                                  *)
(***************************************************************************)
EXTENDS AgentHost, TLC

\* An n8n whose links the agent may read, a worker that belongs to somebody
\* else, and a shell.
Mine(cmd) == [cmd |-> cmd, exe |-> cmd, cwd |-> "/srv", readable |-> TRUE]

MCPrograms ==
  [n8n |-> Mine("n8n"), shell |-> Mine("sh"),
   celery |-> [cmd |-> "celery worker", exe |-> "celery", cwd |-> "/", readable |-> FALSE]]

\* A compose file two roots lead to.
MCTree == [opt |-> {"compose", "env"}, extra |-> {"compose"}]

MCRoots == <<"opt", "extra">>

MCCrontabs == [root |-> {"node"}]

MCTargets == <<"localhost:5678">>

\* An n8n that misses a marker, and a proxy that redirects whatever it is asked for.
MCServices ==
  [n8n |-> ("/rest" :> 200 @@ "/api/v1/docs" :> 200 @@ "/healthz" :> 404
              @@ "/rest-settings" :> 200),
   proxy |-> ("/rest" :> 302 @@ "/api/v1/docs" :> 302 @@ "/healthz" :> 302
                @@ "/rest-settings" :> 302)]

ASSUME PageAssumption /\ ChangesAssumption /\ SearchAssumption /\ MarkerAssumption

\* One release with two binaries, and another one of the agent alone.
File(b, h) == [base |-> b, hash |-> h]

Releases ==
  {<<File("agent", "v1"), File("autogov", "v2")>>, <<File("agent", "v2")>>}

ASSUME RL!NamesAssumption /\ RL!ArgumentsAssumption /\ RL!BoundAssumption

\* Lines that are shorter and longer than the buffer, and files that are shorter
\* and longer than the limit, come from the numbers in the configuration.
ASSUME LS!SizeAssumption /\ LS!BoundAssumption
=============================================================================
