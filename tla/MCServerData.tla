------------------------------ MODULE MCServerData ------------------------------
(***************************************************************************)
(* Values for the constants of ServerData.                                 *)
(***************************************************************************)
EXTENDS ServerData, MCInstanceRisk

ASSUME ObservedAssumption /\ FamilyAssumption /\ PayloadAssumption /\ KeywordsAssumption

\* A container, an n8n asked over its API, and a process, on one host.
MCHostOf == [container |-> "h1", api |-> "h1", process |-> "h1"]

ASSUME RS!HostAssumption /\ RS!FiniteAssumption /\ RS!EdgesAssumption /\ RS!CrashAssumption
ASSUME RS!ReachingAssumption

\* A caller of each role and one without, at every endpoint.
MCRole == [anon |-> "", vera |-> "viewer", anna |-> "analyst", adam |-> "admin"]

ASSUME AT!RoleAssumption /\ AT!WindowAssumption /\ AT!BoundAssumption /\ AT!AskedAssumption

\* Words that fit a line, that fill it and that are longer than it.
MCExplanations ==
  {<< >>, <<1, 2>>, <<1, 3>>, <<3, 1, 1>>, <<6, 1>>, <<1, 6, 1>>, <<2, 2, 2>>}

ASSUME RT!SizeAssumption /\ RT!BoundAssumption /\ RT!WordsAssumption

\* A letter of one byte, and two of two bytes that have the first in common.
MCEncoding == [a |-> <<"61">>, be |-> <<"d0", "b1">>, zhe |-> <<"d0", "b6">>]

ASSUME GL!BoundAssumption /\ GL!EncodingAssumption

\* Tags of different lengths, with a "v", with a release candidate, with
\* numbers of two digits, and with no number at all.
MCTags ==
  {<< >>, <<"v">>, <<"rc">>, <<"d0">>, <<"d1">>, <<"d2">>, <<"d9">>, <<"v", "d1">>,
   <<"d1", "d0">>, <<"d0", "d9">>, <<".", "d1">>, <<"rc", "d2">>,
   <<"d1", ".", "d0">>, <<"d1", ".", "d9">>, <<"d1", ".", "d1", "d0">>,
   <<"d0", ".", "d0", ".", "d1">>, <<"d1", ".", "d0", ".", "d2">>,
   <<"v", "d1", ".", "d0", ".", "d2">>, <<"d1", ".", "d0", "-", "rc">>,
   <<"d1", "-", "rc">>, <<"d1", "rc", "d2">>, <<"d1", ".", ".", "d2">>, <<"d1", "+", "d2">>}

ASSUME VE!TagAssumption
=============================================================================
