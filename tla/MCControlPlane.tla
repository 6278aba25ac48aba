---------------------------- MODULE MCControlPlane ----------------------------
(***************************************************************************)
(* ControlPlane for TLC: one internal and one external IP address and one  *)
(* host name.                                                              *)
(***************************************************************************)
EXTENDS ControlPlane, TLC

MCFixed == [lan |-> "internal", wan |-> "external"]

Channel(k, d) == [kind |-> k, dest |-> d]

Config(onPrem, allow, channels) ==
  [onPrem |-> onPrem, allowExternal |-> allow, minSeverity |-> "medium", channels |-> channels]

\* The order of the channels in the file is not the order of the fan-out.
Mixed == <<Channel("smtp", "lan"), Channel("webhook", "name"), Channel("syslog", "lan")>>

\* On premises with a name, with an external address, with what is no URL;
\* on premises with permission; in the cloud.
MCConfigs ==
  {Config(TRUE, FALSE, Mixed),
   Config(TRUE, FALSE, <<Channel("webhook", "lan"), Channel("telegram", "wan")>>),
   Config(TRUE, FALSE, <<Channel("syslog", "lan"), Channel("webhook", "malformed")>>),
   Config(TRUE, TRUE, <<Channel("telegram", "wan"), Channel("webhook", "lan")>>),
   Config(FALSE, FALSE, <<Channel("telegram", "wan")>>)}

MailConfigs == {Config(TRUE, FALSE, <<Channel("smtp", "lan")>>)}
=============================================================================
