---------------------------------- MODULE MCBus ----------------------------------
(***************************************************************************)
(* Values for the constants of Bus.                                        *)
(***************************************************************************)
EXTENDS Bus, MCControlPlane

\* The four modules of main, and one more that listens to findings and to the
\* decoys; and a list with a name that comes twice.
Observed == <<"observation.", "process">>
Touched  == <<"honeynode.", "access">>
Failed   == <<"workflow.", "error">>

Exactly(type)  == [pre |-> type, open |-> FALSE]
AnyAfter(type) == [pre |-> type, open |-> TRUE]

Module(name, patterns, by) == [name |-> name, patterns |-> patterns, by |-> by]

Five ==
  <<Module("m1-discovery", <<AnyAfter(<<"observation.">>)>>, "object"),
    Module("m2-honeynodes", <<Exactly(Touched)>>, "time"),
    Module("m3-selfhealing", <<Exactly(Failed)>>, "object"),
    Module("m4-autodoc", <<Exactly(<<"asset.instance.", "created">>)>>, "none"),
    Module("m5", <<AnyAfter(<<"finding.">>), AnyAfter(<<"honeynode.">>)>>, "object")>>

Twice ==
  <<Module("m1-discovery", <<AnyAfter(<<"observation.">>)>>, "object"),
    Module("m1-discovery", <<AnyAfter(<< >>)>>, "object")>>

MCMenus == {Five, Twice}

MCOutside == {Observed, Touched, Failed}

ASSUME PL!CapacityAssumption /\ PL!BoundAssumption /\ PL!MenusAssumption
=============================================================================
