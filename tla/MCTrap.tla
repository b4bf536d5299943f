------------------------------- MODULE MCTrap -------------------------------
(* Small instances of Trap for TLC.                                        *)
EXTENDS Trap

AllPriv == Priv
FourPriv == {HU, VS, HS, M}
MainPriv == {HU, HS, M}
\* reset_state's value, the faults delegated too, nothing delegated
Delegs == {{"ecu"}, {"ecu", "ill", "iaf"}, {}}
\* and -1
AllDelegs == Delegs \cup {{"ecu", "ecs", "ecm", "ill", "iaf"}}
=============================================================================
