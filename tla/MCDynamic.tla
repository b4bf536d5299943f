----------------------------- MODULE MCDynamic -----------------------------
(* Page 0, whose leaf in sv39 is the pointer to the leaves in sv48, and    *)
(* the two that hspt_switch exchanges.                                     *)
EXTENDS DynamicTables

SomePages == {0, SWITCH1, SWITCH2}
SomeBases == {0}
=============================================================================
