------------------------------- MODULE MCSound -------------------------------
(***************************************************************************)
(* Instances of SoundPath for TLC.                                         *)
(***************************************************************************)
EXTENDS SoundProperties

CONSTANTS h1, h2, h3

\* h1 hears two others, of whom h2 also talks to h3.
Callers == [h \in Host |-> IF h = h3 THEN {h1} ELSE Host \ {h}]
OneLoudspeaker == [h \in Host |-> IF h = h1 THEN {"both"} ELSE {"input"}]
OneListener == [h \in Host |-> IF h = h1 THEN 1 ELSE 0]
TwoTalkers == [h \in Host |-> IF h = h1 THEN 0 ELSE 1]
=============================================================================
