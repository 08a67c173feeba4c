----------------------------- MODULE MCBabelSystem -----------------------------
(***************************************************************************)
(* Instances of BabelSystem for TLC.                                       *)
(***************************************************************************)
EXTENDS BabelSystemProperties

CONSTANTS u1, u2, a1, a2

OneAccountEach == [p \in User |-> IF p = u1 THEN {a1} ELSE {a2}]
AnyAccount == [p \in User |-> Account]

\* No action reads sent.
SystemView == <<memory, disk, clientVars, history>>

\* Connections can be exchanged, and two users together with their accounts.
Exchanges == Permutations(Slot) \cup {(u1 :> u2) @@ (u2 :> u1) @@ (a1 :> a2) @@ (a2 :> a1)}
=============================================================================
