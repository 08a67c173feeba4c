----------------------------- MODULE MCConnection -----------------------------
(***************************************************************************)
(* Instances of Connection for TLC.  Sizes are scaled down: a header of two *)
(* units, bodies of none or two, and receives of up to three, so that a    *)
(* receive can end inside a header or a body and can hold parts of two     *)
(* commands.                                                               *)
(***************************************************************************)
EXTENDS ConnectionProperties

Sizes == [i \in Sent \cup Known |-> IF i = "LIST" THEN 0 ELSE 2]
=============================================================================
