------------------------------- MODULE Channel -------------------------------
(***************************************************************************)
(* What a connection promises in one direction: what is taken out is what  *)
(* was put in, in order and once.  A broken channel keeps what it holds.   *)
(***************************************************************************)
EXTENDS Naturals, Sequences

CONSTANT Item

VARIABLES
    put,    \* the items put in so far
    got     \* the items taken out so far

Init == put = <<>> /\ got = <<>>

Put(m) == put' = Append(put, m) /\ UNCHANGED got

\* One or more items are taken out at once.
Get ==
    \E n \in (Len(got) + 1) .. Len(put) : got' = SubSeq(put, 1, n) /\ UNCHANGED put

Next == Get \/ \E m \in Item : Put(m)

Spec == Init /\ [][Next]_<<put, got>>
=============================================================================
