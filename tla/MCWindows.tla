------------------------------- MODULE MCWindows -------------------------------
(***************************************************************************)
(* Instances of ClientWindows for TLC.                                     *)
(***************************************************************************)
EXTENDS WindowsProperties, TLC

Accounts == Permutations(Account)
=============================================================================
