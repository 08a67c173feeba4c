---------------------------- MODULE MCBabelServer ----------------------------
(***************************************************************************)
(* Instances of BabelServer for TLC.                                       *)
(***************************************************************************)
EXTENDS BabelServerProperties, TLC

\* Client objects, and account names, can be exchanged for one another.
SlotsAndAccounts == Permutations(Slot) \cup Permutations(Account)

\* With failing saves an account can be logged in twice and findOnlineClient
\* chooses between the slots: these are then told apart.
AccountsOnly == Permutations(Account)

\* No action reads sent: two states that differ only in it have the same
\* future, and the properties about it are action properties, which TLC
\* evaluates on every step.
StateView == <<memory, disk>>
=============================================================================
