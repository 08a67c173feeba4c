---------------------------- MODULE SessionRegistry ----------------------------
(***************************************************************************)
(* What the login of the Babel server promises: every registered account   *)
(* has one lock; a client that logs in takes it, and a client holds at     *)
(* most one.  A client can also vanish without giving its lock back; the   *)
(* lock then stays taken until the server is started again.                *)
(***************************************************************************)
CONSTANTS Client, Account, Null

VARIABLES
    running,   \* is the server running?
    lock,      \* "unknown" (not registered), "free" or "taken"
    holder     \* the account each client is logged in as, or Null

TypeInv ==
    /\ running \in BOOLEAN
    /\ lock \in [Account -> {"unknown", "free", "taken"}]
    /\ holder \in [Client -> Account \cup {Null}]

Init ==
    /\ running = TRUE
    /\ lock = [a \in Account |-> "unknown"]
    /\ holder = [c \in Client |-> Null]

Register(a) ==
    /\ running
    /\ lock[a] = "unknown"
    /\ lock' = [lock EXCEPT ![a] = "free"]
    /\ UNCHANGED <<running, holder>>

Login(c, a) ==
    /\ running
    /\ holder[c] = Null
    /\ lock[a] = "free"
    /\ lock' = [lock EXCEPT ![a] = "taken"]
    /\ holder' = [holder EXCEPT ![c] = a]
    /\ UNCHANGED running

Logout(c) ==
    /\ running
    /\ holder[c] # Null
    /\ lock' = [lock EXCEPT ![holder[c]] = "free"]
    /\ holder' = [holder EXCEPT ![c] = Null]
    /\ UNCHANGED running

Vanish(c) ==
    /\ running
    /\ holder[c] # Null
    /\ holder' = [holder EXCEPT ![c] = Null]
    /\ UNCHANGED <<running, lock>>

Stop ==
    /\ running
    /\ running' = FALSE
    /\ lock' = [a \in Account |-> "unknown"]
    /\ holder' = [c \in Client |-> Null]

Start ==
    /\ ~running
    /\ running' = TRUE
    /\ lock' \in [Account -> {"unknown", "free"}]
    /\ UNCHANGED holder

Next ==
    \/ \E a \in Account : Register(a)
    \/ \E c \in Client, a \in Account : Login(c, a)
    \/ \E c \in Client : Logout(c) \/ Vanish(c)
    \/ Stop
    \/ Start

Spec == Init /\ [][Next]_<<running, lock, holder>>

\* No account has two holders, and what is held is taken.
Exclusive ==
    /\ \A c \in Client : holder[c] # Null => lock[holder[c]] = "taken"
    /\ \A c, d \in Client : (holder[c] # Null /\ holder[c] = holder[d]) => c = d
=============================================================================
