------------------------ MODULE BabelServerProperties ------------------------
(***************************************************************************)
(* What makes the Babel server correct: invariants, properties of steps,   *)
(* and the abstract registry of sessions it implements.                    *)
(***************************************************************************)
EXTENDS BabelServer

\* A session is a Client object that is logged in.
Session == {s \in Slot : client[s].isConnected}

\* An account is never logged in twice, whatever clients do, also when a client
\* has dropped out of mClients, and across stops of the server.  onLog reads
\* this from the user file (isConnected, line 378) and not from the sessions.
NoDoubleLogin ==
    \A s, t \in Session : client[s].account = client[t].account => s = t

\* What makes the flag in the user file a lock: a logged in Client belongs to
\* a registered account whose file says so.  onReg must not overwrite such a
\* file, nor onDel, onUpdate or another session's save clear the flag.
SessionHoldsFile ==
    \A s \in Session :
        /\ client[s].account \in Account
        /\ mAccounts[client[s].account] # Null
        /\ file[client[s].account].state = "good"
        /\ file[client[s].account].isConnected

\* A registered account, in memory or in the exported accounts, has a user
\* file, through failed saves, stops and clean-ups: without one its owner is
\* answered UNKNOWN_ACCOUNT for good, and cannot register again either.
RegisteredHasFile ==
    \A a \in Account :
        (mAccounts[a] # Null \/ accountsFile[a] # Null) => file[a].state # "absent"

\* Only a logged in Client takes part in a call, and a partner is only kept
\* with a call state: what onCall, onAcceptCall, onCloseCall, connect() and
\* disconnect() leave in the two fields never gets out of step.
CallStateFits ==
    \A s \in Slot :
        /\ client[s].statusCall # "NONE" => s \in Session
        /\ client[s].comm # Null => client[s].statusCall # "NONE"

\* The object of a session found by findOnlineClient and its user file agree:
\* onShow and onDel read the file where notifications read the object.
FileMirrorsSession ==
    \A s \in Session :
        client[s].listed => file[client[s].account] = Image(client[s])

\* An account marked logged in on disk is logged in: no one is shut out with
\* LOGIN_ON_ALREADY_LOGGED_ACCOUNT by a session that is gone.
NoStrandedLogin ==
    up => \A a \in Account :
              file[a].isConnected => \E s \in Session : client[s].account = a

\* Two accounts are in each other's contact lists on disk or in neither.
\* Handlers judge friendship from one of the two lists only (onAdd, onDel,
\* onCall and onSend from the target's).
ContactsSymmetric ==
    up => \A a, b \in Account :
              b \in file[a].contact => a \in file[b].contact

\* Who talks has a partner, and partners point to each other and are in the
\* same state of the call.
CallsPaired ==
    \A s \in Slot :
        /\ client[s].statusCall = "ISCALLING" => client[s].comm # Null
        /\ client[s].comm # Null =>
              /\ client[client[s].comm].comm = s
              /\ client[client[s].comm].statusCall = client[s].statusCall

\* What a contact is entitled to know of account a.
Presence(clients, a) ==
    LET s == findOnlineClient(clients, a)
    IN  IF s = Null THEN <<>> ELSE <<clients[s].pseudo, clients[s].status>>

Listening(s) ==
    client[s].listed /\ client[s].isConnected /\ client'[s].listed /\ client'[s].isConnected

\* When an account comes online, leaves or changes its pseudo or status, every
\* contact that is logged in before and after is sent the new values in that
\* step, by whichever handler: login, update, exit or a lost connection.
ContactsLearnOfChanges ==
    [][(up /\ up') => \A a \in Account :
          Presence(client, a) # Presence(client', a) =>
              \A s \in Slot :
                  (Listening(s) /\ client[s].account # a /\ client[s].account \in file'[a].contact) =>
                      \E m \in sent' :
                          /\ m.to = s /\ m.cmd = "SHOW" /\ m.who = a
                          /\ m.isConnected = (Presence(client', a) # <<>>)
                          /\ m.isConnected => <<m.pseudo, m.status>> = Presence(client', a)]_vars

\* Audio is started and stopped at both ends by the same step: whoever is told
\* that a call is accepted, or closed, with some account, the session of that
\* account is told the same about it, and both are talking, or both idle.
CallSignalledToBothEnds ==
    [][\A m \in sent' :
          (m.cmd = "CLOSE_CALL" \/ (m.cmd = "ACCEPT_CALL" /\ m.accept)) =>
              \E n \in sent' :
                  /\ n.to # m.to /\ n.cmd = m.cmd
                  /\ n.cmd = "ACCEPT_CALL" => n.accept
                  /\ client[n.to].account = m.who /\ client[m.to].account = n.who
                  /\ {client'[m.to].statusCall, client'[n.to].statusCall} =
                        IF m.cmd = "CLOSE_CALL" THEN {"NONE"} ELSE {"ISCALLING"}]_vars

\* A session stops talking only with a CLOSE_CALL, unless it leaves itself.
HangUpIsSignalled ==
    [][\A s \in Slot :
          (/\ client[s].statusCall = "ISCALLING" /\ client'[s].statusCall # "ISCALLING"
           /\ client'[s].isConnected) =>
              \E m \in sent' : m.to = s /\ m.cmd = "CLOSE_CALL"]_vars

\* What these five commands are answered OK for is in the user files, whichever
\* saves failed: after reg, log or update the requester's file says so, and
\* contacts made or dropped by accept_add or del are so in both users' files.
\* Nothing is asked of exit, whose OK precedes a save nobody looks at (line 679),
\* nor of the accounts file, which holds a registration only after the end.
AcknowledgedIsSaved ==
    [][\A m \in sent' :
          (m.cmd = "ERR" /\ m.code = "OK") =>
              LET before == client[m.to]
                  after == client'[m.to]
                  saved == file'[after.account]
              IN  /\ m.instruction = "REG" => saved.state = "good"
                  /\ m.instruction = "LOG" => saved.isConnected
                  /\ m.instruction = "UPDATE" =>
                        <<saved.pseudo, saved.status>> = <<after.pseudo, after.status>>
                  /\ m.instruction = "ACCEPT_ADD" =>
                        \A b \in after.contact \ before.contact :
                            b \in saved.contact /\ after.account \in file'[b].contact
                  /\ m.instruction = "DEL" =>
                        \A b \in before.contact \ after.contact :
                            b \notin saved.contact /\ after.account \notin file'[b].contact]_vars

\* The protocol's close_call: it notifies a client that the call it is in is over.
\* Whoever is still logged in is sent it when the other end of its established
\* call stops talking, for whatever reason, a lost connection included.
EndOfCallIsNotified ==
    [][\A s, t \in Slot :
          (/\ client[s].statusCall = "ISCALLING" /\ client[s].comm = t
           /\ client[t].statusCall = "ISCALLING" /\ client[t].comm = s
           /\ client'[t].statusCall # "ISCALLING" /\ client'[s].isConnected) =>
              \E m \in sent' : m.to = s /\ m.cmd = "CLOSE_CALL"]_vars

-----------------------------------------------------------------------------
(* The login of this server implements SessionRegistry *)

Registry == INSTANCE SessionRegistry WITH
    Client <- Slot,
    running <- up,
    lock <- [a \in Account |-> IF mAccounts[a] = Null THEN "unknown"
                               ELSE IF file[a].isConnected THEN "taken" ELSE "free"],
    holder <- [s \in Slot |-> IF client[s].isConnected THEN client[s].account ELSE Null]

\* Every step of the server is a step of the registry of sessions, or none of
\* its business: a login takes a free lock, a logout gives back the lock of its
\* own account, nothing else changes a lock, and a start finds none taken.
ImplementsRegistry == Registry!Spec
=============================================================================
