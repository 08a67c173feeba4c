------------------------------ MODULE BabelServer ------------------------------
(***************************************************************************)
(* The Babel server: connections, accounts and sessions, contact lists and *)
(* the signalling of calls.                                                *)
(*                                                                         *)
(* The server is one thread running a boost::asio event loop, so a handler *)
(* of BabelServer.cpp is one action here, with everything it calls.  What  *)
(* interleaves is the order of the requests of different clients, the      *)
(* arrival and loss of connections, and the stops and starts of the        *)
(* process.  What a request is refused for is a ladder of tests, kept in   *)
(* the order of the code in one ...Error operator per handler.             *)
(***************************************************************************)
EXTENDS ServerData

Init ==
    /\ up = TRUE
    /\ client = [s \in Slot |-> NoClient]
    /\ mAccounts = [a \in Account |-> Null]
    /\ file = [a \in Account |-> NoFile]
    /\ accountsFile = [a \in Account |-> Null]
    /\ unwritable = {}
    /\ sent = {}

\* Client::treatCommand runs a handler for a client that has shaken hands.
Serves(c) == up /\ client[c].alive /\ client[c].handshaked

\* A handler that only sends messages.
Send(messages) == sent' = messages /\ UNCHANGED <<memory, disk>>

\* A handler that changes client objects and user files.
Become(clients, files, messages) ==
    /\ client' = clients
    /\ file' = files
    /\ sent' = messages
    /\ UNCHANGED <<up, mAccounts, accountsFile, unwritable>>

\* The process is gone; accounts is what the accounts file then holds.
Die(files, accounts) ==
    /\ up' = FALSE
    /\ client' = [s \in Slot |-> NoClient]
    /\ mAccounts' = [a \in Account |-> Null]
    /\ file' = files
    /\ accountsFile' = accounts
    /\ sent' = {}
    /\ UNCHANGED unwritable

MayLeave(c) == LeaveDuringCall \/ client[c].comm = Null

-----------------------------------------------------------------------------
(* Connections *)

\* The acceptor has a connection for a new Client object, and then waits for
\* the next one.
Accepts(c) == up /\ ~client[c].alive

onNewConnection(c) ==
    /\ Accepts(c)
    /\ Become([client EXCEPT ![c] = NewClient], file, {})

\* The socket is closed: onSocketClosed deletes the Client, whose destructor
\* calls onCloseConnection.
onSocketClosed(c) ==
    LET closed == CloseConnection(c)
    IN  /\ up
        /\ client[c].alive
        /\ MayLeave(c)
        /\ Become([closed.clients EXCEPT ![c] = NoClient], closed.files, closed.sent)

\* A command before the handshake: the Client leaves mClients, but its socket
\* stays open and it goes on reading commands.
StrayCommand(c) ==
    LET closed == CloseConnection(c)
    IN  /\ StrayCommands
        /\ up
        /\ client[c].alive
        /\ ~client[c].handshaked
        /\ Become(closed.clients, closed.files, closed.sent)

\* Mutant of onHandshake: it is not answered.
onHandshakeUnanswered(c) ==
    /\ up
    /\ client[c].alive
    /\ Become([client EXCEPT ![c].handshaked = TRUE], file, {})

onHandshake(c) ==
    /\ up
    /\ client[c].alive
    /\ Become([client EXCEPT ![c].handshaked = TRUE], file, {Tell(c, "HANDSHAKE", Null)})

-----------------------------------------------------------------------------
(* Accounts and sessions *)

\* Mutants of RegError: the account may be in use; the save is not looked at.
RegErrorOfTakenName(c, a) ==
    IF client[c].isConnected THEN "ALREADY_CONNECTED"
    ELSE IF a \in unwritable THEN "CANNOT_SAVE_DATA"
    ELSE "OK"
RegErrorWithoutSave(c, a) ==
    IF client[c].isConnected THEN "ALREADY_CONNECTED"
    ELSE IF mAccounts[a] # Null THEN "REGISTER_ACC_ALREADY_USED"
    ELSE "OK"

RegError(c, a) ==
    IF client[c].isConnected THEN "ALREADY_CONNECTED"
    ELSE IF mAccounts[a] # Null THEN "REGISTER_ACC_ALREADY_USED"
    ELSE IF a \in unwritable THEN "CANNOT_SAVE_DATA"
    ELSE "OK"

\* The client object is overwritten before the file is saved, and stays so
\* when the save fails.
onReg(c, a, pseudo, password) ==
    LET code == RegError(c, a)
        fresh == [client[c] EXCEPT !.account = a, !.pseudo = pseudo,
                                   !.status = DISCONNECTED, !.statusCall = "NONE",
                                   !.contact = {}, !.isConnected = FALSE]
    IN  /\ Serves(c)
        /\ sent' = {Err(c, "REG", code)}
        /\ \/ /\ code \in {"OK", "CANNOT_SAVE_DATA"}
              /\ client' = [client EXCEPT ![c] = fresh]
              /\ file' = Store(file, fresh)
              /\ mAccounts' = IF code = "OK" THEN [mAccounts EXCEPT ![a] = password]
                                             ELSE mAccounts
              /\ UNCHANGED <<up, accountsFile, unwritable>>
           \/ /\ code \notin {"OK", "CANNOT_SAVE_DATA"}
              /\ UNCHANGED <<memory, disk>>

\* Mutant of LogError: the flag in the user file is not checked.
LogErrorWithoutFlag(c, a, password) ==
    IF client[c].isConnected THEN "ALREADY_CONNECTED"
    ELSE IF mAccounts[a] # password THEN "LOGIN_WRONG_PASSWORD"
    ELSE IF NoOfflineClient(file, a) THEN "UNKNOWN_ACCOUNT"
    ELSE IF a \in unwritable THEN "CANNOT_SAVE_DATA"
    ELSE "OK"

LogError(c, a, password) ==
    IF client[c].isConnected THEN "ALREADY_CONNECTED"
    ELSE IF mAccounts[a] # password THEN "LOGIN_WRONG_PASSWORD"
    ELSE IF NoOfflineClient(file, a) THEN "UNKNOWN_ACCOUNT"
    ELSE IF file[a].isConnected THEN "LOGIN_ON_ALREADY_LOGGED_ACCOUNT"
    ELSE IF a \in unwritable THEN "CANNOT_SAVE_DATA"
    ELSE "OK"

\* connect() comes before saveData(): a login answered CANNOT_SAVE_DATA has
\* logged the client in.
onLog(c, a, password) ==
    LET code == LogError(c, a, password)
        in == Connected(Loaded(client[c], a))
        clients == [client EXCEPT ![c] = in]
        files == Store(file, in)
    IN  /\ Serves(c)
        /\ \/ /\ code = "OK"
              /\ Become(clients, files,
                        {Err(c, "LOG", "OK")}
                          \cup ListReply(clients, files, c)
                          \cup notifyMyFriendsOfModificationAboutMe(clients, c))
           \/ /\ code = "CANNOT_SAVE_DATA"
              /\ Become(clients, files, {Err(c, "LOG", code)})
           \/ /\ code \notin {"OK", "CANNOT_SAVE_DATA"}
              /\ Send({Err(c, "LOG", code)})

\* Mutant of UpdateError: any status byte is taken.
UpdateErrorOfAnyStatus(c, a, status) ==
    IF ~client[c].isConnected THEN "YOU_ARE_NOT_LOGGED"
    ELSE IF client[c].account # a THEN "YOU_CANNOT_UPDATE_OTHER_ACCOUNT"
    ELSE IF mAccounts[a] = Null THEN "UNKNOWN_ACCOUNT"
    ELSE IF a \in unwritable THEN "CANNOT_SAVE_DATA"
    ELSE "OK"

UpdateError(c, a, status) ==
    IF ~client[c].isConnected THEN "YOU_ARE_NOT_LOGGED"
    ELSE IF client[c].account # a THEN "YOU_CANNOT_UPDATE_OTHER_ACCOUNT"
    ELSE IF mAccounts[a] = Null THEN "UNKNOWN_ACCOUNT"
    ELSE IF status \notin Status THEN "INVALID_STATUS_ID"
    ELSE IF a \in unwritable THEN "CANNOT_SAVE_DATA"
    ELSE "OK"

onUpdate(c, a, pseudo, password, status) ==
    LET code == UpdateError(c, a, status)
        clients == [client EXCEPT ![c].pseudo = pseudo, ![c].status = status]
        files == Store(file, clients[c])
    IN  /\ Serves(c)
        /\ \/ /\ code = "OK"
              /\ client' = clients
              /\ file' = files
              /\ mAccounts' = [mAccounts EXCEPT ![a] = password]
              /\ sent' = {Err(c, "UPDATE", "OK")}
                           \cup notifyMyFriendsOfModificationAboutMe(clients, c)
                           \cup ShowReply(clients, files, c, a)
              /\ UNCHANGED <<up, accountsFile, unwritable>>
           \/ /\ code = "CANNOT_SAVE_DATA"
              /\ Become(clients, file, {Err(c, "UPDATE", code)})
           \/ /\ code \notin {"OK", "CANNOT_SAVE_DATA"}
              /\ Send({Err(c, "UPDATE", code)})

\* The session ends but the connection, and the handshake, stay.  The call is
\* closed through the partner's address, whatever lives there now.  The answer
\* is OK whether or not the file can be saved.
onExit(c) ==
    LET partner == client[c].comm
        Leave(closed) ==
            LET left == [closed.clients EXCEPT ![c] = Disconnected(@)]
            IN  Become([left EXCEPT ![c] = ResetAttributes(@)],
                       Store(closed.files, left[c]),
                       {Err(c, "EXIT", "OK")} \cup closed.sent
                         \cup notifyMyFriendsOfModificationAboutMe(left, c))
    IN  /\ Serves(c)
        /\ MayLeave(c)
        /\ \/ /\ ~client[c].isConnected
              /\ Send({Err(c, "EXIT", "YOU_ARE_NOT_LOGGED")})
           \/ /\ client[c].isConnected
              /\ partner = Null
              /\ Leave([clients |-> client, files |-> file, sent |-> {}])
           \/ /\ client[c].isConnected
              /\ partner # Null
              /\ \E a \in AccountsReadAt(client, partner) :
                    Leave(CloseCall(client, file, c, a))
           \/ /\ client[c].isConnected
              /\ partner # Null
              /\ ~client[partner].alive
              /\ Die(file, accountsFile)

-----------------------------------------------------------------------------
(* Contacts and messages *)

onList(c) ==
    /\ Serves(c)
    /\ Send(IF client[c].isConnected THEN ListReply(client, file, c)
            ELSE {Err(c, "LIST", "YOU_ARE_NOT_LOGGED")})

onShow(c, a) ==
    /\ Serves(c)
    /\ Send(IF client[c].isConnected THEN ShowReply(client, file, c, a)
            ELSE {Err(c, "SHOW", "YOU_ARE_NOT_LOGGED")})

AddError(c, a) ==
    LET t == findOnlineClient(client, a)
    IN  IF ~client[c].isConnected THEN "YOU_ARE_NOT_LOGGED"
        ELSE IF a = client[c].account THEN "CANNOT_ADD_YOURSELF"
        ELSE IF NoOfflineClient(file, a) THEN "UNKNOWN_ACCOUNT"
        ELSE IF t = Null THEN "ACTIONS_TO_OFFLINE_ACCOUNT"
        ELSE IF isAlreadyFriends(client[t], client[c].account)
             THEN "ALREADY_IN_YOUR_CONTACT_LIST"
        ELSE "OK"

\* The invitation is passed on and not remembered.
onAdd(c, a) ==
    LET code == AddError(c, a)
    IN  /\ Serves(c)
        /\ Send({Err(c, "ADD", code)}
                  \cup {Tell(t, "ADD", client[c].account) :
                           t \in IF code = "OK" THEN {findOnlineClient(client, a)} ELSE {}})

AcceptAddError(c, a) ==
    LET t == findOnlineClient(client, a)
    IN  IF ~client[c].isConnected THEN "YOU_ARE_NOT_LOGGED"
        ELSE IF t = Null THEN "ACTIONS_TO_OFFLINE_ACCOUNT"
        ELSE IF isAlreadyFriends(client[t], client[c].account)
             THEN "ALREADY_IN_YOUR_CONTACT_LIST"
        ELSE "OK"

\* The process may be killed between the two saves.
onAcceptAdd(c, a, accept) ==
    LET me == client[c].account
        t == findOnlineClient(client, a)
        code == AcceptAddError(c, a)
        added == [client EXCEPT ![t].contact = @ \cup {me}]
        clients == [added EXCEPT ![c].contact = @ \cup {a}]
        files == StoreBoth(file, clients[c], clients[t])
    IN  /\ Serves(c)
        /\ \/ /\ code # "OK" \/ ~accept
              /\ Send({Err(c, "ACCEPT_ADD", code)})
           \/ /\ code = "OK" /\ accept
              /\ BothStored(clients[c], clients[t])
              /\ Become(clients, files,
                        {Err(c, "ACCEPT_ADD", "OK")}
                          \cup ShowReply(clients, files, t, me)
                          \cup ShowReply(clients, files, c, a))
           \/ /\ code = "OK" /\ accept
              /\ ~BothStored(clients[c], clients[t])
              /\ Become(clients, files, {Err(c, "ACCEPT_ADD", "CANNOT_SAVE_DATA")})
           \/ /\ code = "OK" /\ accept
              /\ ServerMayStop
              /\ Die(Store(file, clients[c]), accountsFile)

\* Friendship is judged from the target's list, in memory or in its file.
DelError(c, a) ==
    LET t == findOnlineClient(client, a)
    IN  IF ~client[c].isConnected THEN "YOU_ARE_NOT_LOGGED"
        ELSE IF t = Null /\ NoOfflineClient(file, a) THEN "UNKNOWN_ACCOUNT"
        ELSE IF /\ t # Null => ~isAlreadyFriends(client[t], client[c].account)
                /\ ~isAlreadyFriends(file[a], client[c].account)
             THEN "NOT_IN_YOUR_CONTACT_LIST"
        ELSE "OK"

\* Both sides are told only when the target is online; a call between the two
\* is then closed.  The process may be killed between the two saves.
onDel(c, a) ==
    LET me == client[c].account
        t == findOnlineClient(client, a)
        partner == client[c].comm
        code == DelError(c, a)
        mine == [client EXCEPT ![c].contact = @ \ {a}]
        both == [mine EXCEPT ![t].contact = @ \ {me}]
        theirs == [file[a] EXCEPT !.contact = @ \ {me}]
        fileMine == Store(file, mine[c])
        fileBoth == Store(fileMine, both[t])
        told == {Err(c, "DEL", "OK"), Tell(c, "DEL", a), Tell(t, "DEL", me)}
    IN  /\ Serves(c)
        /\ \/ /\ code # "OK"
              /\ Send({Err(c, "DEL", code)})
           \/ /\ code = "OK"
              /\ me \in unwritable
              /\ Become(mine, file, {Err(c, "DEL", "CANNOT_SAVE_DATA")})
           \/ /\ code = "OK"
              /\ ServerMayStop
              /\ Die(fileMine, accountsFile)
           \/ /\ code = "OK"
              /\ me \notin unwritable
              /\ t = Null
              /\ IF a \in unwritable
                 THEN Become(mine, fileMine, {Err(c, "DEL", "CANNOT_SAVE_DATA")})
                 ELSE Become(mine, [fileMine EXCEPT ![a] = theirs], {Err(c, "DEL", "OK")})
           \/ /\ code = "OK"
              /\ me \notin unwritable
              /\ t # Null
              /\ a \in unwritable
              /\ Become(both, fileBoth, {Err(c, "DEL", "CANNOT_SAVE_DATA")})
           \/ /\ code = "OK"
              /\ {me, a} \cap unwritable = {}
              /\ t # Null
              /\ \/ /\ partner = Null
                    /\ Become(both, fileBoth, told)
                 \/ /\ partner # Null
                    /\ \E read \in AccountsReadAt(client, partner) :
                          LET closed == CloseCall(both, fileBoth, c, a)
                          IN  IF read = a
                              THEN Become(closed.clients, closed.files, told \cup closed.sent)
                              ELSE Become(both, fileBoth, told)
                 \/ /\ partner # Null
                    /\ ~client[partner].alive
                    /\ Die(fileBoth, accountsFile)

SendError(c, a) ==
    LET t == findOnlineClient(client, a)
    IN  IF ~client[c].isConnected THEN "YOU_ARE_NOT_LOGGED"
        ELSE IF t = Null THEN "ACTIONS_TO_OFFLINE_ACCOUNT"
        ELSE IF ~isAlreadyFriends(client[t], client[c].account)
             THEN "NOT_IN_YOUR_CONTACT_LIST"
        ELSE "OK"

onSend(c, a) ==
    LET code == SendError(c, a)
    IN  /\ Serves(c)
        /\ Send({Err(c, "SEND", code)}
                  \cup {Tell(t, "SEND", client[c].account) :
                           t \in IF code = "OK" THEN {findOnlineClient(client, a)} ELSE {}})

-----------------------------------------------------------------------------
(* Calls *)

\* Mutant of CallError: the caller may be in a call.
CallErrorOfIdleTarget(c, a) ==
    LET t == findOnlineClient(client, a)
    IN  IF ~client[c].isConnected THEN "YOU_ARE_NOT_LOGGED"
        ELSE IF a = client[c].account THEN "CANNOT_CALL_YOURSELF"
        ELSE IF t = Null THEN "ACTIONS_TO_OFFLINE_ACCOUNT"
        ELSE IF ~isAlreadyFriends(client[t], client[c].account)
             THEN "NOT_IN_YOUR_CONTACT_LIST"
        ELSE IF client[t].statusCall # "NONE" THEN "BUSY_CONTACT_CANNOT_REPLY"
        ELSE "OK"

CallError(c, a) ==
    LET t == findOnlineClient(client, a)
    IN  IF ~client[c].isConnected THEN "YOU_ARE_NOT_LOGGED"
        ELSE IF client[c].statusCall # "NONE" THEN "CANNOT_DO_CALL_MULTIPLE"
        ELSE IF a = client[c].account THEN "CANNOT_CALL_YOURSELF"
        ELSE IF t = Null THEN "ACTIONS_TO_OFFLINE_ACCOUNT"
        ELSE IF ~isAlreadyFriends(client[t], client[c].account)
             THEN "NOT_IN_YOUR_CONTACT_LIST"
        ELSE IF client[t].statusCall # "NONE" THEN "BUSY_CONTACT_CANNOT_REPLY"
        ELSE "OK"

\* Both sides wait from here on; the server does not keep which of them called.
onCall(c, a) ==
    LET t == findOnlineClient(client, a)
        code == CallError(c, a)
        ringing == [client EXCEPT ![c].statusCall = "ISWAITING",
                                  ![t].statusCall = "ISWAITING"]
        files == StoreBoth(file, ringing[c], ringing[t])
    IN  /\ Serves(c)
        /\ \/ /\ code # "OK"
              /\ Send({Err(c, "CALL", code)})
           \/ /\ code = "OK"
              /\ BothStored(ringing[c], ringing[t])
              /\ Become([ringing EXCEPT ![c].comm = t, ![t].comm = c], files,
                        {Err(c, "CALL", "OK"), Tell(t, "CALL", client[c].account)})
           \/ /\ code = "OK"
              /\ ~BothStored(ringing[c], ringing[t])
              /\ Become(ringing, files, {Err(c, "CALL", "CANNOT_SAVE_DATA")})

\* Mutant of AcceptCallError: any online account can be answered.
AcceptCallErrorOfAnyone(c, a) ==
    LET t == findOnlineClient(client, a)
    IN  IF ~client[c].isConnected THEN "YOU_ARE_NOT_LOGGED"
        ELSE IF client[c].statusCall # "ISWAITING" THEN "CANNOT_ACCEPT_CALL_FROM_NOT_A_CALLER"
        ELSE IF t = Null THEN "ACTIONS_TO_OFFLINE_ACCOUNT"
        ELSE "OK"

AcceptCallError(c, a) ==
    LET t == findOnlineClient(client, a)
    IN  IF ~client[c].isConnected THEN "YOU_ARE_NOT_LOGGED"
        ELSE IF client[c].statusCall # "ISWAITING" THEN "CANNOT_ACCEPT_CALL_FROM_NOT_A_CALLER"
        ELSE IF t = Null THEN "ACTIONS_TO_OFFLINE_ACCOUNT"
        ELSE IF t # client[c].comm THEN "NOT_IN_COMMUNICATION_WITH_HIM"
        ELSE "OK"

\* A refusal puts only the refusing side back to NONE.
onAcceptCall(c, a, accept) ==
    LET t == findOnlineClient(client, a)
        code == AcceptCallError(c, a)
        talking == [client EXCEPT ![t].statusCall = "ISCALLING",
                                  ![c].statusCall = "ISCALLING"]
        refused == [client EXCEPT ![c].statusCall = "NONE"]
        answer == {Answered(t, client[c].account, accept)}
    IN  /\ Serves(c)
        /\ \/ /\ code # "OK"
              /\ Send({Err(c, "ACCEPT_CALL", code)})
           \/ /\ code = "OK" /\ accept
              /\ BothStored(talking[c], talking[t])
              /\ Become([talking EXCEPT ![c].comm = t, ![t].comm = c],
                        StoreBoth(file, talking[t], talking[c]),
                        answer \cup {Err(c, "ACCEPT_CALL", "OK"), Answered(c, a, accept)})
           \/ /\ code = "OK" /\ accept
              /\ ~BothStored(talking[c], talking[t])
              /\ Become(talking, StoreBoth(file, talking[t], talking[c]),
                        {Err(c, "ACCEPT_CALL", "CANNOT_SAVE_DATA")})
           \/ /\ code = "OK" /\ ~accept
              /\ client[c].account \notin unwritable
              /\ Become([refused EXCEPT ![c].comm = Null, ![t].comm = Null],
                        Store(file, refused[c]),
                        answer \cup {Err(c, "ACCEPT_CALL", "OK")})
           \/ /\ code = "OK" /\ ~accept
              /\ client[c].account \in unwritable
              /\ Become(refused, file, {Err(c, "ACCEPT_CALL", "CANNOT_SAVE_DATA")})

onCloseCall(c, a) ==
    LET closed == CloseCall(client, file, c, a)
    IN  /\ Serves(c)
        /\ Become(closed.clients, closed.files, closed.sent)

-----------------------------------------------------------------------------
(* The process and the disk *)

\* What the accounts' file holds once they are exported, and what is read of it.
exportedAccounts == mAccounts
importedAccounts == accountsFile

\* A signal stops the event loop, or an exception leaves it (getRemoteIp throws
\* when the peer has reset the connection): ~BabelServer exports the accounts,
\* and empties mClients before it deletes them, so no session is logged out on
\* disk.
Shutdown ==
    /\ ServerMayStop
    /\ up
    /\ Die(file, exportedAccounts)

\* The accounts whose file a handler of c may be saving: its own, in onDel the
\* file of an offline account that lists it, and in onReg and onLog a file that
\* is not in use.
SavedBy(c) ==
    {a \in Account \ unwritable :
        IF client[c].isConnected
        THEN a = client[c].account \/ client[c].account \in file[a].contact
        ELSE client[c].handshaked /\ ~file[a].isConnected}

\* The accounts whose file cleanWrongsUserFile may be saving.
SavedAtStart ==
    {a \in Account \ unwritable : accountsFile[a] # Null /\ file[a].state = "good"}

\* The process is killed between two handlers, or in saveData, after the file
\* was truncated and before it was written.
Crash ==
    /\ ServerMayStop
    /\ \/ up /\ Die(file, accountsFile)
       \/ \E a \in IF up THEN UNION {SavedBy(c) : c \in Slot} ELSE SavedAtStart :
             Die([file EXCEPT ![a] = TornFile], accountsFile)

\* Mutant of CleanedFile: the files of known accounts are left as they are.
CleanedFileKeepingFlag(a) ==
    IF accountsFile[a] = Null \/ NoOfflineClient(file, a) THEN NoFile ELSE file[a]

\* cleanWrongsUserFile: files of unregistered accounts are removed, the others
\* are marked logged out.
CleanedFile(a) ==
    IF accountsFile[a] = Null \/ NoOfflineClient(file, a) THEN NoFile
    ELSE IF a \in unwritable THEN file[a]
    ELSE [file[a] EXCEPT !.status = DISCONNECTED, !.isConnected = FALSE]

startServer == up' = TRUE

\* The constructor reads the accounts and every user file of theirs: a torn
\* one makes it throw, and the server does not start.
Start ==
    /\ ~up
    /\ \A a \in Account : accountsFile[a] # Null => file[a].state # "torn"
    /\ startServer
    /\ mAccounts' = importedAccounts
    /\ file' = [a \in Account |-> CleanedFile(a)]
    /\ sent' = {}
    /\ UNCHANGED <<client, accountsFile, unwritable>>

\* A user file becomes unwritable, or writable again.
DiskFault ==
    /\ SavesMayFail
    /\ \E a \in Account :
          unwritable' = IF a \in unwritable THEN unwritable \ {a} ELSE unwritable \cup {a}
    /\ sent' = {}
    /\ UNCHANGED <<memory, file, accountsFile>>

Request(c) ==
    \/ onHandshake(c)
    \/ onExit(c)
    \/ onList(c)
    \/ \E a \in Account :
          \/ \E pseudo \in Pseudo, password \in Password : onReg(c, a, pseudo, password)
          \/ \E password \in Password : onLog(c, a, password)
          \/ \E pseudo \in Pseudo, password \in Password, status \in StatusByte :
                onUpdate(c, a, pseudo, password, status)
          \/ onShow(c, a)
          \/ onAdd(c, a)
          \/ onDel(c, a)
          \/ onSend(c, a)
          \/ onCall(c, a)
          \/ onCloseCall(c, a)
          \/ \E accept \in BOOLEAN : onAcceptAdd(c, a, accept) \/ onAcceptCall(c, a, accept)

Connection(c) == onNewConnection(c) \/ onSocketClosed(c) \/ StrayCommand(c)

Environment == Shutdown \/ Crash \/ Start \/ DiskFault

Next == (\E c \in Slot : Connection(c) \/ Request(c)) \/ Environment

Spec == Init /\ [][Next]_vars
=============================================================================
