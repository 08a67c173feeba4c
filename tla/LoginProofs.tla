------------------------------ MODULE LoginProofs ------------------------------
(***************************************************************************)
(* Type correctness of BabelServer, and that no account is logged in       *)
(* twice, for every number of clients, accounts, pseudos, passwords and    *)
(* status bytes, the latter as long as user files can be saved.            *)
(*                                                                         *)
(* Types come first: what the helpers return, then one lemma per handler.  *)
(*                                                                         *)
(* onLog does not look at the sessions: it trusts the flag in the user     *)
(* file.  The inductive invariant therefore says that every session holds  *)
(* its file, so that a login finds the flag set; a step keeps it when the  *)
(* files it saves are those of its own session, or of another one that     *)
(* stays logged in.  That makes the server an implementation of            *)
(* SessionRegistry.  The second invariant is about the Client objects:     *)
(* which are in mClients, and that nobody is left logged in on a closed    *)
(* connection.                                                             *)
(***************************************************************************)
EXTENDS BabelServerProperties, TLAPS

Clients == [Slot -> ClientRec]
Files == [Account -> FileRec]

\* Every logged in client has an account name.  Without it TypeOK is not
\* inductive, as onAcceptAdd puts that name in a contact list.
SessionsAreNamed ==
    \A s \in Session : client[s].account \in Account

-----------------------------------------------------------------------------
(* What the helpers return *)

\* findOnlineClient finds nobody, or a logged in member of mClients.
LEMMA FindOnline ==
    ASSUME NEW clients, NEW a, findOnlineClient(clients, a) # Null
    PROVE  /\ findOnlineClient(clients, a) \in Slot
           /\ clients[findOnlineClient(clients, a)].listed
           /\ clients[findOnlineClient(clients, a)].isConnected
           /\ clients[findOnlineClient(clients, a)].account = a
<1>1. OnlineAs(clients, a) # {}
  BY DEF findOnlineClient
<1>2. findOnlineClient(clients, a) \in OnlineAs(clients, a)
  BY <1>1 DEF findOnlineClient
<1>3. QED
  BY <1>2 DEF OnlineAs

\* The transitions of one Client object give a Client object.
LEMMA StatusTypes == CONNECTED \in Status /\ DISCONNECTED \in Status
BY DEF CONNECTED, DISCONNECTED, Status

LEMMA RecordTypes ==
    ASSUME NEW r \in ClientRec
    PROVE  /\ Disconnected(r) \in ClientRec
           /\ Connected(r) \in ClientRec
           /\ ResetAttributes(r) \in ClientRec
           /\ Image(r) \in FileRec
<1>1. Disconnected(r) \in ClientRec
  BY StatusTypes DEF ClientRec, Disconnected, StatusCall
<1>2. Connected(r) \in ClientRec
  BY StatusTypes DEF ClientRec, Connected, StatusCall
<1>3. ResetAttributes(r) \in ClientRec
  BY DEF ClientRec, ResetAttributes
<1>4. Image(r) \in FileRec
  BY DEF ClientRec, FileRec, Image
<1>5. QED
  BY <1>1, <1>2, <1>3, <1>4

LEMMA ConstantTypes ==
    /\ NoClient \in ClientRec
    /\ NewClient \in ClientRec
    /\ NoFile \in FileRec
    /\ TornFile \in FileRec
<1>1. NoClient \in ClientRec
  BY StatusTypes DEF ClientRec, NoClient, StatusCall
<1>2. NewClient \in ClientRec
  BY <1>1 DEF ClientRec, NewClient
<1>3. NoFile \in FileRec
  BY StatusTypes DEF FileRec, NoFile
<1>4. TornFile \in FileRec
  BY <1>3 DEF FileRec, TornFile
<1>5. QED
  BY <1>1, <1>2, <1>3, <1>4

\* Saving Client objects gives user files.
LEMMA StoreTypes ==
    ASSUME NEW files \in Files, NEW r \in ClientRec, NEW q \in ClientRec
    PROVE  /\ Store(files, r) \in Files
           /\ StoreBoth(files, r, q) \in Files
<1>1. \A f \in Files, s \in ClientRec : Store(f, s) \in Files
  BY RecordTypes DEF Store, Files
<1>2. QED
  BY <1>1 DEF StoreBoth

\* Setting the call state, or the partner, of two clients.
LEMMA CallFieldTypes ==
    ASSUME NEW clients \in Clients, NEW c \in Slot, NEW t \in Slot,
           NEW k \in StatusCall, NEW x \in Slot \cup {Null}, NEW y \in Slot \cup {Null}
    PROVE  /\ [clients EXCEPT ![c].statusCall = k, ![t].statusCall = k] \in Clients
           /\ [clients EXCEPT ![c].comm = x, ![t].comm = y] \in Clients
<1>1. [clients EXCEPT ![c].statusCall = k, ![t].statusCall = k] \in Clients
  BY DEF Clients, ClientRec
<1>2. [clients EXCEPT ![c].comm = x, ![t].comm = y] \in Clients
  BY DEF Clients, ClientRec
<1>3. QED
  BY <1>1, <1>2

LEMMA ProfileTypes ==
    ASSUME NEW clients \in Clients, NEW c \in Slot, NEW p \in Pseudo, NEW s \in Status
    PROVE  [clients EXCEPT ![c].pseudo = p, ![c].status = s] \in Clients
BY DEF Clients, ClientRec

\* What is sent to a client is a message.
LEMMA MessageTypes ==
    ASSUME NEW c \in Slot
    PROVE  /\ \A i \in Instruction, code \in ErrorCode : Err(c, i, code) \in Message
           /\ \A a \in Account \cup {Null}, p \in Pseudo \cup {Null}, s \in Status,
                b \in BOOLEAN : Show(c, a, p, s, b) \in Message
           /\ \A a \in Account \cup {Null}, b \in BOOLEAN : Answered(c, a, b) \in Message
           /\ \A a \in Account \cup {Null},
                k \in {"HANDSHAKE", "ADD", "CALL", "CLOSE_CALL", "DEL", "SEND"} :
                Tell(c, k, a) \in Message
<1>1. \A i \in Instruction, code \in ErrorCode : Err(c, i, code) \in Message
  BY DEF Message, Err
<1>2. \A a \in Account \cup {Null}, p \in Pseudo \cup {Null}, s \in Status,
                b \in BOOLEAN : Show(c, a, p, s, b) \in Message
  BY DEF Message, Show
<1>3. \A a \in Account \cup {Null}, b \in BOOLEAN : Answered(c, a, b) \in Message
  BY DEF Message, Answered
<1>4. \A a \in Account \cup {Null},
        k \in {"HANDSHAKE", "ADD", "CALL", "CLOSE_CALL", "DEL", "SEND"} :
        Tell(c, k, a) \in Message
  BY DEF Message, Tell
<1>5. QED
  BY <1>1, <1>2, <1>3, <1>4

LEMMA ReplyTypes ==
    ASSUME NEW clients \in Clients, NEW files \in Files, NEW c \in Slot
    PROVE  /\ notifyMyFriendsOfModificationAboutMe(clients, c) \subseteq Message
           /\ \A a \in Account : ShowReply(clients, files, c, a) \subseteq Message
           /\ ListReply(clients, files, c) \subseteq Message
<1>0. /\ clients[c] \in ClientRec
      /\ \A a \in Account : files[a] \in FileRec
  BY DEF Clients, Files
<1>1. notifyMyFriendsOfModificationAboutMe(clients, c) \subseteq Message
  <2>1. SUFFICES ASSUME NEW a, OnlineAs(clients, a) # {}
                 PROVE  Show(findOnlineClient(clients, a), clients[c].account,
                             clients[c].pseudo, clients[c].status,
                             clients[c].isConnected) \in Message
    BY DEF notifyMyFriendsOfModificationAboutMe
  <2>2. findOnlineClient(clients, a) \in Slot
    BY <2>1 DEF findOnlineClient, OnlineAs
  <2>3. QED
    BY <1>0, <2>2, MessageTypes DEF ClientRec
<1>2. \A a \in Account : ShowReply(clients, files, c, a) \subseteq Message
  <2>1. Err(c, "SHOW", "OK") \in Message /\ Err(c, "SHOW", "UNKNOWN_ACCOUNT") \in Message
    BY MessageTypes DEF Instruction, ErrorCode
  <2>2. ASSUME NEW a \in Account
        PROVE  Show(c, a, files[a].pseudo, clients[c].status, clients[c].isConnected)
                 \in Message
    BY <1>0, MessageTypes DEF ClientRec, FileRec
  <2>3. QED
    BY <2>1, <2>2 DEF ShowReply, NoOfflineClient
<1>3. ListReply(clients, files, c) \subseteq Message
  BY <1>0, <1>2 DEF ListReply, ClientRec
<1>4. QED
  BY <1>1, <1>2, <1>3

\* Closing a call changes Client objects and files into such, and answers.
LEMMA CloseCallTypes ==
    ASSUME NEW clients \in Clients, NEW files \in Files, NEW c \in Slot, NEW a
    PROVE  /\ CloseCall(clients, files, c, a).clients \in Clients
           /\ CloseCall(clients, files, c, a).files \in Files
           /\ CloseCall(clients, files, c, a).sent \subseteq Message
<1> DEFINE t == findOnlineClient(clients, a)
           code == CloseCallError(clients, c, a)
           idle == [clients EXCEPT ![c].statusCall = "NONE", ![t].statusCall = "NONE"]
           freed == [idle EXCEPT ![c].comm = Null, ![t].comm = Null]
           result == CloseCall(clients, files, c, a)
<1>1. code \in ErrorCode
  BY DEF CloseCallError, ErrorCode
<1>2. \A k \in ErrorCode : Err(c, "CLOSE_CALL", k) \in Message
  BY MessageTypes DEF Instruction
<1>3. CASE code \notin {"OK", "CANNOT_SAVE_DATA"}
  <2>1. result = [clients |-> clients, files |-> files,
                  sent |-> {Err(c, "CLOSE_CALL", code)}]
    BY <1>3 DEF CloseCall
  <2>2. QED
    BY <1>1, <1>2, <2>1
<1>4. ASSUME code \in {"OK", "CANNOT_SAVE_DATA"}
      PROVE  /\ t \in Slot
             /\ idle \in Clients /\ freed \in Clients
             /\ StoreBoth(files, idle[c], idle[t]) \in Files
  <2>1. t # Null
    BY <1>4 DEF CloseCallError
  <2>2. t \in Slot
    BY <2>1, FindOnline
  <2>3. idle \in Clients
    BY <2>2, CallFieldTypes DEF StatusCall
  <2>4. freed \in Clients
    <3> HIDE DEF idle
    <3> QED
      BY <2>2, <2>3, CallFieldTypes DEF StatusCall
  <2>5. idle[c] \in ClientRec /\ idle[t] \in ClientRec
    BY <2>2, <2>3 DEF Clients
  <2>6. QED
    BY <2>2, <2>3, <2>4, <2>5, StoreTypes
<1>5. CASE code = "CANNOT_SAVE_DATA"
  <2>1. result = [clients |-> idle, files |-> StoreBoth(files, idle[c], idle[t]),
                  sent |-> {Err(c, "CLOSE_CALL", code)}]
    BY <1>5 DEF CloseCall
  <2>2. Err(c, "CLOSE_CALL", code) \in Message
    BY <1>1, <1>2
  <2>3. QED
    BY <1>4, <1>5, <2>1, <2>2
<1>6. CASE code = "OK"
  <2>1. result = [clients |-> freed, files |-> StoreBoth(files, idle[c], idle[t]),
                  sent |-> {Err(c, "CLOSE_CALL", "OK"),
                            Tell(t, "CLOSE_CALL", clients[c].account),
                            Tell(c, "CLOSE_CALL", clients[t].account)}]
    BY <1>6 DEF CloseCall
  <2>2. t \in Slot
    BY <1>4, <1>6
  <2>3. clients[c].account \in Account \cup {Null} /\ clients[t].account \in Account \cup {Null}
    BY <2>2 DEF Clients, ClientRec
  <2>4. /\ Err(c, "CLOSE_CALL", "OK") \in Message
        /\ Tell(t, "CLOSE_CALL", clients[c].account) \in Message
        /\ Tell(c, "CLOSE_CALL", clients[t].account) \in Message
    BY <1>1, <1>2, <1>6, <2>2, <2>3, MessageTypes
  <2>5. QED
    BY <1>4, <1>6, <2>1, <2>4
<1>7. QED
  BY <1>3, <1>5, <1>6

LEMMA CloseConnectionTypes ==
    ASSUME TypeOK, NEW c \in Slot
    PROVE  /\ CloseConnection(c).clients \in Clients
           /\ CloseConnection(c).files \in Files
           /\ CloseConnection(c).sent \subseteq Message
<1> DEFINE left == [client EXCEPT ![c] = Disconnected(@)]
           Off(clients) == [clients EXCEPT ![c].handshaked = FALSE, ![c].listed = FALSE]
<1>1. client \in Clients /\ file \in Files
  BY DEF TypeOK, Clients, Files
<1>2. \A clients \in Clients : Off(clients) \in Clients
  BY DEF Clients, ClientRec
<1>3. left \in Clients /\ left[c] \in ClientRec
  BY <1>1, RecordTypes DEF Clients
<1>4. /\ Store(file, left[c]) \in Files
      /\ notifyMyFriendsOfModificationAboutMe(left, c) \subseteq Message
  BY <1>1, <1>3, StoreTypes, ReplyTypes
<1>5. CASE ~client[c].listed
  BY <1>1, <1>5 DEF CloseConnection
<1>6. CASE client[c].listed /\ ~client[c].isConnected
  BY <1>1, <1>2, <1>6 DEF CloseConnection
<1>7. CASE client[c].listed /\ client[c].isConnected
  BY <1>2, <1>3, <1>4, <1>7 DEF CloseConnection
<1>8. QED
  BY <1>5, <1>6, <1>7

\* Every answer is one of the error codes.
LEMMA ErrorTypes ==
    ASSUME NEW c, NEW a
    PROVE  /\ RegError(c, a) \in ErrorCode
           /\ \A password : LogError(c, a, password) \in ErrorCode
           /\ \A status : UpdateError(c, a, status) \in ErrorCode
           /\ AddError(c, a) \in ErrorCode
           /\ AcceptAddError(c, a) \in ErrorCode
           /\ DelError(c, a) \in ErrorCode
           /\ SendError(c, a) \in ErrorCode
           /\ CallError(c, a) \in ErrorCode
           /\ AcceptCallError(c, a) \in ErrorCode
<1>1. RegError(c, a) \in ErrorCode
  BY DEF RegError, ErrorCode
<1>2. ASSUME NEW password PROVE LogError(c, a, password) \in ErrorCode
  BY DEF LogError, ErrorCode
<1>3. ASSUME NEW status PROVE UpdateError(c, a, status) \in ErrorCode
  BY DEF UpdateError, ErrorCode
<1>4. AddError(c, a) \in ErrorCode
  BY DEF AddError, ErrorCode
<1>5. AcceptAddError(c, a) \in ErrorCode
  BY DEF AcceptAddError, ErrorCode
<1>6. DelError(c, a) \in ErrorCode
  BY DEF DelError, ErrorCode
<1>7. SendError(c, a) \in ErrorCode
  BY DEF SendError, ErrorCode
<1>8. CallError(c, a) \in ErrorCode
  BY DEF CallError, ErrorCode
<1>9. AcceptCallError(c, a) \in ErrorCode
  BY DEF AcceptCallError, ErrorCode
<1>10. QED
  BY <1>1, <1>2, <1>3, <1>4, <1>5, <1>6, <1>7, <1>8, <1>9

\* The three ways a handler ends.
LEMMA StepTypes ==
    ASSUME TypeOK,
           NEW clients \in Clients, NEW files \in Files, NEW messages \in SUBSET Message,
           NEW accounts \in [Account -> Password \cup {Null}],
           \/ Send(messages)
           \/ Become(clients, files, messages)
           \/ Die(files, accounts)
    PROVE  TypeOK'
<1>1. CASE Send(messages)
  BY <1>1 DEF TypeOK, Send, memory, disk
<1>2. CASE Become(clients, files, messages)
  BY <1>2 DEF TypeOK, Become, Clients, Files
<1>3. CASE Die(files, accounts)
  <2>1. client' \in [Slot -> ClientRec]
    BY <1>3, ConstantTypes DEF Die
  <2>2. QED
    BY <1>3, <2>1 DEF TypeOK, Die, Files
<1>4. QED
  BY <1>1, <1>2, <1>3

-----------------------------------------------------------------------------
(* Types *)

LEMMA ConnectionTypes ==
    ASSUME TypeOK, NEW c \in Slot, Connection(c) \/ onHandshake(c)
    PROVE  TypeOK'
<1>1. client \in Clients /\ file \in Files /\ {} \in SUBSET Message
  BY DEF TypeOK, Clients, Files
<1>2. mAccounts \in [Account -> Password \cup {Null}]
  BY DEF TypeOK
<1>3. CASE onNewConnection(c)
  <2>1. [client EXCEPT ![c] = NewClient] \in Clients
    BY <1>1, ConstantTypes DEF Clients
  <2>2. QED
    BY <1>1, <1>2, <1>3, <2>1, StepTypes DEF onNewConnection, Accepts
<1>4. CASE onSocketClosed(c)
  <2> DEFINE closed == CloseConnection(c)
  <2>1. [closed.clients EXCEPT ![c] = NoClient] \in Clients
    BY CloseConnectionTypes, ConstantTypes DEF Clients
  <2>2. QED
    BY <1>2, <1>4, <2>1, CloseConnectionTypes, StepTypes DEF onSocketClosed
<1>5. CASE StrayCommand(c)
  BY <1>2, <1>5, CloseConnectionTypes, StepTypes DEF StrayCommand
<1>6. CASE onHandshake(c)
  <2>1. [client EXCEPT ![c].handshaked = TRUE] \in Clients
    BY <1>1 DEF Clients, ClientRec
  <2>2. {Tell(c, "HANDSHAKE", Null)} \in SUBSET Message
    BY MessageTypes
  <2>3. QED
    BY <1>1, <1>2, <1>6, <2>1, <2>2, StepTypes DEF onHandshake
<1>7. QED
  BY <1>3, <1>4, <1>5, <1>6 DEF Connection

LEMMA RegTypes ==
    ASSUME TypeOK, NEW c \in Slot, NEW a \in Account, NEW pseudo \in Pseudo,
           NEW password \in Password, onReg(c, a, pseudo, password)
    PROVE  TypeOK'
<1> DEFINE code == RegError(c, a)
           fresh == [client[c] EXCEPT !.account = a, !.pseudo = pseudo,
                                      !.status = DISCONNECTED, !.statusCall = "NONE",
                                      !.contact = {}, !.isConnected = FALSE]
<1>1. client \in Clients /\ file \in Files
  BY DEF TypeOK, Clients, Files
<1>2. fresh \in ClientRec
  BY <1>1, StatusTypes DEF Clients, ClientRec, StatusCall
<1>3. Store(file, fresh) \in Files
  BY <1>1, <1>2, StoreTypes
<1>4. sent' \subseteq Message
  <2>1. Err(c, "REG", code) \in Message
    BY ErrorTypes, MessageTypes DEF Instruction
  <2>2. QED
    BY <2>1 DEF onReg
<1>5. CASE code \in {"OK", "CANNOT_SAVE_DATA"}
  <2> HIDE DEF fresh
  <2>1. /\ client' = [client EXCEPT ![c] = fresh]
        /\ file' = Store(file, fresh)
        /\ mAccounts' = IF code = "OK" THEN [mAccounts EXCEPT ![a] = password] ELSE mAccounts
        /\ UNCHANGED <<up, accountsFile, unwritable>>
    BY <1>5 DEF onReg, fresh
  <2>2. client' \in [Slot -> ClientRec]
    BY <1>1, <1>2, <2>1 DEF Clients
  <2>3. mAccounts' \in [Account -> Password \cup {Null}]
    BY <2>1 DEF TypeOK
  <2>4. QED
    BY <1>3, <1>4, <2>1, <2>2, <2>3 DEF TypeOK, Files
<1>6. CASE code \notin {"OK", "CANNOT_SAVE_DATA"}
  BY <1>4, <1>6 DEF onReg, TypeOK, memory, disk
<1>7. QED
  BY <1>5, <1>6

LEMMA LogTypes ==
    ASSUME TypeOK, NEW c \in Slot, NEW a \in Account, NEW password \in Password,
           onLog(c, a, password)
    PROVE  TypeOK'
<1> DEFINE code == LogError(c, a, password)
           in == Connected(Loaded(client[c], a))
           clients == [client EXCEPT ![c] = in]
           files == Store(file, in)
<1>1. client \in Clients /\ file \in Files /\ mAccounts \in [Account -> Password \cup {Null}]
  BY DEF TypeOK, Clients, Files
<1>2. in \in ClientRec
  <2>1. Loaded(client[c], a) \in ClientRec
    BY <1>1 DEF Loaded, Clients, Files, ClientRec, FileRec
  <2>2. QED
    BY <2>1, RecordTypes
<1>3. clients \in Clients /\ files \in Files
  <2> HIDE DEF in
  <2>1. QED
    BY <1>1, <1>2, StoreTypes DEF Clients
<1>4. Err(c, "LOG", code) \in Message
  BY ErrorTypes, MessageTypes DEF Instruction
<1>5. /\ ListReply(clients, files, c) \subseteq Message
      /\ notifyMyFriendsOfModificationAboutMe(clients, c) \subseteq Message
  <2> HIDE DEF clients, files
  <2>1. QED
    BY <1>3, ReplyTypes
<1>6. CASE code = "OK"
  BY <1>1, <1>3, <1>4, <1>5, <1>6, StepTypes DEF onLog
<1>7. CASE code = "CANNOT_SAVE_DATA"
  BY <1>1, <1>3, <1>4, <1>7, StepTypes DEF onLog
<1>8. CASE code \notin {"OK", "CANNOT_SAVE_DATA"}
  BY <1>1, <1>4, <1>8, StepTypes DEF onLog
<1>9. QED
  BY <1>6, <1>7, <1>8

LEMMA UpdateTypes ==
    ASSUME TypeOK, NEW c \in Slot, NEW a \in Account, NEW pseudo \in Pseudo,
           NEW password \in Password, NEW status \in StatusByte,
           onUpdate(c, a, pseudo, password, status)
    PROVE  TypeOK'
<1> DEFINE code == UpdateError(c, a, status)
           clients == [client EXCEPT ![c].pseudo = pseudo, ![c].status = status]
           files == Store(file, clients[c])
<1>1. client \in Clients /\ file \in Files /\ mAccounts \in [Account -> Password \cup {Null}]
  BY DEF TypeOK, Clients, Files
<1>2. Err(c, "UPDATE", code) \in Message
  BY ErrorTypes, MessageTypes DEF Instruction
<1>3. CASE code \notin {"OK", "CANNOT_SAVE_DATA"}
  BY <1>1, <1>2, <1>3, StepTypes DEF onUpdate
<1>4. ASSUME code \in {"OK", "CANNOT_SAVE_DATA"}
      PROVE  clients \in Clients /\ files \in Files
  <2>1. status \in Status
    BY <1>4 DEF UpdateError
  <2>2. clients \in Clients
    BY <1>1, <2>1, ProfileTypes
  <2>3. clients[c] \in ClientRec
    BY <2>2 DEF Clients
  <2> HIDE DEF clients
  <2>4. QED
    BY <1>1, <2>2, <2>3, StoreTypes
<1>5. CASE code = "CANNOT_SAVE_DATA"
  BY <1>1, <1>2, <1>4, <1>5, StepTypes DEF onUpdate
<1>6. CASE code = "OK"
  <2>1. /\ client' = clients /\ file' = files
        /\ mAccounts' = [mAccounts EXCEPT ![a] = password]
        /\ sent' = {Err(c, "UPDATE", "OK")}
                     \cup notifyMyFriendsOfModificationAboutMe(clients, c)
                     \cup ShowReply(clients, files, c, a)
        /\ UNCHANGED <<up, accountsFile, unwritable>>
    BY <1>6 DEF onUpdate
  <2> HIDE DEF clients, files
  <2>2. sent' \subseteq Message
    BY <1>2, <1>4, <1>6, <2>1, ReplyTypes
  <2>3. mAccounts' \in [Account -> Password \cup {Null}]
    BY <1>1, <2>1
  <2>4. QED
    BY <1>4, <1>6, <2>1, <2>2, <2>3 DEF TypeOK, Clients, Files
<1>7. QED
  BY <1>3, <1>5, <1>6

LEMMA ExitTypes ==
    ASSUME TypeOK, NEW c \in Slot, onExit(c)
    PROVE  TypeOK'
<1> DEFINE Left(closed) == [closed.clients EXCEPT ![c] = Disconnected(@)]
           Reset(closed) == [Left(closed) EXCEPT ![c] = ResetAttributes(@)]
           Said(closed) == {Err(c, "EXIT", "OK")} \cup closed.sent
                             \cup notifyMyFriendsOfModificationAboutMe(Left(closed), c)
           Leave(closed) == Become(Reset(closed), Store(closed.files, Left(closed)[c]),
                                   Said(closed))
           Typed(closed) == /\ closed.clients \in Clients
                            /\ closed.files \in Files
                            /\ closed.sent \subseteq Message
<1>1. client \in Clients /\ file \in Files /\ mAccounts \in [Account -> Password \cup {Null}]
  BY DEF TypeOK, Clients, Files
<1>2. \A code \in ErrorCode : Err(c, "EXIT", code) \in Message
  BY MessageTypes DEF Instruction
<1>3. ASSUME NEW closed, Typed(closed), Leave(closed)
      PROVE  TypeOK'
  <2>1. Left(closed) \in Clients /\ Left(closed)[c] \in ClientRec
    BY <1>3, RecordTypes DEF Clients
  <2>2. Reset(closed) \in Clients
    <3> HIDE DEF Left
    <3>1. QED
      BY <2>1, RecordTypes DEF Clients
  <2>3. Store(closed.files, Left(closed)[c]) \in Files
    BY <1>3, <2>1, StoreTypes
  <2>4. Said(closed) \in SUBSET Message
    BY <1>2, <1>3, <2>1, ReplyTypes DEF ErrorCode
  <2> HIDE DEF Reset, Said, Left
  <2>5. QED
    BY <1>1, <1>3, <2>2, <2>3, <2>4, StepTypes
<1>4. CASE Send({Err(c, "EXIT", "YOU_ARE_NOT_LOGGED")})
  BY <1>1, <1>2, <1>4, StepTypes DEF ErrorCode
<1>5. CASE Leave([clients |-> client, files |-> file, sent |-> {}])
  <2>1. Typed([clients |-> client, files |-> file, sent |-> {}])
    BY <1>1
  <2>2. QED
    BY <1>3, <1>5, <2>1
<1>6. ASSUME NEW a, Leave(CloseCall(client, file, c, a))
      PROVE  TypeOK'
  <2>1. Typed(CloseCall(client, file, c, a))
    BY <1>1, CloseCallTypes
  <2>2. QED
    BY <1>3, <1>6, <2>1
<1>7. CASE Die(file, accountsFile)
  <2>1. accountsFile \in [Account -> Password \cup {Null}]
    BY DEF TypeOK
  <2>2. QED
    BY <1>1, <1>7, <2>1, StepTypes
<1>8. QED
  BY <1>4, <1>5, <1>6, <1>7 DEF onExit

\* The requests that change nothing but what is sent.
LEMMA QueryTypes ==
    ASSUME TypeOK, NEW c \in Slot, NEW a \in Account,
           onShow(c, a) \/ onAdd(c, a) \/ onSend(c, a)
    PROVE  TypeOK'
<1>1. client \in Clients /\ file \in Files /\ mAccounts \in [Account -> Password \cup {Null}]
  BY DEF TypeOK, Clients, Files
<1>2. \A i \in Instruction, code \in ErrorCode : Err(c, i, code) \in Message
  BY MessageTypes
<1>3. client[c].account \in Account \cup {Null}
  BY <1>1 DEF Clients, ClientRec
<1>4. SUFFICES ASSUME NEW messages, Send(messages)
               PROVE  messages \subseteq Message
  BY <1>1, StepTypes DEF onShow, onAdd, onSend
<1>5. CASE onShow(c, a)
  BY <1>1, <1>2, <1>4, <1>5, ReplyTypes DEF onShow, Send, Instruction, ErrorCode
<1>6. CASE onAdd(c, a)
  <2>1. AddError(c, a) = "OK" => findOnlineClient(client, a) \in Slot
    BY FindOnline DEF AddError
  <2>2. QED
    BY <1>2, <1>3, <1>4, <1>6, <2>1, ErrorTypes, MessageTypes DEF onAdd, Send, Instruction
<1>7. CASE onSend(c, a)
  <2>1. SendError(c, a) = "OK" => findOnlineClient(client, a) \in Slot
    BY FindOnline DEF SendError
  <2>2. QED
    BY <1>2, <1>3, <1>4, <1>7, <2>1, ErrorTypes, MessageTypes DEF onSend, Send, Instruction
<1>8. QED
  BY <1>5, <1>6, <1>7

LEMMA ListTypes ==
    ASSUME TypeOK, NEW c \in Slot, onList(c)
    PROVE  TypeOK'
<1>1. client \in Clients /\ file \in Files /\ mAccounts \in [Account -> Password \cup {Null}]
  BY DEF TypeOK, Clients, Files
<1>2. Err(c, "LIST", "YOU_ARE_NOT_LOGGED") \in Message
  BY MessageTypes DEF Instruction, ErrorCode
<1>3. PICK messages \in SUBSET Message : Send(messages)
  BY <1>1, <1>2, ReplyTypes DEF onList
<1>4. QED
  BY <1>1, <1>3, StepTypes

LEMMA AcceptAddTypes ==
    ASSUME TypeOK, SessionsAreNamed, NEW c \in Slot, NEW a \in Account, NEW accept \in BOOLEAN,
           onAcceptAdd(c, a, accept)
    PROVE  TypeOK'
<1> DEFINE me == client[c].account
           t == findOnlineClient(client, a)
           code == AcceptAddError(c, a)
           added == [client EXCEPT ![t].contact = @ \cup {me}]
           clients == [added EXCEPT ![c].contact = @ \cup {a}]
           files == StoreBoth(file, clients[c], clients[t])
<1>1. client \in Clients /\ file \in Files /\ mAccounts \in [Account -> Password \cup {Null}]
  BY DEF TypeOK, Clients, Files
<1>2. \A k \in ErrorCode : Err(c, "ACCEPT_ADD", k) \in Message
  BY MessageTypes DEF Instruction
<1>3. CASE Send({Err(c, "ACCEPT_ADD", code)})
  BY <1>1, <1>2, <1>3, ErrorTypes, StepTypes
<1>4. ASSUME code = "OK"
      PROVE  /\ t \in Slot
             /\ me \in Account
             /\ clients \in Clients
             /\ files \in Files
  <2>1. t \in Slot
    BY <1>4, FindOnline DEF AcceptAddError
  <2>2. me \in Account
    BY <1>4 DEF AcceptAddError, SessionsAreNamed, Session
  <2>3. added \in Clients
    BY <1>1, <2>1, <2>2 DEF Clients, ClientRec
  <2>4. clients \in Clients
    <3> HIDE DEF added
    <3>1. QED
      BY <2>3 DEF Clients, ClientRec
  <2>5. clients[c] \in ClientRec /\ clients[t] \in ClientRec
    BY <2>1, <2>4 DEF Clients
  <2>6. QED
    BY <1>1, <2>1, <2>2, <2>4, <2>5, StoreTypes
<1> HIDE DEF clients, files, t, me, code
<1>5. CASE /\ code = "OK"
           /\ Become(clients, files,
                     {Err(c, "ACCEPT_ADD", "OK")}
                       \cup ShowReply(clients, files, t, me)
                       \cup ShowReply(clients, files, c, a))
  BY <1>1, <1>2, <1>4, <1>5, ReplyTypes, StepTypes DEF ErrorCode
<1>6. CASE /\ code = "OK"
           /\ Become(clients, files, {Err(c, "ACCEPT_ADD", "CANNOT_SAVE_DATA")})
  BY <1>1, <1>2, <1>4, <1>6, StepTypes DEF ErrorCode
<1>7. CASE code = "OK" /\ Die(Store(file, clients[c]), accountsFile)
  <2>1. Store(file, clients[c]) \in Files
    BY <1>1, <1>4, <1>7, StoreTypes DEF Clients
  <2>2. accountsFile \in [Account -> Password \cup {Null}] /\ {} \in SUBSET Message
    BY DEF TypeOK
  <2>3. QED
    BY <1>1, <1>7, <2>1, <2>2, StepTypes
<1>8. QED
  BY <1>3, <1>5, <1>6, <1>7 DEF onAcceptAdd, clients, files, t, me, code

LEMMA DelTypes ==
    ASSUME TypeOK, NEW c \in Slot, NEW a \in Account, onDel(c, a)
    PROVE  TypeOK'
<1> DEFINE me == client[c].account
           t == findOnlineClient(client, a)
           code == DelError(c, a)
           mine == [client EXCEPT ![c].contact = @ \ {a}]
           both == [mine EXCEPT ![t].contact = @ \ {me}]
           theirs == [file[a] EXCEPT !.contact = @ \ {me}]
           fileMine == Store(file, mine[c])
           fileBoth == Store(fileMine, both[t])
           told == {Err(c, "DEL", "OK"), Tell(c, "DEL", a), Tell(t, "DEL", me)}
           closed == CloseCall(both, fileBoth, c, a)
<1>1. client \in Clients /\ file \in Files /\ mAccounts \in [Account -> Password \cup {Null}]
  BY DEF TypeOK, Clients, Files
<1>2. \A k \in ErrorCode : {Err(c, "DEL", k)} \in SUBSET Message
  BY MessageTypes DEF Instruction
<1>3. me \in Account \cup {Null}
  BY <1>1 DEF Clients, ClientRec
<1>4. mine \in Clients /\ fileMine \in Files
  <2>1. mine \in Clients
    BY <1>1 DEF Clients, ClientRec
  <2> HIDE DEF mine
  <2>2. QED
    BY <1>1, <2>1, StoreTypes DEF Clients
<1>5. [fileMine EXCEPT ![a] = theirs] \in Files
  <2>1. theirs \in FileRec
    BY <1>1 DEF Files, FileRec
  <2> HIDE DEF theirs, fileMine
  <2>2. QED
    BY <1>4, <2>1 DEF Files
<1>6. ASSUME t # Null
      PROVE  /\ t \in Slot
             /\ both \in Clients
             /\ fileBoth \in Files
             /\ told \in SUBSET Message
  <2>1. t \in Slot
    BY <1>6, FindOnline
  <2>2. both \in Clients
    <3> HIDE DEF mine, t, me
    <3>1. QED
      BY <1>4, <2>1 DEF Clients, ClientRec
  <2>3. both[t] \in ClientRec
    BY <2>1, <2>2 DEF Clients
  <2>4. fileBoth \in Files
    <3> HIDE DEF fileMine, both, t
    <3>1. QED
      BY <1>4, <2>3, StoreTypes
  <2>5. told \in SUBSET Message
    <3> HIDE DEF t, me
    <3>1. QED
      BY <1>2, <1>3, <2>1, MessageTypes DEF ErrorCode
  <2>6. QED
    BY <2>1, <2>2, <2>4, <2>5
<1> HIDE DEF me, t, code, mine, both, theirs, fileMine, fileBoth, told
<1>7. CASE Send({Err(c, "DEL", code)})
  BY <1>1, <1>2, <1>7, ErrorTypes, StepTypes DEF code
<1>8. CASE \/ Become(mine, file, {Err(c, "DEL", "CANNOT_SAVE_DATA")})
           \/ Become(mine, fileMine, {Err(c, "DEL", "CANNOT_SAVE_DATA")})
           \/ Become(mine, [fileMine EXCEPT ![a] = theirs], {Err(c, "DEL", "OK")})
  <2>1. /\ {Err(c, "DEL", "CANNOT_SAVE_DATA")} \in SUBSET Message
        /\ {Err(c, "DEL", "OK")} \in SUBSET Message
    BY <1>2 DEF ErrorCode
  <2>2. QED
    BY <1>1, <1>4, <1>5, <1>8, <2>1, StepTypes
<1>9. CASE /\ t # Null
           /\ \/ Become(both, fileBoth, {Err(c, "DEL", "CANNOT_SAVE_DATA")})
              \/ Become(both, fileBoth, told)
  <2>1. {Err(c, "DEL", "CANNOT_SAVE_DATA")} \in SUBSET Message
    BY <1>2 DEF ErrorCode
  <2>2. QED
    BY <1>1, <1>6, <1>9, <2>1, StepTypes
<1>10. CASE t # Null /\ Become(closed.clients, closed.files, told \cup closed.sent)
  <2>1. closed.clients \in Clients /\ closed.files \in Files /\ closed.sent \subseteq Message
    BY <1>6, <1>10, CloseCallTypes
  <2> HIDE DEF closed
  <2>2. QED
    BY <1>1, <1>6, <1>10, <2>1, StepTypes
<1>11. CASE t # Null /\ Die(fileBoth, accountsFile)
  <2>1. accountsFile \in [Account -> Password \cup {Null}] /\ {} \in SUBSET Message
    BY DEF TypeOK
  <2>2. QED
    BY <1>6, <1>11, <2>1, StepTypes
<1>12. CASE Die(fileMine, accountsFile)
  <2>1. accountsFile \in [Account -> Password \cup {Null}] /\ {} \in SUBSET Message
    BY DEF TypeOK
  <2>2. QED
    BY <1>1, <1>4, <1>12, <2>1, StepTypes
<1>13. QED
  <2>1. onDel(c, a) =>
          \/ Send({Err(c, "DEL", code)})
          \/ Become(mine, file, {Err(c, "DEL", "CANNOT_SAVE_DATA")})
          \/ Become(mine, fileMine, {Err(c, "DEL", "CANNOT_SAVE_DATA")})
          \/ Become(mine, [fileMine EXCEPT ![a] = theirs], {Err(c, "DEL", "OK")})
          \/ t # Null /\ Become(both, fileBoth, {Err(c, "DEL", "CANNOT_SAVE_DATA")})
          \/ t # Null /\ Become(both, fileBoth, told)
          \/ t # Null /\ Become(closed.clients, closed.files, told \cup closed.sent)
          \/ t # Null /\ Die(fileBoth, accountsFile)
          \/ Die(fileMine, accountsFile)
    BY DEF onDel, me, t, code, mine, both, theirs, fileMine, fileBoth, told
  <2>2. QED
    BY <1>7, <1>8, <1>9, <1>10, <1>11, <1>12, <2>1

LEMMA CallTypes ==
    ASSUME TypeOK, NEW c \in Slot, NEW a \in Account, onCall(c, a)
    PROVE  TypeOK'
<1> DEFINE t == findOnlineClient(client, a)
           code == CallError(c, a)
           ringing == [client EXCEPT ![c].statusCall = "ISWAITING",
                                     ![t].statusCall = "ISWAITING"]
           called == [ringing EXCEPT ![c].comm = t, ![t].comm = c]
           files == StoreBoth(file, ringing[c], ringing[t])
<1>1. client \in Clients /\ file \in Files /\ mAccounts \in [Account -> Password \cup {Null}]
  BY DEF TypeOK, Clients, Files
<1>2. \A k \in ErrorCode : Err(c, "CALL", k) \in Message
  BY MessageTypes DEF Instruction
<1>3. client[c].account \in Account \cup {Null}
  BY <1>1 DEF Clients, ClientRec
<1>4. ASSUME code = "OK"
      PROVE  /\ t \in Slot
             /\ ringing \in Clients /\ called \in Clients
             /\ files \in Files
  <2>1. t \in Slot
    BY <1>4, FindOnline DEF CallError
  <2>2. ringing \in Clients
    BY <1>1, <2>1, CallFieldTypes DEF StatusCall
  <2> HIDE DEF ringing
  <2>3. called \in Clients
    BY <2>1, <2>2, CallFieldTypes DEF StatusCall
  <2>4. files \in Files
    BY <1>1, <2>1, <2>2, StoreTypes DEF Clients
  <2>5. QED
    BY <2>1, <2>2, <2>3, <2>4
<1> HIDE DEF t, code, ringing, called, files
<1>5. CASE Send({Err(c, "CALL", code)})
  BY <1>1, <1>2, <1>5, ErrorTypes, StepTypes DEF code
<1>6. CASE /\ code = "OK"
           /\ Become(called, files, {Err(c, "CALL", "OK"), Tell(t, "CALL", client[c].account)})
  BY <1>1, <1>2, <1>3, <1>4, <1>6, MessageTypes, StepTypes DEF ErrorCode
<1>7. CASE code = "OK" /\ Become(ringing, files, {Err(c, "CALL", "CANNOT_SAVE_DATA")})
  BY <1>1, <1>2, <1>4, <1>7, StepTypes DEF ErrorCode
<1>8. QED
  BY <1>5, <1>6, <1>7 DEF onCall, t, code, ringing, called, files

LEMMA AcceptCallTypes ==
    ASSUME TypeOK, NEW c \in Slot, NEW a \in Account, NEW accept \in BOOLEAN,
           onAcceptCall(c, a, accept)
    PROVE  TypeOK'
<1> DEFINE t == findOnlineClient(client, a)
           code == AcceptCallError(c, a)
           talking == [client EXCEPT ![t].statusCall = "ISCALLING",
                                     ![c].statusCall = "ISCALLING"]
           joined == [talking EXCEPT ![c].comm = t, ![t].comm = c]
           refused == [client EXCEPT ![c].statusCall = "NONE"]
           parted == [refused EXCEPT ![c].comm = Null, ![t].comm = Null]
           files == StoreBoth(file, talking[t], talking[c])
           answer == {Answered(t, client[c].account, accept)}
<1>1. client \in Clients /\ file \in Files /\ mAccounts \in [Account -> Password \cup {Null}]
  BY DEF TypeOK, Clients, Files
<1>2. \A k \in ErrorCode : {Err(c, "ACCEPT_CALL", k)} \in SUBSET Message
  BY MessageTypes DEF Instruction
<1>3. client[c].account \in Account \cup {Null}
  BY <1>1 DEF Clients, ClientRec
<1>4. ASSUME code = "OK"
      PROVE  /\ t \in Slot
             /\ talking \in Clients /\ joined \in Clients
             /\ refused \in Clients /\ parted \in Clients
             /\ files \in Files
             /\ Store(file, refused[c]) \in Files
             /\ answer \subseteq Message
             /\ Answered(c, a, accept) \in Message
  <2>1. t \in Slot
    BY <1>4, FindOnline DEF AcceptCallError
  <2>2. talking \in Clients
    BY <1>1, <2>1, CallFieldTypes DEF StatusCall
  <2>3. refused \in Clients
    BY <1>1 DEF Clients, ClientRec, StatusCall
  <2>4. answer \subseteq Message /\ Answered(c, a, accept) \in Message
    BY <1>3, <2>1, MessageTypes
  <2> HIDE DEF talking, refused, answer
  <2>5. joined \in Clients /\ parted \in Clients
    BY <2>1, <2>2, <2>3, CallFieldTypes DEF StatusCall
  <2>6. files \in Files /\ Store(file, refused[c]) \in Files
    BY <1>1, <2>1, <2>2, <2>3, StoreTypes DEF Clients
  <2>7. QED
    BY <2>1, <2>2, <2>3, <2>4, <2>5, <2>6
<1> HIDE DEF t, code, talking, joined, refused, parted, files, answer
<1>5. CASE Send({Err(c, "ACCEPT_CALL", code)})
  BY <1>1, <1>2, <1>5, ErrorTypes, StepTypes DEF code
<1>6. CASE /\ code = "OK"
           /\ Become(joined, files,
                     answer \cup {Err(c, "ACCEPT_CALL", "OK"), Answered(c, a, accept)})
  BY <1>1, <1>2, <1>4, <1>6, StepTypes DEF ErrorCode
<1>7. CASE code = "OK" /\ Become(talking, files, {Err(c, "ACCEPT_CALL", "CANNOT_SAVE_DATA")})
  BY <1>1, <1>2, <1>4, <1>7, StepTypes DEF ErrorCode
<1>8. CASE /\ code = "OK"
           /\ Become(parted, Store(file, refused[c]),
                     answer \cup {Err(c, "ACCEPT_CALL", "OK")})
  BY <1>1, <1>2, <1>4, <1>8, StepTypes DEF ErrorCode
<1>9. CASE code = "OK" /\ Become(refused, file, {Err(c, "ACCEPT_CALL", "CANNOT_SAVE_DATA")})
  BY <1>1, <1>2, <1>4, <1>9, StepTypes DEF ErrorCode
<1>10. QED
  BY <1>5, <1>6, <1>7, <1>8, <1>9
  DEF onAcceptCall, t, code, talking, joined, refused, parted, files, answer

LEMMA CloseTypes ==
    ASSUME TypeOK, NEW c \in Slot, NEW a \in Account, onCloseCall(c, a)
    PROVE  TypeOK'
<1>1. client \in Clients /\ file \in Files /\ mAccounts \in [Account -> Password \cup {Null}]
  BY DEF TypeOK, Clients, Files
<1>2. QED
  BY <1>1, CloseCallTypes, StepTypes DEF onCloseCall

\* Stops, starts and faults of the disk.
LEMMA EnvironmentTypes ==
    ASSUME TypeOK, Environment
    PROVE  TypeOK'
<1>1. client \in Clients /\ file \in Files /\ {} \in SUBSET Message
  BY DEF TypeOK, Clients, Files
<1>2. /\ mAccounts \in [Account -> Password \cup {Null}]
      /\ accountsFile \in [Account -> Password \cup {Null}]
  BY DEF TypeOK
<1>3. CASE Shutdown
  BY <1>1, <1>2, <1>3, StepTypes DEF Shutdown, exportedAccounts
<1>4. CASE Crash
  <2>1. \A a \in Account : [file EXCEPT ![a] = TornFile] \in Files
    BY <1>1, ConstantTypes DEF Files
  <2>2. PICK files \in Files : Die(files, accountsFile)
    BY <1>1, <1>4, <2>1 DEF Crash, SavedBy, SavedAtStart
  <2>3. QED
    BY <1>1, <1>2, <2>2, StepTypes
<1>5. CASE Start
  <2>1. \A a \in Account : CleanedFile(a) \in FileRec
    BY <1>1, StatusTypes, ConstantTypes DEF CleanedFile, Files, FileRec
  <2>2. file' \in Files
    BY <1>5, <2>1 DEF Start, Files
  <2>3. /\ up' = TRUE /\ client' = client /\ mAccounts' = accountsFile
        /\ accountsFile' = accountsFile /\ unwritable' = unwritable /\ sent' = {}
    BY <1>5 DEF Start, startServer, importedAccounts
  <2>4. /\ up' \in BOOLEAN
        /\ sent' \subseteq Message
    BY <2>3
  <2>5. QED
    BY <1>2, <2>2, <2>3, <2>4 DEF TypeOK, Files
<1>6. CASE DiskFault
  BY <1>6 DEF DiskFault, TypeOK, memory
<1>7. QED
  BY <1>3, <1>4, <1>5, <1>6 DEF Environment


-----------------------------------------------------------------------------
(* Who is logged in *)

\* Two client tables with the same sessions.
SameLogins(before, after) ==
    \A s \in Slot : /\ after[s].isConnected = before[s].isConnected
                    /\ after[s].account = before[s].account

\* Nobody logs in, and a session keeps its account.
NobodyLogsIn(before, after) ==
    \A s \in Slot : after[s].isConnected =>
                       before[s].isConnected /\ after[s].account = before[s].account

\* The fields that handlers change in the sessions of others and their own.
LEMMA FieldLogins ==
    ASSUME NEW clients \in Clients, NEW c \in Slot, NEW t \in Slot, NEW k, NEW x, NEW y
    PROVE  /\ SameLogins(clients, [clients EXCEPT ![c].statusCall = k, ![t].statusCall = k])
           /\ SameLogins(clients, [clients EXCEPT ![c].comm = x, ![t].comm = y])
           /\ SameLogins(clients, [clients EXCEPT ![c].pseudo = x, ![c].status = y])
           /\ SameLogins(clients, [clients EXCEPT ![c].handshaked = x])
           /\ SameLogins(clients, [clients EXCEPT ![c].statusCall = x])
           /\ SameLogins(clients, [clients EXCEPT ![c].contact = x])
<1>1. SameLogins(clients, [clients EXCEPT ![c].statusCall = k, ![t].statusCall = k])
  BY DEF SameLogins, Clients, ClientRec
<1>2. SameLogins(clients, [clients EXCEPT ![c].comm = x, ![t].comm = y])
  BY DEF SameLogins, Clients, ClientRec
<1>3. SameLogins(clients, [clients EXCEPT ![c].pseudo = x, ![c].status = y])
  BY DEF SameLogins, Clients, ClientRec
<1>4. SameLogins(clients, [clients EXCEPT ![c].handshaked = x])
  BY DEF SameLogins, Clients, ClientRec
<1>5. SameLogins(clients, [clients EXCEPT ![c].statusCall = x])
  BY DEF SameLogins, Clients, ClientRec
<1>6. SameLogins(clients, [clients EXCEPT ![c].contact = x])
  BY DEF SameLogins, Clients, ClientRec
<1>7. QED
  BY <1>1, <1>2, <1>3, <1>4, <1>5, <1>6

LEMMA ContactSet ==
    ASSUME NEW clients \in Clients, NEW c \in Slot, NEW contact \in SUBSET Account
    PROVE  /\ [clients EXCEPT ![c].contact = contact] \in Clients
           /\ SameLogins(clients, [clients EXCEPT ![c].contact = contact])
<1>1. [clients EXCEPT ![c].contact = contact] \in Clients
  BY DEF Clients, ClientRec
<1>2. SameLogins(clients, [clients EXCEPT ![c].contact = contact])
  BY DEF SameLogins, Clients, ClientRec
<1>3. QED
  BY <1>1, <1>2

\* Leaving mClients, and the handlers of one object alone.
LEMMA RecordLogins ==
    ASSUME NEW r \in ClientRec
    PROVE  /\ ~Disconnected(r).isConnected /\ Disconnected(r).account = r.account
           /\ ResetAttributes(r).isConnected = r.isConnected
           /\ Connected(r).isConnected /\ Connected(r).account = r.account
BY DEF Disconnected, ResetAttributes, Connected, ClientRec

\* Closing a call logs nobody in or out.
LEMMA CloseCallLogins ==
    ASSUME NEW clients \in Clients, NEW files, NEW c \in Slot, NEW a
    PROVE  SameLogins(clients, CloseCall(clients, files, c, a).clients)
<1> DEFINE t == findOnlineClient(clients, a)
           code == CloseCallError(clients, c, a)
           idle == [clients EXCEPT ![c].statusCall = "NONE", ![t].statusCall = "NONE"]
           freed == [idle EXCEPT ![c].comm = Null, ![t].comm = Null]
<1>1. CASE code \notin {"OK", "CANNOT_SAVE_DATA"}
  BY <1>1 DEF CloseCall, SameLogins
<1>2. ASSUME code \in {"OK", "CANNOT_SAVE_DATA"}
      PROVE  SameLogins(clients, idle) /\ SameLogins(clients, freed)
  <2>1. t \in Slot
    BY <1>2, FindOnline DEF CloseCallError
  <2>2. idle \in Clients
    BY <2>1, CallFieldTypes DEF StatusCall
  <2>3. SameLogins(clients, idle)
    BY <2>1, FieldLogins
  <2> HIDE DEF idle
  <2>4. SameLogins(idle, freed)
    BY <2>1, <2>2, FieldLogins
  <2>5. QED
    BY <2>3, <2>4 DEF SameLogins
<1>3. CASE code = "CANNOT_SAVE_DATA"
  <2>1. CloseCall(clients, files, c, a).clients = idle
    BY <1>3 DEF CloseCall
  <2>2. QED
    BY <1>2, <1>3, <2>1
<1>4. CASE code = "OK"
  <2>1. CloseCall(clients, files, c, a).clients = freed
    BY <1>4 DEF CloseCall
  <2>2. QED
    BY <1>2, <1>4, <2>1
<1>5. QED
  BY <1>1, <1>3, <1>4

\* What each handler does to the logins: only onLog logs a client in.
LEMMA ConnectionLogins ==
    ASSUME TypeOK, NEW c \in Slot, Connection(c) \/ onHandshake(c)
    PROVE  NobodyLogsIn(client, client')
<1>1. client \in Clients
  BY DEF TypeOK, Clients
<1>2. CASE onNewConnection(c)
  BY <1>1, <1>2 DEF onNewConnection, Accepts, Become, NobodyLogsIn, NewClient, NoClient, Clients, ClientRec
<1>3. NobodyLogsIn(client, CloseConnection(c).clients) /\ CloseConnection(c).clients \in Clients
  <2> DEFINE left == [client EXCEPT ![c] = Disconnected(@)]
             off(clients) == [clients EXCEPT ![c].handshaked = FALSE, ![c].listed = FALSE]
  <2>1. ASSUME NEW clients \in Clients
        PROVE  SameLogins(clients, off(clients))
    BY DEF SameLogins, Clients, ClientRec
  <2>2. left \in Clients /\ NobodyLogsIn(client, left)
    BY <1>1, RecordTypes, RecordLogins DEF Clients, NobodyLogsIn
  <2>3. CloseConnection(c).clients \in {client, off(client), off(left)}
    BY DEF CloseConnection
  <2> HIDE DEF left, off
  <2>4. QED
    BY <1>1, <2>1, <2>2, <2>3, CloseConnectionTypes DEF SameLogins, NobodyLogsIn
<1>4. CASE onSocketClosed(c)
  BY <1>3, <1>4 DEF onSocketClosed, Become, NobodyLogsIn, NoClient, Clients
<1>5. CASE StrayCommand(c)
  BY <1>3, <1>5 DEF StrayCommand, Become
<1>6. CASE onHandshake(c)
  <2>1. client' = [client EXCEPT ![c].handshaked = TRUE]
    BY <1>6 DEF onHandshake, Become
  <2>2. QED
    BY <1>1, <2>1, FieldLogins DEF SameLogins, NobodyLogsIn
<1>7. QED
  BY <1>2, <1>4, <1>5, <1>6 DEF Connection

LEMMA DieLogins ==
    ASSUME NEW files, NEW accounts, Die(files, accounts)
    PROVE  \A s \in Slot : ~client'[s].isConnected
BY DEF Die, NoClient

LEMMA AccountLogins ==
    ASSUME TypeOK, NEW c \in Slot, NEW a \in Account, NEW pseudo \in Pseudo,
           NEW password \in Password, NEW status,
           onReg(c, a, pseudo, password) \/ onUpdate(c, a, pseudo, password, status)
    PROVE  NobodyLogsIn(client, client')
<1>1. client \in Clients
  BY DEF TypeOK, Clients
<1>2. CASE client' = client
  BY <1>2 DEF NobodyLogsIn
<1>3. CASE onReg(c, a, pseudo, password)
  <2> DEFINE fresh == [client[c] EXCEPT !.account = a, !.pseudo = pseudo,
                                      !.status = DISCONNECTED, !.statusCall = "NONE",
                                      !.contact = {}, !.isConnected = FALSE]
  <2>1. client' \in {client, [client EXCEPT ![c] = fresh]}
    BY <1>3 DEF onReg, memory
  <2>2. ~fresh.isConnected
    BY <1>1 DEF Clients, ClientRec
  <2> HIDE DEF fresh
  <2>3. QED
    BY <1>1, <2>1, <2>2 DEF NobodyLogsIn, Clients
<1>4. CASE onUpdate(c, a, pseudo, password, status)
  <2>1. client' \in {client, [client EXCEPT ![c].pseudo = pseudo, ![c].status = status]}
    BY <1>4 DEF onUpdate, Become, Send, memory
  <2>2. SameLogins(client, [client EXCEPT ![c].pseudo = pseudo, ![c].status = status])
    BY <1>1, FieldLogins
  <2>3. QED
    BY <2>1, <2>2 DEF SameLogins, NobodyLogsIn
<1>5. QED
  BY <1>3, <1>4

LEMMA ExitLogins ==
    ASSUME TypeOK, NEW c \in Slot, onExit(c)
    PROVE  NobodyLogsIn(client, client')
<1> DEFINE left(clients) == [clients EXCEPT ![c] = Disconnected(@)]
           reset(clients) == [left(clients) EXCEPT ![c] = ResetAttributes(@)]
<1>1. client \in Clients
  BY DEF TypeOK, Clients
<1>2. ASSUME NEW clients \in Clients, SameLogins(client, clients), client' = reset(clients)
      PROVE  NobodyLogsIn(client, client')
  <2>1. left(clients) \in Clients /\ ~left(clients)[c].isConnected
    BY <1>2, RecordTypes, RecordLogins DEF Clients
  <2>2. \A s \in Slot \ {c} : reset(clients)[s] = clients[s]
    BY <1>2 DEF Clients
  <2>3. ~reset(clients)[c].isConnected
    <3> HIDE DEF left
    <3>1. left(clients)[c] \in ClientRec
      BY <2>1 DEF Clients
    <3>2. reset(clients)[c] = ResetAttributes(left(clients)[c])
      BY <2>1 DEF Clients
    <3>3. QED
      BY <2>1, <3>1, <3>2, RecordLogins
  <2> HIDE DEF reset
  <2>4. QED
    BY <1>2, <2>2, <2>3 DEF NobodyLogsIn, SameLogins
<1>3. CASE client' = client
  BY <1>3 DEF NobodyLogsIn
<1>4. CASE client' = reset(client)
  BY <1>1, <1>2, <1>4 DEF SameLogins
<1>5. ASSUME NEW a, client' = reset(CloseCall(client, file, c, a).clients)
      PROVE  NobodyLogsIn(client, client')
  <2>1. file \in Files
    BY DEF TypeOK, Files
  <2>2. QED
    BY <1>1, <1>2, <1>5, <2>1, CloseCallTypes, CloseCallLogins
<1>6. CASE Die(file, accountsFile)
  BY <1>6, DieLogins DEF NobodyLogsIn
<1>7. QED
  BY <1>3, <1>4, <1>5, <1>6 DEF onExit, Become, Send, memory

LEMMA ContactLogins ==
    ASSUME TypeOK, SessionsAreNamed, NEW c \in Slot, NEW a \in Account, NEW accept \in BOOLEAN,
           onAcceptAdd(c, a, accept) \/ onDel(c, a)
    PROVE  SameLogins(client, client') \/ \E files : Die(files, accountsFile)
<1> DEFINE me == client[c].account
           t == findOnlineClient(client, a)
           added == [client EXCEPT ![t].contact = @ \cup {me}]
           clients == [added EXCEPT ![c].contact = @ \cup {a}]
           mine == [client EXCEPT ![c].contact = @ \ {a}]
           both == [mine EXCEPT ![t].contact = @ \ {me}]
           closed(files) == CloseCall(both, files, c, a).clients
<1>1. client \in Clients
  BY DEF TypeOK, Clients
<1>2. SameLogins(client, mine) /\ mine \in Clients
  <2>1. SameLogins(client, mine)
    BY <1>1 DEF SameLogins, Clients, ClientRec
  <2>2. mine \in Clients
    BY <1>1 DEF Clients, ClientRec
  <2>3. QED
    BY <2>1, <2>2
<1>3. ASSUME t # Null, client[c].isConnected
      PROVE  SameLogins(client, clients) /\ SameLogins(client, both) /\ both \in Clients
  <2>1. t \in Slot
    BY <1>3, FindOnline
  <2>2. me \in Account
    BY <1>3 DEF SessionsAreNamed, Session
  <2>3. added \in Clients /\ SameLogins(client, added)
    <3>1. added \in Clients
      BY <1>1, <2>1, <2>2 DEF Clients, ClientRec
    <3>2. SameLogins(client, added)
      BY <1>1, <2>1 DEF SameLogins, Clients, ClientRec
    <3>3. QED
      BY <3>1, <3>2
  <2>4. SameLogins(added, clients)
    <3> HIDE DEF added
    <3>1. QED
      BY <2>3 DEF SameLogins, Clients, ClientRec
  <2>5. SameLogins(mine, both) /\ both \in Clients
    <3> HIDE DEF mine, t, me
    <3>1. SameLogins(mine, both)
      BY <1>2, <2>1 DEF SameLogins, Clients, ClientRec
    <3>2. both \in Clients
      BY <1>2, <2>1 DEF Clients, ClientRec
    <3>3. QED
      BY <3>1, <3>2
  <2>6. QED
    BY <1>2, <2>3, <2>4, <2>5 DEF SameLogins
<1> HIDE DEF t, me, clients, mine, both, closed
<1>4. CASE client' \in {client, mine}
  BY <1>2, <1>4 DEF SameLogins
<1>5. CASE t # Null /\ client[c].isConnected /\ client' \in {clients, both}
  BY <1>3, <1>5
<1>6. ASSUME t # Null, client[c].isConnected, NEW files, client' = closed(files)
      PROVE  SameLogins(client, client')
  <2>1. SameLogins(both, client')
    BY <1>3, <1>6, CloseCallLogins DEF closed
  <2>2. QED
    BY <1>3, <1>6, <2>1 DEF SameLogins
<1>7. CASE onAcceptAdd(c, a, accept)
  BY <1>4, <1>5, <1>7
  DEF onAcceptAdd, AcceptAddError, Become, Send, memory, t, me, clients
<1>8. CASE onDel(c, a)
  BY <1>4, <1>5, <1>6, <1>8
  DEF onDel, DelError, Become, Send, memory, t, me, mine, both, closed
<1>9. QED
  BY <1>7, <1>8

LEMMA CallLogins ==
    ASSUME TypeOK, NEW c \in Slot, NEW a \in Account, NEW accept \in BOOLEAN,
           onCall(c, a) \/ onAcceptCall(c, a, accept) \/ onCloseCall(c, a)
    PROVE  SameLogins(client, client')
<1> DEFINE t == findOnlineClient(client, a)
           set(k) == [client EXCEPT ![c].statusCall = k, ![t].statusCall = k]
           tes(k) == [client EXCEPT ![t].statusCall = k, ![c].statusCall = k]
           refused == [client EXCEPT ![c].statusCall = "NONE"]
           with(clients, x, y) == [clients EXCEPT ![c].comm = x, ![t].comm = y]
<1>1. client \in Clients
  BY DEF TypeOK, Clients
<1>2. CASE client' = client
  BY <1>2 DEF SameLogins
<1>3. ASSUME NEW clients \in Clients, SameLogins(client, clients), t \in Slot,
             NEW x, NEW y, client' \in {clients, with(clients, x, y)}
      PROVE  SameLogins(client, client')
  <2>1. SameLogins(clients, with(clients, x, y))
    BY <1>3, FieldLogins
  <2> HIDE DEF with
  <2>2. QED
    BY <1>3, <2>1 DEF SameLogins
<1>4. \A k \in StatusCall : t \in Slot =>
         /\ set(k) \in Clients /\ SameLogins(client, set(k))
         /\ tes(k) \in Clients /\ SameLogins(client, tes(k))
  BY <1>1, CallFieldTypes, FieldLogins
<1>5. refused \in Clients /\ SameLogins(client, refused)
  <2>1. refused \in Clients
    BY <1>1 DEF Clients, ClientRec, StatusCall
  <2>2. QED
    BY <1>1, <2>1, FieldLogins
<1> HIDE DEF t, set, tes, refused, with
<1>6. CASE onCall(c, a)
  <2>1. CASE CallError(c, a) # "OK"
    BY <1>2, <1>6, <2>1 DEF onCall, Send, memory
  <2>2. CASE CallError(c, a) = "OK"
    <3>1. t \in Slot
      BY <2>2, FindOnline DEF CallError, t
    <3>2. client' \in {set("ISWAITING"), with(set("ISWAITING"), t, c)}
      BY <1>6, <2>2 DEF onCall, Become, t, set, with
    <3>3. QED
      BY <1>3, <1>4, <3>1, <3>2 DEF StatusCall
  <2>3. QED
    BY <2>1, <2>2
<1>7. CASE onAcceptCall(c, a, accept)
  <2>1. CASE AcceptCallError(c, a) # "OK"
    BY <1>2, <1>7, <2>1 DEF onAcceptCall, Send, memory
  <2>2. CASE AcceptCallError(c, a) = "OK"
    <3>1. t \in Slot
      BY <2>2, FindOnline DEF AcceptCallError, t
    <3>2. \/ client' \in {tes("ISCALLING"), with(tes("ISCALLING"), t, c)}
          \/ client' \in {refused, with(refused, Null, Null)}
      BY <1>7, <2>2 DEF onAcceptCall, Become, t, tes, with, refused
    <3>3. QED
      BY <1>3, <1>4, <1>5, <3>1, <3>2 DEF StatusCall
  <2>3. QED
    BY <2>1, <2>2
<1>8. CASE onCloseCall(c, a)
  BY <1>1, <1>8, CloseCallLogins DEF onCloseCall, Become, SameLogins
<1>9. QED
  BY <1>6, <1>7, <1>8

\* A step that is not a login logs nobody in.
LEMMA OnlyLogLogsIn ==
    ASSUME TypeOK, SessionsAreNamed, [Next]_vars,
           \A c \in Slot, a \in Account, password \in Password : ~onLog(c, a, password)
    PROVE  NobodyLogsIn(client, client')
<1>1. CASE client' = client
  BY <1>1 DEF NobodyLogsIn
<1>2. ASSUME NEW c \in Slot, Connection(c) \/ Request(c)
      PROVE  NobodyLogsIn(client, client')
  <2>1. CASE Connection(c) \/ onHandshake(c)
    BY <2>1, ConnectionLogins
  <2>2. CASE onExit(c)
    BY <2>2, ExitLogins
  <2>3. CASE onList(c)
    BY <1>1, <2>3 DEF onList, Send, memory
  <2>4. ASSUME NEW a \in Account, onShow(c, a) \/ onAdd(c, a) \/ onSend(c, a)
        PROVE  NobodyLogsIn(client, client')
    BY <1>1, <2>4 DEF onShow, onAdd, onSend, Send, memory
  <2>5. ASSUME NEW a \in Account, NEW accept \in BOOLEAN,
               \/ onDel(c, a) \/ onAcceptAdd(c, a, accept)
               \/ onCall(c, a) \/ onCloseCall(c, a) \/ onAcceptCall(c, a, accept)
        PROVE  NobodyLogsIn(client, client')
    BY <2>5, ContactLogins, CallLogins, DieLogins DEF NobodyLogsIn, SameLogins
  <2>6. ASSUME NEW a \in Account, NEW pseudo \in Pseudo, NEW password \in Password,
               NEW status \in StatusByte, onUpdate(c, a, pseudo, password, status)
        PROVE  NobodyLogsIn(client, client')
    BY <2>6, AccountLogins
  <2>7. ASSUME NEW a \in Account, NEW pseudo \in Pseudo, NEW password \in Password,
               onReg(c, a, pseudo, password)
        PROVE  NobodyLogsIn(client, client')
    BY <2>7, AccountLogins
  <2>8. QED
    BY <1>2, <2>1, <2>2, <2>3, <2>4, <2>5, <2>6, <2>7 DEF Request
<1>3. CASE Environment
  <2>1. ASSUME NEW files, NEW accounts, Die(files, accounts)
        PROVE  NobodyLogsIn(client, client')
    BY <2>1, DieLogins DEF NobodyLogsIn
  <2>2. QED
    BY <1>1, <1>3, <2>1 DEF Environment, Shutdown, Crash, Start, DiskFault, memory
<1>4. CASE UNCHANGED vars
  BY <1>1, <1>4 DEF vars, memory
<1>5. QED
  BY <1>2, <1>3, <1>4 DEF Next

LEMMA StepNames ==
    ASSUME TypeOK, SessionsAreNamed, [Next]_vars
    PROVE  SessionsAreNamed'
<1>1. CASE NobodyLogsIn(client, client')
  BY <1>1 DEF NobodyLogsIn, SessionsAreNamed, Session
<1>2. ASSUME NEW c \in Slot, NEW a \in Account, NEW password \in Password,
             onLog(c, a, password)
      PROVE  SessionsAreNamed'
  <2> DEFINE in == Connected(Loaded(client[c], a))
  <2>1. client \in Clients /\ file \in Files
    BY DEF TypeOK, Clients, Files
  <2>2. in.account = a
    <3>1. Loaded(client[c], a) \in ClientRec /\ Loaded(client[c], a).account = a
      BY <2>1 DEF Loaded, Clients, Files, ClientRec, FileRec
    <3>2. QED
      BY <3>1, RecordLogins
  <2> HIDE DEF in
  <2>3. client' = client \/ client' = [client EXCEPT ![c] = in]
    BY <1>2 DEF onLog, Become, Send, memory, in
  <2>4. QED
    BY <2>1, <2>2, <2>3 DEF SessionsAreNamed, Session, Clients
<1>3. QED
  BY <1>1, <1>2, OnlyLogLogsIn

\* Every step gives well typed variables.
LEMMA NextTypes ==
    ASSUME TypeOK, SessionsAreNamed, [Next]_vars
    PROVE  TypeOK'
<1>1. ASSUME NEW c \in Slot, Connection(c) \/ Request(c)
      PROVE  TypeOK'
  <2>1. CASE Connection(c) \/ onHandshake(c)
    BY <2>1, ConnectionTypes
  <2>2. CASE onExit(c)
    BY <2>2, ExitTypes
  <2>3. CASE onList(c)
    BY <2>3, ListTypes
  <2>4. ASSUME NEW a \in Account, onShow(c, a) \/ onAdd(c, a) \/ onSend(c, a)
        PROVE  TypeOK'
    BY <2>4, QueryTypes
  <2>5. ASSUME NEW a \in Account, NEW accept \in BOOLEAN,
               onAcceptAdd(c, a, accept) \/ onDel(c, a)
        PROVE  TypeOK'
    BY <2>5, AcceptAddTypes, DelTypes
  <2>6. ASSUME NEW a \in Account, NEW accept \in BOOLEAN,
               onCall(c, a) \/ onCloseCall(c, a) \/ onAcceptCall(c, a, accept)
        PROVE  TypeOK'
    BY <2>6, CallTypes, CloseTypes, AcceptCallTypes
  <2>7. ASSUME NEW a \in Account, NEW pseudo \in Pseudo, NEW password \in Password,
               onReg(c, a, pseudo, password)
        PROVE  TypeOK'
    BY <2>7, RegTypes
  <2>8. ASSUME NEW a \in Account, NEW pseudo \in Pseudo, NEW password \in Password,
               NEW status \in StatusByte, onUpdate(c, a, pseudo, password, status)
        PROVE  TypeOK'
    BY <2>8, UpdateTypes
  <2>9. ASSUME NEW a \in Account, NEW password \in Password, onLog(c, a, password)
        PROVE  TypeOK'
    BY <2>9, LogTypes
  <2>10. QED
    BY <1>1, <2>1, <2>2, <2>3, <2>4, <2>5, <2>6, <2>7, <2>8, <2>9 DEF Request
<1>2. CASE Environment
  BY <1>2, EnvironmentTypes
<1>3. CASE UNCHANGED vars
  BY <1>3 DEF vars, memory, disk, TypeOK
<1>4. QED
  BY <1>1, <1>2, <1>3 DEF Next

LEMMA InitTypes == Init => TypeOK /\ SessionsAreNamed
BY ConstantTypes DEF Init, TypeOK, SessionsAreNamed, Session, NoClient

\* TypeOK is an invariant: every handler, stop and start leaves client objects,
\* accounts, user files and messages of the declared types.
THEOREM TypeCorrect == Spec => []TypeOK
<1> DEFINE Inv == TypeOK /\ SessionsAreNamed
<1>1. Init => Inv
  BY InitTypes
<1>2. Inv /\ [Next]_vars => Inv'
  BY NextTypes, StepNames
<1>3. QED
  BY <1>1, <1>2, PTL DEF Spec

-----------------------------------------------------------------------------
(* Sessions and their files *)

\* The file of account a says that a is logged in.
Held(files, a) == files[a].state = "good" /\ files[a].isConnected

AllHeld(files) == \A s \in Session : Held(files, client[s].account)

\* The accounts marked as logged in.
Marked(files) == {a \in Account : files[a].isConnected}

\* The flags are what they were, except that sessions saved their own files.
SavesSessions(before, after) ==
    \A a \in Account :
        \/ after[a].state = before[a].state /\ after[a].isConnected = before[a].isConnected
        \/ (\E s \in Session : client[s].account = a) /\ Held(after, a)

LoginInv ==
    /\ NoDoubleLogin
    /\ SessionHoldsFile
    /\ unwritable = {}
    /\ ~up => Session = {}

LEMMA LoginInvFacts ==
    ASSUME LoginInv
    PROVE  SessionsAreNamed /\ AllHeld(file)
BY DEF LoginInv, SessionHoldsFile, SessionsAreNamed, AllHeld, Held

\* A step in which nobody logs in keeps the invariant if the sessions that stay
\* hold their files afterwards.
LEMMA StaysHeld ==
    ASSUME LoginInv, NobodyLogsIn(client, client'),
           up' = up, unwritable' = unwritable,
           \A a \in Account : mAccounts[a] # Null => mAccounts'[a] # Null,
           \A s \in Slot : client'[s].isConnected => Held(file', client[s].account)
    PROVE  LoginInv'
BY DEF LoginInv, NobodyLogsIn, NoDoubleLogin, SessionHoldsFile, Session, Held

LEMMA AllHeldIsEnough ==
    ASSUME LoginInv, NobodyLogsIn(client, client'), AllHeld(file'),
           UNCHANGED <<up, mAccounts, unwritable>>
    PROVE  LoginInv'
BY StaysHeld DEF AllHeld, NobodyLogsIn, Session

LEMMA DieHeld ==
    ASSUME LoginInv, NEW files, NEW accounts, Die(files, accounts)
    PROVE  LoginInv'
BY DieLogins DEF Die, LoginInv, NoDoubleLogin, SessionHoldsFile, Session

\* Saving r takes the flag only from the file of r's own account.
LEMMA StoreHeld ==
    ASSUME NEW files \in Files, NEW r \in ClientRec, NEW a \in Account,
           Held(files, a), r.account = a => r.isConnected
    PROVE  Held(Store(files, r), a)
BY DEF Held, Store, Image, Files

LEMMA SavesCompose ==
    ASSUME NEW first, NEW second, NEW third,
           SavesSessions(first, second), SavesSessions(second, third)
    PROVE  SavesSessions(first, third)
BY DEF SavesSessions, Held

\* Where every session holds its file, saving those files changes no flag.
LEMMA SavesKeepFlags ==
    ASSUME SessionsAreNamed, NEW before, NEW after, AllHeld(before),
           SavesSessions(before, after)
    PROVE  AllHeld(after) /\ Marked(after) = Marked(before)
BY DEF SavesSessions, AllHeld, Held, Marked, SessionsAreNamed

\* r is a session's object.
OfSession(r) == r \in ClientRec /\ r.isConnected /\ \E s \in Session : client[s].account = r.account

LEMMA SessionSaves ==
    ASSUME SessionsAreNamed, NEW files \in Files, NEW r, NEW q, OfSession(r), OfSession(q)
    PROVE  SavesSessions(files, Store(files, r)) /\ SavesSessions(files, StoreBoth(files, r, q))
<1>1. ASSUME NEW f \in Files, NEW o, OfSession(o)
      PROVE  SavesSessions(f, Store(f, o))
  BY <1>1 DEF SavesSessions, OfSession, SessionsAreNamed, Store, Image, Held, Files
<1>2. SavesSessions(files, Store(files, r)) /\ Store(files, r) \in Files
  BY <1>1, StoreTypes DEF OfSession
<1>3. SavesSessions(files, Store(Store(files, r), q)) /\ SavesSessions(files, files)
  BY <1>1, <1>2, SavesCompose DEF SavesSessions
<1>4. QED
  BY <1>2, <1>3 DEF StoreBoth

LEMMA SessionObjects ==
    ASSUME NEW clients \in Clients, SameLogins(client, clients), NEW s \in Session
    PROVE  OfSession(clients[s])
BY DEF OfSession, SameLogins, Session, Clients

LEMMA CloseCallSaves ==
    ASSUME SessionsAreNamed, NEW clients \in Clients, SameLogins(client, clients),
           NEW files \in Files, NEW c \in Slot, NEW a
    PROVE  SavesSessions(files, CloseCall(clients, files, c, a).files)
<1> DEFINE t == findOnlineClient(clients, a)
           code == CloseCallError(clients, c, a)
           idle == [clients EXCEPT ![c].statusCall = "NONE", ![t].statusCall = "NONE"]
<1>1. CASE code \notin {"OK", "CANNOT_SAVE_DATA"}
  BY <1>1 DEF CloseCall, SavesSessions
<1>2. CASE code \in {"OK", "CANNOT_SAVE_DATA"}
  <2>1. t \in Slot /\ clients[t].isConnected /\ clients[c].isConnected
    BY <1>2, FindOnline DEF CloseCallError
  <2>2. idle \in Clients /\ SameLogins(clients, idle)
    BY <2>1, CallFieldTypes, FieldLogins DEF StatusCall
  <2>3. CloseCall(clients, files, c, a).files = StoreBoth(files, idle[c], idle[t])
    BY <1>2 DEF CloseCall
  <2> HIDE DEF t, idle
  <2>4. SameLogins(client, idle) /\ c \in Session /\ t \in Session
    BY <2>1, <2>2 DEF SameLogins, Session
  <2>5. OfSession(idle[c]) /\ OfSession(idle[t])
    BY <2>2, <2>4, SessionObjects
  <2>6. QED
    BY <2>3, <2>5, SessionSaves
<1>3. QED
  BY <1>1, <1>2

LEMMA CloseConnectionHeld ==
    ASSUME TypeOK, LoginInv, NEW c \in Slot, NEW s \in Slot,
           CloseConnection(c).clients[s].isConnected
    PROVE  Held(CloseConnection(c).files, client[s].account)
<1> DEFINE left == [client EXCEPT ![c] = Disconnected(@)]
           off == [left EXCEPT ![c].handshaked = FALSE, ![c].listed = FALSE]
           Off == [client EXCEPT ![c].handshaked = FALSE, ![c].listed = FALSE]
<1>1. client \in Clients /\ file \in Files /\ SessionsAreNamed /\ AllHeld(file)
  BY LoginInvFacts DEF TypeOK, Clients, Files
<1>2. CASE ~client[c].listed
  BY <1>1, <1>2 DEF CloseConnection, AllHeld, Session
<1>3. CASE client[c].listed /\ ~client[c].isConnected
  <2>1. CloseConnection(c).clients = Off /\ CloseConnection(c).files = file
    BY <1>3 DEF CloseConnection
  <2>2. Off[s].isConnected = client[s].isConnected
    BY <1>1 DEF Clients, ClientRec
  <2>3. QED
    BY <1>1, <2>1, <2>2 DEF AllHeld, Session
<1>4. CASE client[c].listed /\ client[c].isConnected
  <2>1. CloseConnection(c).clients = off /\ CloseConnection(c).files = Store(file, left[c])
    BY <1>4 DEF CloseConnection
  <2>2. /\ left \in Clients /\ left[c].account = client[c].account
        /\ ~left[c].isConnected
        /\ \A r \in Slot \ {c} : left[r] = client[r]
    BY <1>1, RecordTypes, RecordLogins DEF Clients
  <2>3. off[s].isConnected = left[s].isConnected
    <3> HIDE DEF left
    <3>1. QED
      BY <2>2 DEF Clients, ClientRec
  <2> HIDE DEF left, off
  <2>4. s # c /\ client[s].isConnected /\ client[s].account # client[c].account
    BY <1>4, <2>1, <2>2, <2>3 DEF LoginInv, NoDoubleLogin, Session
  <2>5. client[s].account \in Account /\ Held(file, client[s].account)
    BY <1>1, <2>4 DEF AllHeld, SessionsAreNamed, Session
  <2>6. left[c] \in ClientRec
    BY <2>2 DEF Clients
  <2>7. QED
    BY <1>1, <2>1, <2>2, <2>4, <2>5, <2>6, StoreHeld
<1>5. QED
  BY <1>2, <1>3, <1>4

-----------------------------------------------------------------------------
(* The handlers *)

LEMMA ConnectionHeld ==
    ASSUME TypeOK, LoginInv, NEW c \in Slot, Connection(c) \/ onHandshake(c)
    PROVE  LoginInv'
<1>1. NobodyLogsIn(client, client')
  BY ConnectionLogins
<1>2. UNCHANGED <<up, mAccounts, unwritable>>
  BY DEF Connection, onNewConnection, onSocketClosed, StrayCommand, onHandshake, Become
<1>3. CASE onNewConnection(c) \/ onHandshake(c)
  <2>1. file' = file
    BY <1>3 DEF onNewConnection, onHandshake, Become
  <2>2. QED
    BY <1>1, <1>2, <2>1, LoginInvFacts, AllHeldIsEnough
<1>4. CASE onSocketClosed(c)
  <2>1. ASSUME NEW s \in Slot, client'[s].isConnected
        PROVE  CloseConnection(c).clients[s].isConnected /\ file' = CloseConnection(c).files
    BY <1>4, <2>1, CloseConnectionTypes DEF onSocketClosed, Become, NoClient, Clients
  <2>2. QED
    BY <1>1, <1>2, <2>1, CloseConnectionHeld, StaysHeld
<1>5. CASE StrayCommand(c)
  <2>1. client' = CloseConnection(c).clients /\ file' = CloseConnection(c).files
    BY <1>5 DEF StrayCommand, Become
  <2>2. QED
    BY <1>1, <1>2, <2>1, CloseConnectionHeld, StaysHeld
<1>6. QED
  BY <1>3, <1>4, <1>5 DEF Connection

LEMMA RegHeld ==
    ASSUME TypeOK, LoginInv, NEW c \in Slot, NEW a \in Account, NEW pseudo \in Pseudo,
           NEW password \in Password, onReg(c, a, pseudo, password)
    PROVE  LoginInv'
<1> DEFINE code == RegError(c, a)
           fresh == [client[c] EXCEPT !.account = a, !.pseudo = pseudo,
                                      !.status = DISCONNECTED, !.statusCall = "NONE",
                                      !.contact = {}, !.isConnected = FALSE]
<1>1. client \in Clients /\ file \in Files /\ SessionsAreNamed /\ AllHeld(file)
  BY LoginInvFacts DEF TypeOK, Clients, Files
<1>2. NobodyLogsIn(client, client')
  BY AccountLogins
<1>3. CASE code \notin {"OK", "CANNOT_SAVE_DATA"}
  BY <1>1, <1>2, <1>3, AllHeldIsEnough DEF onReg, memory, disk
<1>4. CASE code \in {"OK", "CANNOT_SAVE_DATA"}
  <2>1. fresh \in ClientRec /\ fresh.account = a
    BY <1>1, StatusTypes DEF Clients, ClientRec, StatusCall
  <2>2. /\ client' = [client EXCEPT ![c] = fresh]
        /\ file' = Store(file, fresh)
        /\ mAccounts' = IF code = "OK" THEN [mAccounts EXCEPT ![a] = password] ELSE mAccounts
        /\ UNCHANGED <<up, accountsFile, unwritable>>
    BY <1>4 DEF onReg
  <2>3. mAccounts[a] = Null
    BY <1>4 DEF RegError
  <2>4. \A b \in Account : mAccounts[b] # Null => mAccounts'[b] # Null
    BY <2>2, <2>3 DEF TypeOK
  <2>5. ASSUME NEW s \in Slot, client'[s].isConnected
        PROVE  Held(file', client[s].account)
    <3>1. client[s].isConnected
      BY <1>2, <2>5 DEF NobodyLogsIn
    <3>2. client[s].account \in Account /\ client[s].account # a /\ Held(file, client[s].account)
      BY <1>1, <2>3, <3>1 DEF SessionsAreNamed, AllHeld, Session, LoginInv, SessionHoldsFile
    <3> HIDE DEF fresh
    <3>3. QED
      BY <1>1, <2>1, <2>2, <3>2, StoreHeld
  <2>6. QED
    BY <1>2, <2>2, <2>4, <2>5, StaysHeld
<1>5. QED
  BY <1>3, <1>4

\* A login finds the account's flag clear, so no session holds it; as the file
\* can be saved, the new session does.
LEMMA LogHeld ==
    ASSUME TypeOK, LoginInv, NEW c \in Slot, NEW a \in Account, NEW password \in Password,
           onLog(c, a, password)
    PROVE  LoginInv'
<1> DEFINE code == LogError(c, a, password)
           in == Connected(Loaded(client[c], a))
<1>1. client \in Clients /\ file \in Files /\ SessionsAreNamed /\ AllHeld(file)
  BY LoginInvFacts DEF TypeOK, Clients, Files
<1>2. CASE code \notin {"OK", "CANNOT_SAVE_DATA"}
  <2>1. UNCHANGED <<memory, disk>>
    BY <1>2 DEF onLog, Send
  <2>2. QED
    BY <1>1, <2>1, AllHeldIsEnough DEF memory, disk, NobodyLogsIn
<1>3. CASE code \in {"OK", "CANNOT_SAVE_DATA"}
  <2>1. /\ client' = [client EXCEPT ![c] = in]
        /\ file' = Store(file, in)
        /\ UNCHANGED <<up, mAccounts, unwritable>>
    BY <1>3 DEF onLog, Become
  <2>2. mAccounts[a] = password /\ ~file[a].isConnected
    BY <1>3 DEF LogError
  <2>3. in \in ClientRec /\ in.account = a /\ in.isConnected
    <3>1. Loaded(client[c], a) \in ClientRec /\ Loaded(client[c], a).account = a
      BY <1>1 DEF Loaded, Clients, Files, ClientRec, FileRec
    <3>2. QED
      BY <3>1, RecordTypes, RecordLogins
  <2> HIDE DEF in
  <2>4. \A s \in Session : client[s].account # a
    BY <1>1, <2>2 DEF AllHeld, Held
  <2>5. Held(file', a)
    BY <1>1, <2>1, <2>3 DEF Held, Store, Image, Files, LoginInv
  <2>6. \A s \in Session : Held(file', client[s].account)
    BY <1>1, <2>1, <2>3, StoreHeld DEF AllHeld, SessionsAreNamed
  <2>7. \A s \in Slot : client'[s] = IF s = c THEN in ELSE client[s]
    BY <1>1, <2>1 DEF Clients
  <2>8. mAccounts[a] # Null
    BY <2>2, NullAssumption
  <2>9. NoDoubleLogin'
    BY <2>3, <2>4, <2>7 DEF LoginInv, NoDoubleLogin, Session
  <2>10. SessionHoldsFile'
    BY <2>1, <2>3, <2>5, <2>6, <2>7, <2>8
    DEF LoginInv, SessionHoldsFile, Session, Held
  <2>11. up
    BY DEF onLog, Serves
  <2>12. QED
    BY <2>1, <2>9, <2>10, <2>11 DEF LoginInv
<1>4. QED
  BY <1>2, <1>3

LEMMA UpdateHeld ==
    ASSUME TypeOK, LoginInv, NEW c \in Slot, NEW a \in Account, NEW pseudo \in Pseudo,
           NEW password \in Password, NEW status \in StatusByte,
           onUpdate(c, a, pseudo, password, status)
    PROVE  LoginInv'
<1> DEFINE code == UpdateError(c, a, status)
           clients == [client EXCEPT ![c].pseudo = pseudo, ![c].status = status]
<1>1. client \in Clients /\ file \in Files /\ SessionsAreNamed /\ AllHeld(file)
  BY LoginInvFacts DEF TypeOK, Clients, Files
<1>2. NobodyLogsIn(client, client') /\ UNCHANGED <<up, unwritable>>
  BY AccountLogins DEF onUpdate, Become, Send, memory, disk
<1>3. \A b \in Account : mAccounts[b] # Null => mAccounts'[b] # Null
  BY NullAssumption DEF onUpdate, Become, Send, memory, TypeOK
<1>4. AllHeld(file')
  <2>1. CASE file' = file
    BY <1>1, <2>1
  <2>2. CASE code = "OK" /\ file' = Store(file, clients[c])
    <3>1. clients \in Clients /\ SameLogins(client, clients)
      BY <1>1, <2>2, ProfileTypes, FieldLogins DEF UpdateError
    <3> HIDE DEF clients
    <3>2. OfSession(clients[c])
      BY <2>2, <3>1, SessionObjects DEF UpdateError, Session
    <3>3. QED
      BY <1>1, <2>2, <3>2, SessionSaves, SavesKeepFlags
  <2>3. QED
    BY <2>1, <2>2 DEF onUpdate, Become, Send, disk
<1>5. QED
  BY <1>2, <1>3, <1>4, StaysHeld DEF AllHeld, NobodyLogsIn, Session

\* An exit clears the flag of its own account only: no other session has it.
LEMMA ExitHeld ==
    ASSUME TypeOK, LoginInv, NEW c \in Slot, onExit(c)
    PROVE  LoginInv'
<1> DEFINE left(clients) == [clients EXCEPT ![c] = Disconnected(@)]
           reset(clients) == [left(clients) EXCEPT ![c] = ResetAttributes(@)]
           leaves(closed) == /\ client' = reset(closed.clients)
                             /\ file' = Store(closed.files, left(closed.clients)[c])
                             /\ UNCHANGED <<up, mAccounts, unwritable>>
<1>1. client \in Clients /\ file \in Files /\ SessionsAreNamed /\ AllHeld(file)
  BY LoginInvFacts DEF TypeOK, Clients, Files
<1>2. NobodyLogsIn(client, client')
  BY ExitLogins
<1>3. ASSUME NEW closed, closed.clients \in Clients, SameLogins(client, closed.clients),
             closed.files \in Files, AllHeld(closed.files), leaves(closed),
             client[c].isConnected
      PROVE  LoginInv'
  <2> DEFINE gone == left(closed.clients)
  <2>1. /\ gone \in Clients /\ gone[c] \in ClientRec
        /\ gone[c].account = client[c].account /\ ~gone[c].isConnected
    BY <1>3, RecordTypes, RecordLogins DEF Clients, SameLogins
  <2>2. ~client'[c].isConnected
    <3> HIDE DEF gone
    <3>1. client'[c] = ResetAttributes(gone[c])
      BY <1>3, <2>1 DEF Clients, gone
    <3>2. QED
      BY <2>1, <3>1, RecordLogins
  <2> HIDE DEF left, reset
  <2>3. ASSUME NEW s \in Slot, client'[s].isConnected
        PROVE  Held(file', client[s].account)
    <3>1. s # c /\ client[s].isConnected
      BY <1>2, <2>2, <2>3 DEF NobodyLogsIn
    <3>2. client[s].account # client[c].account
      BY <1>3, <3>1 DEF LoginInv, NoDoubleLogin, Session
    <3>3. client[s].account \in Account /\ Held(closed.files, client[s].account)
      BY <1>1, <1>3, <3>1 DEF AllHeld, SessionsAreNamed, Session
    <3>4. file' = Store(closed.files, gone[c])
      BY <1>3
    <3> HIDE DEF gone
    <3>5. QED
      BY <1>3, <2>1, <3>2, <3>3, <3>4, StoreHeld
  <2>4. UNCHANGED <<up, mAccounts, unwritable>>
    BY <1>3
  <2>5. QED
    BY <1>2, <2>3, <2>4, StaysHeld
<1>4. CASE UNCHANGED <<memory, disk>>
  BY <1>1, <1>2, <1>4, AllHeldIsEnough DEF memory, disk
<1>5. CASE client[c].isConnected /\ leaves([clients |-> client, files |-> file, sent |-> {}])
  <2> DEFINE same == [clients |-> client, files |-> file, sent |-> {}]
  <2>1. /\ same.clients \in Clients /\ SameLogins(client, same.clients)
        /\ same.files \in Files /\ AllHeld(same.files)
    BY <1>1 DEF SameLogins
  <2> HIDE DEF same, leaves
  <2>2. leaves(same)
    BY <1>5 DEF same
  <2>3. QED
    BY <1>3, <1>5, <2>1, <2>2
<1>6. ASSUME NEW a, client[c].isConnected, leaves(CloseCall(client, file, c, a))
      PROVE  LoginInv'
  <2>1. AllHeld(CloseCall(client, file, c, a).files)
    BY <1>1, CloseCallSaves, SavesKeepFlags DEF SameLogins
  <2>2. QED
    BY <1>1, <1>3, <1>6, <2>1, CloseCallTypes, CloseCallLogins
<1>7. CASE Die(file, accountsFile)
  BY <1>7, DieHeld
<1>8. QED
  BY <1>4, <1>5, <1>6, <1>7 DEF onExit, Become, Send

LEMMA CallSaves ==
    ASSUME TypeOK, SessionsAreNamed, NEW c \in Slot, NEW a \in Account, NEW accept \in BOOLEAN,
           onCall(c, a) \/ onAcceptCall(c, a, accept) \/ onCloseCall(c, a)
    PROVE  SavesSessions(file, file') /\ UNCHANGED <<up, mAccounts, unwritable>>
<1> DEFINE t == findOnlineClient(client, a)
           ringing == [client EXCEPT ![c].statusCall = "ISWAITING",
                                     ![t].statusCall = "ISWAITING"]
           talking == [client EXCEPT ![t].statusCall = "ISCALLING",
                                     ![c].statusCall = "ISCALLING"]
           refused == [client EXCEPT ![c].statusCall = "NONE"]
<1>1. client \in Clients /\ file \in Files
  BY DEF TypeOK, Clients, Files
<1>2. UNCHANGED <<up, mAccounts, unwritable>>
  BY DEF onCall, onAcceptCall, onCloseCall, Become, Send, memory, disk
<1>3. SUFFICES SavesSessions(file, file')
  BY <1>2
<1>4. ASSUME NEW clients \in Clients, SameLogins(client, clients), t \in Session, c \in Session
      PROVE  /\ SavesSessions(file, Store(file, clients[c]))
             /\ SavesSessions(file, StoreBoth(file, clients[c], clients[t]))
             /\ SavesSessions(file, StoreBoth(file, clients[t], clients[c]))
  BY <1>1, <1>4, SessionObjects, SessionSaves
<1>5. CASE file' = file
  BY <1>5 DEF SavesSessions
<1>6. CASE onCall(c, a) /\ CallError(c, a) = "OK"
  <2>1. t \in Session /\ c \in Session
    BY <1>6, FindOnline DEF CallError, Session
  <2>2. ringing \in Clients /\ SameLogins(client, ringing)
    BY <1>1, <2>1, CallFieldTypes, FieldLogins DEF StatusCall, Session
  <2>3. file' = StoreBoth(file, ringing[c], ringing[t])
    BY <1>6 DEF onCall, Become
  <2> HIDE DEF ringing, t
  <2>4. QED
    BY <1>4, <2>1, <2>2, <2>3
<1>7. CASE onAcceptCall(c, a, accept) /\ AcceptCallError(c, a) = "OK"
  <2>1. t \in Session /\ c \in Session
    BY <1>7, FindOnline DEF AcceptCallError, Session
  <2>2. talking \in Clients /\ SameLogins(client, talking)
    BY <1>1, <2>1, CallFieldTypes, FieldLogins DEF StatusCall, Session
  <2>3. refused \in Clients
    BY <1>1 DEF Clients, ClientRec, StatusCall
  <2>4. SameLogins(client, refused)
    BY <1>1, FieldLogins
  <2>5. file' \in {file, StoreBoth(file, talking[t], talking[c]), Store(file, refused[c])}
    BY <1>7 DEF onAcceptCall, Become
  <2> HIDE DEF talking, refused, t
  <2>6. QED
    BY <1>4, <1>5, <2>1, <2>2, <2>3, <2>4, <2>5
<1>8. CASE onCloseCall(c, a)
  BY <1>1, <1>8, CloseCallSaves DEF onCloseCall, Become, SameLogins
<1>9. QED
  BY <1>5, <1>6, <1>7, <1>8 DEF onCall, onAcceptCall, Send, disk

\* onDel saves an offline account's file as it read it, but for one contact.
LEMMA ContactSaves ==
    ASSUME TypeOK, SessionsAreNamed, NEW c \in Slot, NEW a \in Account, NEW accept \in BOOLEAN,
           onAcceptAdd(c, a, accept) \/ onDel(c, a)
    PROVE  \/ SavesSessions(file, file') /\ UNCHANGED <<up, mAccounts, unwritable>>
           \/ \E files : Die(files, accountsFile)
<1> DEFINE me == client[c].account
           t == findOnlineClient(client, a)
           added == [client EXCEPT ![t].contact = @ \cup {me}]
           clients == [added EXCEPT ![c].contact = @ \cup {a}]
           mine == [client EXCEPT ![c].contact = @ \ {a}]
           both == [mine EXCEPT ![t].contact = @ \ {me}]
           theirs == [file[a] EXCEPT !.contact = @ \ {me}]
           fileMine == Store(file, mine[c])
           fileBoth == Store(fileMine, both[t])
<1>1. client \in Clients /\ file \in Files
  BY DEF TypeOK, Clients, Files
<1>2. CASE UNCHANGED <<memory, disk>>
  BY <1>2 DEF memory, disk, SavesSessions
<1>3. ASSUME c \in Session, t # Null
      PROVE  /\ t \in Session
             /\ clients \in Clients /\ SameLogins(client, clients)
             /\ both \in Clients /\ SameLogins(client, both)
  <2>1. t \in Slot /\ t \in Session
    BY <1>3, FindOnline DEF Session
  <2>2. me \in Account
    BY <1>3 DEF SessionsAreNamed
  <2>3. added \in Clients /\ SameLogins(client, added)
    <3>1. added \in Clients
      BY <1>1, <2>1, <2>2 DEF Clients, ClientRec
    <3>2. SameLogins(client, added)
      BY <1>1, <2>1 DEF SameLogins, Clients, ClientRec
    <3>3. QED
      BY <3>1, <3>2
  <2>4. clients \in Clients /\ SameLogins(added, clients)
    <3> HIDE DEF added
    <3>1. clients \in Clients
      BY <2>3 DEF Clients, ClientRec
    <3>2. SameLogins(added, clients)
      BY <2>3 DEF SameLogins, Clients, ClientRec
    <3>3. QED
      BY <3>1, <3>2
  <2>5. mine \in Clients /\ SameLogins(client, mine)
    <3>1. mine \in Clients
      BY <1>1 DEF Clients, ClientRec
    <3>2. SameLogins(client, mine)
      BY <1>1 DEF SameLogins, Clients, ClientRec
    <3>3. QED
      BY <3>1, <3>2
  <2>6. both \in Clients /\ SameLogins(mine, both)
    <3> HIDE DEF mine, t, me
    <3>1. both \in Clients
      BY <2>1, <2>5 DEF Clients, ClientRec
    <3>2. SameLogins(mine, both)
      BY <2>1, <2>5 DEF SameLogins, Clients, ClientRec
    <3>3. QED
      BY <3>1, <3>2
  <2> HIDE DEF added, clients, mine, both, t, me
  <2>7. QED
    BY <2>1, <2>3, <2>4, <2>5, <2>6 DEF SameLogins
<1>4. ASSUME c \in Session
      PROVE  /\ fileMine \in Files /\ SavesSessions(file, fileMine)
             /\ SavesSessions(file, [fileMine EXCEPT ![a] = theirs])
  <2>1. mine[c] \in ClientRec /\ OfSession(mine[c])
    BY <1>1, <1>4 DEF Clients, ClientRec, OfSession, Session
  <2> HIDE DEF mine
  <2>2. fileMine \in Files /\ SavesSessions(file, fileMine)
    BY <1>1, <2>1, StoreTypes, SessionSaves
  <2>3. theirs.state = file[a].state /\ theirs.isConnected = file[a].isConnected
    BY <1>1 DEF Files, FileRec
  <2> HIDE DEF fileMine, theirs
  <2>4. SavesSessions(file, [fileMine EXCEPT ![a] = theirs])
    BY <1>1, <2>2, <2>3 DEF SavesSessions, Held, Files
  <2>5. QED
    BY <2>2, <2>4
<1> HIDE DEF me, t, added, clients, mine, both, theirs, fileMine, fileBoth
<1>5. ASSUME c \in Session, t # Null
      PROVE  SavesSessions(file, fileBoth) /\ fileBoth \in Files
  <2>1. both[t] \in ClientRec /\ OfSession(both[t])
    BY <1>3, <1>5, SessionObjects DEF OfSession
  <2>2. QED
    BY <1>4, <1>5, <2>1, StoreTypes, SessionSaves, SavesCompose DEF fileBoth
<1>6. CASE onAcceptAdd(c, a, accept)
  <2>1. CASE AcceptAddError(c, a) # "OK" \/ ~accept
    BY <1>2, <1>6, <2>1 DEF onAcceptAdd, Send
  <2>2. CASE AcceptAddError(c, a) = "OK" /\ accept
    <3>1. c \in Session /\ t # Null
      BY <2>2 DEF AcceptAddError, t, Session
    <3>2. \/ /\ file' = StoreBoth(file, clients[c], clients[t])
             /\ UNCHANGED <<up, mAccounts, unwritable>>
          \/ Die(Store(file, clients[c]), accountsFile)
      BY <1>6, <2>2 DEF onAcceptAdd, Become, t, me, added, clients
    <3>3. SavesSessions(file, StoreBoth(file, clients[c], clients[t]))
      BY <1>1, <1>3, <3>1, SessionObjects, SessionSaves
    <3>4. QED
      BY <3>2, <3>3
  <2>3. QED
    BY <2>1, <2>2
<1>7. CASE onDel(c, a)
  <2>1. CASE DelError(c, a) # "OK"
    BY <1>2, <1>7, <2>1 DEF onDel, Send
  <2>2. CASE DelError(c, a) = "OK"
    <3>1. c \in Session
      BY <2>2 DEF DelError, Session
    <3>2. \/ /\ UNCHANGED <<up, mAccounts, unwritable>>
             /\ \/ file' \in {file, fileMine, [fileMine EXCEPT ![a] = theirs]}
                \/ t # Null /\ file' = fileBoth
                \/ t # Null /\ file' = CloseCall(both, fileBoth, c, a).files
          \/ Die(fileBoth, accountsFile)
          \/ Die(fileMine, accountsFile)
      BY <1>7, <2>2 DEF onDel, Become, t, me, mine, both, theirs, fileMine, fileBoth
    <3>3. t # Null => SavesSessions(file, CloseCall(both, fileBoth, c, a).files)
      BY <1>3, <1>5, <3>1, CloseCallSaves, SavesCompose
    <3>4. SavesSessions(file, file)
      BY DEF SavesSessions
    <3>5. QED
      BY <1>4, <1>5, <3>1, <3>2, <3>3, <3>4
  <2>3. QED
    BY <2>1, <2>2
<1>8. QED
  BY <1>6, <1>7

LEMMA CallHeld ==
    ASSUME TypeOK, LoginInv, NEW c \in Slot, NEW a \in Account, NEW accept \in BOOLEAN,
           onCall(c, a) \/ onAcceptCall(c, a, accept) \/ onCloseCall(c, a)
    PROVE  LoginInv'
<1>1. NobodyLogsIn(client, client')
  BY CallLogins DEF NobodyLogsIn, SameLogins
<1>2. AllHeld(file') /\ UNCHANGED <<up, mAccounts, unwritable>>
  BY LoginInvFacts, CallSaves, SavesKeepFlags
<1>3. QED
  BY <1>1, <1>2, AllHeldIsEnough

LEMMA ContactHeld ==
    ASSUME TypeOK, LoginInv, NEW c \in Slot, NEW a \in Account, NEW accept \in BOOLEAN,
           onAcceptAdd(c, a, accept) \/ onDel(c, a)
    PROVE  LoginInv'
<1>1. CASE \E files : Die(files, accountsFile)
  BY <1>1, DieHeld
<1>2. CASE ~\E files : Die(files, accountsFile)
  <2>1. NobodyLogsIn(client, client')
    BY <1>2, LoginInvFacts, ContactLogins DEF NobodyLogsIn, SameLogins
  <2>2. AllHeld(file') /\ UNCHANGED <<up, mAccounts, unwritable>>
    BY <1>2, LoginInvFacts, ContactSaves, SavesKeepFlags
  <2>3. QED
    BY <2>1, <2>2, AllHeldIsEnough
<1>3. QED
  BY <1>1, <1>2

LEMMA UnchangedHeld ==
    ASSUME TypeOK, LoginInv, UNCHANGED <<memory, disk>>
    PROVE  LoginInv'
BY LoginInvFacts, AllHeldIsEnough DEF memory, disk, NobodyLogsIn

\* What a connection brings keeps the files held, also when saves may fail.
LEMMA SlotHeld ==
    ASSUME TypeOK, LoginInv, NEW c \in Slot, Connection(c) \/ Request(c)
    PROVE  LoginInv'
<1>1. CASE Connection(c) \/ onHandshake(c)
  BY <1>1, ConnectionHeld
<1>2. CASE onExit(c)
  BY <1>2, ExitHeld
<1>3. CASE onList(c)
  BY UnchangedHeld, <1>3 DEF onList, Send
<1>4. ASSUME NEW a \in Account, onShow(c, a) \/ onAdd(c, a) \/ onSend(c, a)
      PROVE  LoginInv'
  BY UnchangedHeld, <1>4 DEF onShow, onAdd, onSend, Send
<1>5. ASSUME NEW a \in Account, NEW accept \in BOOLEAN,
             \/ onDel(c, a) \/ onAcceptAdd(c, a, accept)
             \/ onCall(c, a) \/ onCloseCall(c, a) \/ onAcceptCall(c, a, accept)
      PROVE  LoginInv'
  BY <1>5, ContactHeld, CallHeld
<1>6. ASSUME NEW a \in Account, NEW pseudo \in Pseudo, NEW password \in Password,
             onReg(c, a, pseudo, password)
      PROVE  LoginInv'
  BY <1>6, RegHeld
<1>7. ASSUME NEW a \in Account, NEW password \in Password, onLog(c, a, password)
      PROVE  LoginInv'
  BY <1>7, LogHeld
<1>8. ASSUME NEW a \in Account, NEW pseudo \in Pseudo, NEW password \in Password,
             NEW status \in StatusByte, onUpdate(c, a, pseudo, password, status)
      PROVE  LoginInv'
  BY <1>8, UpdateHeld
<1>9. QED
  BY <1>1, <1>2, <1>3, <1>4, <1>5, <1>6, <1>7, <1>8 DEF Request

LEMMA EnvironmentHeld ==
    ASSUME TypeOK, LoginInv, ~SavesMayFail, Environment
    PROVE  LoginInv'
<1>1. CASE Shutdown \/ Crash
  BY <1>1, DieHeld DEF Shutdown, Crash
<1>2. CASE Start
  BY <1>2 DEF Start, startServer, importedAccounts, LoginInv, NoDoubleLogin, SessionHoldsFile, Session
<1>3. QED
  BY <1>1, <1>2 DEF Environment, DiskFault

LEMMA NextHeld ==
    ASSUME TypeOK, LoginInv, ~SavesMayFail, [Next]_vars
    PROVE  LoginInv'
BY UnchangedHeld, SlotHeld, EnvironmentHeld DEF Next, vars

LEMMA LoginInvariant ==
    ASSUME ~SavesMayFail
    PROVE  Spec => [](TypeOK /\ LoginInv)
<1> DEFINE Inv == TypeOK /\ LoginInv
<1>1. Init => Inv
  <2>1. Init => LoginInv
    BY DEF Init, LoginInv, NoDoubleLogin, SessionHoldsFile, Session, NoClient
  <2>2. Init => TypeOK
    BY InitTypes
  <2>3. QED
    BY <2>1, <2>2
<1>2. Inv /\ [Next]_vars => Inv'
  BY LoginInvFacts, NextTypes, NextHeld
<1>3. QED
  BY <1>1, <1>2, PTL DEF Spec

\* No account is logged in twice, whatever clients send in whatever order, also
\* when connections are lost and the server is killed and started again, as
\* long as user files can be saved.
THEOREM NoDoubleLoginHolds ==
    ASSUME ~SavesMayFail
    PROVE  Spec => []NoDoubleLogin
<1>1. TypeOK /\ LoginInv => NoDoubleLogin
  BY DEF LoginInv
<1>2. QED
  BY <1>1, LoginInvariant, PTL

\* Every session belongs to a registered account whose user file says that it
\* is logged in: no registration, deletion, update or start takes it away.
THEOREM SessionHoldsFileHolds ==
    ASSUME ~SavesMayFail
    PROVE  Spec => []SessionHoldsFile
<1>1. TypeOK /\ LoginInv => SessionHoldsFile
  BY DEF LoginInv
<1>2. QED
  BY <1>1, LoginInvariant, PTL
-----------------------------------------------------------------------------
(* The registry of sessions *)

\* What the registry sees of the server: the registered accounts, the accounts
\* marked as logged in on disk, and the account of each session.
Known == {a \in Account : mAccounts[a] # Null}
Flagged == {a \in Account : file[a].isConnected}
Holder == [s \in Slot |-> IF client[s].isConnected THEN client[s].account ELSE Null]
NoHolder == [s \in Slot |-> Null]

\* The kinds of steps.
Keeps == UNCHANGED <<up, Known, Flagged, Holder>>
Registers(a) ==
    /\ up /\ up' /\ a \notin Known
    /\ Known' = Known \cup {a} /\ Flagged' = Flagged \ {a} /\ Holder' = Holder
LogsIn(c, a) ==
    /\ up /\ up' /\ Holder[c] = Null /\ a \in Known \ Flagged
    /\ Known' = Known /\ Flagged' = Flagged \cup {a} /\ Holder' = [Holder EXCEPT ![c] = a]
LogsOut(c) ==
    /\ up /\ up' /\ client[c].isConnected
    /\ Known' = Known /\ Flagged' = Flagged \ {Holder[c]}
    /\ Holder' = [Holder EXCEPT ![c] = Null]
Drops(c) ==
    /\ up /\ up' /\ client[c].isConnected /\ ~(client[c].alive /\ client[c].listed)
    /\ Known' = Known /\ Flagged' = Flagged /\ Holder' = [Holder EXCEPT ![c] = Null]
Stops == up' = FALSE /\ Known' = {} /\ Holder' = NoHolder
Starts == ~up /\ up' /\ Flagged' = {} /\ Holder' = Holder

LoginStep ==
    \/ Keeps
    \/ \E a \in Account : Registers(a)
    \/ \E c \in Slot, a \in Account : LogsIn(c, a)
    \/ \E c \in Slot : LogsOut(c) \/ Drops(c)
    \/ Stops
    \/ Starts

\* Nothing is registered and nobody logged in while the server is down.
DownIsEmpty == ~up => Known = {} /\ Holder = NoHolder

LEMMA SameHolder ==
    ASSUME SameLogins(client, client')
    PROVE  Holder' = Holder
BY DEF SameLogins, Holder

LEMMA DieStops ==
    ASSUME NEW files, NEW accounts, Die(files, accounts)
    PROVE  Stops
BY DEF Die, Stops, Known, Holder, NoHolder, NoClient

\* Saving r sets the flag of r's account to whether r is logged in.
LEMMA StoreMarks ==
    ASSUME NEW files \in Files, NEW r \in ClientRec, r.account \in Account, unwritable = {}
    PROVE  Marked(Store(files, r)) = IF r.isConnected THEN Marked(files) \cup {r.account}
                                     ELSE Marked(files) \ {r.account}
BY DEF Marked, Store, Image, Files, FileRec, ClientRec

LEMMA SessionsMarked ==
    ASSUME TypeOK, LoginInv
    PROVE  /\ client \in Clients /\ file \in Files /\ unwritable = {}
           /\ Flagged = Marked(file) /\ Flagged' = Marked(file')
           /\ \A s \in Slot : client[s].isConnected =>
                 /\ client[s].account \in Account
                 /\ client[s].account \in Marked(file)
                 /\ client[s].account \in Known
                 /\ Holder[s] = client[s].account
BY DEF TypeOK, Clients, Files, LoginInv, Flagged, Marked, SessionHoldsFile, Session, Known, Holder
LEMMA SameMarksKeep ==
    ASSUME TypeOK, LoginInv, SameLogins(client, client'), Marked(file') = Marked(file),
           up' = up, Known' = Known
    PROVE  Keeps
BY SessionsMarked, SameHolder DEF Keeps

LEMMA HolderChange ==
    ASSUME TypeOK, NEW c \in Slot,
           \A s \in Slot \ {c} : /\ client'[s].isConnected = client[s].isConnected
                                 /\ client'[s].account = client[s].account
    PROVE  /\ ~client'[c].isConnected => Holder' = [Holder EXCEPT ![c] = Null]
           /\ client'[c].isConnected =>
                 Holder' = [Holder EXCEPT ![c] = client'[c].account]
BY DEF Holder

LEMMA ConnectionSteps ==
    ASSUME TypeOK, LoginInv, NEW c \in Slot, Connection(c) \/ onHandshake(c)
    PROVE  LoginStep
<1> DEFINE left == [client EXCEPT ![c] = Disconnected(@)]
           off(clients) == [clients EXCEPT ![c].handshaked = FALSE, ![c].listed = FALSE]
<1>1. client \in Clients /\ file \in Files /\ unwritable = {}
  BY SessionsMarked
<1>2. up /\ up' /\ Known' = Known
  BY DEF Connection, onNewConnection, Accepts, onSocketClosed, StrayCommand, onHandshake,
         Become, Known
<1>3. ASSUME \A s \in Slot \ {c} : client'[s] = client[s], ~client'[c].isConnected,
             file' = file, client[c].isConnected => ~(client[c].alive /\ client[c].listed)
      PROVE  LoginStep
  <2>1. Holder' = [Holder EXCEPT ![c] = Null] /\ Flagged' = Flagged
    BY <1>3, HolderChange DEF Flagged
  <2>2. CASE client[c].isConnected
    BY <1>2, <1>3, <2>1, <2>2 DEF LoginStep, Drops
  <2>3. CASE ~client[c].isConnected
    <3>1. Holder' = Holder
      BY <2>1, <2>3 DEF Holder
    <3>2. QED
      BY <1>2, <2>1, <3>1 DEF LoginStep, Keeps
  <2>4. QED
    BY <2>2, <2>3
<1>4. ASSUME \A s \in Slot \ {c} : client'[s] = client[s], ~client'[c].isConnected,
             file' = Store(file, left[c]), client[c].isConnected
      PROVE  LoginStep
  <2>1. Holder' = [Holder EXCEPT ![c] = Null]
    BY <1>4, HolderChange
  <2>2. /\ left[c] \in ClientRec /\ ~left[c].isConnected
        /\ left[c].account = client[c].account
    BY <1>1, RecordTypes, RecordLogins DEF Clients
  <2>3. client[c].account \in Account /\ Holder[c] = client[c].account
    BY <1>4, SessionsMarked
  <2> HIDE DEF left
  <2>4. Flagged' = Flagged \ {Holder[c]}
    BY <1>1, <1>4, <2>2, <2>3, StoreMarks, SessionsMarked
  <2>5. QED
    BY <1>2, <1>4, <2>1, <2>4 DEF LoginStep, LogsOut
<1>5. ASSUME NEW clients \in Clients
      PROVE  /\ \A s \in Slot \ {c} : off(clients)[s] = clients[s]
             /\ off(clients)[c].isConnected = clients[c].isConnected
             /\ SameLogins(clients, off(clients))
  <2>1. /\ \A s \in Slot \ {c} : off(clients)[s] = clients[s]
        /\ off(clients)[c].isConnected = clients[c].isConnected
    BY DEF Clients, ClientRec
  <2>2. SameLogins(clients, off(clients))
    BY DEF SameLogins, Clients, ClientRec
  <2>3. QED
    BY <2>1, <2>2
<1>6. left \in Clients /\ ~left[c].isConnected /\ \A s \in Slot \ {c} : left[s] = client[s]
  BY <1>1, RecordTypes, RecordLogins DEF Clients
<1>7. /\ ~client[c].listed => CloseConnection(c).clients = client /\ CloseConnection(c).files = file
      /\ client[c].listed /\ ~client[c].isConnected =>
            CloseConnection(c).clients = off(client) /\ CloseConnection(c).files = file
      /\ client[c].listed /\ client[c].isConnected =>
            CloseConnection(c).clients = off(left) /\ CloseConnection(c).files = Store(file, left[c])
  BY DEF CloseConnection
<1> HIDE DEF off, left
<1>8. CASE onNewConnection(c)
  <2>1. client' = [client EXCEPT ![c] = NewClient] /\ file' = file /\ ~client[c].alive
    BY <1>8 DEF onNewConnection, Accepts, Become
  <2>2. QED
    BY <1>1, <1>3, <2>1 DEF Clients, NewClient, NoClient
<1>9. CASE onSocketClosed(c)
  <2>1. /\ client' = [CloseConnection(c).clients EXCEPT ![c] = NoClient]
        /\ file' = CloseConnection(c).files
        /\ CloseConnection(c).clients \in Clients
    BY <1>9, CloseConnectionTypes DEF onSocketClosed, Become
  <2>2. ~client'[c].isConnected
    BY <2>1 DEF Clients, NoClient
  <2>3. \A s \in Slot \ {c} : client'[s] = client[s]
    BY <1>1, <1>5, <1>6, <1>7, <2>1 DEF Clients
  <2>4. CASE client[c].listed /\ client[c].isConnected
    BY <1>4, <1>7, <2>1, <2>2, <2>3, <2>4
  <2>5. CASE ~(client[c].listed /\ client[c].isConnected)
    <3>1. file' = file
      BY <1>7, <2>1, <2>5
    <3>2. QED
      BY <1>3, <2>2, <2>3, <2>5, <3>1
  <2>6. QED
    BY <2>4, <2>5
<1>10. CASE StrayCommand(c)
  <2>1. client' = CloseConnection(c).clients /\ file' = CloseConnection(c).files
    BY <1>10 DEF StrayCommand, Become
  <2>2. CASE client[c].listed /\ client[c].isConnected
    BY <1>4, <1>5, <1>6, <1>7, <2>1, <2>2
  <2>3. CASE ~(client[c].listed /\ client[c].isConnected)
    <3>1. SameLogins(client, client') /\ file' = file
      BY <1>1, <1>5, <1>7, <2>1, <2>3 DEF SameLogins
    <3>2. QED
      BY <1>2, <3>1, SameMarksKeep DEF LoginStep
  <2>4. QED
    BY <2>2, <2>3
<1>11. CASE onHandshake(c)
  <2>1. client' = [client EXCEPT ![c].handshaked = TRUE] /\ file' = file
    BY <1>11 DEF onHandshake, Become
  <2>2. SameLogins(client, client')
    BY <1>1, <2>1, FieldLogins
  <2>3. QED
    BY <1>2, <2>1, <2>2, SameMarksKeep DEF LoginStep
<1>12. QED
  BY <1>8, <1>9, <1>10, <1>11 DEF Connection
LEMMA AccountSteps ==
    ASSUME TypeOK, LoginInv, NEW c \in Slot, NEW a \in Account, NEW pseudo \in Pseudo,
           NEW password \in Password, NEW status,
           onReg(c, a, pseudo, password) \/ onUpdate(c, a, pseudo, password, status)
    PROVE  LoginStep
<1>1. client \in Clients /\ file \in Files /\ unwritable = {}
  BY SessionsMarked
<1>2. up /\ up'
  BY DEF onReg, onUpdate, Serves, Send, Become, memory
<1>3. CASE UNCHANGED <<memory, disk>>
  BY <1>3, SameMarksKeep DEF memory, disk, LoginStep, SameLogins, Known
<1>4. CASE onReg(c, a, pseudo, password) /\ RegError(c, a) \in {"OK", "CANNOT_SAVE_DATA"}
  <2> DEFINE fresh == [client[c] EXCEPT !.account = a, !.pseudo = pseudo,
                                      !.status = DISCONNECTED, !.statusCall = "NONE",
                                      !.contact = {}, !.isConnected = FALSE]
  <2>1. RegError(c, a) = "OK" /\ ~client[c].isConnected /\ mAccounts[a] = Null
    BY <1>1, <1>4 DEF RegError
  <2>2. /\ client' = [client EXCEPT ![c] = fresh]
        /\ file' = Store(file, fresh)
        /\ mAccounts' = [mAccounts EXCEPT ![a] = password]
    BY <1>4, <2>1 DEF onReg
  <2>3. fresh \in ClientRec /\ fresh.account = a /\ ~fresh.isConnected
    BY <1>1, StatusTypes DEF Clients, ClientRec, StatusCall
  <2> HIDE DEF fresh
  <2>4. Known' = Known \cup {a} /\ a \notin Known
    BY <2>1, <2>2, NullAssumption DEF Known, TypeOK
  <2>5. Flagged' = Flagged \ {a}
    BY <1>1, <2>2, <2>3, StoreMarks, SessionsMarked
  <2>6. Holder' = Holder
    BY <1>1, <2>1, <2>2, <2>3 DEF Holder, Clients
  <2>7. QED
    BY <1>2, <2>4, <2>5, <2>6 DEF LoginStep, Registers
<1>5. CASE onUpdate(c, a, pseudo, password, status)
            /\ UpdateError(c, a, status) \in {"OK", "CANNOT_SAVE_DATA"}
  <2> DEFINE clients == [client EXCEPT ![c].pseudo = pseudo, ![c].status = status]
  <2>1. /\ UpdateError(c, a, status) = "OK" /\ client[c].isConnected /\ client[c].account = a
        /\ mAccounts[a] # Null /\ status \in Status
    BY <1>1, <1>5 DEF UpdateError
  <2>2. /\ client' = clients
        /\ file' = Store(file, clients[c])
        /\ mAccounts' = [mAccounts EXCEPT ![a] = password]
    BY <1>5, <2>1 DEF onUpdate
  <2>3. clients \in Clients /\ SameLogins(client, clients)
    BY <1>1, <2>1, ProfileTypes, FieldLogins
  <2> HIDE DEF clients
  <2>4. OfSession(clients[c])
    BY <2>1, <2>3, SessionObjects DEF Session
  <2>5. SavesSessions(file, file')
    BY <1>1, <2>2, <2>4, LoginInvFacts, SessionSaves
  <2>6. Marked(file') = Marked(file)
    BY <2>5, LoginInvFacts, SavesKeepFlags
  <2>7. Known' = Known
    BY <2>1, <2>2, NullAssumption DEF Known, TypeOK
  <2>8. QED
    BY <1>2, <2>2, <2>3, <2>6, <2>7, SameMarksKeep DEF LoginStep
<1>6. QED
  BY <1>3, <1>4, <1>5 DEF onReg, onUpdate, Send

LEMMA LogSteps ==
    ASSUME TypeOK, LoginInv, NEW c \in Slot, NEW a \in Account, NEW password \in Password,
           onLog(c, a, password)
    PROVE  LoginStep
<1> DEFINE in == Connected(Loaded(client[c], a))
<1>1. client \in Clients /\ file \in Files /\ unwritable = {}
  BY SessionsMarked
<1>2. CASE UNCHANGED <<memory, disk>>
  BY <1>2, SameMarksKeep DEF memory, disk, LoginStep, SameLogins, Known
<1>3. CASE LogError(c, a, password) \in {"OK", "CANNOT_SAVE_DATA"}
  <2>1. /\ client' = [client EXCEPT ![c] = in]
        /\ file' = Store(file, in)
        /\ up /\ up' /\ mAccounts' = mAccounts
    BY <1>3 DEF onLog, Become, Serves
  <2>2. mAccounts[a] = password /\ ~file[a].isConnected /\ ~client[c].isConnected
    BY <1>3 DEF LogError
  <2>3. in \in ClientRec /\ in.account = a /\ in.isConnected
    <3>1. Loaded(client[c], a) \in ClientRec /\ Loaded(client[c], a).account = a
      BY <1>1 DEF Loaded, Clients, Files, ClientRec, FileRec
    <3>2. QED
      BY <3>1, RecordTypes, RecordLogins
  <2> HIDE DEF in
  <2>4. a \in Known \ Flagged /\ Known' = Known
    BY <2>1, <2>2, NullAssumption DEF Known, Flagged
  <2>5. Flagged' = Flagged \cup {a}
    BY <1>1, <2>1, <2>3, StoreMarks, SessionsMarked
  <2>6. Holder' = [Holder EXCEPT ![c] = a] /\ Holder[c] = Null
    BY <1>1, <2>1, <2>2, <2>3 DEF Holder, Clients
  <2>7. QED
    BY <2>1, <2>4, <2>5, <2>6 DEF LoginStep, LogsIn
<1>4. QED
  BY <1>2, <1>3 DEF onLog, Send

\* An exit saves what onCloseCall saves, and then its own file without the flag.
LEMMA ExitSteps ==
    ASSUME TypeOK, LoginInv, NEW c \in Slot, onExit(c)
    PROVE  LoginStep
<1> DEFINE left(clients) == [clients EXCEPT ![c] = Disconnected(@)]
           reset(clients) == [left(clients) EXCEPT ![c] = ResetAttributes(@)]
           leaves(clients, files) == /\ client' = reset(clients)
                                     /\ file' = Store(files, left(clients)[c])
                                     /\ UNCHANGED <<up, mAccounts, unwritable>>
<1>1. client \in Clients /\ file \in Files /\ unwritable = {} /\ up
  BY SessionsMarked DEF onExit, Serves
<1>2. ASSUME NEW clients \in Clients, SameLogins(client, clients), NEW files \in Files,
             Marked(files) = Marked(file), leaves(clients, files), client[c].isConnected
      PROVE  LoginStep
  <2> DEFINE gone == left(clients)
  <2>1. /\ gone \in Clients /\ gone[c] \in ClientRec
        /\ gone[c].account = client[c].account /\ ~gone[c].isConnected
        /\ \A s \in Slot \ {c} : gone[s] = clients[s]
    BY <1>2, RecordTypes, RecordLogins DEF Clients, SameLogins
  <2>2. client' = [gone EXCEPT ![c] = ResetAttributes(@)] /\ file' = Store(files, gone[c])
    BY <1>2
  <2> HIDE DEF left, reset, gone
  <2>3. /\ ~client'[c].isConnected
        /\ \A s \in Slot \ {c} : client'[s] = clients[s]
    BY <2>1, <2>2, RecordLogins DEF Clients
  <2>4. Holder' = [Holder EXCEPT ![c] = Null]
    BY <1>2, <2>3, HolderChange DEF SameLogins
  <2>5. client[c].account \in Account /\ Holder[c] = client[c].account
    BY <1>2, SessionsMarked
  <2>6. Flagged' = Flagged \ {Holder[c]}
    BY <1>1, <1>2, <2>1, <2>2, <2>5, StoreMarks, SessionsMarked
  <2>7. up' /\ Known' = Known
    BY <1>1, <1>2 DEF Known
  <2>8. QED
    BY <1>1, <1>2, <2>4, <2>6, <2>7 DEF LoginStep, LogsOut
<1>3. CASE UNCHANGED <<memory, disk>>
  BY <1>3, SameMarksKeep DEF memory, disk, LoginStep, SameLogins, Known
<1>4. CASE client[c].isConnected /\ leaves(client, file)
  BY <1>1, <1>2, <1>4 DEF SameLogins
<1>5. ASSUME NEW a, client[c].isConnected,
             leaves(CloseCall(client, file, c, a).clients, CloseCall(client, file, c, a).files)
      PROVE  LoginStep
  <2>1. Marked(CloseCall(client, file, c, a).files) = Marked(file)
    BY <1>1, LoginInvFacts, CloseCallSaves, SavesKeepFlags DEF SameLogins
  <2>2. QED
    BY <1>1, <1>2, <1>5, <2>1, CloseCallTypes, CloseCallLogins
<1>6. CASE Die(file, accountsFile)
  BY <1>6, DieStops DEF LoginStep
<1>7. QED
  BY <1>3, <1>4, <1>5, <1>6 DEF onExit, Become, Send
LEMMA CallSteps ==
    ASSUME TypeOK, LoginInv, NEW c \in Slot, NEW a \in Account, NEW accept \in BOOLEAN,
           \/ onCall(c, a) \/ onAcceptCall(c, a, accept) \/ onCloseCall(c, a)
           \/ onAcceptAdd(c, a, accept) \/ onDel(c, a)
    PROVE  LoginStep
<1>1. ASSUME SameLogins(client, client'), SavesSessions(file, file'),
             UNCHANGED <<up, mAccounts, unwritable>>
      PROVE  LoginStep
  <2>1. Marked(file') = Marked(file) /\ Known' = Known
    BY <1>1, LoginInvFacts, SavesKeepFlags DEF Known
  <2>2. QED
    BY <1>1, <2>1, SameMarksKeep DEF LoginStep
<1>2. CASE \E files : Die(files, accountsFile)
  BY <1>2, DieStops DEF LoginStep
<1>3. CASE onCall(c, a) \/ onAcceptCall(c, a, accept) \/ onCloseCall(c, a)
  BY <1>1, <1>3, LoginInvFacts, CallLogins, CallSaves
<1>4. CASE onAcceptAdd(c, a, accept) \/ onDel(c, a)
  BY <1>1, <1>2, <1>4, LoginInvFacts, ContactLogins, ContactSaves
<1>5. QED
  BY <1>3, <1>4

LEMMA EnvironmentSteps ==
    ASSUME TypeOK, LoginInv, ~SavesMayFail, Environment
    PROVE  LoginStep
<1>1. CASE Shutdown \/ Crash
  BY <1>1, DieStops DEF Shutdown, Crash, LoginStep
<1>2. CASE Start
  <2>1. unwritable = {} /\ file \in Files
    BY SessionsMarked
  <2>2. ASSUME NEW a \in Account
        PROVE  ~file'[a].isConnected
    <3>1. file'[a] = CleanedFile(a)
      BY <1>2 DEF Start
    <3>2. file[a] \in FileRec
      BY <2>1 DEF Files
    <3>3. ~[file[a] EXCEPT !.status = DISCONNECTED, !.isConnected = FALSE].isConnected
      BY <3>2 DEF FileRec
    <3>4. ~NoFile.isConnected
      BY DEF NoFile
    <3>5. QED
      BY <2>1, <3>1, <3>3, <3>4 DEF CleanedFile
  <2>3. QED
    BY <1>2, <2>2 DEF Start, startServer, LoginStep, Starts, Flagged, Holder
<1>3. QED
  BY <1>1, <1>2 DEF Environment, DiskFault

\* Every step of the server is of one of the kinds.
LEMMA NextSteps ==
    ASSUME TypeOK, LoginInv, ~SavesMayFail, [Next]_vars
    PROVE  LoginStep
<1>1. CASE UNCHANGED <<memory, disk>>
  BY <1>1, SameMarksKeep DEF memory, disk, LoginStep, SameLogins, Known
<1>2. ASSUME NEW c \in Slot, Connection(c) \/ Request(c)
      PROVE  LoginStep
  <2>1. CASE Connection(c) \/ onHandshake(c)
    BY <2>1, ConnectionSteps
  <2>2. CASE onExit(c)
    BY <2>2, ExitSteps
  <2>3. CASE onList(c)
    BY <1>1, <2>3 DEF onList, Send
  <2>4. ASSUME NEW a \in Account, onShow(c, a) \/ onAdd(c, a) \/ onSend(c, a)
        PROVE  LoginStep
    BY <1>1, <2>4 DEF onShow, onAdd, onSend, Send
  <2>5. ASSUME NEW a \in Account, NEW accept \in BOOLEAN,
               \/ onDel(c, a) \/ onAcceptAdd(c, a, accept)
               \/ onCall(c, a) \/ onCloseCall(c, a) \/ onAcceptCall(c, a, accept)
        PROVE  LoginStep
    BY <2>5, CallSteps
  <2>6. ASSUME NEW a \in Account, NEW pseudo \in Pseudo, NEW password \in Password,
               onReg(c, a, pseudo, password)
        PROVE  LoginStep
    BY <2>6, AccountSteps
  <2>7. ASSUME NEW a \in Account, NEW password \in Password, onLog(c, a, password)
        PROVE  LoginStep
    BY <2>7, LogSteps
  <2>8. ASSUME NEW a \in Account, NEW pseudo \in Pseudo, NEW password \in Password,
               NEW status \in StatusByte, onUpdate(c, a, pseudo, password, status)
        PROVE  LoginStep
    BY <2>8, AccountSteps
  <2>9. QED
    BY <1>2, <2>1, <2>2, <2>3, <2>4, <2>5, <2>6, <2>7, <2>8 DEF Request
<1>3. CASE Environment
  BY <1>3, EnvironmentSteps
<1>4. QED
  BY <1>1, <1>2, <1>3 DEF Next, vars

LEMMA StepDown ==
    ASSUME DownIsEmpty, LoginStep
    PROVE  DownIsEmpty'
BY DEF DownIsEmpty, LoginStep, Keeps, Registers, LogsIn, LogsOut, Drops, Stops, Starts, NoHolder

\* The state the registry sees.
Lock == [a \in Account |-> IF mAccounts[a] = Null THEN "unknown"
                           ELSE IF file[a].isConnected THEN "taken" ELSE "free"]

LEMMA LockOf ==
    ASSUME NEW a \in Account
    PROVE  /\ Lock[a] = IF a \in Known THEN IF a \in Flagged THEN "taken" ELSE "free" ELSE "unknown"
           /\ Lock'[a] = IF a \in Known' THEN IF a \in Flagged' THEN "taken" ELSE "free"
                         ELSE "unknown"
BY DEF Lock, Known, Flagged

LEMMA LockFunction ==
    ASSUME NEW f, f = [a \in Account |-> f[a]], \A a \in Account : Lock'[a] = f[a]
    PROVE  Lock' = f
BY DEF Lock

\* Each kind of step is a step of the registry, or changes nothing it sees.
LEMMA StepOfRegistry ==
    ASSUME TypeOK, LoginInv, DownIsEmpty, LoginStep
    PROVE  [Registry!Next]_<<up, Lock, Holder>>
<1> DEFINE Step == [Registry!Next]_<<up, Lock, Holder>>
<1>1. CASE Keeps
  <2>1. Lock' = Lock
    BY <1>1, LockOf, LockFunction DEF Keeps, Lock
  <2>2. QED
    BY <1>1, <2>1 DEF Keeps
<1>2. ASSUME NEW a \in Account, Registers(a)
      PROVE  Step
  <2>1. Lock' = [Lock EXCEPT ![a] = "free"]
    BY <1>2, LockOf, LockFunction DEF Registers, Lock
  <2>2. Lock[a] = "unknown"
    BY <1>2, LockOf DEF Registers
  <2>3. QED
    BY <1>2, <2>1, <2>2 DEF Registers, Registry!Next, Registry!Register, Lock, Holder
<1>3. ASSUME NEW c \in Slot, NEW a \in Account, LogsIn(c, a)
      PROVE  Step
  <2>1. Lock' = [Lock EXCEPT ![a] = "taken"]
    BY <1>3, LockOf, LockFunction DEF LogsIn, Lock
  <2>2. Lock[a] = "free"
    BY <1>3, LockOf DEF LogsIn
  <2>3. QED
    BY <1>3, <2>1, <2>2 DEF LogsIn, Registry!Next, Registry!Login, Lock, Holder
<1>4. ASSUME NEW c \in Slot, LogsOut(c)
      PROVE  Step
  <2>1. Holder[c] \in Account /\ Holder[c] \in Known /\ Holder[c] # Null
    BY <1>4, SessionsMarked, NullAssumption DEF LogsOut
  <2>2. Lock' = [Lock EXCEPT ![Holder[c]] = "free"]
    BY <1>4, <2>1, LockOf, LockFunction DEF LogsOut, Lock
  <2>3. QED
    BY <1>4, <2>1, <2>2 DEF LogsOut, Registry!Next, Registry!Logout, Lock, Holder
<1>5. ASSUME NEW c \in Slot, Drops(c)
      PROVE  Step
  <2>1. Holder[c] # Null
    BY <1>5, SessionsMarked, NullAssumption DEF Drops
  <2>2. Lock' = Lock
    BY <1>5, LockOf, LockFunction DEF Drops, Lock
  <2>3. QED
    BY <1>5, <2>1, <2>2 DEF Drops, Registry!Next, Registry!Vanish, Lock, Holder
<1>6. CASE Stops
  <2>1. Lock' = [a \in Account |-> "unknown"]
    BY <1>6 DEF Stops, Known, Lock
  <2>2. CASE up
    BY <1>6, <2>1, <2>2 DEF Stops, NoHolder, Registry!Next, Registry!Stop, Lock, Holder
  <2>3. CASE ~up
    <3>1. Lock = [a \in Account |-> "unknown"]
      BY <2>3, LockOf DEF DownIsEmpty, Lock
    <3>2. UNCHANGED <<up, Lock, Holder>>
      BY <1>6, <2>1, <2>3, <3>1 DEF Stops, DownIsEmpty, TypeOK
    <3>3. QED
      BY <3>2
  <2>4. QED
    BY <2>2, <2>3
<1>7. CASE Starts
  <2>1. Lock' \in [Account -> {"unknown", "free"}]
    BY <1>7, LockOf DEF Starts, Lock
  <2>2. QED
    BY <1>7, <2>1 DEF Starts, Registry!Next, Registry!Start, Lock, Holder
<1>8. QED
  BY <1>1, <1>2, <1>3, <1>4, <1>5, <1>6, <1>7 DEF LoginStep

LEMMA RegistryInvariant ==
    ASSUME ~SavesMayFail
    PROVE  Spec => [](TypeOK /\ LoginInv /\ DownIsEmpty)
<1>1. Init => DownIsEmpty
  BY DEF Init, DownIsEmpty
<1>2. TypeOK /\ LoginInv /\ DownIsEmpty /\ [Next]_vars => DownIsEmpty'
  BY NextSteps, StepDown
<1>3. QED
  BY <1>1, <1>2, LoginInvariant, PTL DEF Spec

\* The login of the server implements the registry of sessions: each handler,
\* and each stop, crash or start, takes, gives back or drops at most one lock,
\* and only as SessionRegistry says, as long as user files can be saved.
THEOREM RegistryImplemented ==
    ASSUME ~SavesMayFail
    PROVE  Spec => ImplementsRegistry
<1>1. Init => Registry!Init
  BY DEF Init, Registry!Init, NoClient
<1>2. TypeOK /\ LoginInv /\ DownIsEmpty /\ [Next]_vars => [Registry!Next]_<<up, Lock, Holder>>
  BY NextSteps, StepOfRegistry
<1>3. QED
  BY <1>1, <1>2, RegistryInvariant, PTL DEF Spec, Registry!Spec, ImplementsRegistry, Lock, Holder
-----------------------------------------------------------------------------
(* The Client objects and mClients *)

\* There is an object where a connection is, a session has shaken hands, and an
\* object is in mClients unless it sent a command before its handshake.
ObjectInv ==
    \A s \in Slot :
        /\ ~client[s].alive => client[s] = NoClient
        /\ client[s].isConnected => client[s].handshaked
        /\ client[s].alive /\ ~client[s].listed => StrayCommands

\* No object comes or goes, enters or leaves mClients, shakes hands or forgets
\* that it has.
SamePlaces(before, after) ==
    \A s \in Slot :
        /\ ~before[s].alive => after[s] = before[s]
        /\ after[s].alive = before[s].alive
        /\ after[s].listed = before[s].listed
        /\ after[s].handshaked = before[s].handshaked

LEMMA PlacesCompose ==
    ASSUME NEW first, NEW second, NEW third,
           SamePlaces(first, second), SamePlaces(second, third)
    PROVE  SamePlaces(first, third)
BY DEF SamePlaces

LEMMA FieldPlaces ==
    ASSUME NEW clients \in Clients, NEW c \in Slot, NEW t \in Slot,
           clients[c].alive, clients[t].alive, NEW k, NEW x, NEW y
    PROVE  /\ SamePlaces(clients, [clients EXCEPT ![c].statusCall = k, ![t].statusCall = k])
           /\ SamePlaces(clients, [clients EXCEPT ![c].comm = x, ![t].comm = y])
           /\ SamePlaces(clients, [clients EXCEPT ![c].pseudo = x, ![c].status = y])
           /\ SamePlaces(clients, [clients EXCEPT ![c].statusCall = x])
           /\ SamePlaces(clients, [clients EXCEPT ![c].contact = x])
<1>1. SamePlaces(clients, [clients EXCEPT ![c].statusCall = k, ![t].statusCall = k])
  BY DEF SamePlaces, Clients, ClientRec
<1>2. SamePlaces(clients, [clients EXCEPT ![c].comm = x, ![t].comm = y])
  BY DEF SamePlaces, Clients, ClientRec
<1>3. SamePlaces(clients, [clients EXCEPT ![c].pseudo = x, ![c].status = y])
  BY DEF SamePlaces, Clients, ClientRec
<1>4. SamePlaces(clients, [clients EXCEPT ![c].statusCall = x])
  BY DEF SamePlaces, Clients, ClientRec
<1>5. SamePlaces(clients, [clients EXCEPT ![c].contact = x])
  BY DEF SamePlaces, Clients, ClientRec
<1>6. QED
  BY <1>1, <1>2, <1>3, <1>4, <1>5

\* Replacing one object by one in the same place.
LEMMA RecordPlaces ==
    ASSUME NEW clients \in Clients, NEW c \in Slot, clients[c].alive, NEW r,
           r.alive = clients[c].alive, r.listed = clients[c].listed,
           r.handshaked = clients[c].handshaked
    PROVE  SamePlaces(clients, [clients EXCEPT ![c] = r])
BY DEF SamePlaces, Clients, ClientRec

LEMMA TransitionPlaces ==
    ASSUME NEW r \in ClientRec
    PROVE  /\ Disconnected(r).alive = r.alive /\ Disconnected(r).listed = r.listed
           /\ Disconnected(r).handshaked = r.handshaked
           /\ ResetAttributes(r).alive = r.alive /\ ResetAttributes(r).listed = r.listed
           /\ ResetAttributes(r).handshaked = r.handshaked
           /\ Connected(r).alive = r.alive /\ Connected(r).listed = r.listed
           /\ Connected(r).handshaked = TRUE
BY DEF Disconnected, ResetAttributes, Connected, ClientRec

\* Whom findOnlineClient finds has an object.
LEMMA OnlineIsAlive ==
    ASSUME ObjectInv, NEW clients, SamePlaces(client, clients), NEW a,
           findOnlineClient(clients, a) # Null
    PROVE  clients[findOnlineClient(clients, a)].alive
BY FindOnline DEF ObjectInv, SamePlaces, NoClient

LEMMA CloseCallPlaces ==
    ASSUME ObjectInv, NEW clients \in Clients, SamePlaces(client, clients), NEW files,
           NEW c \in Slot, clients[c].alive, NEW a
    PROVE  SamePlaces(client, CloseCall(clients, files, c, a).clients)
<1> DEFINE t == findOnlineClient(clients, a)
           code == CloseCallError(clients, c, a)
           idle == [clients EXCEPT ![c].statusCall = "NONE", ![t].statusCall = "NONE"]
           freed == [idle EXCEPT ![c].comm = Null, ![t].comm = Null]
<1>1. CASE code \notin {"OK", "CANNOT_SAVE_DATA"}
  BY <1>1 DEF CloseCall
<1>2. CASE code \in {"OK", "CANNOT_SAVE_DATA"}
  <2>1. t \in Slot /\ clients[t].alive
    BY <1>2, FindOnline, OnlineIsAlive DEF CloseCallError
  <2>2. idle \in Clients /\ SamePlaces(clients, idle)
    BY <2>1, CallFieldTypes, FieldPlaces DEF StatusCall
  <2>3. CloseCall(clients, files, c, a).clients \in {idle, freed}
    BY <1>2 DEF CloseCall
  <2> HIDE DEF idle, t
  <2>4. idle[c].alive /\ idle[t].alive
    BY <2>1, <2>2 DEF SamePlaces
  <2>5. SamePlaces(idle, freed)
    BY <2>1, <2>2, <2>4, FieldPlaces
  <2> HIDE DEF freed
  <2>6. QED
    BY <2>2, <2>3, <2>5, PlacesCompose
<1>3. QED
  BY <1>1, <1>2

\* Only an object that is there, and has shaken hands, is served.
LEMMA RequestServes ==
    ASSUME NEW c \in Slot, Request(c)
    PROVE  up /\ client[c].alive /\ (onHandshake(c) \/ Serves(c))
<1>1. onExit(c) \/ onList(c) => Serves(c)
  BY DEF onExit, onList
<1>2. ASSUME NEW a
      PROVE  onShow(c, a) \/ onAdd(c, a) \/ onSend(c, a) \/ onCall(c, a) \/ onCloseCall(c, a)
                => Serves(c)
  BY DEF onShow, onAdd, onSend, onCall, onCloseCall
<1>3. ASSUME NEW a PROVE onDel(c, a) => Serves(c)
  BY DEF onDel
<1>4. ASSUME NEW a, NEW accept
      PROVE  onAcceptAdd(c, a, accept) \/ onAcceptCall(c, a, accept) => Serves(c)
  BY DEF onAcceptAdd, onAcceptCall
<1>5. ASSUME NEW a, NEW pseudo, NEW password, NEW status
      PROVE  onReg(c, a, pseudo, password) \/ onUpdate(c, a, pseudo, password, status)
                \/ onLog(c, a, password) => Serves(c)
  BY DEF onReg, onUpdate, onLog
<1>6. onHandshake(c) \/ Serves(c)
  BY <1>1, <1>2, <1>3, <1>4, <1>5 DEF Request
<1>7. QED
  BY <1>6 DEF onHandshake, Serves

\* A request moves no object, and only the handshake marks one as greeted.
LEMMA RequestPlaces ==
    ASSUME TypeOK, SessionsAreNamed, ObjectInv, NEW c \in Slot, Request(c)
    PROVE  \/ SamePlaces(client, client')
           \/ onHandshake(c)
           \/ \E files : Die(files, accountsFile)
<1>1. client \in Clients /\ file \in Files /\ client[c].alive
  BY RequestServes DEF TypeOK, Clients, Files
<1>2. SamePlaces(client, client)
  BY DEF SamePlaces
<1>3. CASE UNCHANGED memory
  BY <1>2, <1>3 DEF memory
<1>4. CASE onHandshake(c)
  BY <1>4
<1>5. CASE onExit(c)
  <2> DEFINE left(clients) == [clients EXCEPT ![c] = Disconnected(@)]
             reset(clients) == [left(clients) EXCEPT ![c] = ResetAttributes(@)]
  <2>1. ASSUME NEW clients \in Clients, SamePlaces(client, clients)
        PROVE  SamePlaces(client, reset(clients))
    <3>1. clients[c].alive /\ clients[c] \in ClientRec
      BY <1>1, <2>1 DEF SamePlaces, Clients
    <3>2. SamePlaces(clients, left(clients)) /\ left(clients) \in Clients
      BY <2>1, <3>1, RecordPlaces, TransitionPlaces, RecordTypes DEF Clients
    <3>3. left(clients)[c].alive /\ left(clients)[c] \in ClientRec
      BY <3>1, <3>2 DEF SamePlaces, Clients
    <3> HIDE DEF left
    <3>4. SamePlaces(left(clients), reset(clients))
      BY <3>2, <3>3, RecordPlaces, TransitionPlaces
    <3> HIDE DEF reset
    <3>5. QED
      BY <2>1, <3>2, <3>4, PlacesCompose
  <2>2. \/ client' = client
        \/ client' = reset(client)
        \/ \E a : client' = reset(CloseCall(client, file, c, a).clients)
        \/ Die(file, accountsFile)
    BY <1>5 DEF onExit, Become, Send, memory
  <2> HIDE DEF left, reset
  <2>3. QED
    BY <1>1, <1>2, <2>1, <2>2, CloseCallPlaces, CloseCallTypes
<1>6. ASSUME NEW a \in Account, NEW pseudo \in Pseudo, NEW password \in Password, NEW status,
             onReg(c, a, pseudo, password) \/ onUpdate(c, a, pseudo, password, status)
      PROVE  SamePlaces(client, client')
  <2> DEFINE fresh == [client[c] EXCEPT !.account = a, !.pseudo = pseudo,
                                      !.status = DISCONNECTED, !.statusCall = "NONE",
                                      !.contact = {}, !.isConnected = FALSE]
  <2>1. \/ client' = client
        \/ client' = [client EXCEPT ![c] = fresh]
        \/ client' = [client EXCEPT ![c].pseudo = pseudo, ![c].status = status]
    BY <1>6 DEF onReg, onUpdate, Become, Send, memory
  <2>2. fresh.alive = client[c].alive /\ fresh.listed = client[c].listed /\ fresh.handshaked = client[c].handshaked
    BY <1>1 DEF Clients, ClientRec
  <2> HIDE DEF fresh
  <2>3. SamePlaces(client, [client EXCEPT ![c] = fresh])
    BY <1>1, <2>2, RecordPlaces
  <2>4. SamePlaces(client, [client EXCEPT ![c].pseudo = pseudo, ![c].status = status])
    BY <1>1, FieldPlaces
  <2>5. QED
    BY <1>2, <2>1, <2>3, <2>4
<1>7. ASSUME NEW a \in Account, NEW password \in Password, onLog(c, a, password)
      PROVE  SamePlaces(client, client')
  <2> DEFINE loaded == Loaded(client[c], a)
             in == Connected(loaded)
  <2>1. client' = client \/ client' = [client EXCEPT ![c] = in]
    BY <1>7 DEF onLog, Become, Send, memory
  <2>2. loaded \in ClientRec /\ loaded.alive = client[c].alive /\ loaded.listed = client[c].listed
    BY <1>1 DEF Loaded, Clients, Files, ClientRec, FileRec
  <2> HIDE DEF loaded
  <2>3. in.alive = client[c].alive /\ in.listed = client[c].listed /\ in.handshaked = TRUE
    BY <2>2, TransitionPlaces
  <2>4. client[c].handshaked = TRUE
    BY <1>1, <1>7 DEF onLog, Serves, Clients, ClientRec
  <2> HIDE DEF in
  <2>5. SamePlaces(client, [client EXCEPT ![c] = in])
    BY <1>1, <2>3, <2>4, RecordPlaces
  <2>6. QED
    BY <1>2, <2>1, <2>5
<1>8. ASSUME NEW a \in Account, NEW accept \in BOOLEAN,
             onCall(c, a) \/ onAcceptCall(c, a, accept) \/ onCloseCall(c, a)
      PROVE  SamePlaces(client, client')
  <2> DEFINE t == findOnlineClient(client, a)
             set(k) == [client EXCEPT ![c].statusCall = k, ![t].statusCall = k]
             tes(k) == [client EXCEPT ![t].statusCall = k, ![c].statusCall = k]
             refused == [client EXCEPT ![c].statusCall = "NONE"]
             with(clients, x, y) == [clients EXCEPT ![c].comm = x, ![t].comm = y]
  <2>1. CASE onCloseCall(c, a)
    BY <1>1, <1>2, <2>1, CloseCallPlaces DEF onCloseCall, Become
  <2>2. \/ client' = client
        \/ onCloseCall(c, a)
        \/ /\ t # Null
           /\ \E k \in StatusCall : \E x, y :
                 client' \in {set(k), tes(k), refused, with(set(k), x, y), with(tes(k), x, y),
                             with(refused, x, y)}
    BY <1>8 DEF onCall, onAcceptCall, CallError, AcceptCallError, Become, Send, memory,
                StatusCall
  <2>3. ASSUME t # Null, NEW k \in StatusCall, NEW clients \in {set(k), tes(k), refused}
        PROVE  /\ SamePlaces(client, clients)
               /\ \A x, y : SamePlaces(client, with(clients, x, y))
    <3>1. t \in Slot /\ client[t].alive
      BY <1>2, <2>3, FindOnline, OnlineIsAlive
    <3>2. SamePlaces(client, set(k)) /\ SamePlaces(client, tes(k)) /\ SamePlaces(client, refused)
      BY <1>1, <3>1, FieldPlaces
    <3>3. refused \in Clients
      BY <1>1 DEF Clients, ClientRec, StatusCall
    <3>4. set(k) \in Clients /\ tes(k) \in Clients
      BY <1>1, <3>1, CallFieldTypes
    <3> HIDE DEF set, tes, refused, t
    <3>5. clients \in Clients /\ SamePlaces(client, clients)
      BY <2>3, <3>2, <3>3, <3>4
    <3>6. clients[c].alive /\ clients[t].alive
      BY <1>1, <3>1, <3>5 DEF SamePlaces
    <3>7. \A x, y : SamePlaces(clients, with(clients, x, y))
      BY <3>1, <3>5, <3>6, FieldPlaces
    <3> HIDE DEF with
    <3>8. QED
      BY <3>5, <3>7, PlacesCompose
  <2> HIDE DEF t, set, tes, refused, with
  <2>4. QED
    BY <1>2, <2>1, <2>2, <2>3
<1>9. ASSUME NEW a \in Account, NEW accept \in BOOLEAN,
             onAcceptAdd(c, a, accept) \/ onDel(c, a)
      PROVE  \/ SamePlaces(client, client')
             \/ \E files : Die(files, accountsFile)
  <2> DEFINE me == client[c].account
             t == findOnlineClient(client, a)
             added == [client EXCEPT ![t].contact = @ \cup {me}]
             clients == [added EXCEPT ![c].contact = @ \cup {a}]
             mine == [client EXCEPT ![c].contact = @ \ {a}]
             both == [mine EXCEPT ![t].contact = @ \ {me}]
             closed(files) == CloseCall(both, files, c, a).clients
  <2>1. \/ client' \in {client, mine}
        \/ t # Null /\ client[c].isConnected /\ client' \in {clients, both}
        \/ t # Null /\ client[c].isConnected /\ \E files : client' = closed(files)
        \/ \E files : Die(files, accountsFile)
    BY <1>9 DEF onAcceptAdd, AcceptAddError, onDel, DelError, Become, Send, memory
  <2>2. /\ SamePlaces(client, mine) /\ mine \in Clients /\ mine[c].alive
        /\ t \in Slot => mine[t].alive = client[t].alive
    <3>1. mine \in Clients
      BY <1>1 DEF Clients, ClientRec
    <3>2. SamePlaces(client, mine)
      BY <1>1 DEF SamePlaces, Clients, ClientRec
    <3>3. QED
      BY <1>1, <3>1, <3>2 DEF SamePlaces
  <2>3. ASSUME t # Null, client[c].isConnected
        PROVE  SamePlaces(client, clients) /\ SamePlaces(client, both) /\ both \in Clients
    <3>1. t \in Slot /\ client[t].alive /\ me \in Account
      BY <1>2, <2>3, FindOnline, OnlineIsAlive DEF SessionsAreNamed, Session
    <3>2. added \in Clients
      BY <1>1, <3>1 DEF Clients, ClientRec
    <3>3. SamePlaces(client, added)
      BY <1>1, <3>1 DEF SamePlaces, Clients, ClientRec
    <3>4. SamePlaces(added, clients)
      <4> HIDE DEF added
      <4>1. added[c].alive
        BY <1>1, <3>3 DEF SamePlaces
      <4>2. QED
        BY <3>2, <4>1 DEF SamePlaces, Clients, ClientRec
    <3>5. SamePlaces(mine, both) /\ both \in Clients
      <4> HIDE DEF mine, t, me
      <4>1. SamePlaces(mine, both)
        BY <2>2, <3>1 DEF SamePlaces, Clients, ClientRec
      <4>2. both \in Clients
        BY <2>2, <3>1 DEF Clients, ClientRec
      <4>3. QED
        BY <4>1, <4>2
    <3> HIDE DEF added, clients, mine, both
    <3>6. QED
      BY <2>2, <3>3, <3>4, <3>5, PlacesCompose
  <2> HIDE DEF t, me, clients, mine, both
  <2>4. ASSUME t # Null, client[c].isConnected, NEW files
        PROVE  SamePlaces(client, closed(files))
    <3>1. both[c].alive
      BY <1>1, <2>3, <2>4 DEF SamePlaces
    <3>2. QED
      BY <2>3, <2>4, <3>1, CloseCallPlaces
  <2> HIDE DEF closed
  <2>5. QED
    BY <1>2, <2>1, <2>2, <2>3, <2>4
<1>10. ASSUME NEW a \in Account, onShow(c, a) \/ onAdd(c, a) \/ onSend(c, a)
       PROVE  SamePlaces(client, client')
  BY <1>2, <1>10 DEF onShow, onAdd, onSend, Send, memory
<1>11. CASE onList(c)
  BY <1>2, <1>11 DEF onList, Send, memory
<1>12. ASSUME NEW a \in Account, NEW pseudo \in Pseudo, NEW password \in Password,
              onReg(c, a, pseudo, password)
       PROVE  SamePlaces(client, client')
  BY <1>6, <1>12
<1>13. QED
  BY <1>4, <1>5, <1>6, <1>7, <1>8, <1>9, <1>10, <1>11, <1>12 DEF Request
LEMMA ClosedObject ==
    ASSUME TypeOK, NEW c \in Slot
    PROVE  /\ \A s \in Slot \ {c} : CloseConnection(c).clients[s] = client[s]
           /\ ~client[c].listed => CloseConnection(c).clients = client
           /\ client[c].listed => /\ CloseConnection(c).clients[c].alive = client[c].alive
                                  /\ ~CloseConnection(c).clients[c].isConnected
<1> DEFINE left == [client EXCEPT ![c] = Disconnected(@)]
           off(clients) == [clients EXCEPT ![c].handshaked = FALSE, ![c].listed = FALSE]
<1>1. client \in Clients
  BY DEF TypeOK, Clients
<1>2. ASSUME NEW clients \in Clients
      PROVE  /\ \A s \in Slot \ {c} : off(clients)[s] = clients[s]
             /\ off(clients)[c].isConnected = clients[c].isConnected
             /\ off(clients)[c].alive = clients[c].alive
  BY DEF Clients, ClientRec
<1>3. left \in Clients /\ ~left[c].isConnected /\ left[c].alive = client[c].alive
  BY <1>1, RecordTypes, RecordLogins, TransitionPlaces DEF Clients
<1>4. \A s \in Slot \ {c} : left[s] = client[s]
  BY <1>1 DEF Clients
<1>5. /\ ~client[c].listed => CloseConnection(c).clients = client
      /\ client[c].listed /\ ~client[c].isConnected => CloseConnection(c).clients = off(client)
      /\ client[c].listed /\ client[c].isConnected => CloseConnection(c).clients = off(left)
  BY DEF CloseConnection
<1> HIDE DEF left, off
<1>6. QED
  BY <1>1, <1>2, <1>3, <1>4, <1>5

LEMMA ConnectionObjects ==
    ASSUME TypeOK, ObjectInv, NEW c \in Slot, Connection(c)
    PROVE  ObjectInv'
<1>1. client \in Clients
  BY DEF TypeOK, Clients
<1>2. CASE onNewConnection(c)
  <2>1. client' = [client EXCEPT ![c] = NewClient]
    BY <1>2 DEF onNewConnection, Become
  <2>2. NewClient.alive /\ NewClient.listed /\ ~NewClient.isConnected
    BY DEF NewClient, NoClient
  <2> HIDE DEF NewClient
  <2>3. QED
    BY <1>1, <2>1, <2>2 DEF ObjectInv, Clients
<1>3. CASE onSocketClosed(c)
  <2>1. /\ client' = [CloseConnection(c).clients EXCEPT ![c] = NoClient]
        /\ CloseConnection(c).clients \in Clients
    BY <1>3, CloseConnectionTypes DEF onSocketClosed, Become
  <2>2. client'[c] = NoClient /\ \A s \in Slot \ {c} : client'[s] = client[s]
    BY <2>1, ClosedObject DEF Clients
  <2>3. ~NoClient.alive /\ ~NoClient.isConnected
    BY DEF NoClient
  <2>4. QED
    BY <2>2, <2>3 DEF ObjectInv
<1>4. CASE StrayCommand(c)
  <2>1. client' = CloseConnection(c).clients /\ StrayCommands /\ client[c].alive
    BY <1>4 DEF StrayCommand, Become
  <2>2. QED
    BY <2>1, ClosedObject DEF ObjectInv
<1>5. QED
  BY <1>2, <1>3, <1>4 DEF Connection

LEMMA StepObjects ==
    ASSUME TypeOK, SessionsAreNamed, ObjectInv, [Next]_vars
    PROVE  ObjectInv'
<1>1. CASE client' = client
  BY <1>1 DEF ObjectInv
<1>2. ASSUME NEW files, NEW accounts, Die(files, accounts)
      PROVE  ObjectInv'
  BY <1>2 DEF Die, ObjectInv, NoClient
<1>3. ASSUME NEW c \in Slot, Request(c), SamePlaces(client, client')
      PROVE  ObjectInv'
  <2>1. \A s \in Slot : client'[s].isConnected => client'[s].handshaked
    <3>1. CASE NobodyLogsIn(client, client')
      BY <1>3, <3>1 DEF NobodyLogsIn, SamePlaces, ObjectInv
    <3>2. ASSUME NEW o \in Slot, NEW a \in Account, NEW password \in Password,
                 onLog(o, a, password)
          PROVE  \A s \in Slot : client'[s].isConnected => client'[s].handshaked
      <4>1. client[o].handshaked
        BY <3>2 DEF onLog, Serves
      <4>2. \A s \in Slot \ {o} : client'[s] = client[s]
        BY <3>2 DEF onLog, Become, Send, memory, TypeOK
      <4>3. QED
        BY <1>3, <4>1, <4>2 DEF SamePlaces, ObjectInv
    <3>3. QED
      BY <3>1, <3>2, OnlyLogLogsIn
  <2>2. QED
    BY <1>3, <2>1 DEF SamePlaces, ObjectInv
<1>4. ASSUME NEW c \in Slot, Connection(c) \/ Request(c)
      PROVE  ObjectInv'
  <2>1. ASSUME onHandshake(c) PROVE ObjectInv'
    <3>1. /\ client[c].alive
          /\ \A s \in Slot \ {c} : client'[s] = client[s]
          /\ client'[c].handshaked /\ client'[c].alive /\ client'[c].listed = client[c].listed
      BY <2>1 DEF onHandshake, Become, TypeOK, ClientRec
    <3>2. QED
      BY <3>1 DEF ObjectInv
  <2>2. QED
    BY <1>2, <1>3, <1>4, <2>1, RequestPlaces, ConnectionObjects
<1>5. CASE Environment
  BY <1>1, <1>2, <1>5 DEF Environment, Shutdown, Crash, Start, DiskFault, memory
<1>6. CASE UNCHANGED vars
  BY <1>1, <1>6 DEF vars, memory
<1>7. QED
  BY <1>4, <1>5, <1>6 DEF Next

LEMMA ObjectInvariant == Spec => [](TypeOK /\ SessionsAreNamed /\ ObjectInv)
<1>1. Init => TypeOK /\ SessionsAreNamed /\ ObjectInv
  BY InitTypes DEF Init, ObjectInv, NoClient
<1>2. TypeOK /\ SessionsAreNamed /\ ObjectInv /\ [Next]_vars
        => (TypeOK /\ SessionsAreNamed /\ ObjectInv)'
  BY NextTypes, StepNames, StepObjects
<1>3. QED
  BY <1>1, <1>2, PTL DEF Spec

\* A lock is only dropped with an object that is not in mClients: without stray
\* commands every lock that is taken has a session.
LEMMA StepStrandsNobody ==
    ASSUME TypeOK, LoginInv, ObjectInv, ~StrayCommands, NoStrandedLogin, LoginStep
    PROVE  NoStrandedLogin'
<1>1. ASSUME NEW f, f \in {Holder, Holder'}
      PROVE  DOMAIN f = Slot
  BY <1>1 DEF Holder
<1>2. up => \A a \in Flagged : \E s \in Slot : Holder[s] = a
  BY DEF NoStrandedLogin, Flagged, Holder, Session
<1>3. SUFFICES up' => \A a \in Flagged' : \E s \in Slot : Holder'[s] = a
  <2>1. \A a \in Account, s \in Slot : Holder'[s] = a => s \in Session' /\ client'[s].account = a
    BY NullAssumption DEF Holder, Session
  <2>2. QED
    BY <1>3, <2>1 DEF NoStrandedLogin, Flagged
<1>4. CASE Keeps
  BY <1>2, <1>4 DEF Keeps
<1>5. ASSUME NEW a \in Account, Registers(a) PROVE up' => \A b \in Flagged' : \E s \in Slot : Holder'[s] = b
  BY <1>2, <1>5 DEF Registers
<1>6. ASSUME NEW c \in Slot, NEW a \in Account, LogsIn(c, a)
      PROVE  \A b \in Flagged' : \E s \in Slot : Holder'[s] = b
  <2>1. Holder'[c] = a /\ \A s \in Slot \ {c} : Holder'[s] = Holder[s]
    BY <1>1, <1>6 DEF LogsIn
  <2>2. Null \notin Flagged
    BY NullAssumption DEF Flagged
  <2>3. QED
    BY <1>2, <1>6, <2>1, <2>2 DEF LogsIn
<1>7. ASSUME NEW c \in Slot, LogsOut(c)
      PROVE  \A b \in Flagged' : \E s \in Slot : Holder'[s] = b
  <2>1. \A s \in Slot \ {c} : Holder'[s] = Holder[s]
    BY <1>1, <1>7 DEF LogsOut
  <2>2. QED
    BY <1>2, <1>7, <2>1 DEF LogsOut
<1>8. ASSUME NEW c \in Slot, Drops(c) PROVE FALSE
  BY <1>8 DEF Drops, ObjectInv, NoClient
<1>9. CASE Stops
  BY <1>9 DEF Stops
<1>10. CASE Starts
  BY <1>10 DEF Starts
<1>11. QED
  BY <1>4, <1>5, <1>6, <1>7, <1>8, <1>9, <1>10 DEF LoginStep

\* As long as clients shake hands first and user files can be saved, an account
\* marked logged in on disk is logged in, also after the server was killed and
\* started again.
THEOREM NoStrandedLoginHolds ==
    ASSUME ~SavesMayFail, ~StrayCommands
    PROVE  Spec => []NoStrandedLogin
<1>1. Init => NoStrandedLogin
  BY DEF Init, NoStrandedLogin, NoFile
<1>2. TypeOK /\ LoginInv /\ DownIsEmpty /\ SessionsAreNamed /\ ObjectInv /\ NoStrandedLogin /\ [Next]_vars
        => NoStrandedLogin'
  BY NextSteps, StepStrandsNobody
<1>3. QED
  BY <1>1, <1>2, RegistryInvariant, ObjectInvariant, PTL DEF Spec
=============================================================================
