------------------------------ MODULE ServerData ------------------------------
(***************************************************************************)
(* The data of the Babel server (src/Babel/server): the Client objects in  *)
(* memory, the user files on disk, the messages handed to the sockets, and *)
(* the helpers the handlers of BabelServer share.                          *)
(*                                                                         *)
(* A slot is the address of a Client object: when a connection is lost its *)
(* object is destroyed and the next connection may be given the same       *)
(* address, while another session still holds a pointer to it.             *)
(***************************************************************************)
EXTENDS Naturals, FiniteSets

CONSTANTS
    Slot,            \* addresses of Client objects
    Account,         \* account names clients use, registered or not
    Pseudo,
    Password,
    StatusByte,      \* status values clients send in an update
    Null,            \* the C++ NULL, and the empty account and pseudo
    StrayCommands,   \* may a client send a command before its handshake?
    SavesMayFail,    \* may opening a user file for writing fail?
    ServerMayStop,   \* may the process be killed, or leave by an exception?
    LeaveDuringCall  \* may a session that has a call partner leave?

ASSUME NullAssumption == Null \notin Slot \cup Account \cup Pseudo \cup Password
ASSUME StatusAssumption == StatusByte \subseteq Nat
ASSUME SwitchAssumption ==
    {StrayCommands, SavesMayFail, ServerMayStop, LeaveDuringCall} \subseteq BOOLEAN

VARIABLES
    up,            \* is the process running?
    client,        \* the Client object at each address, in or out of mClients
    mAccounts,     \* registered accounts and their passwords
    file,          \* the user file of each account (Client::saveData)
    accountsFile,  \* mAccounts as last exported
    unwritable,    \* accounts whose user file cannot be opened for writing now
    sent           \* the messages the last step handed to HandleCmd::packCmd

memory == <<up, client, mAccounts>>
disk == <<file, accountsFile, unwritable>>
vars == <<memory, disk, sent>>

-----------------------------------------------------------------------------
(* Client objects, user files and messages *)

CONNECTED == 0
DISCONNECTED == 1
Status == 0 .. 10          \* CONNECTED .. CRYING
StatusCall == {"NONE", "ISWAITING", "ISCALLING"}

Instruction ==
    {"HANDSHAKE", "REG", "LOG", "LIST", "SHOW", "ADD", "ACCEPT_ADD", "DEL", "EXIT",
     "UPDATE", "SEND", "CALL", "ACCEPT_CALL", "CLOSE_CALL"}

\* The error codes the handlers answer with.
ErrorCode ==
    {"OK", "REGISTER_ACC_ALREADY_USED", "LOGIN_WRONG_PASSWORD", "UNKNOWN_ACCOUNT",
     "ACTIONS_TO_OFFLINE_ACCOUNT", "CANNOT_DO_CALL_MULTIPLE",
     "CANNOT_ACCEPT_CALL_FROM_NOT_A_CALLER", "CANNOT_CLOSE_CALL_WHEN_YOU_ARENT_CALLING",
     "LOGIN_ON_ALREADY_LOGGED_ACCOUNT", "CANNOT_ADD_YOURSELF", "CANNOT_CALL_YOURSELF",
     "YOU_ARE_NOT_LOGGED", "ALREADY_CONNECTED", "ALREADY_IN_YOUR_CONTACT_LIST",
     "NOT_IN_YOUR_CONTACT_LIST", "BUSY_CONTACT_CANNOT_REPLY",
     "NOT_IN_COMMUNICATION_WITH_HIM", "CANNOT_SAVE_DATA",
     "YOU_CANNOT_UPDATE_OTHER_ACCOUNT", "INVALID_STATUS_ID"}

ClientRec ==
    [alive : BOOLEAN, listed : BOOLEAN, handshaked : BOOLEAN,
     isConnected : BOOLEAN, account : Account \cup {Null},
     pseudo : Pseudo \cup {Null}, status : Status, statusCall : StatusCall,
     contact : SUBSET Account, comm : Slot \cup {Null}]

FileRec ==
    [state : {"absent", "good", "torn"}, status : Status,
     pseudo : Pseudo \cup {Null}, contact : SUBSET Account, isConnected : BOOLEAN]

\* What an address holds when no Client lives there.
NoClient ==
    [alive |-> FALSE, listed |-> FALSE, handshaked |-> FALSE,
     isConnected |-> FALSE, account |-> Null, pseudo |-> Null,
     status |-> DISCONNECTED, statusCall |-> "NONE", contact |-> {}, comm |-> Null]

\* A Client just constructed for an accepted connection and put in mClients.
NewClient == [NoClient EXCEPT !.alive = TRUE, !.listed = TRUE]

NoFile ==
    [state |-> "absent", status |-> DISCONNECTED, pseudo |-> Null,
     contact |-> {}, isConnected |-> FALSE]

TornFile == [NoFile EXCEPT !.state = "torn"]

\* Client::serialize: the call state and the partner are not written.
Image(r) ==
    [state |-> "good", status |-> r.status, pseudo |-> r.pseudo,
     contact |-> r.contact, isConnected |-> r.isConnected]

\* Mutant of Loaded: the contact list is not read back.
LoadedWithoutContacts(r, a) ==
    [r EXCEPT !.account = a, !.status = file[a].status, !.pseudo = file[a].pseudo,
              !.isConnected = file[a].isConnected]

\* Client::loadData for account a.
Loaded(r, a) ==
    [r EXCEPT !.account = a, !.status = file[a].status, !.pseudo = file[a].pseudo,
              !.contact = file[a].contact, !.isConnected = file[a].isConnected]

\* findOfflineClient: no object can be loaded, for account a has no file.
NoOfflineClient(files, a) == files[a].state = "absent"

Connected(r) ==
    [r EXCEPT !.status = CONNECTED, !.statusCall = "NONE", !.isConnected = TRUE,
              !.comm = Null, !.handshaked = TRUE]

\* Mutants of Disconnected: the session stays marked, or keeps its partner.
DisconnectedButMarked(r) ==
    [r EXCEPT !.status = DISCONNECTED, !.statusCall = "NONE", !.comm = Null]
DisconnectedWithPartner(r) ==
    [r EXCEPT !.status = DISCONNECTED, !.statusCall = "NONE", !.isConnected = FALSE]

Disconnected(r) ==
    [r EXCEPT !.status = DISCONNECTED, !.statusCall = "NONE",
              !.isConnected = FALSE, !.comm = Null]

ResetAttributes(r) ==
    [r EXCEPT !.pseudo = Null, !.account = Null, !.contact = {}]

\* Client::saveData of r: the user files afterwards.
Store(files, r) ==
    IF r.account \in unwritable THEN files
    ELSE [files EXCEPT ![r.account] = Image(r)]

\* Mutant of StoreBoth: only the first object is saved.
StoreFirst(files, first, second) == Store(files, first)

\* The idiom  first->saveData() && second->saveData()  of the handlers.
StoreBoth(files, first, second) ==
    IF first.account \in unwritable THEN files
    ELSE Store(Store(files, first), second)

\* Mutant of BothStored: the result of the second save is not looked at.
FirstStored(first, second) == first.account \notin unwritable

BothStored(first, second) == {first.account, second.account} \cap unwritable = {}

Err(c, instruction, code) ==
    [to |-> c, cmd |-> "ERR", instruction |-> instruction, code |-> code]
Show(c, a, pseudo, status, isConnected) ==
    [to |-> c, cmd |-> "SHOW", who |-> a, pseudo |-> pseudo, status |-> status,
     isConnected |-> isConnected]
Answered(c, a, accept) ==
    [to |-> c, cmd |-> "ACCEPT_CALL", who |-> a, accept |-> accept]

\* Mutant of Tell: the receiver is told its own name.
TellOwnName(c, command, a) == [to |-> c, cmd |-> command, who |-> client[c].account]

\* ADD, CALL, CLOSE_CALL, DEL, SEND and HANDSHAKE name one account or none.
Tell(c, command, a) == [to |-> c, cmd |-> command, who |-> a]

-----------------------------------------------------------------------------
(* Helpers of the handlers.  They take the client table and the files as    *)
(* arguments: a handler calls them halfway through its own changes.         *)

\* The members of mClients logged in as a.
OnlineAs(clients, a) ==
    {s \in Slot : clients[s].listed /\ clients[s].isConnected /\ clients[s].account = a}

\* std::find_if takes the first match; as long as no account is logged in
\* twice there is at most one.
findOnlineClient(clients, a) ==
    IF OnlineAs(clients, a) = {} THEN Null ELSE CHOOSE s \in OnlineAs(clients, a) : TRUE

isAlreadyFriends(r, a) == a \in r.contact

\* Mutant of notifyMyFriendsOfModificationAboutMe: pseudo and status are those
\* of the object before the handler changed it.
notifyOfOldState(clients, c) ==
    LET me == client[c]
    IN  {Show(findOnlineClient(clients, a), clients[c].account, me.pseudo, me.status,
              clients[c].isConnected) :
            a \in {b \in clients[c].contact : OnlineAs(clients, b) # {}}}

notifyMyFriendsOfModificationAboutMe(clients, c) ==
    LET me == clients[c]
    IN  {Show(findOnlineClient(clients, a), me.account, me.pseudo, me.status,
              me.isConnected) :
            a \in {b \in me.contact : OnlineAs(clients, b) # {}}}

\* What onShow sends c about account a: name and pseudo from a's file, status
\* and connection from c itself.
ShowReply(clients, files, c, a) ==
    IF NoOfflineClient(files, a)
    THEN {Err(c, "SHOW", "UNKNOWN_ACCOUNT")}
    ELSE {Err(c, "SHOW", "OK"),
          Show(c, a, files[a].pseudo, clients[c].status, clients[c].isConnected)}

\* What onList sends c.
ListReply(clients, files, c) ==
    UNION {ShowReply(clients, files, c, a) : a \in clients[c].contact}

CloseCallError(clients, c, a) ==
    LET t == findOnlineClient(clients, a)
    IN  IF ~clients[c].isConnected THEN "YOU_ARE_NOT_LOGGED"
        ELSE IF clients[c].statusCall # "ISCALLING"
             THEN "CANNOT_CLOSE_CALL_WHEN_YOU_ARENT_CALLING"
        ELSE IF t = Null THEN "ACTIONS_TO_OFFLINE_ACCOUNT"
        ELSE IF t # clients[c].comm THEN "NOT_IN_COMMUNICATION_WITH_HIM"
        ELSE IF ~BothStored(clients[c], clients[t]) THEN "CANNOT_SAVE_DATA"
        ELSE "OK"

\* onCloseCall, also called by onExit and onDel.
CloseCall(clients, files, c, a) ==
    LET t == findOnlineClient(clients, a)
        code == CloseCallError(clients, c, a)
        idle == [clients EXCEPT ![c].statusCall = "NONE", ![t].statusCall = "NONE"]
    IN  IF code \notin {"OK", "CANNOT_SAVE_DATA"}
        THEN [clients |-> clients, files |-> files,
              sent |-> {Err(c, "CLOSE_CALL", code)}]
        ELSE IF code = "CANNOT_SAVE_DATA"
        THEN [clients |-> idle, files |-> StoreBoth(files, idle[c], idle[t]),
              sent |-> {Err(c, "CLOSE_CALL", code)}]
        ELSE [clients |-> [idle EXCEPT ![c].comm = Null, ![t].comm = Null],
              files |-> StoreBoth(files, idle[c], idle[t]),
              sent |-> {Err(c, "CLOSE_CALL", "OK"),
                        Tell(t, "CLOSE_CALL", clients[c].account),
                        Tell(c, "CLOSE_CALL", clients[t].account)}]

\* onCloseConnection: only a member of mClients is logged out and taken out.
CloseConnection(c) ==
    LET me == client[c]
        left == [client EXCEPT ![c] = Disconnected(@)]
    IN  IF ~me.listed
        THEN [clients |-> client, files |-> file, sent |-> {}]
        ELSE IF ~me.isConnected
        THEN [clients |-> [client EXCEPT ![c].handshaked = FALSE, ![c].listed = FALSE],
              files |-> file, sent |-> {}]
        ELSE [clients |-> [left EXCEPT ![c].handshaked = FALSE, ![c].listed = FALSE],
              files |-> Store(file, left[c]),
              sent |-> notifyMyFriendsOfModificationAboutMe(left, c)]

\* Reading the account of the Client at address s.  When no Client lives there
\* any more the read is undefined: it may give any text, or end the process.
AccountsReadAt(clients, s) ==
    IF clients[s].alive THEN {clients[s].account} ELSE Account \cup {Null}

-----------------------------------------------------------------------------
(* Types *)

Message ==
    [to : Slot, cmd : {"ERR"}, instruction : Instruction, code : ErrorCode]
      \cup [to : Slot, cmd : {"SHOW"}, who : Account \cup {Null},
           pseudo : Pseudo \cup {Null}, status : Status, isConnected : BOOLEAN]
      \cup [to : Slot, cmd : {"ACCEPT_CALL"}, who : Account \cup {Null}, accept : BOOLEAN]
      \cup [to : Slot, cmd : {"HANDSHAKE", "ADD", "CALL", "CLOSE_CALL", "DEL", "SEND"},
           who : Account \cup {Null}]

\* The types of the variables.
TypeOK ==
    /\ up \in BOOLEAN
    /\ client \in [Slot -> ClientRec]
    /\ mAccounts \in [Account -> Password \cup {Null}]
    /\ file \in [Account -> FileRec]
    /\ accountsFile \in [Account -> Password \cup {Null}]
    /\ unwritable \subseteq Account
    /\ sent \subseteq Message
=============================================================================
