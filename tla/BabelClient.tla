------------------------------ MODULE BabelClient ------------------------------
(***************************************************************************)
(* The Babel client (src/Babel/client): its connection to the server, the  *)
(* contact list and the pages of its window, and the state of its call.    *)
(*                                                                         *)
(* A client runs in one Qt event loop.  A slot is an action here, with all *)
(* slots its signals reach: a message of the server is read, handled by    *)
(* ServerCommunication, and its signals have run Babel, CallManager and    *)
(* the windows when the slot returns.  The exception is an invitation: its *)
(* question to the user runs an event loop of its own, in which the window *)
(* takes no other input and nothing is read from the server, but the loss  *)
(* of the connection is noticed.                                           *)
(*                                                                         *)
(* Connections are those of the server (Connection): whole commands, in    *)
(* order, here kept in a queue for each direction.                         *)
(***************************************************************************)
EXTENDS Naturals, Sequences, FiniteSetsExt

CONSTANTS
    User,          \* client processes
    Conn,          \* connections; the address of the server's Client object
    Account,
    Null,
    Login,         \* the accounts a user logs in to
    Wish,          \* the kinds of command users give
    AudioMayFail,  \* may opening a sound device fail?
    MaxUnderWay    \* bound: what is under way when a user gives a command

VARIABLES
    app,        \* the state of each client process
    toServer,   \* commands written to a connection and not yet treated
    toClient    \* messages of the server not yet read

clientVars == <<app, toServer, toClient>>

\* The pages of the main window: the first one, with those reached from it
\* (registration and settings), and the one of a logged in user (with update).
Page == {"flyer", "main"}

NoQuestion == [kind |-> "none", who |-> Null]

AppRec ==
    [conn : Conn \cup {Null}, mHasHandshaked : BOOLEAN, page : Page,
     mLoggedUser : Account \cup {Null}, mContacts : SUBSET Account,
     mIsCall : BOOLEAN, mContactInCall : Account \cup {Null},
     mInCommunication : BOOLEAN, mCurrentCalledContact : Account \cup {Null},
     recording : BOOLEAN, playing : BOOLEAN,
     question : [kind : {"none", "ADD", "CALL"}, who : Account \cup {Null}]]

NewApp ==
    [conn |-> Null, mHasHandshaked |-> FALSE, page |-> "flyer", mLoggedUser |-> Null,
     mContacts |-> {}, mIsCall |-> FALSE, mContactInCall |-> Null,
     mInCommunication |-> FALSE, mCurrentCalledContact |-> Null,
     recording |-> FALSE, playing |-> FALSE, question |-> NoQuestion]

Command(command, a, accept) == [cmd |-> command, who |-> a, accept |-> accept]

ClientInit ==
    /\ app = [p \in User |-> NewApp]
    /\ toServer = [c \in Conn |-> <<>>]
    /\ toClient = [c \in Conn |-> <<>>]

-----------------------------------------------------------------------------
(* The commands that ServerCommunication builds *)

createAccount(a) == Command("REG", a, FALSE)
authenticate(a) == Command("LOG", a, FALSE)
disconnect == Command("EXIT", Null, FALSE)
updateInfo(a) == Command("UPDATE", a, FALSE)
getContactInfo(a) == Command("SHOW", a, FALSE)
addContact(a) == Command("ADD", a, FALSE)
acceptContactInvitation(a, accept) == Command("ACCEPT_ADD", a, accept)
deleteContact(a) == Command("DEL", a, FALSE)
sendMessage(a) == Command("SEND", a, FALSE)
call(a) == Command("CALL", a, FALSE)
acceptCallInvitation(a, accept) == Command("ACCEPT_CALL", a, accept)
terminateCall(a) == Command("CLOSE_CALL", a, FALSE)
sendHandshake == Command("HANDSHAKE", Null, FALSE)

-----------------------------------------------------------------------------
(* The parts of a client that the slots change *)

\* Mutant of disconnectedFromServer: the page of the last user stays.
disconnectedKeepingPage(r) == [r EXCEPT !.mContacts = {}]

\* Babel::disconnectedFromServer.
disconnectedFromServer(r) == [r EXCEPT !.mContacts = {}, !.page = "flyer"]

\* ServerCommunication::onDisconnection and the slots it reaches.  A call that
\* is going on is not stopped.
onDisconnection(r) ==
    [disconnectedFromServer(r) EXCEPT !.conn = Null, !.mHasHandshaked = FALSE]

\* How starting the two sound devices of a call can end; one that is running is
\* left alone.
Devices(r, accept) ==
    {"both"}
      \cup {d \in {"none"} : accept /\ AudioMayFail /\ ~r.recording}
      \cup {d \in {"input"} : accept /\ AudioMayFail /\ ~r.playing}

startCall(r, a, devices) ==
    [r EXCEPT !.mCurrentCalledContact = a, !.mInCommunication = TRUE,
              !.recording = @ \/ devices # "none",
              !.playing = @ \/ devices = "both"]

\* Mutant of stopCall: the output is left running.
stopRecordingOnly(r) ==
    [r EXCEPT !.mInCommunication = FALSE, !.recording = FALSE, !.mCurrentCalledContact = Null]

stopCall(r) ==
    [r EXCEPT !.mInCommunication = FALSE, !.recording = FALSE, !.playing = FALSE,
              !.mCurrentCalledContact = Null]

\* Mutant of receiveContactInfo: a new contact is not taken in.
receiveKnownContactInfo(r, a) ==
    IF a = r.mLoggedUser THEN r ELSE [r EXCEPT !.mContacts = @]

\* A SHOW of the user's own account is its own data, any other a contact.
receiveContactInfo(r, a) ==
    IF a = r.mLoggedUser THEN r ELSE [r EXCEPT !.mContacts = @ \cup {a}]

receiveContactDeletion(r, a) == [r EXCEPT !.mContacts = @ \ {a}]

receiveCallAnswer(r, a, accept, devices) == IF accept THEN startCall(r, a, devices) ELSE r

receiveCallClose(r, a) == IF r.mCurrentCalledContact = a THEN stopCall(r) ELSE r

\* Mutant of startCommunication: the button does not become "hang up".
startCommunicationUnshown(r, a, accept) == IF accept THEN [r EXCEPT !.mContactInCall = a] ELSE r

startCommunication(r, a, accept) ==
    IF accept THEN [r EXCEPT !.mContactInCall = a, !.mIsCall = TRUE] ELSE r

terminateCommunication(r) == [r EXCEPT !.mIsCall = FALSE]

receiveServerAnswerForDisconnecting(r) ==
    [(IF r.mInCommunication THEN stopCall(r) ELSE r) EXCEPT !.mContacts = {}]

disconnectSuccess(r) == [r EXCEPT !.page = "flyer"]

authenticateSuccess(r) == [r EXCEPT !.page = "main"]

-----------------------------------------------------------------------------
(* Steps of a client *)

\* p's state becomes r, and commands are written to its connection.
Turn(p, r, commands) ==
    /\ app' = [app EXCEPT ![p] = r]
    /\ toServer' = IF r.conn = Null THEN toServer
                   ELSE [toServer EXCEPT ![r.conn] = @ \o commands]

\* sendCommand on a socket that is not connected: SocketException is turned into
\* a disconnection.
sendCommand(p, r, command) ==
    IF r.conn = Null THEN Turn(p, onDisconnection(r), <<>>) ELSE Turn(p, r, <<command>>)

\* A message of kind cmd is the next one that treatCommand gets.  Its other
\* branch, which closes a connection on a message before the handshake, is never
\* taken (GreetedFirst).
Receives(p, cmd) ==
    /\ app[p].conn # Null
    /\ app[p].question = NoQuestion
    /\ toClient[app[p].conn] # <<>>
    /\ Head(toClient[app[p].conn]).cmd = cmd
    /\ toClient' = [toClient EXCEPT ![app[p].conn] = Tail(@)]

Received(p) == Head(toClient[app[p].conn])

handleHandshakeCommand(p) ==
    /\ Receives(p, "HANDSHAKE")
    /\ Turn(p, [app[p] EXCEPT !.mHasHandshaked = TRUE], <<>>)

handleShowCommand(p) ==
    /\ Receives(p, "SHOW")
    /\ Turn(p, receiveContactInfo(app[p], Received(p).who), <<>>)

handleDelCommand(p) ==
    /\ Receives(p, "DEL")
    /\ Turn(p, receiveContactDeletion(app[p], Received(p).who), <<>>)

\* BabelMain shows the message if its sender is in the list (MessageFindsContact).
handleSendCommand(p) ==
    /\ Receives(p, "SEND")
    /\ Turn(p, app[p], <<>>)

\* newContactInvitation: the user is asked.
handleAddCommand(p) ==
    /\ Receives(p, "ADD")
    /\ Turn(p, [app[p] EXCEPT !.question = [kind |-> "ADD", who |-> Received(p).who]], <<>>)

\* newCallInvitation: the user is asked.
handleCallCommand(p) ==
    /\ Receives(p, "CALL")
    /\ Turn(p, [app[p] EXCEPT !.question = [kind |-> "CALL", who |-> Received(p).who]], <<>>)

\* When a device cannot be opened the call is closed at once, halfway through the
\* slot.
criticalErrorHappenedInCallManager(a, devices) ==
    IF devices = "both" THEN <<>> ELSE <<terminateCall(a)>>

\* receiveCallAnswer, then startingCommunication: a call that could not be started
\* is shown until the server's CLOSE_CALL.
handleAcceptCallCommand(p) ==
    LET a == Received(p).who
        accept == Received(p).accept
    IN  /\ Receives(p, "ACCEPT_CALL")
        /\ \E devices \in Devices(app[p], accept) :
              Turn(p, startCommunication(receiveCallAnswer(app[p], a, accept, devices), a, accept),
                   criticalErrorHappenedInCallManager(a, devices))

\* receiveCallClose, then terminatingCommunication.
handleCloseCallCommand(p) ==
    /\ Receives(p, "CLOSE_CALL")
    /\ Turn(p, terminateCommunication(receiveCallClose(app[p], Received(p).who)), <<>>)

\* Answers that only open a dialog are not put in toClient (Effective); the page
\* that an OK to REG turns to is in ClientWindows (createAccountSuccess).
handleErrCommand(p) ==
    LET r == app[p]
    IN  /\ Receives(p, "ERR")
        /\ \/ /\ Received(p).instruction = "LOG"
              /\ Turn(p, authenticateSuccess(r), <<getContactInfo(r.mLoggedUser)>>)
           \/ /\ Received(p).instruction = "EXIT"
              /\ Turn(p, disconnectSuccess(receiveServerAnswerForDisconnecting(r)), <<>>)

-----------------------------------------------------------------------------
(* What a user does *)

\* Commands not treated, messages not read and questions not answered.
UnderWay ==
    MapThenSumSet(LAMBDA c : Len(toServer[c]) + Len(toClient[c]), Conn)
      + Cardinality({p \in User : app[p].question # NoQuestion})

\* The window takes input, and users do not run ahead of the bound.
Input(p, page) ==
    /\ app[p].question = NoQuestion
    /\ app[p].page = page
    /\ UnderWay <= MaxUnderWay

\* The user gives a command on a page; the client's state is r then.
Asks(p, page, r, command) ==
    /\ command.cmd \in Wish
    /\ Input(p, page)
    /\ sendCommand(p, r, command)
    /\ UNCHANGED toClient

\* The form of BabelFlyer: who logs in is noted before the server answers.
askForAuthentication(p, a) ==
    Asks(p, "flyer", [app[p] EXCEPT !.mLoggedUser = a], authenticate(a))

\* The form of BabelInscription.
submitInscription(p, a) == Asks(p, "flyer", app[p], createAccount(a))

onAddContactButtonClicked(p, a) == Asks(p, "main", app[p], addContact(a))

onDeleteButtonClicked(p, a) == Asks(p, "main", app[p], deleteContact(a))

\* The user updates the account logged in to.
updateContactInfo(r) == updateInfo(r.mLoggedUser)

\* The form of BabelUpdate.
submitUpdate(p) == Asks(p, "main", app[p], updateContactInfo(app[p]))

\* The message is shown and sent when its receiver is in the list.
onSendButtonClicked(p, a) ==
    /\ a \in app[p].mContacts
    /\ Asks(p, "main", app[p], sendMessage(a))

\* The selected contact stays selected when it leaves the list: a need not be in
\* it any more.
onCallButtonClicked(p, a) ==
    Asks(p, "main", app[p],
         IF app[p].mIsCall THEN terminateCall(app[p].mContactInCall) ELSE call(a))

\* The first page is shown before the server answers.
onLogoutButtonClicked(p) == Asks(p, "main", [app[p] EXCEPT !.page = "flyer"], disconnect)

\* The user answers a question, and the answer is sent.
Replies(p, kind, command) ==
    /\ app[p].question.kind = kind
    /\ sendCommand(p, [app[p] EXCEPT !.question = NoQuestion], command)
    /\ UNCHANGED toClient

newContactInvitation(p, accept) ==
    Replies(p, "ADD", acceptContactInvitation(app[p].question.who, accept))

newCallInvitation(p, accept) ==
    Replies(p, "CALL", acceptCallInvitation(app[p].question.who, accept))

\* connectToServer first leaves the connection there is, whose messages are then
\* no longer read, and shakes hands on the new one, c.
connectToServer(p, c) ==
    LET r == app[p]
    IN  /\ Input(p, "flyer")
        /\ app' = [app EXCEPT ![p] = [(IF r.conn = Null THEN r ELSE onDisconnection(r))
                                        EXCEPT !.conn = c]]
        /\ toServer' = [toServer EXCEPT ![c] = <<sendHandshake>>]
        /\ toClient' = [d \in Conn |-> IF d \in {c, r.conn} THEN <<>> ELSE toClient[d]]

\* TcpClient::close by the signal disconnected, also while a question is open.
\* What is read of the connection after that is thrown away: it comes before a
\* handshake.
onSocketClosedByServer(p) ==
    /\ app[p].conn # Null
    /\ Turn(p, onDisconnection(app[p]), <<>>)
    /\ toClient' = [toClient EXCEPT ![app[p].conn] = <<>>]

Handle(p) ==
    \/ handleHandshakeCommand(p) \/ handleShowCommand(p) \/ handleDelCommand(p)
    \/ handleSendCommand(p) \/ handleAddCommand(p) \/ handleCallCommand(p)
    \/ handleAcceptCallCommand(p) \/ handleCloseCallCommand(p) \/ handleErrCommand(p)

Use(p) ==
    \/ \E a \in Login[p] : askForAuthentication(p, a) \/ submitInscription(p, a)
    \/ \E a \in Account \ {app[p].mLoggedUser} :
          \/ onAddContactButtonClicked(p, a) \/ onDeleteButtonClicked(p, a)
          \/ onSendButtonClicked(p, a) \/ onCallButtonClicked(p, a)
    \/ submitUpdate(p) \/ onLogoutButtonClicked(p)
    \/ \E accept \in BOOLEAN : newContactInvitation(p, accept) \/ newCallInvitation(p, accept)
=============================================================================
