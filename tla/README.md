# Babel: a TLA+ model of a VoIP system

Babel is a voice-over-IP system in C++: a server (`src/Babel/server`,
boost::asio) that keeps accounts, sessions, contact lists and the signalling of
calls, and a Qt client (`src/Babel/client`) that talks to it over TCP and sends
sound to the other client of a call over UDP. The wire protocol is described in
`src/Docs/babel_rfc.docx`. This project models both programs and what lies
between them, and says with TLC and TLAPS what they guarantee:

* the server's handlers (`BabelServer`) and one of its TCP connections (`Connection`);
* the client and the whole of clients and server (`BabelClient`, `BabelSystem`);
* the packets of both sides and the client's end of a connection (`Packets`,
  `Codec`, `CommandStream`);
* the sound of a call, from microphone to loudspeaker (`SoundPath`);
* the windows of a client (`ClientWindows`).

## 1. The system

| Part | Source | State | Operations |
|---|---|---|---|
| Server handlers | `server/sources/BabelServer.cpp` | `mClients`, `mAccounts` | one `on...` handler per command, connection and disconnection; export and import of the accounts; `cleanWrongsUserFile` |
| Client objects and user files | `server/sources/Client.cpp`, `Client.hpp` | account, pseudo, status, call state, contacts, partner pointer, handshake; one file per account | `connect`, `disconnect`, `resetAttributes`, `saveData`, `loadData`, `treatCommand` |
| Framing | `server/sources/Command`, `Factory.cpp` | current header and parameters | `unPackCmd`, `packCmd`, `getParam` |
| Sockets | `server/sources/TcpClient.cpp`, `TcpServer.cpp` | read buffer, write queue | `startRecv`, `send`, `sendHandler`, `closeClient` |
| Process | `server/sources/main.cpp` | | start, event loop, exit by exception |
| Commands | `server/sources/Command`, `client/sources/Commands` | one packed structure per command and side | `setParam`, `getParam`; `getMessage`, `initFromMessage` |
| Client: server communication | `client/sources/ServerCommunication`, `Network/TcpClient.cpp` | handshake, header read and not its content | send a command, treat an answer, cut the stream |
| Client: application | `Babel.cpp`, `Audio/CallManager.cpp` | account, contact list, state of the call | signals between the parts |
| Client: windows | `GUI` | page, copies of the contact list, selected conversation, call button | slots of buttons and of `Babel`'s signals |
| Client: sound | `Audio/*`, `Network/UdpClient.cpp` | sounds posted and buffered, accepted host, timestamp of the last packet | record, encode, send, receive, play |

The server is a single thread in one `io_service`. It accepts a connection,
makes a `Client`, and puts it in `mClients`; each received command calls one
handler, which changes `Client` objects, saves them to user files and sends
answers, also to other clients. A handler keeps running until it returns.
Sessions refer to each other by raw pointers (`mCommunication`); accounts are
found by searching `mClients` for a name (`findOnlineClient`). Passwords live in
`mAccounts`, written to disk only by the destructor of `BabelServer`; everything
else of an account lives in its user file, which also holds the mark
`isConnected` that a login checks.

A client is one Qt event loop, and a thread of the sound library while devices
run. Its parts are joined by signals: a command read from the socket has been
treated by `ServerCommunication`, `Babel`, `CallManager` and the windows when the
slot returns. Questions to the user (an invitation, a call) run an event loop of
their own inside that slot.

What is hard here:

* **Interleavings of clients.** Handlers are atomic, their order is not: two
  logins of one account, two crossing calls, a deletion while a call rings, an
  answer from someone who logged in anew.
* **Raw pointers between sessions.** A partner's `Client` can be destroyed, and
  another connection's be allocated at the same address.
* **Two copies of the truth.** Object and user file, `mAccounts` and the accounts
  file, and both users' contact lists must agree, and one handler may save two
  files, of which one may fail.
* **Failure.** A save can fail, a kill can fall inside a save or between two, and
  an exception can leave the event loop. The "rollback" of the handlers copies a
  pointer and undoes nothing.
* **Two pending operations per connection.** A receive and a write are outstanding
  at the same time; each can fail, and each failure closes the connection.
* **Bytes, not messages.** A receive ends anywhere: inside a header, between a
  header and its body, or in the middle of the next command.
* **Protocol order.** Commands before the handshake, acceptances without an
  invitation, and answers to calls one has made oneself.
* **Client and server apart.** Commands cross messages on the way: both ends hang
  up, an answer arrives after a logout, a device fails after the server has
  connected the call. Each side keeps its own copy of the session, the contacts
  and the call, and a client keeps some of them two or three times.
* **Questions inside slots.** While one is open, bytes arrive unsignalled and the
  connection can be lost.
* **Two threads and a network that reorders.** A recorded sound changes threads
  without saying whom it is for; datagrams are lost, doubled and overtaken, and
  their stamps are by the sender's clock.
* **Two definitions of each packet.** Client and server lay out and number the same
  commands separately.

`PROJECT.json` lists every hazard at its line with the properties that cover it,
or the reason why none does.

What makes each part correct:

* *sessions*: an account has at most one session; the mark in its file says so;
  an account nobody uses can be used; a registered account has a file;
* *contacts*: friendship is mutual; contacts hear of every change of presence;
* *calls*: partners point at each other and are in the same state; whoever starts
  or stops talking is told, at both ends;
* *persistence*: what a registration, login, update, or change of contacts that was acknowledged has changed is in the user files;
* *framing, sockets*: commands are cut at the right bytes, answers leave in order
  and once, a socket is closed once;
* *packets*: what one side writes the other reads as the same command, with each
  field in its place;
* *client*: once everything is read its view of session, contacts and call is the
  server's; its windows agree with what it keeps, and a text goes to the contact
  it was typed for;
* *sound*: what a call records goes to its partner only, sound is heard in order, and whoever
  talks for long enough is heard.

## 2. Modules

| Module | What it holds |
|---|---|
| `ServerData` | constants and assumptions, variables, records of objects, files and messages, the helpers of the handlers, `TypeOK` |
| `BabelServer` | `Init`, one action per handler and per event of the process and the disk, `Next`, `Spec` |
| `SessionRegistry` | abstract specification: what login promises |
| `BabelServerProperties` | the server's properties, and the refinement mapping to `SessionRegistry` |
| `Channel` | abstract specification: a channel that keeps order and loses nothing |
| `Connection`, `ConnectionProperties` | one connection at the server: kernel, receives, the write queue, the cutting of the stream into commands, the closing; `Channel` instantiated for both directions |
| `BabelClient` | one action per slot of the client that the server or the user triggers |
| `BabelSystem`, `BabelSystemProperties` | `BabelClient` and `BabelServer` joined by a queue in each direction of each connection |
| `Packets` | the structures, numbers and accessors of every command, on both sides |
| `Codec` | what writing and reading them does to texts and numbers |
| `CommandStream`, `CommandStreamProperties` | the client's end of a connection, byte by byte, with all commands both ways |
| `SoundPath`, `SoundProperties` | the sound of calls: two threads per client, and UDP |
| `ClientWindows`, `WindowsProperties` | pages, contact lists and conversations |
| `MC...` | symmetry sets, views and values of constants for TLC |
| `LoginProofs`, `CallProofs`, `FileProofs` | theorems about the server, each module resting on the one before (`FileProofs` on `LoginProofs`) |
| `SystemProofs` | theorems about clients and server together, resting on `CallProofs` and `FileProofs` |
| `ConnectionProofs`, `StreamProofs`, `SoundProofs`, `WindowsProofs` | theorems about the other components |

How they meet. `BabelSystem` EXTENDS `BabelServer` and INSTANCEs `BabelClient`: a
`Serve` step is a handler of the server applied to the first command of a queue, and
its messages (`sent`) are appended to the queues of their receivers. That whole
commands travel in order is what `Connection` shows of the server's end
(`CommandsInOrder`, `MessagesInOrder`) and `CommandStream` of the client's
(`ReadInOrder`). `ClientWindows` takes the signals that
`BabelClient` gives the windows, in any order; what `BabelClient` keeps of the windows
is the page and the call button, which the server's answers depend on.
`SoundPath` takes calls that begin and end at any time, also one that begins while another still runs
(as after a lost connection to the server and a new login, or when a third user takes a call
over), and so includes those of `BabelSystem`.
They are not multiplied into one module: the product would only add states.

### The server: state

| Variable | In the code |
|---|---|
| `up` | the process runs |
| `client[s]` | the `Client` at address `s`: `alive` (constructed and not destroyed), `listed` (in `mClients`), `handshaked`, `isConnected`, `account`, `pseudo`, `status`, `statusCall`, `contact`, `comm` (the partner pointer) |
| `mAccounts[a]` | the password of `a`, or `Null` |
| `file[a]` | the user file: absent, good with its contents, or torn (truncated, not yet written) |
| `accountsFile[a]` | the exported accounts |
| `unwritable` | user files `saveData` cannot open now |
| `sent` | messages handed to `packCmd` by the last step |

### The server: actions

Each handler `onX` of `BabelServer.cpp` is the action `onX(c, ...)`, with everything it
calls: a login that sends the contact list and notifies the contacts is one step.
The tests a handler makes before it acts are kept in the code's order in an
operator of their own (`LogError`, `CallError`, ...), which returns the error code
the code answers. `CloseCall` is `onCloseCall`, also used inside `onExit` and
`onDel`, as in the code; `CloseConnection` is `onCloseConnection`, used when a
socket is lost (`onSocketClosed`) and when a command comes before the handshake
(`StrayCommand`). The process stops by an exception (`Shutdown`: accounts are exported)
or is killed (`Crash`: they are not, and a file being saved may be torn), and
starts again (`Start`, with `cleanWrongsUserFile`).

### The server: abstractions

* Contact lists are sets, and so are the messages of one step: the order of
  messages inside one handler is not modelled.
* `findOnlineClient` returns the first match in `mClients`; the model chooses one.
  While no account is logged in twice there is only one.
* Reading through a pointer to a destroyed `Client` is undefined: the model lets the
  read give any account, or end the process (`AccountsReadAt` and the branches with
  `Die`).
* A command reaches its handler whole: `getParam` yields the right number of
  parameters (`RequestArrives` of `CommandStream`), so `WRONG_PACKET_STRUCT` does not occur.
* Reading a user file fails only when it is torn; `CANNOT_LOAD_DATA` does not occur.
  The accounts file is written by the destructor only and is not torn.
* `lastPingTime` is written and never read, and is left out.

### A connection at the server

| Variable | In the code |
|---|---|
| `process` | the server runs, has ended by an exception, or has done something undefined |
| `thread` | in the event loop, or inside `onSocketReadable` |
| `peer`, `wire` | the other end, and the bytes on their way to the server |
| `mReadBuffer`, `mBuffer` | the bytes of the last receive, and those not consumed |
| `header` | the header whose body `unPackCmd` waits for |
| `reading`, `writing` | the receive and the write: none, pending, completed or failed with the handler not yet run |
| `mWriteMessageQueue` | the queue; its front is the message being written |
| `listener` | the `Client` object exists |
| `pushed`, `treated`, `accepted`, `written` | histories, read by properties and by bounds only (and by `Decoded`, to tell which command starts at a byte) |

`send`, `recvHandler` and `recvFailed` (the two branches of the receive handler),
`sendHandler` and `sendFailed` (those of `sendHandler`) and the three outcomes of
a call of `unPackCmd` are the steps of the server's thread; `Kernel...` complete a
pending operation; `Peer...` are the other end. `closeClient` is not an action: it is
what a failed handler does. It makes the other operation fail, unless that has
completed already, in which case its handler still comes. Abstractions:

* `async_write` completes when the kernel has the whole message, as boost
  documents, so the branch of `sendHandler` for a partial write never runs.
  `written` is what the kernel has taken; that a peer gets it is up to TCP.
* A byte knows which command of the peer it belongs to, and its place in it. A header
  read at the first byte of a command is that command's; at any other byte it can
  be any instruction, known or not, and the command it gives has `from` 0.
* Sizes are scaled: a header is 2 units, a body 0 or 2, a receive takes up to 3. An
  ERR's `Body` declares the header again, so that the server awaits more than a peer sends.
* `getRemoteIp` in `closeClient` may throw once the peer has reset the connection (it
  does so on some platforms and not on others): both outcomes are modelled, and the
  exception ends the event loop.
* A handler that uses the destroyed `Client` or the deleted socket sets `process` to
  "undefined", after which nothing is claimed.

### Clients and server

| Variable | In the code |
|---|---|
| `app[p]` | a client process: its connection, `mHasHandshaked`, page, `mLoggedUser`, `mContacts`, the window's `mIsCall` and `mContactInCall`, the call manager's `mInCommunication` and `mCurrentCalledContact`, whether the devices run, and the open question |
| `toServer[c]`, `toClient[c]` | what was written to connection `c` and not yet treated or read |
| `losses`, `unnoticed`, `misnamed` | histories, read by properties and bounds only |

Each `handle...Command` of `ServerCommunication` is an action with everything its signals
reach; each button and form of the windows is an action of the user
(`askForAuthentication`, `onCallButtonClicked`, ...). A question stops the reading and the
input until it is answered (`newCallInvitation`), but not the loss of the connection.
`Devices` gives every outcome of opening the two sound devices; a failure sends
`CLOSE_CALL` in the middle of the slot, as the code does. Abstractions:

* Answers that only open a dialog are not delivered (`Effective`). An OK to `REG` would also turn the page, but
  the accounts of `BabelSystem` are all registered from the start, so that every `REG` is refused;
  the page it turns to is in `ClientWindows` (`createAccountSuccess`).
* What a user types beside an account is chosen when the command is treated.
* Messages of one step of the server arrive in any order.
* A connection is accepted as soon as it is made, and a client finds it closed at
  any later time. The server does not stop (`Switches`).

### Packets and the client's end of a connection

`Packets` has, per command, the structure each side declares, in order and with widths
(`Reg_PacketFromClient`, `Reg_Body`, ...), the instruction, status and error
numbers of each side, and which members are copied by whom. `Codec` writes a value
through one side's structure and reads it through the other's: a field is found by its
offset, and holds what was put there or is garbled. Texts are lengths in characters
and bytes, since truncation is all the code does to them.

| Variable of `CommandStream` | In the code |
|---|---|
| `link`, `thread` | state of the socket; in Qt's loop, reading, or asking the user while reading |
| `mCurrentState`, `mCurrentCommand` | those of `CommandPacketBuilder` |
| `mHasHandshaked` | that of `ServerCommunication` |
| `sent`, `arrived`, `consumed`, `received` | commands of the server and where each begins, how many of their bytes the socket has and the client has read, and what it read |
| `request` | a command of the client on its way |

Facts of Qt it rests on: `readyRead` is not signalled while a slot connected to it runs;
what was received stays readable after a disconnection, until `connectToHost`;
`disconnectFromHost` signals `disconnected` before it returns.

### Sound

Variables are those of the classes: `mInCommunication`, whether the devices run,
`mAcceptedHost` and `mTimestamp` of `SoundPacketBuilder`, `posted` (events between
the threads), `mBuffers` of the output, `heard` (the last sound played), `clock` (seconds
of each host) and `net`. `inputCallback` and `outputCallback` are the device's thread,
`startCall`, `stopCall`, `sendSound` and `onSocketReadable` Qt's; a mutex makes the
access to buffers atomic. A datagram stays in `net` until it is lost or received, and may be
received again. Of a sound is kept its stamp and, while it is posted, whom it was recorded for. The code keeps
no such thing, so that is history: a call that begins replaces it by `Null` where it is not
the new partner. `startCall` has no guard, like the code: a device that runs is left running, and what is posted stays posted.

### Windows

`mContacts` is `Babel`'s list, `mContactList` that of the list model, whose entries alone
hold conversations, `mCurrentContact` and `mMessageList` what the panel shows;
`mLoggedUser`, `mContact` and `mUser` are the account of the user as `Babel`, the window and
the main page keep it; `outbox` holds what the last step sent. Answers and messages of
the server come in any order. Sorting, pseudos and texts are left out; a message is its
signer, its conversation and a number. A send that fails empties the list inside the loop over it
(`sendFails`).

### Switches

Four switches choose the environment of a run of `BabelServer`, and are constants so that the
proofs can speak of all of them: `StrayCommands`, `SavesMayFail`, `ServerMayStop`,
`LeaveDuringCall`.

## 3. Runs

| Run | Instance | Shows |
|---|---|---|
| `sessions` | 2 addresses, 2 accounts, status bytes {2, 11}; commands before the handshake, stops, kills | `TypeOK`, `NoDoubleLogin`, `SessionHoldsFile`, `FileMirrorsSession`, `ContactsLearnOfChanges`, the refinement `ImplementsRegistry` |
| `contacts` | 3 addresses, 3 accounts | `ContactsSymmetric`, `NoStrandedLogin`, `CallStateFits`, `CallSignalledToBothEnds`, `HangUpIsSignalled`, also when sessions leave during a call |
| `calls` | 3 addresses, 3 accounts, nobody leaves during a call | `CallsPaired` |
| `failing_saves` | 2 addresses, 2 accounts; failing saves, stops, kills, nobody leaves during a call | `AcknowledgedIsSaved`, `RegisteredHasFile` |
| `connection` | 2 commands of 4 kinds (with ERR and an unknown one), 2 messages | `OneWriteAtATime`, `QueueAccounts`, `QuietCloseIsClean`; the refinements `MessagesInOrder` and `CommandsInOrder`; `EveryCommandIsTreated`, `EveryMessageIsWritten`, `LossIsNoticed` under fairness |
| `system` | 2 users with an account each, 2 connections, no loss, 2 things under way when a user acts, devices that fail | `AudioFollowsCall`, `ButtonFollowsCall`, `MessageFindsContact`, `GreetedFirst` |
| `system_links` | 2 users of either account, 3 connections, 1 loss, 1 thing under way, no calls | `ContactsShown`, `PageFollowsSession` |
| `wire` | every command both ways, 3 commands of the server, 2 connections | `ReadInOrder`, `AllReadWhenIdle`, `GreetedOnLink`, `RequestArrives` |
| `sound` | 3 hosts, one of them hears the two others, of whom one also calls the other; 3 seconds, clocks 1 second apart | `SoundTypeOK`, `SentInItsCall`, `HeardInOrder`, `SilenceIsBounded`; `TalkerIsHeard` under fairness |
| `windows` | 3 accounts, 2 contacts, 3 messages | `CopiesAgree`, `PanelFollowsSelection`, `SentOnceAsShown` |
| `lost_partner` | 2 addresses, 2 accounts, which may leave during a call | violates `EndOfCallIsNotified` |
| `call_host` | as `wire`, 1 connection | violates `HostArrives` |

Bounds of the server's runs. Two accounts and two addresses are what a double login, a
contact pair and a reused address need. Three addresses and three accounts are what a
call with an interfering third party needs; more add no new role, since a handler
never touches more than two sessions and the one its caller points to. Status byte
11 is the first value after `CRYING`. One password and one pseudo suffice: a wrong
password only takes the branch that an unregistered account takes, and `Null`
against `p1` tells a pseudo that is set from one that is not. There are no counters,
so no bound is put on the length of a run.

Bounds of `connection` (`MaxPushed`, `MaxAccepted`, `BUFFER_SIZE`). Two messages make a
`send` meet an empty queue, a queue whose write is pending, and one whose write has
completed with the handler to come; the theorems remove the bound. Receives of up
to 3 units against commands of 2 or 4 end in every place of a header and a body,
and can hold the end of one command and the start of the next. `CommandsInOrder`
and `EveryCommandIsTreated` speak of the commands before the first one that the
server does not know and the first ERR: behind these the server has lost its place,
and what is then treated can be anything. The theorem removes these bounds from `CommandsInOrder`.

Bounds of `system` and `system_links`. `MaxUnderWay` bounds what is under way when a
*user* acts; handlers and answers go on beyond it, so that queues get longer. Two let
commands of both users cross on the way, which is what crossing hang-ups, calls and
deletions need. Losses and calls are in different runs: a loss during a call leaves the
client's call running (section "Where documents and code disagree"), so that
`AudioFollowsCall` speaks of runs without one, and what follows a loss is a matter of
page and contact list. With a third user `AudioFollowsCall` and `ButtonFollowsCall` are false: TLC
finds, with three users, that one who logs out while the called user is still being asked, logs in again
and is then in a call with the third, loses that call to the answer to the first (section "Where
documents and code disagree"). With `LeaveDuringCall` off both hold for any number of users, which TLC saw with three
and section 4 proves. A connection more than users lets a client leave one for
another while the server still holds both.

Bounds of `wire` (`MaxSent`, `MaxConnections`). The first command of a connection is the
greeting (`GreetedFirst` of `system`); the second may have any text in one field
(one character, one byte less than the field, as much, one more; two characters in three
bytes); the third is of every kind with usual fields, since what it holds matters no more than
where it begins. The stream is cut at, before and behind every boundary. The theorems remove the bounds.

Bounds of `sound` (`MaxPosted`, `MaxBuffered`, `MaxNet`, `MaxClock`, `MaxSkew`). One listener
whose partners have clocks that are a second apart is the case in which a stamp kept from
one call silences the next; the theorems hold for any bounds. More seconds are counted than clocks differ
by: else `SilenceIsBounded` would follow from the types. Of each talker one datagram is under way to the listener
and one sound is posted, so that a datagram of one call is overtaken by those of the next. One talker
has two partners, so that its sounds can be posted in one call and sent in another; the datagrams it sends to the one who does not
listen are not kept under way. The outputs of both talkers fail to open; that an input fails is left to the
theorems, which are about any `Devices`, and to `system`.

Bounds of `windows` (`MaxMessages`, `MaxContacts`). The user and two contacts fill both places; an
account that is the user's own for one login is a contact in the next. Three messages give two to
one conversation and one to the other.

Symmetry and view. Accounts are interchangeable, and addresses too while
`findOnlineClient` has one match (the `CHOOSE` in it is then determined). With
failing saves an account can be logged in twice, so `failing_saves` permutes accounts
only. In `BabelSystem` connections are exchanged, and two users together with
their accounts. No symmetry is used where liveness is checked. `StateView` and
`SystemView` leave `sent` out of the fingerprint: no action reads it, and all
properties about it are action properties, which TLC evaluates on every step it
takes, before it looks the state up.

Deadlock is checked in `contacts`, `calls`, `failing_saves`, `sound` and `windows`. It is not
in `sessions`: a server whose registered account has a torn user file throws in its
constructor at each start, and the system really stops. Nor in `connection` and
`wire`, where a connection that is over does nothing more, nor in the runs of
`BabelSystem`, where users need not act and one who is not logged in may have
no command left within the bounds.

Fairness. `BabelServer` and `BabelSystem` assume none: neither has a timer or work of its own.
`Connection!Fairness` is weak fairness of each handler, since boost's event loop
runs every handler that is ready, and of the completion of a pending receive and
write, since TCP delivers what was sent and the other end reads. The latter is an
assumption about the peer: against one that never reads, `EveryMessageIsWritten` fails and
the queue grows. No fairness is put on `PeerSend`, `PeerClose`, `PeerReset` or `send`.
`SoundFairness` is weak fairness of the recording and sending and of the playing
(a running device calls back, Qt's loop delivers), of the passing of time, and of the end of old
datagrams, and strong fairness of the arrival of sounds of the present second: the network
may lose any of them, but not all for ever. Neither calls nor restarts are fair; `TalkerIsHeard`
speaks of calls that last.

Conditions in properties. `AudioFollowsCall`, `ButtonFollowsCall`, `ContactsShown` and
`PageFollowsSession` speak of settled states, in which nothing is under way; TLC reaches them with
calls established, ended and refused, and each property's mutant is found in one.
`ContactsShown` and `MessageFindsContact` exclude what follows a login form whose account the
client is already told of by the session it has or asked for (`misnamed`; a user can submit the
form again while the first login is under way, or while messages of an ended session are still unread):
the client then takes its own data for a contact's, or a contact's for its own. `RequestArrives` asks for a beginning only of a text that is not ASCII.

### Where documents and code disagree

Two runs check one property each that the protocol document states and the code does
not keep; `PROJECT.json` quotes the lines.

| Run | What happens |
|---|---|
| `lost_partner` | a connection lost during an established call leaves the partner talking, with a pointer to a destroyed object and without the `CLOSE_CALL` that the document promises |
| `call_host` | the address in `ACCEPT_CALL` has room for 15 characters and no zero byte, but the server copies 14: a fifteen-character address loses its last digit, and the sound goes elsewhere |

`EndOfCallIsNotified` speaks of established calls. While a call still rings nothing is promised to the
other end, and none of the ways to leave ends the call: `onCloseConnection` does not try, and the `onCloseCall` inside `onExit`
refuses a session that is not `ISCALLING`. So `CallsPaired` is false as soon as someone leaves while a call rings, by an
exit too; it is checked (`calls`) and proved for nobody leaving during a call.

Other disagreements that the models show, and that the properties above leave room for:

* deleting an offline contact tells neither client by `del`, although the document promises it to
  both; the requester's list keeps the contact (`BabelServer.cpp:637`, `unnoticed` in `ContactsShown`);
* `onShow` sends the requester's own status and connection as the contact's (`BabelServer.cpp:451`);
* after a refusal the caller stays `ISWAITING`, and its later calls are answered
  `CANNOT_DO_CALL_MULTIPLE` (`BabelServer.cpp:774`);
* a login answered `CANNOT_SAVE_DATA` has logged the client in (`BabelServer.cpp:387`), so that
  `NoDoubleLogin` needs saves that succeed;
* a connection lost while a message is being written is closed twice, the second time on deleted
  objects (`TcpClient.cpp:124`); `QuietCloseIsClean` is the part that holds;
* whom an answer to a call concerns is decided by the caller's object alone (`BabelServer.cpp:735`): a caller
  that logged out and in again meanwhile, and now talks to a third user, is still taken for the one
  who asked. A refusal then takes the partner pointer of the new call, an acceptance takes the caller over and leaves
  the third user talking to nobody;
* a client that loses the server during a call goes on recording and sending (`Babel.cpp:107`), and after a new login
  another call can begin over it. Sounds posted for the old partner when it begins are sent to the new one
  (`SoundPacketBuilder.cpp:38`); the same happens when a call begins before Qt's loop has delivered what
  was posted in the one before. `SentInItsCall` is the part that holds;
* the client copies as many bytes of a UTF-8 text as it has characters, so that a text with accents
  loses its end (`client/sources/Commands/CommandSend.cpp:20`);
* a header left over when a connection is lost inside a slot makes the next connection begin with a
  content (`CommandPacketBuilder.cpp:57`, `inStep`);
* a client that sends a login form for an account an unread message still names ignores the
  presence of that contact (`Babel.cpp`, `receiveContactInfo`), and a user who then accepts its invitation becomes their own
  contact, since `onAcceptAdd` has no test for it (`misnamed`);
* every new contact list empties the conversations (`ContactListModel.cpp:49`).

`ContactsSymmetric` is false with failing saves, kills or commands before the handshake, and `NoStrandedLogin`
with the first or the last of these; no document promises them.

## 4. Proofs

The theorems about the server hold for every finite or infinite set of addresses, accounts, pseudos
and passwords, under the three assumptions of `ServerData` (`Null` is no name; status
bytes are naturals; switches are Booleans). The switches are left open unless
a theorem says otherwise; where one is assumed off, the property is false with it on (TLC finds
a counterexample with two addresses, two accounts and status bytes 0 and 2).

**Types and sessions** (`LoginProofs`)

* `TypeCorrect`, `Spec => []TypeOK`. `TypeOK` is not inductive: `onCall`,
  `onDel` and others save the object of a session under its account, which must be
  an account and not the empty name. The strengthening is `SessionsAreNamed`: who
  is logged in has an account. One lemma per handler; what a handler returns is
  typed by lemmas on the helpers (`Store`, `CloseCall`, `CloseConnection`, ...).
* `NoDoubleLoginHolds` and `SessionHoldsFileHolds`,
  `ASSUME ~SavesMayFail PROVE Spec => []...`. `NoDoubleLogin` says nothing about the
  file that `onLog` reads, so it is not inductive. `LoginInv` adds `SessionHoldsFile`
  (the file of a session's account exists, is marked, and its account is
  registered), that no file is unwritable, and that a stopped server has no session. A login then
  finds the mark set whenever a session of the account exists; `onReg` cannot
  overwrite the file, since the account is registered; and the saves of other handlers write
  objects that are still logged in, or log out exactly the one session the file belongs
  to. With failing saves `NoDoubleLogin` is false: after a login whose save failed
  the file is not marked, and the account can log in again.
* `RegistryImplemented`, `ASSUME ~SavesMayFail PROVE Spec => ImplementsRegistry`: the refinement
  of `SessionRegistry`. Each handler is shown once to be one of a few kinds of steps on
  marks and sessions (`LoginStep`: nothing, a login, a logout, a loss, a registration, a stop, a start); each
  kind is a step of the registry, or changes neither `Lock` nor `Holder`. Beyond `LoginInv` it takes
  that a stopped server knows no accounts (`DownIsEmpty`).
* `NoStrandedLoginHolds`, `ASSUME ~SavesMayFail, ~StrayCommands`. The kinds of steps keep the property but for
  a session that is lost without being logged out, which is one of an object that is not in
  `mClients`. `ObjectInv` says that there is no such object without stray commands; it also says that an
  address without a connection has the default object and that sessions have shaken hands.

**Calls** (`CallProofs`). What a handler does to the calls is again one of a few kinds of steps
(`CallStep`: kept, rings, answered, refused, hung up, an object leaves or starts without a call),
with the messages that belong to it. From these follow

* `CallStateFitsHolds`, `~SavesMayFail`, itself inductive beside `LoginInv` and `ObjectInv`;
* `CallsPairedHolds`, `~SavesMayFail, ~LeaveDuringCall`; section 3 says what happens without the second;
* `HangUpIsSignalledHolds`, `~SavesMayFail`, a property of steps;
* `CallSignalledToBothEndsHolds`, without assumption, from the invariant that nobody is
  their own partner.

**Files and contacts** (`FileProofs`)

* `RegisteredHasFileHolds`, without any
  assumption on the environment: `onReg` registers after a save that succeeded, nothing
  but the clean-up removes a file, and the clean-up keeps those of the exported
  accounts.
* `FileMirrorsSessionHolds`, `~SavesMayFail`. `Mirrored(client, file)` is the property with the objects
  and the files as arguments: handlers save in the middle of what they change, so the proof goes through
  states between two saves, in which the objects at some addresses are ahead of their files
  (`MirroredBut`). That no account has two sessions is what keeps one save from undoing another.
* `ContactsSymmetricHolds`, `~SavesMayFail, ~StrayCommands, ~ServerMayStop`. The handlers look at the list of the
  session, which is that of the file (`Mirrored`), and change two files one after the other. `ContactInv` adds
  that nothing is exported without a stop, and that who is not registered has no contacts on disk, so that
  the file `onReg` writes anew breaks no friendship.
* `AcknowledgedIsSavedHolds`, without assumption, about the user files after a `REG`, `LOG`, `UPDATE`, `ACCEPT_ADD` or `DEL`
  answered `OK`: their handlers answer so in the step of a save that
  succeeded, and what the step does afterwards to the same file keeps what was answered. It is no promise about `EXIT`, which
  is answered before a save that nobody looks at (`BabelServer.cpp:679`), nor about a registration's password, which
  only the destructor writes: a kill loses it, and the next start then deletes the user file.
* `ContactsLearnOfChangesHolds`, `~SavesMayFail`: a property of steps that needs `LoginInv`, `ObjectInv` and `Mirrored`, since
  the contacts who are told are those of the object, and those who should be are found by
  their session.

**A connection** (`ConnectionProofs`), for any messages, sizes and numbers of them, and every way a
connection ends

* `OneWriteAtATimeHolds`, `QueueAccountsHolds` and
  `MessagesInOrderHolds`. `QueueInv` is the conjunction of the queue's types, the two
  properties, and one fact that neither has: while an operation is outstanding the
  queue is not empty, also after the `Client` is gone. Without it the kernel could take the front of an
  empty queue, and `sendHandler` could pop one. From `QueueInv`, each step of `Connection` is a `Put`,
  a `Get` or a stutter of `Channel`: a `send` extends `accepted`, and what the kernel
  takes is the next of `accepted`.
* `QuietCloseIsCleanHolds`. `CloseInv` adds that a destroyed `Client` with an empty queue has no receive outstanding,
  and that commands are cut for a living one only.
* `CommandsInOrderHolds`, for any header, bodies, receives and numbers of commands: each step is a `Put`, a `Get` or a stutter
  of `Channel`. `OrderInv` describes the bytes that no command was cut from yet (`Left`: `mBuffer`, `mReadBuffer` and
  `wire` in a row) without adding up sizes. None is missing between two of them (`IsRun`: a byte `d` places behind another
  is `d` places further in the same command or, when that ends just before, the first of the next), they go on to the end
  of the last command sent unless the peer has reset the connection (`RunsOut`), and the first one is where the server goes
  on reading (`Place`: at the header behind the commands treated, or at the body of the header read). So the header that is
  read is that of the next command, and a body ends where the next header begins, wherever receives were cut. `TakenOver`
  is needed too: no bytes are received into `mReadBuffer` while those of the last receive are in it. All of it
  holds until every regular command is treated and one that is not has been sent (`Lost`); from there on neither side of
  the channel changes. That there is a last regular command (`AreRegular`) is kept step by step, as it
  cannot be had by induction. The proof found that `SizeAssumption` kept `Null` apart from instructions where `header`
  holds a command; it now keeps it apart from commands.
* `AllTreated` and `ReadingGoesOn` are the safety that `EveryCommandIsTreated` and `LossIsNoticed` rest on, for any
  parameters: when everything sent has come in and the thread is back in its loop, every regular command
  has been treated (`WaitsForMore`: the loop is left only with less than a header, or less than a body, in the buffer;
  in place, a command not treated would be whole there); and while a `Client` lives a
  receive is outstanding. What the runs add is that bytes come in and handlers run.

**The stream and the packets** (`StreamProofs`), for any header size, numbers of commands and of
connections, and texts of any length: `ReadingInOrder`, `ReadingAll`, `GreetingsOfLink` and `RequestsArrive`

* The codec first. Both sides declare the same members, in an order of their own, so that a command
  arrives whole when each field is found where it was put: `FieldFound` for one field, then one lemma per
  command and direction. Where a field begins is a sum of the widths before it, a fold over a set of at most four fields
  (`FoldOfFour`). What a text of any length becomes is bounded by the width of its field.
* `StreamInv` for the client's end. Commands lie behind one another in the stream (`SentInOrder`), and the client has
  consumed no more than has arrived, and that no more than was sent (`Arrived`). On a connection that begins with
  the reading of a header it has received the first `n` commands and consumed them and perhaps the next header;
  when it waits, none of the others has arrived whole (`ReadUpto`). On one that begins with a content left over it
  received nothing and is about to be closed (`OutOfStep`), and what is read of a lost connection is read from behind
  its greeting (`LeftOver`). `AwaitsContent` says that a content awaited is one the server sends, `Requested` that
  a command of the client was written by its own structure.

**Clients and server** (`SystemProofs`), for any users, connections and accounts, whatever users ask
for, and any bounds. Beside the assumptions of `BabelSystem` on its constants the accounts are finitely many
(`FiniteAssumption`): the messages of one step are enumerated, and a name has at most 256 bytes.

* `ServerOfSystem`: the server takes steps of `BabelServer`, and of those only the ones that a connection
  brings (`Serving`), so that `LoginInv` holds without an assumption on the disk. This has to be
  proved, since `Treat` gives a handler whatever is in a queue. `SystemInv` says that queues hold
  commands that `BabelServer` treats (`QueueTypes`), that a client knows whom its commands name: a caller, its partner,
  and who it is itself before its login is answered (`NamesKnown`), and that a connection has one client (`OwnConnections`).
* `SystemLoginsExclusive` is `NoDoubleLogin` and `SessionHoldsFile` in the system, whose first state has accounts and
  contacts and is none of `BabelServer`'s.
* `GreetedFirstHolds`. `GreetedInv`: before it has read the handshake a client has it at the front of its queue, or nothing
  in its queue and an object that has not shaken hands. To the latter nobody sends (`Tells`, one lemma
  per handler).
* `PageFollowsSessionHolds`. The property speaks of settled states; `PageInv` relates page, session and both queues of a
  connection at all times: behind the answer to a login no answer follows, at most one logout is under
  way and nothing that turns the page comes with it, a session whose client shows the first page has its answer or its
  logout in a queue, and who has no session shows that page. One lemma on `PageAgrees` per event: a
  command, a logout, an answer read, a command treated, a login, a logout.
* `MessageFindsContactHolds` and `ContactsShownHolds`, both from `ListInv`. What a client's list will be once it has
  read the first `n` messages of its queue is `Listed`: an account shown, or listed now, that no later message takes
  out. `ListAgrees` says of the whole queue that the result is the contacts of the session (or more,
  once a deletion went unnoticed), that a session that has ended empties the list, and that whoever wrote
  is listed when the message is read. What a step of the server tells a session is `Told`, read off the
  messages of each handler by one lemma (`LogInformed`, `DelInformed`, `AcceptAddInformed`, ...); `ToldLists` and `ReadLists`
  keep `ListAgrees` when messages are appended, in any order of those of one step, and read. Three facts come
  from elsewhere. The server's lists are mutual, equal in sessions and files, and those of no
  unregistered account (`ServerLists`, by the lemmas of `FileProofs`). The commands of a connection are all of the account its client
  shows (`NamedBy`), or will be refused (`Void`): otherwise an `ACCEPT_ADD` could make an account its own
  contact, or a `SHOW` list a stranger. And a client that changes its account with neither a session nor
  messages about the new one left (`misnamed` notes when it is otherwise) reads what is left alike under both
  names (`RenamedLists`). `ListInv` is inductive beside `SystemInv` and `LoginInv`; it was checked by TLC on the
  instances of `system` and `system_links` before it was proved.
* `AudioFollowsCallHolds` and `ButtonFollowsCallHolds`, both from `CallInv`, under two assumptions on the constants.
  `~ServerMayStop`: a server that stops takes the connections with it, which `losses` does not count, and the
  properties speak of runs without a loss. `NoThird`: nobody leaves during a call (`LeaveDuringCall` off), with any number of
  users, or there are two users, who may leave. With three users who leave both properties are false (section 3). `CallInv`
  holds as long as nothing was lost. On the server, whoever is in a call has a partner that is there
  and points back (`ServerCalls`, which `CallsPaired` alone does not give: it speaks of those that are there). On the way, `TalksTo` is the call a client will be
  in once it has read the first `n` messages of its queue; after the whole queue that is the call of its session
  (`CallMatches`), and `Alternates` says that a call starts where there is none, that what ends is that
  call, and that the call of a session is over before the end of the session is read. In the client, window and sound agree unless an end of the call is
  in its queue or its own `CLOSE_CALL` still untreated, as it is after a device failed or the user hung up (`AudioFits`). Each step of the server is one
  of `CallMoves`, which are the `CallStep`s of `CallProofs` made exact, and tells every client what its own call
  did and nothing else (`CallTold`); the steps of the client keep `CallFits` by a lemma per slot. `CallInv` is inductive beside `SystemInv`,
  `LoginInv` and `ListInv`, and was checked by TLC before it was proved.

**Sound and windows**

* **`SoundProofs`**, for any hosts, devices, bounds and difference of clocks: `SoundTypes`,
  `SilenceBound`, `SoundOrder` and `SoundStaysInCall`. None of the properties is inductive.
  `SoundInv` adds to the types and to `SilenceIsBounded` that sound is recorded in calls only and that what is posted
  during a call was recorded for its partner or was there when it began (`RecordedForPartner`), that
  no datagram is stamped later than its sender's clock and clocks stay together
  (`StampedInThePast`), and that buffered sounds are in order between the one heard last and the stamp
  accepted last (`BufferedInOrder`). There is one lemma per conjunct, with a step for each action that
  can disturb it.
* **`WindowsProofs`**, for any accounts and bounds: `CopiesAgreeHolds`, `PanelHolds` and
  `SentOnceHolds`. `WindowsInv` adds the types and that the entries of a list hold messages of their own
  conversation (`EntriesHoldOwn`), without which a selection could show another's. That a list
  has no doubles makes `First` and `Last` of the entries of an account the same (`OneRow`), which is why a text
  is sent once.

Only model-checked. Every safety invariant and every action property of a passing run is stated by
a theorem above, `AudioFollowsCall` and `ButtonFollowsCall` under their two assumptions. The liveness properties
(`EveryCommandIsTreated`, `EveryMessageIsWritten`, `LossIsNoticed`, `TalkerIsHeard`) need fairness, which is out of the
prover's reach: they stay with TLC, and so does whatever needs induction over data.

## 5. Not modelled

* **Server socket.** A failed accept (which deletes the server object and then uses it) and
  `closeServer`: nothing can be said of what follows the first, and the second runs in the destructor only,
  after the event loop.
* **Writes that fail late.** `saveData` looks at the opening of the file only: an error while it writes (a
  full disk) goes unnoticed in the code, and a save is answered as one that succeeded. In the model a file
  that could be opened is written, unless the server is killed in between.
* **Memory.** That `getParam` allocates a structure per command and loses it, that a stream whose
  start fails is not closed, and how long a message's bytes live.
* **Codec and devices.** Opus and PortAudio are libraries: samples, their encoding, latency and formats. The
  vendored headers in `client/dependencies` declare them.
* **Qt.** Layout, painting, sorting and the validation of forms; `TcpClient` and `UdpClient` of the client
  are modelled by what Qt documents of its sockets.
* **Order inside one handler** of the server's messages, and the iteration order of `mClients`.
* **Texts** beyond their length, passwords beyond equality, `lastPingTime`, logging.
* **Dead commands.** `LIST` is sent by no client (nothing calls `getContactsInfo`), though the server's handler of it is modelled.

What could come next: server stops in the theorems about the calls of `BabelSystem`; an abstract call that `BabelSystem` implements.
