---------------------------- MODULE CommandStream ----------------------------
(***************************************************************************)
(* The client's end of its connection to the server, byte by byte:         *)
(* TcpClient over Qt's socket, and the cutting of what arrives into        *)
(* commands by CommandPacketBuilder.  The server's end is Connection.      *)
(*                                                                         *)
(* Qt's thread runs markAsReadable when bytes have arrived, which reads as *)
(* many commands as are there.  Reading a command runs its handler: that   *)
(* of an invitation asks the user, and while it does Qt's loop goes on     *)
(* below it.  Bytes still arrive then, though Qt signals them only after   *)
(* the slot has returned, and the connection can be lost.  What the socket *)
(* has received stays readable after that.                                 *)
(*                                                                         *)
(* The bytes of a connection are numbered from 0; a command sent is kept   *)
(* with the number of its first byte, a command read as its fields         *)
(* (Packets).                                                              *)
(***************************************************************************)
EXTENDS Codec

CONSTANTS
    Null,
    HEADER_SIZE,
    MaxSent,         \* bound: commands the server sends on a connection
    MaxConnections   \* bound: connections made

ASSUME StreamAssumption ==
    /\ HEADER_SIZE \in Nat \ {0}
    /\ {MaxSent, MaxConnections} \subseteq Nat

VARIABLES
    link,              \* "none", "up" or "lost"
    thread,            \* in Qt's loop ("idle"), reading, or asking the user while reading
    mCurrentState,     \* "HEADER" or "CONTENT" is read next
    mCurrentCommand,   \* the instruction of the command whose content is awaited, or Null
    mHasHandshaked,
    sent,              \* commands the server has sent on the connection, and where they begin
    arrived,           \* how many of its bytes the socket has received
    consumed,          \* how many the client has read
    received,          \* history: the commands read from the connection
    request,           \* a command of the client under way to the server, or Null
    connections,       \* history: connections made
    inStep             \* history: did the connection begin with the reading of a header?

framing == <<mCurrentState, mCurrentCommand>>
stream == <<sent, arrived, consumed, received>>
streamVars == <<link, thread, framing, mHasHandshaked, stream, request, connections, inStep>>

-----------------------------------------------------------------------------
(* Commands *)

\* What may be in a field that a user fills: nothing that a shorter or longer
\* text would not show, and a text of two characters in three bytes.
TypedTexts(field) ==
    IF IsNumber(field.name)
    THEN {Meaning(ClientNumbers[field.name][n]) : n \in DOMAIN ClientNumbers[field.name]}
    ELSE {Text(n, n) : n \in {1, field.width - 1, field.width, field.width + 1}} \cup {Text(2, 3)}

\* What may be in a field that the server fills: a text it was sent before, or
\* the host of a client, "1.2.3.4" to "111.222.111.222".
ServerTexts(field) ==
    CASE IsNumber(field.name) ->
           {Meaning(ServerNumbers[field.name][n]) : n \in DOMAIN ServerNumbers[field.name]}
      [] field.name = "host" -> {Text(n, n) : n \in {7, 14, 15}}
      [] OTHER -> {Text(n, n) : n \in {1, field.width - 1}}

\* What is in a field whose content does not matter.
Usual(name) ==
    CASE name = "instructionCode" -> Meaning("REG")
      [] name = "errorCode" -> Meaning("OK")
      [] name = "status" -> Meaning("CONNECTED")
      [] name \in {"hasAccepted", "isConnected"} -> Meaning("yes")
      [] name = "host" -> Text(7, 7)
      [] OTHER -> Text(1, 1)

Names(layout) == {layout[k].name : k \in DOMAIN layout}
UsualCommand(i, layout) == [instruction |-> i, value |-> [name \in Names(layout) |-> Usual(name)]]

\* The commands of a structure with one field that may hold any of its texts.
Commands(i, layout, texts) ==
    {UsualCommand(i, layout)} \cup
      UNION {{[UsualCommand(i, layout) EXCEPT !.value[field.name] = text] : text \in texts[field]} :
                field \in ToSet(layout)}

TextsOfUser(layout) == [field \in ToSet(layout) |-> TypedTexts(field)]
TextsOfServer(layout) == [field \in ToSet(layout) |-> ServerTexts(field)]

Requests ==
    UNION {Commands(i, PacketFromClient[i], TextsOfUser(PacketFromClient[i])) :
             i \in DOMAIN PacketFromClient}
Sendable == DOMAIN HandlerPasses \ {"HANDSHAKE"}
Answers == UNION {Commands(i, BodySend[i], TextsOfServer(BodySend[i])) : i \in Sendable}
UsualAnswers == {UsualCommand(i, BodySend[i]) : i \in Sendable}
Greeting == [instruction |-> "HANDSHAKE", value |-> <<>>]

\* Where command number k of the stream, and its content, begin and end, and how
\* many bytes have been written.
Begin(k) == sent[k].begin
Content(k) == Begin(k) + HEADER_SIZE
End(k) == Content(k) + Size(BodySend[sent[k].instruction])
written == IF sent = <<>> THEN 0 ELSE End(Len(sent))

bytesAvailable == arrived - consumed
SizeToRead(instruction) == Size(PacketFromServer[instruction])

StreamInit ==
    /\ link = "none" /\ thread = "idle"
    /\ mCurrentState = "HEADER" /\ mCurrentCommand = Null /\ mHasHandshaked = FALSE
    /\ sent = <<>> /\ arrived = 0 /\ consumed = 0 /\ received = <<>>
    /\ request = Null /\ connections = 0 /\ inStep = TRUE

-----------------------------------------------------------------------------
(* The server and the network *)

\* The server reads the request there is before it says anything.  What is in the
\* commands after the first one that follows the greeting does not matter.
ServerSends(command) ==
    /\ link = "up"
    /\ request = Null
    /\ Len(sent) < MaxSent
    /\ command = Greeting <=> sent = <<>>
    /\ Len(sent) > 1 => command \in UsualAnswers
    /\ sent' = Append(sent, [instruction |-> command.instruction, value |-> command.value,
                             begin |-> written])
    /\ UNCHANGED <<link, thread, framing, mHasHandshaked, arrived, consumed, received, request,
                   connections, inStep>>

ServerReads ==
    /\ request # Null
    /\ request' = Null
    /\ UNCHANGED <<link, thread, framing, mHasHandshaked, stream, connections, inStep>>

\* The bytes up to n arrive.  Cutting the stream elsewhere is no different from
\* cutting it in the middle of a header or a content.
Cuts ==
    UNION {{Begin(k) + 1, Content(k) - 1, Content(k), Content(k) + 1, End(k) - 1, End(k)} :
              k \in DOMAIN sent}

Arrive(n) ==
    /\ link = "up"
    /\ thread \in {"idle", "asking"}
    /\ n > arrived /\ n <= written
    /\ arrived' = n
    /\ thread' = IF thread = "idle" THEN "reading" ELSE "asking"
    /\ UNCHANGED <<link, framing, mHasHandshaked, sent, consumed, received, request, connections,
                   inStep>>

-----------------------------------------------------------------------------
(* Reading *)

\* Mutant of onSocketClosed: the greeting of the lost connection is kept.
onSocketClosedGreeted ==
    /\ mCurrentState' = "HEADER"
    /\ mCurrentCommand' = Null
    /\ UNCHANGED mHasHandshaked

\* onSocketClosed, onDisconnection: what the client knows of a connection is reset.
onSocketClosed ==
    /\ mCurrentState' = "HEADER"
    /\ mCurrentCommand' = Null
    /\ mHasHandshaked' = FALSE

\* Reading a header that is none closes the connection, and reads no further.
fetchCommandHeader ==
    LET here == {k \in DOMAIN sent : Begin(k) = consumed}
    IN  /\ thread = "reading"
        /\ mCurrentState = "HEADER"
        /\ bytesAvailable >= HEADER_SIZE
        /\ consumed' = consumed + HEADER_SIZE
        /\ \/ \E k \in here :
                 /\ mCurrentCommand' =
                       LET sender == ServerCommand[sent[k].instruction]
                       IN  ClientInstruction[NumberOf(ServerInstruction, sender.instructionCode)]
                 /\ mCurrentState' = "CONTENT"
                 /\ UNCHANGED <<link, thread, mHasHandshaked>>
           \/ /\ here = {}
              /\ onSocketClosed
              /\ link' = "lost"
              /\ thread' = "idle"
        /\ UNCHANGED <<sent, arrived, received, request, connections, inStep>>

\* The fields read of the next bytes, taken for the content of mCurrentCommand.
Fields ==
    LET here == {k \in DOMAIN sent : /\ Content(k) = consumed
                                     /\ sent[k].instruction = mCurrentCommand}
    IN  IF here = {} THEN [name \in NamesRead(mCurrentCommand) |-> Garbled]
        ELSE LET k == CHOOSE k \in here : TRUE
             IN  ReadByClient(mCurrentCommand, WrittenByServer(mCurrentCommand, sent[k].value))

resetCurrentCommand == mCurrentCommand' = Null /\ mCurrentState' = "HEADER"

\* The content is read and the command treated: without a handshake before, it
\* closes the connection; an invitation asks the user, and resetting waits.
fetchCommandContent ==
    LET command == ClientCommand[mCurrentCommand].getInstruction
        refused == ~mHasHandshaked /\ command # "HANDSHAKE"
        asks == ~refused /\ command \in {"ADD", "CALL"}
    IN  /\ thread = "reading"
        /\ mCurrentState = "CONTENT"
        /\ bytesAvailable >= SizeToRead(mCurrentCommand)
        /\ consumed' = consumed + SizeToRead(mCurrentCommand)
        /\ received' = Append(received, [instruction |-> command, fields |-> Fields])
        /\ IF asks THEN thread' = "asking" /\ UNCHANGED framing
           ELSE UNCHANGED thread /\ resetCurrentCommand
        /\ mHasHandshaked' = ~refused
        /\ link' = IF refused THEN "lost" ELSE link
        /\ UNCHANGED <<sent, arrived, request, connections, inStep>>

\* Mutant of Resumed: what arrived during the question waits for more to arrive.
ResumedIdle == "idle"

Resumed == "reading"

\* The user answers an invitation, the command sent for that is another request,
\* and reading goes on.
Answer ==
    /\ thread = "asking"
    /\ thread' = Resumed
    /\ resetCurrentCommand
    /\ UNCHANGED <<link, mHasHandshaked, stream, request, connections, inStep>>

\* There is not enough to read.
Return ==
    /\ thread = "reading"
    /\ bytesAvailable < (IF mCurrentState = "HEADER" THEN HEADER_SIZE ELSE SizeToRead(mCurrentCommand))
    /\ thread' = "idle"
    /\ UNCHANGED <<link, framing, mHasHandshaked, stream, request, connections, inStep>>

-----------------------------------------------------------------------------
(* Connections and requests *)

\* The signal disconnected.
Lose ==
    /\ link = "up"
    /\ thread \in {"idle", "asking"}
    /\ link' = "lost"
    /\ request' = Null
    /\ onSocketClosed
    /\ UNCHANGED <<thread, stream, connections, inStep>>

\* A user connects, also in place of the connection there is: leaving that one
\* signals disconnected, while a lost one has been reset when it was lost.
connectToServer ==
    /\ thread = "idle"
    /\ connections < MaxConnections
    /\ connections' = connections + 1
    /\ link' = "up"
    /\ IF link = "up" THEN onSocketClosed ELSE UNCHANGED <<framing, mHasHandshaked>>
    /\ sent' = <<>> /\ arrived' = 0 /\ consumed' = 0 /\ received' = <<>>
    /\ request' = Null
    /\ inStep' = (mCurrentState' = "HEADER")
    /\ UNCHANGED thread

\* A user gives a command; those that come before the server has sent more than
\* its handshake stand for all.
sendCommand(command) ==
    /\ link = "up" /\ thread = "idle" /\ mHasHandshaked
    /\ Len(sent) = 1
    /\ request = Null
    /\ request' = [instruction |-> command.instruction, value |-> command.value,
                   code |-> NumberOf(ClientInstruction,
                                     ClientCommand[command.instruction].getInstruction),
                   packet |-> WrittenByClient(command.instruction, command.value)]
    /\ UNCHANGED <<link, thread, framing, mHasHandshaked, stream, connections, inStep>>

StreamNext ==
    \/ \E command \in Answers \cup {Greeting} : ServerSends(command)
    \/ ServerReads
    \/ \E n \in Cuts : Arrive(n)
    \/ fetchCommandHeader \/ fetchCommandContent \/ Answer \/ Return
    \/ Lose \/ connectToServer
    \/ \E command \in Requests : sendCommand(command)

StreamSpec == StreamInit /\ [][StreamNext]_streamVars
=============================================================================
