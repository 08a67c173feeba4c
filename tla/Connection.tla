------------------------------ MODULE Connection ------------------------------
(***************************************************************************)
(* One connection of the Babel server: the asynchronous reads and writes   *)
(* of TcpClient, and the cutting of the byte stream into commands by       *)
(* HandleCmd.                                                              *)
(*                                                                         *)
(* The server's thread runs the completion handlers one after the other;   *)
(* the kernel and the peer work beside it.  An operation that is pending   *)
(* completes first (its result is then fixed) and has its handler run      *)
(* later, when the connection may already have been closed by the other    *)
(* operation's handler.  BabelServer is the handlers' effect: here it      *)
(* takes the commands treated and hands messages to send.                  *)
(***************************************************************************)
EXTENDS Naturals, Sequences

CONSTANTS
    Message,       \* messages the server sends
    Sent,          \* instructions the peer sends
    Known,         \* instructions Factory::getCommand knows
    BodySize,      \* the size of the body sent with each instruction
    HEADER_SIZE,
    BUFFER_SIZE,
    Null,
    MaxPushed,     \* bound: commands the peer sends
    MaxAccepted    \* bound: messages the server sends

\* The server never treats an ERR: CommandErr::getParam returns NULL.
ERR == "ERR"

ASSUME SizeAssumption ==
    /\ HEADER_SIZE \in Nat \ {0} /\ BUFFER_SIZE \in Nat \ {0}
    /\ BodySize \in [Sent \cup Known -> Nat]
    /\ MaxPushed \in Nat /\ MaxAccepted \in Nat
    /\ Null \notin [from : Nat, instruction : Sent \cup Known]

VARIABLES
    process,             \* "running", "ended", or "undefined" behaviour reached
    thread,              \* in the event loop ("idle") or in onSocketReadable
    peer,                \* "open", "closed" (end of stream) or "reset"
    wire,                \* bytes from the peer the server has not received
    mReadBuffer,         \* bytes of the last receive
    mBuffer,             \* bytes received and not consumed
    header,              \* the command whose body is awaited, or Null
    reading, writing,    \* the state of the pending receive and write
    mWriteMessageQueue,
    listener,            \* is the Client object alive?
    pushed,              \* history: instructions sent by the peer
    treated,             \* history: commands handed to treatCommand
    accepted,            \* history: messages given to send
    written              \* history: messages the kernel has taken

inbound == <<wire, mReadBuffer, mBuffer, header, pushed, treated>>
outbound == <<mWriteMessageQueue, accepted, written>>
vars == <<process, thread, peer, reading, writing, listener, inbound, outbound>>

Instruction == Sent \cup Known

\* Byte number pos of the command number from of the peer.
Byte == [from : Nat, pos : Nat]
Bytes(k, instruction) ==
    [p \in 1 .. (HEADER_SIZE + BodySize[instruction]) |-> [from |-> k, pos |-> p]]

\* A command as treated: which one of the peer's it is, or 0 when its header
\* was read from bytes that are none.
Command(k, instruction) == [from |-> k, instruction |-> instruction]

\* The commands a header read from these bytes can be taken for: the peer's own
\* when a header starts there, and anything when not.
Decoded(bytes) ==
    IF bytes[1].pos = 1 THEN {Command(bytes[1].from, pushed[bytes[1].from])}
    ELSE {Command(0, i) : i \in Instruction}

Init ==
    /\ process = "running" /\ thread = "idle" /\ peer = "open"
    /\ wire = <<>> /\ mReadBuffer = <<>> /\ mBuffer = <<>> /\ header = Null
    /\ reading = "pending" /\ writing = "idle" /\ listener = TRUE
    /\ mWriteMessageQueue = <<>>
    /\ pushed = <<>> /\ treated = <<>> /\ accepted = <<>> /\ written = <<>>

-----------------------------------------------------------------------------
(* The peer and the kernel *)

PeerSend(instruction) ==
    /\ peer = "open"
    /\ Len(pushed) < MaxPushed
    /\ pushed' = Append(pushed, instruction)
    /\ wire' = wire \o Bytes(Len(pushed) + 1, instruction)
    /\ UNCHANGED <<process, thread, peer, reading, writing, listener, outbound,
                   mReadBuffer, mBuffer, header, treated>>

PeerClose ==
    /\ peer = "open"
    /\ peer' = "closed"
    /\ UNCHANGED <<process, thread, reading, writing, listener, inbound, outbound>>

\* What the server has not received is lost.
PeerReset ==
    /\ peer # "reset"
    /\ peer' = "reset"
    /\ wire' = <<>>
    /\ UNCHANGED <<process, thread, reading, writing, listener, outbound,
                   mReadBuffer, mBuffer, header, pushed, treated>>

KernelReceives(n) ==
    /\ process = "running"
    /\ reading = "pending"
    /\ n <= Len(wire)
    /\ mReadBuffer' = SubSeq(wire, 1, n)
    /\ wire' = SubSeq(wire, n + 1, Len(wire))
    /\ reading' = "done"
    /\ UNCHANGED <<process, thread, peer, writing, listener, outbound,
                   mBuffer, header, pushed, treated>>

KernelEndsReceive ==
    /\ process = "running"
    /\ reading = "pending"
    /\ peer # "open" /\ wire = <<>>
    /\ reading' = "failed"
    /\ UNCHANGED <<process, thread, peer, writing, listener, inbound, outbound>>

\* async_write completes when the kernel has taken the whole message.
KernelWrites ==
    /\ process = "running"
    /\ writing = "pending"
    /\ peer # "reset"
    /\ written' = Append(written, Head(mWriteMessageQueue))
    /\ writing' = "done"
    /\ UNCHANGED <<process, thread, peer, reading, listener, inbound,
                   mWriteMessageQueue, accepted>>

KernelEndsWrite ==
    /\ process = "running"
    /\ writing = "pending"
    /\ peer = "reset"
    /\ writing' = "failed"
    /\ UNCHANGED <<process, thread, peer, reading, listener, inbound, outbound>>

-----------------------------------------------------------------------------
(* The server's thread *)

\* Mutant of StartedWrite: the kernel is not asked to write.
NoWrite(state) == state

\* Starting an async_write; two at a time would mix their bytes.
StartedWrite(state) == IF state = "idle" THEN "pending" ELSE "overlap"

\* Mutant of StartsWrite: the emptiness of the queue is read after the push.
WriteAlways(queue) == TRUE

\* write_in_progress, read before the message is pushed.
StartsWrite(queue) == queue = <<>>

send(m) ==
    /\ process = "running"
    /\ listener
    /\ Len(accepted) < MaxAccepted
    /\ accepted' = Append(accepted, m)
    /\ mWriteMessageQueue' = Append(mWriteMessageQueue, m)
    /\ writing' = IF StartsWrite(mWriteMessageQueue) THEN StartedWrite(writing) ELSE writing
    /\ UNCHANGED <<process, thread, peer, reading, listener, inbound, written>>

\* close() makes a pending operation complete with operation_aborted; a
\* completion that is already there stays.
Cancelled(state) == IF state = "pending" THEN "failed" ELSE state

\* closeClient, called by the handler of a failed read or write; r and w are
\* the operations left.  getRemoteIp throws when the peer is no longer
\* connected (on some platforms only), and nobody catches it before main.  The
\* second call for a connection reads a deleted socket.
closeClient(r, w) ==
    \/ /\ ~listener
       /\ process' = "undefined"
       /\ UNCHANGED <<listener, reading, writing>>
    \/ /\ listener
       /\ peer = "reset"
       /\ process' = "ended"
       /\ UNCHANGED <<listener, reading, writing>>
    \/ /\ listener
       /\ listener' = FALSE
       /\ reading' = Cancelled(r)
       /\ writing' = Cancelled(w)
       /\ UNCHANGED process

InLoop == process = "running" /\ thread = "idle"

\* A receive that succeeded; the Client object may be gone.
recvHandler ==
    /\ InLoop
    /\ reading = "done"
    /\ \/ /\ listener
          /\ mBuffer' = mBuffer \o mReadBuffer
          /\ mReadBuffer' = <<>>
          /\ thread' = "unpacking"
          /\ UNCHANGED process
       \/ /\ ~listener
          /\ process' = "undefined"
          /\ UNCHANGED <<mBuffer, mReadBuffer, thread>>
    /\ UNCHANGED <<peer, reading, writing, listener, outbound, wire, header, pushed, treated>>

\* Mutant of AfterFailedRead: startRecv is called after an error too.
ReadAnyway == "pending"

\* What the handler of a failed read leaves of the read.
AfterFailedRead == "idle"

recvFailed ==
    /\ InLoop
    /\ reading = "failed"
    /\ closeClient(AfterFailedRead, writing)
    /\ UNCHANGED <<thread, peer, inbound, outbound>>

\* Mutant of Popped: the message last pushed is taken out.
PoppedBack(queue) == SubSeq(queue, 1, Len(queue) - 1)

Popped(queue) == Tail(queue)

\* async_write always completes with the whole message, so that the branch for
\* a partial write is never taken.
sendHandler ==
    /\ InLoop
    /\ writing = "done"
    /\ \/ /\ listener
          /\ mWriteMessageQueue' = Popped(mWriteMessageQueue)
          /\ writing' = IF Popped(mWriteMessageQueue) = <<>> THEN "idle" ELSE StartedWrite("idle")
          /\ UNCHANGED process
       \/ /\ ~listener
          /\ process' = "undefined"
          /\ UNCHANGED <<mWriteMessageQueue, writing>>
    /\ UNCHANGED <<thread, peer, reading, listener, inbound, accepted, written>>

sendFailed ==
    /\ InLoop
    /\ writing = "failed"
    /\ closeClient(reading, "idle")
    /\ UNCHANGED <<thread, peer, inbound, outbound>>

Unpacking == process = "running" /\ thread = "unpacking"

\* Mutant of Rearmed: the next receive is not started.
NotRearmed == "idle"

\* startRecv
Rearmed == "pending"

\* unPackCmd returns NULL: onSocketReadable returns, and startRecv follows.
Return ==
    /\ thread' = "idle"
    /\ reading' = Rearmed

\* Mutant of Unpacked: one command is treated for each receive.
UnpackedOnce == Return

\* The loop of onSocketReadable goes on after a command.
Unpacked == UNCHANGED <<thread, reading>>

\* Factory has a command for the instruction.
getCommand(instruction) == instruction \in Known

\* n bytes are taken out of the buffer, which has as many.
receive(n) == mBuffer' = SubSeq(mBuffer, n + 1, Len(mBuffer))

\* unPackCmd reads a header.  An instruction Factory does not know is dropped,
\* its body stays in the stream, and what else is buffered waits.
unPackHeader ==
    /\ Unpacking
    /\ header = Null
    /\ Len(mBuffer) >= HEADER_SIZE
    /\ receive(HEADER_SIZE)
    /\ \E command \in Decoded(mBuffer) :
          \/ /\ getCommand(command.instruction)
             /\ header' = command
             /\ UNCHANGED <<thread, reading>>
          \/ /\ ~getCommand(command.instruction)
             /\ header' = Null
             /\ Return
    /\ UNCHANGED <<process, peer, writing, listener, outbound, wire, mReadBuffer, pushed, treated>>

\* getSizeBody; the Body of an ERR declares the header again.
SizeBody(instruction) ==
    IF instruction = ERR THEN HEADER_SIZE + BodySize[ERR] ELSE BodySize[instruction]

\* Mutant of BodyArrived: a byte is missing.
BodyAlmostArrived == Len(mBuffer) + 1 >= SizeBody(header.instruction)

BodyArrived == Len(mBuffer) >= SizeBody(header.instruction)

\* unPackCmd hands over the command of the header.  The body of an ERR is not
\* read.
unPackBody ==
    /\ Unpacking
    /\ header # Null
    /\ BodyArrived
    /\ header' = Null
    /\ \/ /\ header.instruction # ERR
          /\ receive(SizeBody(header.instruction))
          /\ treated' = Append(treated, header)
          /\ Unpacked
       \/ /\ header.instruction = ERR
          /\ Return
          /\ UNCHANGED <<mBuffer, treated>>
    /\ UNCHANGED <<process, peer, writing, listener, outbound, wire, mReadBuffer, pushed>>

unPackNothing ==
    /\ Unpacking
    /\ IF header = Null THEN Len(mBuffer) < HEADER_SIZE ELSE ~BodyArrived
    /\ Return
    /\ UNCHANGED <<process, peer, writing, listener, inbound, outbound>>

-----------------------------------------------------------------------------
Peer == (\E i \in Sent : PeerSend(i)) \/ PeerClose \/ PeerReset

Receives == \E n \in 1 .. BUFFER_SIZE : KernelReceives(n)

Kernel == Receives \/ KernelEndsReceive \/ KernelWrites \/ KernelEndsWrite

Thread ==
    \/ recvHandler \/ recvFailed \/ sendHandler \/ sendFailed
    \/ unPackHeader \/ unPackBody \/ unPackNothing

Next == Peer \/ Kernel \/ Thread \/ \E m \in Message : send(m)

Spec == Init /\ [][Next]_vars

\* The event loop runs every handler that is ready, the network delivers what
\* was sent, and the peer reads what it is sent; nobody has to send, close or
\* reset.
Fairness ==
    /\ WF_vars(recvHandler) /\ WF_vars(recvFailed)
    /\ WF_vars(sendHandler) /\ WF_vars(sendFailed)
    /\ WF_vars(unPackHeader) /\ WF_vars(unPackBody) /\ WF_vars(unPackNothing)
    /\ WF_vars(Receives) /\ WF_vars(KernelEndsReceive)
    /\ WF_vars(KernelWrites) /\ WF_vars(KernelEndsWrite)

FairSpec == Spec /\ Fairness
=============================================================================
