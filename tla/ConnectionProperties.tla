-------------------------- MODULE ConnectionProperties --------------------------
(***************************************************************************)
(* What makes a connection of the Babel server correct.                    *)
(***************************************************************************)
EXTENDS Connection

\* How many commands the peer has sent before the first one that the server
\* does not know, or the first ERR.
Regular ==
    CHOOSE n \in 0 .. Len(pushed) :
        /\ \A i \in 1 .. n : pushed[i] \in Known \ {ERR}
        /\ n < Len(pushed) => pushed[n + 1] \notin Known \ {ERR}

Inbound == INSTANCE Channel WITH
    Item <- Sent,
    put <- SubSeq(pushed, 1, Regular),
    got <- [i \in 1 .. (IF Len(treated) < Regular THEN Len(treated) ELSE Regular)
              |-> treated[i].instruction]

Outbound == INSTANCE Channel WITH
    Item <- Message, put <- accepted, got <- written

\* A peer's commands are treated in order and once, wherever the network cuts
\* the bytes: inside a header, inside a body, or between two commands.  This
\* holds up to the first command the server does not know, and the first ERR,
\* behind which it has lost its place in the stream.
CommandsInOrder == Inbound!Spec

\* Messages reach the kernel in the order in which handlers, of this client or
\* of others, called send.
MessagesInOrder == Outbound!Spec

\* At most one async_write is outstanding, and exactly then when there is
\* something in the queue: send and sendHandler, which both start writes, agree
\* on who starts the next one.
OneWriteAtATime ==
    /\ writing # "overlap"
    /\ listener => (writing = "idle" <=> mWriteMessageQueue = <<>>)

\* No message is lost or sent twice: those accepted are the ones the kernel has
\* taken, followed by those in the queue (the first of which the kernel may
\* have taken already).
QueueAccounts ==
    accepted = written \o (IF writing = "done" /\ mWriteMessageQueue # <<>>
                           THEN Tail(mWriteMessageQueue) ELSE mWriteMessageQueue)

\* As long as nothing is being written when a connection ends, it is closed
\* once, and no handler finds its Client or its socket destroyed.
QuietCloseIsClean == process = "undefined" => mWriteMessageQueue # <<>>

Over == process # "running"

\* A regular command is treated, unless the peer resets the connection: when it
\* is complete it does not stay in the buffer, waiting for bytes that may never
\* come.
EveryCommandIsTreated ==
    \A n \in 1 .. MaxPushed :
        Regular >= n ~> (Len(treated) >= n \/ peer = "reset" \/ Over)

\* A message handed to send leaves, unless the connection ends.
EveryMessageIsWritten ==
    \A n \in 1 .. MaxAccepted :
        Len(accepted) >= n ~> (Len(written) >= n \/ ~listener \/ Over)

\* The loss of the peer is noticed and its Client destroyed, even if the server
\* never sends it anything: a receive is always pending.
LossIsNoticed == peer # "open" ~> (~listener \/ Over)

=============================================================================
