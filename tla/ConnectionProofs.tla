---------------------------- MODULE ConnectionProofs ----------------------------
(***************************************************************************)
(* A connection, for every peer and every way it ends: messages leave in   *)
(* the order of send, none lost or doubled, one write at a time; a         *)
(* connection that ends while nothing is being written leaves no handler   *)
(* behind its Client or its socket; and the commands of a peer are treated *)
(* in order and once, however the network cuts their bytes.                *)
(***************************************************************************)
EXTENDS ConnectionProperties, SequenceTheorems, TLAPS

\* Pushing at the end of what follows a prefix.
LEMMA AppendBehind ==
    ASSUME NEW S, NEW w \in Seq(S), NEW m \in S
    PROVE  \A x \in Seq(S) : Append(w \o x, m) = w \o Append(x, m)
  OBVIOUS

\* Pushing leaves the front of the queue where it is.
LEMMA TailOfAppend ==
    ASSUME NEW S, NEW q \in Seq(S), q # <<>>, NEW m \in S
    PROVE  /\ Append(q, m) # <<>>
           /\ Tail(Append(q, m)) = Append(Tail(q), m)
           /\ Tail(q) \in Seq(S) /\ Head(q) \in S
  OBVIOUS

\* Moving the front of the queue to the end of what has left.
LEMMA MoveHead ==
    ASSUME NEW S, NEW w \in Seq(S), NEW q \in Seq(S), q # <<>>
    PROVE  /\ w \o q = Append(w, Head(q)) \o Tail(q)
           /\ Tail(q) \in Seq(S) /\ Append(w, Head(q)) \in Seq(S)
  OBVIOUS

\* What leaves next is the next of all messages.
LEMMA NextIsPrefix ==
    ASSUME NEW S, NEW w \in Seq(S), NEW q \in Seq(S), q # <<>>
    PROVE  /\ Len(w) + 1 \in (Len(w) + 1) .. Len(w \o q)
           /\ Append(w, Head(q)) = SubSeq(w \o q, 1, Len(w) + 1)
  OBVIOUS

-----------------------------------------------------------------------------
(* The inductive invariant *)

\* The states of a write when there is one at a time.
Operation == {"idle", "pending", "done", "failed"}

\* The types of the variables of the write queue.
QueueTypes ==
    /\ {mWriteMessageQueue, accepted, written} \subseteq Seq(Message)
    /\ writing \in Operation
    /\ listener \in BOOLEAN

\* A write is outstanding only while its message is at the front of the queue;
\* that the converse holds while the Client lives is OneWriteAtATime.
QueueInv ==
    /\ QueueTypes
    /\ OneWriteAtATime
    /\ writing # "idle" => mWriteMessageQueue # <<>>
    /\ QueueAccounts

\* What the steps below leave alone is all the invariant speaks of.
LEMMA QueueUnchanged ==
    ASSUME QueueInv, UNCHANGED <<writing, listener, outbound>>
    PROVE  QueueInv'
  BY DEF QueueInv, QueueTypes, OneWriteAtATime, QueueAccounts, outbound

LEMMA QueueInit == Init => QueueInv
  BY DEF Init, QueueInv, QueueTypes, OneWriteAtATime, QueueAccounts, Operation

\* send pushes behind what is queued, and starts a write when nothing was.
LEMMA QueueSend ==
    ASSUME QueueInv, NEW m \in Message, send(m)
    PROVE  QueueInv'
<1>1. /\ Append(mWriteMessageQueue, m) \in Seq(Message) \ {<<>>}
      /\ Append(accepted, m) \in Seq(Message)
  BY DEF QueueInv, QueueTypes
<1>2. /\ QueueTypes' /\ OneWriteAtATime'
      /\ (writing # "idle" => mWriteMessageQueue # <<>>)'
  BY <1>1 DEF send, StartsWrite, StartedWrite, QueueInv, QueueTypes, OneWriteAtATime, Operation
<1>3. written \in Seq(Message)
  BY DEF QueueInv, QueueTypes
<1>4. \A x \in Seq(Message) : Append(written \o x, m) = written \o Append(x, m)
  BY <1>3, AppendBehind, ZenonT(30)
<1>5. QueueAccounts'
  <2>1. CASE writing = "done"
    <3>1. mWriteMessageQueue # <<>> /\ accepted = written \o Tail(mWriteMessageQueue)
      BY <2>1 DEF QueueInv, QueueAccounts
    <3>2. writing' = "done" /\ mWriteMessageQueue' = Append(mWriteMessageQueue, m)
      BY <2>1, <3>1 DEF send, StartsWrite
    <3>3. /\ Append(mWriteMessageQueue, m) # <<>>
          /\ Tail(Append(mWriteMessageQueue, m)) = Append(Tail(mWriteMessageQueue), m)
          /\ Tail(mWriteMessageQueue) \in Seq(Message)
      BY <3>1, TailOfAppend DEF QueueInv, QueueTypes
    <3>4. Append(accepted, m) = written \o Append(Tail(mWriteMessageQueue), m)
      BY <1>4, <3>1, <3>3
    <3>5. QED BY <3>2, <3>3, <3>4 DEF send, QueueAccounts
  <2>2. CASE writing # "done"
    <3>1. accepted = written \o mWriteMessageQueue
      BY <2>2 DEF QueueAccounts, QueueInv
    <3>2. Append(accepted, m) = written \o Append(mWriteMessageQueue, m)
      BY <1>4, <3>1 DEF QueueInv, QueueTypes
    <3>3. writing' # "done"
      BY <2>2 DEF send, StartsWrite, StartedWrite
    <3>4. QED BY <3>2, <3>3 DEF send, QueueAccounts
  <2>3. QED BY <2>1, <2>2
<1>6. QED BY <1>2, <1>5 DEF QueueInv

\* The kernel takes the front of the queue, which stays there until its handler
\* runs.
LEMMA QueueKernelWrites ==
    ASSUME QueueInv, KernelWrites
    PROVE  QueueInv'
<1>1. /\ mWriteMessageQueue # <<>> /\ accepted = written \o mWriteMessageQueue
  BY DEF KernelWrites, QueueInv, QueueAccounts
<1>2. /\ accepted = Append(written, Head(mWriteMessageQueue)) \o Tail(mWriteMessageQueue)
      /\ Append(written, Head(mWriteMessageQueue)) \in Seq(Message)
  BY <1>1, MoveHead DEF QueueInv, QueueTypes
<1>3. QED
  BY <1>1, <1>2 DEF KernelWrites, QueueInv, QueueTypes, OneWriteAtATime, QueueAccounts, Operation

\* The handler drops the message the kernel has taken and writes the next one.
LEMMA QueueSendHandler ==
    ASSUME QueueInv, sendHandler
    PROVE  QueueInv'
<1>1. mWriteMessageQueue # <<>> /\ accepted = written \o Tail(mWriteMessageQueue)
  BY DEF sendHandler, QueueInv, QueueAccounts
<1>2. Tail(mWriteMessageQueue) \in Seq(Message)
  BY <1>1, MoveHead DEF QueueInv, QueueTypes
<1>3. CASE listener
  BY <1>1, <1>2, <1>3 DEF sendHandler, Popped, StartedWrite, QueueInv, QueueTypes,
     OneWriteAtATime, QueueAccounts, Operation
<1>4. CASE ~listener
  BY <1>4 DEF sendHandler, QueueInv, QueueTypes, OneWriteAtATime, QueueAccounts
<1>5. QED BY <1>3, <1>4

\* Closing forgets no message: the queue stays, and nothing is written from it.
LEMMA QueueClose ==
    ASSUME QueueInv, NEW r, NEW w \in {writing, "idle"}, writing # "done" \/ w = writing,
           closeClient(r, w), UNCHANGED outbound
    PROVE  QueueInv'
<1>1. CASE UNCHANGED <<listener, writing>>
  BY <1>1, QueueUnchanged DEF outbound
<1>2. CASE listener' = FALSE /\ writing' = Cancelled(w)
  <2>1. writing' \in Operation \ {"overlap"} /\ (writing' = "done" <=> writing = "done")
    BY <1>2 DEF Cancelled, QueueInv, QueueTypes, Operation
  <2>2. writing' # "idle" => mWriteMessageQueue # <<>>
    BY <1>2 DEF Cancelled, QueueInv
  <2>3. QueueAccounts'
    BY <2>1 DEF outbound, QueueInv, QueueAccounts
  <2>4. QED
    BY <1>2, <2>1, <2>2, <2>3 DEF outbound, QueueInv, QueueTypes, OneWriteAtATime
<1>3. QED BY <1>1, <1>2 DEF closeClient

\* Every step keeps the queue's invariant.
LEMMA QueueStep == QueueInv /\ [Next]_vars => QueueInv'
<1> SUFFICES ASSUME QueueInv, [Next]_vars PROVE QueueInv'
  OBVIOUS
<1>1. CASE UNCHANGED vars
  BY <1>1, QueueUnchanged DEF vars
<1>2. CASE Peer
  BY <1>2, QueueUnchanged DEF Peer, PeerSend, PeerClose, PeerReset
<1>3. CASE Kernel
  <2>1. CASE KernelWrites
    BY <2>1, QueueKernelWrites
  <2>2. CASE KernelEndsWrite
    BY <2>2 DEF KernelEndsWrite, outbound, QueueInv, QueueTypes, OneWriteAtATime,
       QueueAccounts, Operation
  <2>3. CASE Receives \/ KernelEndsReceive
    BY <2>3, QueueUnchanged DEF Receives, KernelReceives, KernelEndsReceive
  <2>4. QED BY <1>3, <2>1, <2>2, <2>3 DEF Kernel
<1>4. CASE Thread
  <2>1. CASE sendHandler
    BY <2>1, QueueSendHandler
  <2>2. CASE sendFailed
    BY <2>2, QueueClose DEF sendFailed
  <2>3. CASE recvFailed
    BY <2>3, QueueClose DEF recvFailed
  <2>4. CASE recvHandler
    BY <2>4, QueueUnchanged DEF recvHandler
  <2>5. CASE unPackHeader \/ unPackBody \/ unPackNothing
    BY <2>5, QueueUnchanged DEF unPackHeader, unPackBody, unPackNothing, inbound
  <2>6. QED BY <1>4, <2>1, <2>2, <2>3, <2>4, <2>5 DEF Thread
<1>5. CASE \E m \in Message : send(m)
  BY <1>5, QueueSend
<1>6. QED BY <1>1, <1>2, <1>3, <1>4, <1>5 DEF Next

LEMMA QueueAlways == Spec => []QueueInv
  BY QueueInit, QueueStep, PTL DEF Spec

-----------------------------------------------------------------------------
(* The theorems *)

\* One write at a time, and never a message that nobody writes: send and
\* sendHandler agree on who starts the next write.
THEOREM OneWriteAtATimeHolds == Spec => []OneWriteAtATime
<1>1. QueueInv => OneWriteAtATime
  BY DEF QueueInv
<1>2. QED BY <1>1, QueueAlways, PTL

\* No message is lost, doubled or overtaken between send and the kernel.
THEOREM QueueAccountsHolds == Spec => []QueueAccounts
<1>1. QueueInv => QueueAccounts
  BY DEF QueueInv
<1>2. QED BY <1>1, QueueAlways, PTL

\* The sending side of a connection implements a channel.
THEOREM MessagesInOrderHolds == Spec => MessagesInOrder
<1>1. Init => Outbound!Init
  BY DEF Init, Outbound!Init
<1>2. QueueInv /\ [Next]_vars => [Outbound!Next]_<<accepted, written>>
  <2> SUFFICES ASSUME QueueInv, [Next]_vars
      PROVE Outbound!Next \/ UNCHANGED <<accepted, written>>
    OBVIOUS
  <2>1. CASE KernelWrites
    <3>1. mWriteMessageQueue # <<>> /\ accepted = written \o mWriteMessageQueue
      BY <2>1 DEF KernelWrites, QueueInv, QueueAccounts
    <3>2. /\ Len(written) + 1 \in (Len(written) + 1) .. Len(accepted)
          /\ written' = SubSeq(accepted, 1, Len(written) + 1)
      BY <2>1, <3>1, NextIsPrefix DEF KernelWrites, QueueInv, QueueTypes
    <3>3. QED BY <2>1, <3>2 DEF KernelWrites, Outbound!Next, Outbound!Get
  <2>2. CASE \E m \in Message : send(m)
    BY <2>2 DEF send, Outbound!Next, Outbound!Put
  <2>3. CASE UNCHANGED <<accepted, written>>
    BY <2>3
  <2>4. CASE ~KernelWrites /\ ~(\E m \in Message : send(m))
    BY <2>4 DEF Next, vars, outbound, Peer, PeerSend, PeerClose, PeerReset, Kernel, Receives,
       KernelReceives, KernelEndsReceive, KernelEndsWrite, Thread, recvHandler, recvFailed,
       sendHandler, sendFailed, unPackHeader, unPackBody, unPackNothing
  <2>5. QED BY <2>1, <2>2, <2>3, <2>4
<1>3. QED BY <1>1, <1>2, QueueAlways, PTL DEF Spec, MessagesInOrder, Outbound!Spec
-----------------------------------------------------------------------------
(* The end of a connection *)

\* Once the Client is destroyed and no message is left, no operation is pending
\* or complete, so that no handler can run; commands are cut only for a Client
\* that lives.
CloseInv ==
    /\ ~listener /\ mWriteMessageQueue = <<>> => reading = "idle"
    /\ thread = "unpacking" => listener
    /\ QuietCloseIsClean

LEMMA CloseInit == Init => CloseInv
  BY DEF Init, CloseInv, QuietCloseIsClean

\* The queue outlives the Client: the handler that closes leaves it alone, and
\* that of a failed write has a message in it.
LEMMA CloseStep == QueueInv /\ CloseInv /\ [Next]_vars => CloseInv'
<1> SUFFICES ASSUME QueueInv, CloseInv, [Next]_vars PROVE CloseInv'
  OBVIOUS
<1>1. CASE UNCHANGED <<process, thread, reading, listener, mWriteMessageQueue>>
  BY <1>1 DEF CloseInv, QuietCloseIsClean
<1>2. CASE Peer \/ KernelWrites \/ KernelEndsWrite \/ UNCHANGED vars
  BY <1>1, <1>2 DEF Peer, PeerSend, PeerClose, PeerReset, KernelWrites, KernelEndsWrite, vars,
     outbound
\* A receive completes only when one was pending.
<1>3. CASE Receives \/ KernelEndsReceive
  BY <1>3 DEF Receives, KernelReceives, KernelEndsReceive, outbound, CloseInv, QuietCloseIsClean
<1>4. CASE \E m \in Message : send(m)
  BY <1>4 DEF send, CloseInv, QuietCloseIsClean
<1>5. CASE sendHandler
  BY <1>5 DEF sendHandler, InLoop, QueueInv, CloseInv, QuietCloseIsClean
<1>6. CASE recvHandler
  BY <1>6 DEF recvHandler, outbound, CloseInv, QuietCloseIsClean
\* closeClient leaves no read, and no write when the queue is empty.
<1>7. CASE recvFailed
  <2>1. reading = "failed" /\ closeClient("idle", writing)
        /\ UNCHANGED <<thread, mWriteMessageQueue>> /\ process = "running" /\ thread = "idle"
    BY <1>7 DEF recvFailed, AfterFailedRead, InLoop, outbound
  <2>2. QED
    BY <2>1 DEF closeClient, Cancelled, CloseInv, QuietCloseIsClean
<1>8. CASE sendFailed
  <2>1. mWriteMessageQueue # <<>> /\ closeClient(reading, "idle")
        /\ UNCHANGED <<thread, mWriteMessageQueue>> /\ thread = "idle"
    BY <1>8 DEF sendFailed, InLoop, outbound, QueueInv
  <2>2. QED
    BY <2>1 DEF closeClient, CloseInv, QuietCloseIsClean
<1>9. CASE unPackHeader \/ unPackBody \/ unPackNothing
  <2>1. process = "running" /\ listener
    BY <1>9 DEF unPackHeader, unPackBody, unPackNothing, Unpacking, CloseInv
  <2>2. UNCHANGED <<process, listener, mWriteMessageQueue>>
    BY <1>9 DEF unPackHeader, unPackBody, unPackNothing, outbound
  <2>3. QED
    BY <2>1, <2>2 DEF CloseInv, QuietCloseIsClean
<1>10. QED
  BY <1>2, <1>3, <1>4, <1>5, <1>6, <1>7, <1>8, <1>9 DEF Next, Kernel, Thread

\* A connection that ends while nothing waits to be written is closed once, and
\* no handler finds its Client or its socket destroyed: undefined behaviour
\* needs a message in the queue.
THEOREM QuietCloseIsCleanHolds == Spec => []QuietCloseIsClean
<1>1. Spec => []CloseInv
  BY CloseInit, CloseStep, QueueAlways, PTL DEF Spec
<1>2. CloseInv => QuietCloseIsClean
  BY DEF CloseInv
<1>3. QED BY <1>1, <1>2, PTL
-----------------------------------------------------------------------------
(* The commands of the peer *)

\* How many bytes the command number k has, of those in p.
Whole(p, k) == HEADER_SIZE + BodySize[p[k]]

\* The byte c, d places behind the byte b of a command of so many bytes: in the
\* same command, or the first of the next one.
Behind(b, c, d, whole) ==
    /\ b.pos + d <= whole => c = [from |-> b.from, pos |-> b.pos + d]
    /\ b.pos + d = whole + 1 => c = [from |-> b.from + 1, pos |-> 1]

\* Bytes of the commands p, with none missing between two of them.
IsRun(s, p) ==
    \A i \in 1..Len(s) :
       /\ s[i].from \in 1..Len(p)
       /\ s[i].pos \in 1..Whole(p, s[i].from)
       /\ \A j \in i..Len(s) : Behind(s[i], s[j], j - i, Whole(p, s[i].from))

\* They go on to the end of the last command.
RunsOut(s, p) == s[Len(s)] = [from |-> Len(p), pos |-> Whole(p, Len(p))]

\* The bytes sent that no command was cut from yet.
Left == mBuffer \o (mReadBuffer \o wire)

\* The byte at which the server goes on reading.
Place ==
    IF header = Null THEN [from |-> Len(treated) + 1, pos |-> 1]
    ELSE IF BodySize[header.instruction] = 0 THEN [from |-> Len(treated) + 2, pos |-> 1]
    ELSE [from |-> Len(treated) + 1, pos |-> HEADER_SIZE + 1]

\* n commands precede the first that the server does not know, or the first ERR.
AreRegular(p, n) ==
    /\ n \in 0..Len(p)
    /\ \A i \in 1..n : p[i] \in Known \ {ERR}
    /\ n < Len(p) => p[n + 1] \notin Known \ {ERR}

Treatable == [from : Nat, instruction : Known]

OrderTypes ==
    /\ pushed \in Seq(Sent) /\ treated \in Seq(Treatable)
    /\ header \in Treatable \cup {Null}
    /\ mBuffer \in Seq(Byte) /\ mReadBuffer \in Seq(Byte) /\ wire \in Seq(Byte)
    /\ \E n \in 0..Len(pushed) : AreRegular(pushed, n)

\* Nothing is received into mReadBuffer before it was taken over.
TakenOver ==
    /\ reading = "pending" => mReadBuffer = <<>>
    /\ thread = "unpacking" => mReadBuffer = <<>> /\ reading # "pending"

\* Every regular command was treated, and there is one that is not regular:
\* the server may have lost its place.
Lost == Regular < Len(pushed) /\ Len(treated) >= Regular

\* The commands treated are the first ones, and what is left follows them.
InPlace ==
    /\ Len(treated) <= Len(pushed)
    /\ \A i \in 1..Len(treated) : treated[i].instruction = pushed[i]
    /\ header # Null => /\ Len(treated) < Len(pushed)
                        /\ header.instruction = pushed[Len(treated) + 1]
    /\ IsRun(Left, pushed)
    /\ Left # <<>> => Left[1] = Place
    /\ peer # "reset" => IF Left = <<>> THEN Place = [from |-> Len(pushed) + 1, pos |-> 1]
                         ELSE RunsOut(Left, pushed)

OrderInv == OrderTypes /\ TakenOver /\ (Lost \/ InPlace)

\* A command sent has a header, and a body of the size of its instruction.
LEMMA WholeFits ==
    ASSUME NEW p \in Seq(Sent), NEW k \in 1..Len(p)
    PROVE  p[k] \in Sent /\ BodySize[p[k]] \in Nat /\ Whole(p, k) \in Nat /\ Whole(p, k) >= 1
  BY SizeAssumption DEF Whole

\* The empty sequence is the one of no elements.
LEMMA NothingLeft ==
    ASSUME NEW S, NEW s \in Seq(S)
    PROVE  s = <<>> <=> Len(s) = 0
  OBVIOUS

\* Sequences in a row, element by element.
LEMMA InARow ==
    ASSUME NEW S, NEW s \in Seq(S), NEW t \in Seq(S)
    PROVE  /\ s \o t \in Seq(S) /\ Len(s \o t) = Len(s) + Len(t)
           /\ \A i \in 1..Len(s) : (s \o t)[i] = s[i]
           /\ \A i \in 1..Len(t) : (s \o t)[Len(s) + i] = t[i]
  OBVIOUS

\* Taking bytes out of the front leaves a run.
LEMMA RunBehind ==
    ASSUME NEW p \in Seq(Sent), NEW s \in Seq(Byte), IsRun(s, p), NEW n \in 0..Len(s)
    PROVE  /\ SubSeq(s, n + 1, Len(s)) \in Seq(Byte)
           /\ IsRun(SubSeq(s, n + 1, Len(s)), p)
           /\ SubSeq(s, n + 1, Len(s)) = <<>> <=> n = Len(s)
           /\ n < Len(s) => SubSeq(s, n + 1, Len(s))[1] = s[n + 1]
           /\ n < Len(s) /\ RunsOut(s, p) => RunsOut(SubSeq(s, n + 1, Len(s)), p)
<1> DEFINE t == SubSeq(s, n + 1, Len(s))
<1>1. /\ t \in Seq(Byte) /\ Len(t) = Len(s) - n
      /\ \A i \in 1..Len(t) : i + n \in 1..Len(s) /\ t[i] = s[i + n]
  OBVIOUS
<1> HIDE DEF t
<1>2. t = <<>> <=> n = Len(s)
  BY <1>1, NothingLeft
<1>3. IsRun(t, p)
  <2> SUFFICES ASSUME NEW i \in 1..Len(t)
               PROVE  /\ t[i].from \in 1..Len(p)
                      /\ t[i].pos \in 1..Whole(p, t[i].from)
                      /\ \A j \in i..Len(t) : Behind(t[i], t[j], j - i, Whole(p, t[i].from))
    BY DEF IsRun
  <2>1. i + n \in 1..Len(s) /\ t[i] = s[i + n]
    BY <1>1
  <2>2. ASSUME NEW j \in i..Len(t) PROVE Behind(t[i], t[j], j - i, Whole(p, t[i].from))
    <3>1. j \in 1..Len(t) /\ j + n \in (i + n)..Len(s) /\ (j + n) - (i + n) = j - i
      BY <1>1, <2>1
    <3>2. t[j] = s[j + n]
      BY <1>1, <3>1
    <3>3. Behind(s[i + n], s[j + n], (j + n) - (i + n), Whole(p, s[i + n].from))
      BY <2>1, <3>1 DEF IsRun
    <3>4. QED
      BY <2>1, <3>1, <3>2, <3>3
  <2>3. QED
    BY <2>1, <2>2 DEF IsRun
<1>4. n < Len(s) => t[1] = s[n + 1]
  BY <1>1
<1>5. n < Len(s) => t[Len(t)] = s[Len(s)]
  BY <1>1
<1>6. QED
  BY <1>1, <1>3, <1>4, <1>5, <1>2 DEF t, RunsOut

\* So does the loss of what comes last.
LEMMA RunBefore ==
    ASSUME NEW p \in Seq(Sent), NEW s \in Seq(Byte), NEW t \in Seq(Byte), IsRun(s \o t, p)
    PROVE  IsRun(s, p) /\ (s # <<>> => s \o t # <<>> /\ s[1] = (s \o t)[1])
<1> DEFINE u == s \o t
<1>1. /\ Len(u) = Len(s) + Len(t) /\ Len(s) \in Nat /\ Len(t) \in Nat
      /\ \A i \in 1..Len(s) : i \in 1..Len(u) /\ u[i] = s[i]
  OBVIOUS
<1>2. IsRun(u, p)
  OBVIOUS
<1> HIDE DEF u
<1>3. IsRun(s, p)
  <2> SUFFICES ASSUME NEW i \in 1..Len(s)
               PROVE  /\ s[i].from \in 1..Len(p)
                      /\ s[i].pos \in 1..Whole(p, s[i].from)
                      /\ \A j \in i..Len(s) : Behind(s[i], s[j], j - i, Whole(p, s[i].from))
    BY DEF IsRun
  <2>1. i \in 1..Len(u) /\ u[i] = s[i]
    BY <1>1
  <2>2. \A j \in i..Len(s) : j \in i..Len(u) /\ u[j] = s[j]
    BY <1>1
  <2>3. QED
    BY <1>2, <2>1, <2>2 DEF IsRun
<1>4. s # <<>> => u # <<>> /\ s[1] = u[1]
  BY <1>1
<1>5. QED
  BY <1>3, <1>4 DEF u

\* The peer sends another command behind a run that runs out.
LEMMA RunLonger ==
    ASSUME NEW p \in Seq(Sent), NEW s \in Seq(Byte), IsRun(s, p), s # <<>> => RunsOut(s, p),
           NEW m \in Sent
    PROVE  LET t == s \o Bytes(Len(p) + 1, m)
               q == Append(p, m)
           IN /\ t \in Seq(Byte) /\ t # <<>>
              /\ IsRun(t, q) /\ RunsOut(t, q)
              /\ t[1] = IF s = <<>> THEN [from |-> Len(p) + 1, pos |-> 1] ELSE s[1]
<1> DEFINE l == Len(p) + 1
           w == HEADER_SIZE + BodySize[m]
           b == Bytes(l, m)
           t == s \o b
           q == Append(p, m)
           k == Len(s)
<1>1. /\ q \in Seq(Sent) /\ Len(q) = l /\ l \in Nat /\ l >= 1 /\ Len(p) \in Nat
      /\ q[l] = m /\ \A i \in 1..Len(p) : i \in 1..l /\ q[i] = p[i]
  OBVIOUS
<1>2. w \in Nat /\ w >= 1 /\ Whole(q, l) = w /\ \A i \in 1..Len(p) : Whole(q, i) = Whole(p, i)
  BY <1>1, SizeAssumption DEF Whole
<1>3. b \in Seq(Byte) /\ Len(b) = w /\ \A i \in 1..w : b[i] = [from |-> l, pos |-> i]
  <2>1. b = [i \in 1..w |-> [from |-> l, pos |-> i]]
    BY DEF Bytes
  <2> HIDE DEF b, w, l
  <2>2. \A i \in 1..w : [from |-> l, pos |-> i] \in Byte
    BY <1>1, <1>2 DEF Byte
  <2>3. b \in [1..w -> Byte]
    BY <2>1, <2>2
  <2>4. b \in Seq(Byte) /\ Len(b) = w
    BY <1>2, <2>3
  <2>5. QED
    BY <2>1, <2>4
<1>4. /\ t \in Seq(Byte) /\ Len(t) = k + w /\ k \in Nat
      /\ \A i \in 1..k : t[i] = s[i]
      /\ \A i \in (k + 1)..(k + w) : t[i] = [from |-> l, pos |-> i - k]
  <2> HIDE DEF b, w, l
  <2>1. /\ t \in Seq(Byte) /\ Len(t) = k + w /\ k \in Nat
        /\ \A i \in 1..k : t[i] = s[i]
        /\ \A i \in 1..w : t[k + i] = b[i]
    <3>1. /\ s \o b \in Seq(Byte) /\ Len(s \o b) = Len(s) + Len(b)
          /\ \A i \in 1..Len(s) : (s \o b)[i] = s[i]
          /\ \A i \in 1..Len(b) : (s \o b)[Len(s) + i] = b[i]
      BY ONLY <1>3, InARow, s \in Seq(Byte)
    <3>2. Len(s) \in Nat
      OBVIOUS
    <3> HIDE DEF t, k
    <3>3. t = s \o b /\ k = Len(s)
      BY DEF t, k
    <3>4. QED
      BY ONLY <1>3, <3>1, <3>2, <3>3
  <2> HIDE DEF t, k
  <2>2. ASSUME NEW i \in (k + 1)..(k + w) PROVE t[i] = [from |-> l, pos |-> i - k]
    <3>1. i - k \in 1..w /\ k + (i - k) = i
      BY <1>2, <2>1
    <3>2. t[k + (i - k)] = b[i - k]
      BY <2>1, <3>1
    <3>3. QED
      BY <1>3, <3>1, <3>2
  <2>3. QED
    BY <2>1, <2>2
<1>5. k > 0 => s[k] = [from |-> Len(p), pos |-> Whole(p, Len(p))]
  BY DEF RunsOut
<1> HIDE DEF t, q, k, b, w, l
<1>6. IsRun(t, q)
  <2> SUFFICES ASSUME NEW i \in 1..(k + w)
               PROVE  /\ t[i].from \in 1..l
                      /\ t[i].pos \in 1..Whole(q, t[i].from)
                      /\ \A j \in i..(k + w) : Behind(t[i], t[j], j - i, Whole(q, t[i].from))
    BY <1>1, <1>4 DEF IsRun
  \* Two bytes of the new command.
  <2>1. CASE i > k
    <3>1. i \in (k + 1)..(k + w) /\ i - k \in 1..w
      BY <1>2, <1>4, <2>1
    <3>2. t[i] = [from |-> l, pos |-> i - k]
      BY <1>4, <3>1
    <3>3. t[i].from = l /\ t[i].pos = i - k /\ i - k \in 1..w
      BY <3>1, <3>2
    <3>4. ASSUME NEW j \in i..(k + w) PROVE t[j] = [from |-> l, pos |-> (i - k) + (j - i)]
      BY <1>1, <1>2, <1>4, <2>1
    <3>5. ASSUME NEW j \in i..(k + w) PROVE (i - k) + (j - i) # w + 1
      BY <1>1, <1>2, <1>4, <2>1
    <3>6. QED
      BY <1>1, <1>2, <3>3, <3>4, <3>5 DEF Behind
  <2>2. CASE i <= k
    <3>1. /\ i \in 1..k /\ t[i] = s[i] /\ s[i] \in Byte
          /\ s[i].from \in 1..Len(p) /\ s[i].pos \in 1..Whole(p, s[i].from)
          /\ Whole(q, s[i].from) = Whole(p, s[i].from) /\ Whole(p, s[i].from) \in Nat
      BY <1>2, <1>4, <2>2, WholeFits DEF IsRun, k
    <3>2. ASSUME NEW j \in i..k PROVE Behind(t[i], t[j], j - i, Whole(q, t[i].from))
      BY <1>4, <3>1, <3>2 DEF IsRun, k
    \* The last byte of the run is the last of its command.
    <3>3. ASSUME NEW j \in (k + 1)..(k + w)
          PROVE  Behind(t[i], t[j], j - i, Whole(q, t[i].from))
      <4> DEFINE h == Whole(p, s[i].from)
                 f == s[i].from
                 g == s[i].pos
                 d == k - i
      <4>1. /\ g + d <= h => s[k] = [from |-> f, pos |-> g + d]
            /\ g + d = h + 1 => s[k] = [from |-> f + 1, pos |-> 1]
        BY <1>4, <3>1 DEF IsRun, Behind, k
      <4>2. s[k] = [from |-> Len(p), pos |-> Whole(p, Len(p))]
        BY <1>4, <1>5, <3>1
      <4>3. t[j] = [from |-> l, pos |-> j - k] /\ l = Len(p) + 1
        BY <1>4 DEF l
      <4>4. h \in Nat /\ f \in Nat /\ g \in Nat
        BY <3>1 DEF Byte
      <4>5. d \in Nat /\ j - i = d + (j - k) /\ j - k \in Nat /\ j - k >= 1
        BY <1>2, <1>4, <3>1
      <4>6. h \in Nat /\ f \in Nat /\ g \in Nat /\ d \in Nat /\ j - i = d + (j - k) /\ j - k \in Nat
            /\ j - k >= 1
        BY <4>4, <4>5
      <4> HIDE DEF d
      <4>7. g + d <= h => f = Len(p) /\ g + d = h
        BY <4>1, <4>2
      <4>8. ~(g + (j - i) <= h)
        BY <4>6, <4>7
      <4>9. g + (j - i) = h + 1 => f = Len(p) /\ j - k = 1
        BY <4>6, <4>7
      <4>10. Behind(s[i], t[j], j - i, h)
        BY <4>3, <4>8, <4>9 DEF Behind
      <4>11. QED
        BY <3>1, <4>10
    <3>4. \A j \in i..(k + w) : j \in i..k \/ j \in (k + 1)..(k + w)
      BY <1>2, <1>4
    <3>5. QED
      BY <1>1, <3>1, <3>2, <3>3, <3>4
  <2>3. QED
    BY <1>4, <2>1, <2>2
<1>7. RunsOut(t, q)
  BY <1>1, <1>2, <1>4 DEF RunsOut
<1>8. t # <<>> /\ t[1] = IF s = <<>> THEN [from |-> Len(p) + 1, pos |-> 1] ELSE s[1]
  <2>1. s = <<>> <=> k = 0
    BY DEF k
  <2>2. k = 0 => t[1] = [from |-> l, pos |-> 1]
    BY <1>2, <1>4
  <2>3. k # 0 => t[1] = s[1]
    BY <1>4
  <2>4. Len(t) # 0
    BY <1>2, <1>4
  <2>5. QED
    BY <2>1, <2>2, <2>3, <2>4, <1>4 DEF l
<1>9. QED
  BY <1>4, <1>6, <1>7, <1>8 DEF t, b, q, l

\* Sequences are joined in any order.
LEMMA Joining ==
    ASSUME NEW S, NEW a \in Seq(S), NEW b \in Seq(S), NEW c \in Seq(S)
    PROVE  (a \o b) \o c = a \o (b \o c) /\ a \o b \in Seq(S) /\ b \o c \in Seq(S)
<1>1. (a \o b) \o c = a \o (b \o c)
  BY ConcatAssociative
<1>2. a \o b \in Seq(S) /\ b \o c \in Seq(S)
  BY ConcatProperties
<1>3. QED
  BY <1>1, <1>2

\* A sequence cut in two is put together again.
LEMMA Cutting ==
    ASSUME NEW S, NEW c \in Seq(S), NEW n \in 0..Len(c)
    PROVE  /\ SubSeq(c, 1, n) \in Seq(S) /\ SubSeq(c, n + 1, Len(c)) \in Seq(S)
           /\ SubSeq(c, 1, n) \o SubSeq(c, n + 1, Len(c)) = c
<1>1. SubSeq(c, 1, n) \in Seq(S) /\ SubSeq(c, n + 1, Len(c)) \in Seq(S)
  OBVIOUS
<1>2. 1 \in 1..(Len(c) + 1) /\ n \in (1 - 1)..Len(c) /\ Len(c) \in n..Len(c)
  OBVIOUS
<1>3. SubSeq(c, 1, n) \o SubSeq(c, n + 1, Len(c)) = SubSeq(c, 1, Len(c))
  BY <1>2, ConcatAdjacentSubSeq
<1>4. QED
  BY <1>1, <1>3, SubSeqFull

\* What is taken out of the front of a buffer is taken out of all there is.
LEMMA CuttingFront ==
    ASSUME NEW S, NEW a \in Seq(S), NEW b \in Seq(S), NEW n \in 0..Len(a)
    PROVE  /\ n \in 0..Len(a \o b) /\ SubSeq(a, n + 1, Len(a)) \in Seq(S)
           /\ SubSeq(a, n + 1, Len(a)) \o b = SubSeq(a \o b, n + 1, Len(a \o b))
           /\ a # <<>> => a \o b # <<>> /\ (a \o b)[1] = a[1]
<1> DEFINE d == SubSeq(a, n + 1, Len(a))
           t == a \o b
           e == SubSeq(t, n + 1, Len(t))
<1>1. /\ t \in Seq(S) /\ Len(t) = Len(a) + Len(b) /\ Len(a) \in Nat /\ Len(b) \in Nat
      /\ \A i \in 1..Len(a) : t[i] = a[i]
      /\ \A i \in 1..Len(b) : t[Len(a) + i] = b[i]
  BY InARow
<1>2. /\ d \in Seq(S) /\ Len(d) = Len(a) - n
      /\ \A i \in 1..(Len(a) - n) : d[i] = a[i + n]
  OBVIOUS
<1>3. /\ d \o b \in Seq(S) /\ Len(d \o b) = Len(d) + Len(b)
      /\ \A i \in 1..Len(d) : (d \o b)[i] = d[i]
      /\ \A i \in 1..Len(b) : (d \o b)[Len(d) + i] = b[i]
  <2>1. \A x \in Seq(S) :
           /\ x \o b \in Seq(S) /\ Len(x \o b) = Len(x) + Len(b)
           /\ \A i \in 1..Len(x) : (x \o b)[i] = x[i]
           /\ \A i \in 1..Len(b) : (x \o b)[Len(x) + i] = b[i]
    BY InARow
  <2> HIDE DEF d
  <2>2. QED
    BY <1>2, <2>1
<1> HIDE DEF d
<1> HIDE DEF t
<1>4. n \in 0..Len(t)
  BY <1>1
<1>5. /\ e \in Seq(S) /\ Len(e) = Len(t) - n
      /\ \A i \in 1..(Len(t) - n) : e[i] = t[i + n]
  BY <1>1, <1>4
<1> HIDE DEF e
<1>6. Len(d \o b) = Len(e)
  BY <1>1, <1>2, <1>3, <1>5
<1>7. ASSUME NEW i \in 1..Len(d \o b) PROVE (d \o b)[i] = e[i]
  <2>1. i \in 1..(Len(t) - n) /\ e[i] = t[i + n]
    BY <1>5, <1>6, <1>7
  <2>2. CASE i <= Len(d)
    BY <1>1, <1>2, <1>3, <2>1, <2>2
  <2>3. CASE i > Len(d)
    <3>1. i - Len(d) \in 1..Len(b) /\ Len(d) + (i - Len(d)) = i
          /\ Len(a) + (i - Len(d)) = i + n
      BY <1>1, <1>2, <1>3, <2>3
    <3>2. QED
      BY <1>1, <1>3, <2>1, <3>1
  <2>4. QED
    BY <1>2, <2>2, <2>3
<1>8. d \o b = e
  BY <1>3, <1>5, <1>6, <1>7, SeqEqual
<1>9. a # <<>> => t # <<>> /\ t[1] = a[1]
  BY <1>1
<1>10. QED
  BY <1>2, <1>4, <1>8, <1>9 DEF d, e, t

\* What is received is taken off what is on its way.
LEMMA MovedReceived ==
    ASSUME NEW S, NEW c \in Seq(S), NEW n \in 0..Len(c)
    PROVE  SubSeq(c, 1, n) \o SubSeq(c, n + 1, Len(c)) = <<>> \o c
  BY Cutting, ConcatEmptySeq

\* What was received is taken over, and the place for it empty.
LEMMA MovedTaken ==
    ASSUME NEW S, NEW a \in Seq(S), NEW b \in Seq(S), NEW c \in Seq(S)
    PROVE  (a \o b) \o (<<>> \o c) = a \o (b \o c)
  BY Joining, ConcatEmptySeq

\* What comes behind the last of three comes behind all of them.
LEMMA JoinedBehind ==
    ASSUME NEW S, NEW a \in Seq(S), NEW b \in Seq(S), NEW c \in Seq(S), NEW d \in Seq(S)
    PROVE  a \o (b \o (c \o d)) = (a \o (b \o c)) \o d
<1>1. b \o c \in Seq(S)
  BY Joining
<1>2. b \o (c \o d) = (b \o c) \o d
  BY Joining
<1>3. \A e \in Seq(S) : a \o (e \o d) = (a \o e) \o d
  BY Joining
<1>4. QED
  BY <1>1, <1>2, <1>3

\* There is one number of regular commands.
LEMMA OneRegular ==
    ASSUME NEW p \in Seq(Sent), NEW m, NEW n, AreRegular(p, m), AreRegular(p, n)
    PROVE  m = n
<1>1. ASSUME NEW x, NEW y, AreRegular(p, x), AreRegular(p, y) PROVE ~(x < y)
  <2>1. x < y => x + 1 \in 1..y /\ x < Len(p)
    BY <1>1 DEF AreRegular
  <2>2. QED
    BY <1>1, <2>1 DEF AreRegular
<1>2. m \in Nat /\ n \in Nat
  BY DEF AreRegular
<1>3. ~(m < n) /\ ~(n < m)
  BY <1>1
<1>4. QED
  BY <1>2, <1>3

\* So that Regular is the number the definition of it speaks of.
LEMMA RegularIs ==
    ASSUME OrderTypes
    PROVE  AreRegular(pushed, Regular) /\ \A n : AreRegular(pushed, n) => n = Regular
<1>1. \E n \in 0..Len(pushed) : AreRegular(pushed, n)
  BY DEF OrderTypes
<1>2. AreRegular(pushed, Regular)
  BY <1>1 DEF Regular, AreRegular
<1>3. QED
  BY <1>2, OneRegular DEF OrderTypes

\* A command sent is regular when all before it are, and it is one itself.
LEMMA RegularLonger ==
    ASSUME OrderTypes, NEW m \in Sent, pushed' = Append(pushed, m)
    PROVE  /\ AreRegular(pushed', Regular')
           /\ Regular' = IF Regular = Len(pushed) /\ m \in Known \ {ERR} THEN Regular + 1 ELSE Regular
<1> DEFINE n == IF Regular = Len(pushed) /\ m \in Known \ {ERR} THEN Regular + 1 ELSE Regular
<1>1. /\ pushed' \in Seq(Sent) /\ Len(pushed') = Len(pushed) + 1 /\ Len(pushed) \in Nat
      /\ pushed'[Len(pushed) + 1] = m
      /\ \A i \in 1..Len(pushed) : pushed'[i] = pushed[i]
  BY DEF OrderTypes
<1>2. AreRegular(pushed, Regular)
  BY RegularIs
<1>3. AreRegular(pushed', n)
  <2>1. CASE Regular = Len(pushed) /\ m \in Known \ {ERR}
    <3>1. n = Len(pushed) + 1
      BY <2>1
    <3> HIDE DEF n
    <3>2. QED
      BY <1>1, <1>2, <2>1, <3>1 DEF AreRegular
  <2>2. CASE Regular = Len(pushed) /\ m \notin Known \ {ERR}
    <3>1. n = Len(pushed)
      BY <2>2
    <3> HIDE DEF n
    <3>2. QED
      BY <1>1, <1>2, <2>2, <3>1 DEF AreRegular
  <2>3. CASE Regular # Len(pushed)
    <3>1. n = Regular /\ Regular \in 0..Len(pushed) /\ Regular < Len(pushed)
      BY <1>1, <1>2, <2>3 DEF AreRegular
    <3> HIDE DEF n
    <3>2. QED
      BY <1>1, <1>2, <3>1 DEF AreRegular
  <2>4. QED
    BY <2>1, <2>2, <2>3
<1> HIDE DEF n
<1>4. AreRegular(pushed', Regular')
  <2>1. n \in 0..Len(pushed')
    BY <1>3 DEF AreRegular
  <2>2. QED
    BY <1>3, <2>1 DEF Regular, AreRegular
<1>5. Regular' = n
  BY <1>1, <1>3, <1>4, OneRegular
<1>6. QED
  BY <1>4, <1>5 DEF n

\* As long as the server keeps its place, the next command is a regular one.
LEMMA NextIsRegular ==
    ASSUME OrderTypes, InPlace, ~Lost, Len(treated) < Len(pushed)
    PROVE  /\ Len(treated) + 1 \in 1..Regular /\ Len(treated) + 1 \in 1..Len(pushed)
           /\ pushed[Len(treated) + 1] \in Known \ {ERR}
<1>1. AreRegular(pushed, Regular)
  BY RegularIs
<1>2. Len(treated) \in Nat /\ Len(pushed) \in Nat
  BY DEF OrderTypes
<1>3. QED
  BY <1>1, <1>2 DEF AreRegular, Lost

\* At the start nothing was sent and nothing treated.
LEMMA OrderInit == Init => OrderInv
<1> SUFFICES ASSUME Init PROVE OrderInv
  OBVIOUS
<1>1. AreRegular(pushed, 0) /\ 0 \in 0..Len(pushed)
  BY DEF Init, AreRegular
<1>2. OrderTypes
  BY <1>1 DEF Init, OrderTypes
<1>3. Left = <<>> /\ Len(treated) = 0 /\ Len(pushed) = 0
  BY DEF Init, Left
<1>4. InPlace
  BY <1>3 DEF Init, InPlace, Place, IsRun
<1>5. TakenOver
  BY DEF Init, TakenOver
<1>6. QED
  BY <1>2, <1>4, <1>5 DEF OrderInv

\* What is cut and where reading goes on depend on what has come in alone.
LEMMA OrderUnchanged ==
    ASSUME OrderInv, UNCHANGED inbound, TakenOver', peer' # "reset" => peer # "reset"
    PROVE  OrderInv'
<1>1. UNCHANGED <<Left, Place, Regular>>
  BY DEF inbound, Left, Place, Regular
<1>2. OrderTypes'
  BY DEF OrderInv, OrderTypes, inbound
<1>3. Lost => Lost'
  BY <1>1 DEF Lost, inbound
<1>4. InPlace => InPlace'
  BY <1>1 DEF InPlace, inbound
<1>5. QED
  BY <1>2, <1>3, <1>4 DEF OrderInv

\* A command sent goes behind what is left.
LEMMA OrderSend ==
    ASSUME OrderInv, NEW m \in Sent, PeerSend(m)
    PROVE  OrderInv'
<1>1. /\ pushed \in Seq(Sent) /\ Len(pushed) \in Nat /\ pushed' = Append(pushed, m)
      /\ pushed' \in Seq(Sent) /\ Len(pushed') = Len(pushed) + 1
      /\ \A i \in 1..Len(pushed) : pushed'[i] = pushed[i]
  BY DEF OrderInv, OrderTypes, PeerSend
<1>2. /\ mBuffer \in Seq(Byte) /\ mReadBuffer \in Seq(Byte) /\ wire \in Seq(Byte)
      /\ wire' = wire \o Bytes(Len(pushed) + 1, m)
      /\ UNCHANGED <<mBuffer, mReadBuffer, header, treated, reading, thread, peer>>
      /\ peer # "reset"
  BY DEF OrderInv, OrderTypes, PeerSend
<1>3. Bytes(Len(pushed) + 1, m) \in Seq(Byte)
  <2>1. Bytes(Len(pushed) + 1, m) \in [1..(HEADER_SIZE + BodySize[m]) -> Byte]
    BY <1>1, SizeAssumption DEF Bytes, Byte
  <2>2. HEADER_SIZE + BodySize[m] \in Nat
    BY SizeAssumption
  <2>3. QED
    BY <2>1, <2>2
<1>4. OrderTypes'
  <2>1. wire' \in Seq(Byte)
    BY <1>2, <1>3, ConcatProperties
  <2>2. AreRegular(pushed', Regular') /\ Regular' \in 0..Len(pushed')
    BY <1>1, RegularLonger DEF OrderInv, AreRegular
  <2>3. QED
    BY <1>1, <1>2, <2>1, <2>2 DEF OrderInv, OrderTypes
<1>5. TakenOver'
  BY <1>2 DEF OrderInv, TakenOver
<1>6. Lost => Lost'
  <2>1. Regular \in Nat
    BY RegularIs DEF OrderInv, AreRegular
  <2>2. Lost => Regular' = Regular
    BY <1>1, RegularLonger, <2>1 DEF OrderInv, Lost
  <2>3. QED
    BY <1>1, <1>2, <2>1, <2>2 DEF Lost
<1>7. ASSUME InPlace PROVE InPlace'
  <2>1. Left' = Left \o Bytes(Len(pushed) + 1, m) /\ Left \in Seq(Byte)
    <3>1. Left \in Seq(Byte)
      BY <1>2, ConcatProperties DEF Left
    <3>2. \A d \in Seq(Byte) : mBuffer \o (mReadBuffer \o (wire \o d)) = Left \o d
      <4>1. \A a \in Seq(Byte), b \in Seq(Byte), c \in Seq(Byte) :
               \A d \in Seq(Byte) : a \o (b \o (c \o d)) = (a \o (b \o c)) \o d
        BY ONLY JoinedBehind
      <4>2. QED
        BY ONLY <1>2, <4>1 DEF Left
    <3>3. QED
      BY <1>2, <1>3, <3>1, <3>2 DEF Left
  <2>2. IsRun(Left, pushed) /\ (Left # <<>> => RunsOut(Left, pushed))
    BY <1>2, <1>7 DEF InPlace
  <2>3. /\ Left' # <<>> /\ IsRun(Left', pushed') /\ RunsOut(Left', pushed')
        /\ Left'[1] = IF Left = <<>> THEN [from |-> Len(pushed) + 1, pos |-> 1] ELSE Left[1]
    BY <1>1, <2>1, <2>2, RunLonger
  <2>4. Place' = Place
    BY <1>2 DEF Place
  <2>5. Left'[1] = Place'
    BY <1>2, <1>7, <2>3, <2>4 DEF InPlace
  <2>6. /\ Len(treated') <= Len(pushed')
        /\ \A i \in 1..Len(treated') : treated'[i].instruction = pushed'[i]
        /\ header' # Null => /\ Len(treated') < Len(pushed')
                             /\ header'.instruction = pushed'[Len(treated') + 1]
    <3>1. Len(treated) \in Nat
      BY DEF OrderInv, OrderTypes
    <3>2. QED
      BY <1>1, <1>2, <1>7, <3>1 DEF InPlace
  <2>7. QED
    BY <2>3, <2>5, <2>6 DEF InPlace
<1>8. QED
  BY <1>4, <1>5, <1>6, <1>7 DEF OrderInv

\* What is lost with a connection is the end of what is left.
LEMMA OrderReset == ASSUME OrderInv, PeerReset PROVE OrderInv'
<1>1. /\ peer' = "reset" /\ wire' = <<>>
      /\ UNCHANGED <<mBuffer, mReadBuffer, header, treated, pushed, reading, thread>>
  BY DEF PeerReset
<1>2. OrderTypes' /\ TakenOver'
  BY <1>1 DEF OrderInv, OrderTypes, TakenOver
<1>3. Lost => Lost'
  BY <1>1 DEF Lost, Regular
<1>4. ASSUME InPlace PROVE InPlace'
  <2>1. /\ pushed \in Seq(Sent) /\ mBuffer \o mReadBuffer \in Seq(Byte) /\ wire \in Seq(Byte)
    BY ConcatProperties DEF OrderInv, OrderTypes
  <2>2. Left' = mBuffer \o mReadBuffer
    BY <1>1, <2>1, ConcatEmptySeq DEF Left, OrderInv, OrderTypes
  <2>3. Left = (mBuffer \o mReadBuffer) \o wire
    BY Joining DEF Left, OrderInv, OrderTypes
  <2>4. IsRun(Left, pushed) /\ (Left # <<>> => Left[1] = Place)
    BY <1>4 DEF InPlace
  <2>5. IsRun(Left', pushed) /\ (Left' # <<>> => Left # <<>> /\ Left'[1] = Left[1])
    BY <2>1, <2>2, <2>4, <2>3, RunBefore
  <2>6. Place' = Place
    BY <1>1 DEF Place
  <2>7. QED
    BY <1>1, <1>4, <2>4, <2>5, <2>6 DEF InPlace
<1>5. QED
  BY <1>2, <1>3, <1>4 DEF OrderInv

\* Bytes only move between the buffers.
LEMMA OrderMoves ==
    ASSUME OrderInv, OrderTypes', TakenOver', Left' = Left,
           UNCHANGED <<header, treated, pushed, peer>>
    PROVE  OrderInv'
<1>1. UNCHANGED <<Place, Regular>>
  BY DEF Place, Regular
<1>2. QED
  BY <1>1 DEF OrderInv, Lost, InPlace

\* Bytes come in from the network: mReadBuffer was empty.
LEMMA OrderReceives == ASSUME OrderInv, Receives PROVE OrderInv'
<1>1. PICK n \in 1..BUFFER_SIZE : KernelReceives(n)
  BY DEF Receives
<1>2. /\ n \in 0..Len(wire) /\ mBuffer \in Seq(Byte) /\ wire \in Seq(Byte) /\ mReadBuffer = <<>>
      /\ mReadBuffer' = SubSeq(wire, 1, n) /\ wire' = SubSeq(wire, n + 1, Len(wire))
      /\ UNCHANGED <<mBuffer, header, treated, pushed, peer, thread>>
      /\ reading = "pending" /\ reading' = "done"
  BY <1>1, SizeAssumption DEF KernelReceives, OrderInv, OrderTypes, TakenOver
<1>3. OrderTypes'
  BY <1>2, Cutting DEF OrderInv, OrderTypes
<1>4. TakenOver'
  BY <1>2 DEF OrderInv, TakenOver
<1>5. SubSeq(wire, 1, n) \o SubSeq(wire, n + 1, Len(wire)) = <<>> \o wire
  BY <1>2, MovedReceived
<1>6. Left' = Left
  BY <1>2, <1>5 DEF Left
<1>7. QED
  BY <1>2, <1>3, <1>4, <1>6, OrderMoves

\* Bytes received are taken over behind those not consumed.
LEMMA OrderRecv == ASSUME OrderInv, recvHandler PROVE OrderInv'
<1>1. CASE listener
  <2>1. /\ mBuffer' = mBuffer \o mReadBuffer /\ mReadBuffer' = <<>>
        /\ UNCHANGED <<wire, header, treated, pushed, peer, reading>> /\ reading = "done"
    BY <1>1 DEF recvHandler
  <2>2. mBuffer \in Seq(Byte) /\ mReadBuffer \in Seq(Byte) /\ wire \in Seq(Byte)
    BY DEF OrderInv, OrderTypes
  <2>3. OrderTypes'
    BY <2>1, <2>2, ConcatProperties DEF OrderInv, OrderTypes
  <2>4. TakenOver'
    BY <2>1 DEF TakenOver
  <2>5. (mBuffer \o mReadBuffer) \o (<<>> \o wire) = mBuffer \o (mReadBuffer \o wire)
    BY <2>2, MovedTaken
  <2>6. Left' = Left
    BY <2>1, <2>5 DEF Left
  <2>7. QED
    BY <2>1, <2>3, <2>4, <2>6, OrderMoves
<1>2. CASE ~listener
  <2>1. UNCHANGED inbound /\ UNCHANGED <<peer, reading, thread>>
    BY <1>2 DEF recvHandler, inbound
  <2>2. TakenOver'
    BY <2>1 DEF OrderInv, TakenOver, inbound
  <2>3. QED
    BY <2>1, <2>2, OrderUnchanged
<1>3. QED
  BY <1>1, <1>2

\* Bytes cut off the front of what is left.
LEMMA OrderCut ==
    ASSUME OrderInv, InPlace, NEW n \in 0..Len(mBuffer), receive(n),
           UNCHANGED <<wire, mReadBuffer, pushed, peer>>
    PROVE  /\ n \in 0..Len(Left) /\ Left \in Seq(Byte) /\ mBuffer' \in Seq(Byte)
           /\ IsRun(Left', pushed) /\ (Left' = <<>> <=> n = Len(Left))
           /\ n < Len(Left) => Left'[1] = Left[n + 1]
           /\ n < Len(Left) /\ RunsOut(Left, pushed) => RunsOut(Left', pushed)
           /\ mBuffer # <<>> => Left # <<>> /\ mBuffer[1] = Left[1]
           /\ \A i \in 1..Len(Left) : Left[i] \in Byte
<1>1. /\ mBuffer \in Seq(Byte) /\ mReadBuffer \in Seq(Byte) /\ wire \in Seq(Byte)
      /\ pushed \in Seq(Sent) /\ IsRun(Left, pushed)
  BY DEF OrderInv, OrderTypes, InPlace
<1> DEFINE rest == mReadBuffer \o wire
<1>2. /\ rest \in Seq(Byte) /\ mBuffer' = SubSeq(mBuffer, n + 1, Len(mBuffer))
      /\ Left = mBuffer \o rest /\ Left' = mBuffer' \o rest
  BY <1>1, ConcatProperties DEF receive, Left
<1> HIDE DEF rest
<1>3. /\ n \in 0..Len(Left) /\ mBuffer' \in Seq(Byte)
      /\ Left' = SubSeq(Left, n + 1, Len(Left))
      /\ mBuffer # <<>> => Left # <<>> /\ Left[1] = mBuffer[1]
  BY <1>1, <1>2, CuttingFront
<1>4. Left \in Seq(Byte) /\ \A i \in 1..Len(Left) : Left[i] \in Byte
  <2>1. Left \in Seq(Byte)
    BY <1>1, <1>2, ConcatProperties
  <2>2. QED
    BY <2>1
<1>5. /\ IsRun(Left', pushed) /\ (Left' = <<>> <=> n = Len(Left))
      /\ n < Len(Left) => Left'[1] = Left[n + 1]
      /\ n < Len(Left) /\ RunsOut(Left, pushed) => RunsOut(Left', pushed)
  BY <1>1, <1>3, <1>4, RunBehind
<1>6. QED
  BY <1>3, <1>4, <1>5

\* Where a command's header, or its body, ends.
LEMMA PlaceBehind ==
    ASSUME NEW p \in Seq(Sent), NEW s \in Seq(Byte), IsRun(s, p), s # <<>>,
           NEW k, NEW g, s[1] = [from |-> k, pos |-> g], NEW n \in 1..Len(s)
    PROVE  /\ k \in 1..Len(p) /\ g \in Nat /\ g >= 1
           /\ n < Len(s) => Behind(s[1], s[n + 1], n, Whole(p, k))
           /\ Behind(s[1], s[n], n - 1, Whole(p, k))
<1>1. 1 \in 1..Len(s) /\ n \in 1..Len(s) /\ Len(s) \in Nat
      /\ (n < Len(s) => n + 1 \in 1..Len(s) /\ (n + 1) - 1 = n)
  OBVIOUS
<1>2. /\ s[1].from \in 1..Len(p) /\ s[1].pos \in 1..Whole(p, s[1].from)
      /\ \A j \in 1..Len(s) : Behind(s[1], s[j], j - 1, Whole(p, s[1].from))
  BY <1>1 DEF IsRun
<1>3. s[1].from = k /\ s[1].pos = g
  OBVIOUS
<1>4. Whole(p, k) \in Nat
  BY <1>2, <1>3, WholeFits
<1>5. k \in 1..Len(p) /\ g \in Nat /\ g >= 1
  BY <1>2, <1>3, <1>4
<1>6. \A j \in 1..Len(s) : Behind(s[1], s[j], j - 1, Whole(p, k))
  BY <1>2, <1>3
<1>7. QED
  BY <1>1, <1>5, <1>6

\* A header that is read is that of the next command, which the server knows.
LEMMA NextHeader ==
    ASSUME OrderInv, InPlace, ~Lost, unPackHeader
    PROVE  LET k == Len(treated) + 1
           IN /\ Left # <<>> /\ Left[1] = [from |-> k, pos |-> 1]
              /\ k \in 1..Len(pushed) /\ pushed[k] \in Known \ {ERR}
              /\ header' = Command(k, pushed[k]) /\ header' # Null
              /\ UNCHANGED <<thread, reading>>
<1> DEFINE k == Len(treated) + 1
<1>1. PICK command \in Decoded(mBuffer) :
         \/ getCommand(command.instruction) /\ header' = command /\ UNCHANGED <<thread, reading>>
         \/ ~getCommand(command.instruction) /\ header' = Null /\ Return
  BY DEF unPackHeader
<1>2. /\ header = Null /\ receive(HEADER_SIZE)
      /\ UNCHANGED <<wire, mReadBuffer, pushed, peer>>
      /\ HEADER_SIZE \in 0..Len(mBuffer) /\ mBuffer # <<>>
      /\ pushed \in Seq(Sent) /\ Len(treated) \in Nat /\ Len(pushed) \in Nat
  BY SizeAssumption DEF unPackHeader, OrderInv, OrderTypes
<1>3. Left # <<>> /\ Left \in Seq(Byte) /\ mBuffer[1] = Left[1] /\ IsRun(Left, pushed)
  BY <1>2, OrderCut DEF InPlace
<1>4. Left[1] = [from |-> k, pos |-> 1]
  BY <1>2, <1>3 DEF InPlace, Place
<1>5. k \in 1..Len(pushed) /\ pushed[k] \in Known \ {ERR}
  <2>1. 1 \in 1..Len(Left)
    BY <1>3
  <2>2. k \in 1..Len(pushed)
    BY <1>2, <1>3, <1>4, <2>1, PlaceBehind
  <2>3. Len(treated) < Len(pushed)
    BY <1>2, <2>2
  <2>4. QED
    BY <2>2, <2>3, NextIsRegular DEF OrderInv
<1>6. command = Command(k, pushed[k]) /\ command.instruction = pushed[k]
  <2>1. Decoded(mBuffer) = {Command(k, pushed[k])}
    BY <1>3, <1>4 DEF Decoded
  <2>2. QED
    BY <1>1, <2>1 DEF Command
<1>7. header' = command /\ UNCHANGED <<thread, reading>>
  BY <1>1, <1>5, <1>6 DEF getCommand
<1>8. command # Null
  BY <1>2, <1>5, <1>6, SizeAssumption DEF Command
<1>9. QED
  BY <1>3, <1>4, <1>5, <1>6, <1>7, <1>8

\* Behind it the place is the first byte of its body, or of the next command.
LEMMA OrderHeader == ASSUME OrderInv, unPackHeader PROVE OrderInv'
<1>1. PICK command \in Decoded(mBuffer) :
         \/ getCommand(command.instruction) /\ header' = command /\ UNCHANGED <<thread, reading>>
         \/ ~getCommand(command.instruction) /\ header' = Null /\ Return
  BY DEF unPackHeader
<1>2. /\ header = Null /\ receive(HEADER_SIZE) /\ thread = "unpacking"
      /\ UNCHANGED <<wire, mReadBuffer, pushed, treated, peer>>
      /\ HEADER_SIZE \in 1..Len(mBuffer) /\ mBuffer # <<>> /\ HEADER_SIZE \in 0..Len(mBuffer)
      /\ mBuffer[1] \in Byte /\ mBuffer \in Seq(Byte)
  BY SizeAssumption DEF unPackHeader, Unpacking, OrderInv, OrderTypes
<1>3. OrderTypes'
  <2>1. header' \in Treatable \cup {Null}
    BY <1>1, <1>2 DEF Decoded, Command, getCommand, Treatable, Byte
  <2>2. mBuffer' \in Seq(Byte)
    BY <1>2, Cutting DEF receive
  <2>3. QED
    BY <1>2, <2>1, <2>2 DEF OrderInv, OrderTypes
<1>4. TakenOver'
  BY <1>1, <1>2 DEF Return, Rearmed, OrderInv, TakenOver
<1>5. Lost => Lost'
  BY <1>2 DEF Lost, Regular
<1>6. ASSUME InPlace, ~Lost PROVE InPlace'
  <2> DEFINE k == Len(treated) + 1
             H == HEADER_SIZE
             p == pushed
  <2>1. /\ H \in 0..Len(Left) /\ Left \in Seq(Byte)
        /\ IsRun(Left, p) /\ IsRun(Left', p) /\ (Left' = <<>> <=> H = Len(Left))
        /\ H < Len(Left) => Left'[1] = Left[H + 1]
        /\ H < Len(Left) /\ RunsOut(Left, p) => RunsOut(Left', p)
        /\ Left # <<>> /\ mBuffer[1] = Left[1]
    BY <1>2, <1>6, OrderCut DEF InPlace
  <2>2. /\ Left[1] = [from |-> k, pos |-> 1]
        /\ header' = Command(k, p[k]) /\ header' # Null /\ p[k] \in Known \ {ERR}
    BY <1>6, NextHeader
  <2>3. /\ p \in Seq(Sent) /\ H \in Nat /\ H >= 1 /\ H \in 1..Len(Left) /\ Len(treated) \in Nat
        /\ Len(p) \in Nat
    BY <1>2, <2>1, SizeAssumption DEF OrderInv, OrderTypes
  <2>4. /\ k \in 1..Len(p)
        /\ H < Len(Left) => Behind(Left[1], Left[H + 1], H, Whole(p, k))
        /\ Behind(Left[1], Left[H], H - 1, Whole(p, k))
    BY <2>1, <2>2, <2>3, PlaceBehind
  <2>5. Len(treated) < Len(p)
    BY <2>3, <2>4
  <2>6. header'.instruction = p[k]
    BY <2>2 DEF Command
  <2>7. Whole(p, k) = H + BodySize[p[k]] /\ BodySize[p[k]] \in Nat
    BY <2>3, <2>4, WholeFits DEF Whole
  <2>8. Place' = IF BodySize[p[k]] = 0 THEN [from |-> k + 1, pos |-> 1]
                 ELSE [from |-> k, pos |-> H + 1]
    <3>1. k + 1 = Len(treated) + 2
      BY <2>3
    <3>2. QED
      BY <1>2, <2>2, <2>6, <3>1 DEF Place
  <2> HIDE DEF k, H, p
  <2>9. Left' # <<>> => Left'[1] = Place'
    <3>1. Left' # <<>> => H < Len(Left)
      BY <2>1, <2>3
    <3>2. H < Len(Left) => Left[H + 1] = IF BodySize[p[k]] = 0 THEN [from |-> k + 1, pos |-> 1]
                                         ELSE [from |-> k, pos |-> H + 1]
      BY <2>2, <2>3, <2>4, <2>7 DEF Behind
    <3>3. QED
      BY <2>1, <2>8, <3>1, <3>2
  <2>10. ASSUME peer # "reset", Left' = <<>> PROVE Place' = [from |-> Len(p) + 1, pos |-> 1]
    <3>1. Left[H] = [from |-> Len(p), pos |-> Whole(p, Len(p))]
      BY <1>6, <2>1, <2>10 DEF InPlace, RunsOut, p
    <3>2. Left[H] = [from |-> k, pos |-> H]
      BY <2>2, <2>3, <2>4, <2>7 DEF Behind
    <3>3. k = Len(p) /\ Whole(p, k) = H
      BY <3>1, <3>2
    <3>4. BodySize[p[k]] = 0
      BY <2>3, <2>7, <3>3
    <3>5. QED
      BY <2>8, <3>3, <3>4
  <2>11. ASSUME peer # "reset", Left' # <<>> PROVE RunsOut(Left', p)
    BY <1>6, <2>1, <2>3, <2>11 DEF InPlace, p
  <2>12. QED
    BY <1>2, <1>6, <2>1, <2>2, <2>5, <2>6, <2>9, <2>10, <2>11 DEF InPlace, p, k
<1>7. QED
  BY <1>3, <1>4, <1>5, <1>6 DEF OrderInv

\* A body that is taken: the command of the header is treated, which is the
\* next one, and reading goes on at the first byte of the one behind it.
LEMMA OrderBody == ASSUME OrderInv, unPackBody PROVE OrderInv'
<1>1. /\ header # Null /\ header \in Treatable /\ header' = Null /\ thread = "unpacking"
      /\ UNCHANGED <<wire, mReadBuffer, pushed, peer>>
      /\ pushed \in Seq(Sent) /\ treated \in Seq(Treatable) /\ mBuffer \in Seq(Byte)
      /\ Len(mBuffer) >= SizeBody(header.instruction)
  BY DEF unPackBody, Unpacking, BodyArrived, OrderInv, OrderTypes
<1>2. ASSUME header.instruction = ERR PROVE Return /\ UNCHANGED <<mBuffer, treated>>
  BY <1>2 DEF unPackBody
<1>3. ASSUME header.instruction # ERR
      PROVE  /\ receive(BodySize[header.instruction]) /\ treated' = Append(treated, header)
             /\ UNCHANGED <<thread, reading>>
             /\ BodySize[header.instruction] \in 0..Len(mBuffer)
  BY <1>1, <1>3, SizeAssumption DEF unPackBody, Unpacked, SizeBody, Treatable
<1>4. OrderTypes'
  <2>1. treated' \in Seq(Treatable) /\ mBuffer' \in Seq(Byte)
    <3>1. CASE header.instruction = ERR
      BY <1>1, <1>2, <3>1
    <3>2. CASE header.instruction # ERR
      <4>1. treated' = Append(treated, header)
        BY <1>3, <3>2
      <4>2. mBuffer' = SubSeq(mBuffer, BodySize[header.instruction] + 1, Len(mBuffer))
        BY <1>3, <3>2 DEF receive
      <4>3. BodySize[header.instruction] \in 0..Len(mBuffer)
        BY <1>3, <3>2
      <4>4. treated' \in Seq(Treatable)
        BY <1>1, <4>1
      <4>5. mBuffer' \in Seq(Byte)
        BY <1>1, <4>2, <4>3, Cutting
      <4>6. QED
        BY <4>4, <4>5
    <3>3. QED
      BY <3>1, <3>2
  <2>2. QED
    BY <1>1, <2>1 DEF OrderInv, OrderTypes
<1>5. TakenOver'
  BY <1>1, <1>2, <1>3 DEF Return, Rearmed, OrderInv, TakenOver
<1>6. Lost => Lost'
  <2>1. Regular \in Nat /\ Regular' = Regular
    BY <1>1, RegularIs DEF Regular, OrderInv, AreRegular
  <2>2. Len(treated') >= Len(treated) /\ Len(treated) \in Nat /\ Len(treated') \in Nat
    BY <1>1, <1>2, <1>3
  <2>3. QED
    BY <1>1, <2>1, <2>2 DEF Lost
<1>7. ASSUME InPlace, ~Lost PROVE InPlace'
  <2> DEFINE k == Len(treated) + 1
             p == pushed
             b == BodySize[p[k]]
  <2>1. /\ header.instruction = p[k] /\ k \in 1..Len(p) /\ Len(treated) < Len(p)
        /\ Len(treated) \in Nat /\ Len(p) \in Nat /\ p[k] # ERR
    <3>1. Len(treated) < Len(pushed) /\ header.instruction = pushed[Len(treated) + 1]
      BY <1>1, <1>7 DEF InPlace
    <3>2. QED
      BY <1>1, <1>7, <3>1, NextIsRegular DEF OrderInv
  <2>2. /\ receive(b) /\ treated' = Append(treated, header) /\ b \in 0..Len(mBuffer) /\ b \in Nat
    BY <1>3, <2>1
  <2>3. /\ b \in 0..Len(Left) /\ Left \in Seq(Byte)
        /\ IsRun(Left, p) /\ IsRun(Left', p) /\ (Left' = <<>> <=> b = Len(Left))
        /\ b < Len(Left) => Left'[1] = Left[b + 1]
        /\ b < Len(Left) /\ RunsOut(Left, p) => RunsOut(Left', p)
        /\ mBuffer # <<>> => Left # <<>>
    BY <1>1, <1>7, <2>2, OrderCut DEF InPlace
  <2>4. Len(Left) \in Nat /\ (Left = <<>> <=> Len(Left) = 0)
    BY <2>3, NothingLeft
  <2>5. Place = IF b = 0 THEN [from |-> k + 1, pos |-> 1]
                ELSE [from |-> k, pos |-> HEADER_SIZE + 1]
    <3>1. k + 1 = Len(treated) + 2
      BY <2>1
    <3>2. QED
      BY <1>1, <2>1, <3>1 DEF Place
  <2>6. /\ Len(treated') = k /\ Place' = [from |-> k + 1, pos |-> 1]
        /\ \A i \in 1..Len(treated') : treated'[i].instruction = p[i]
    <3>1. /\ Len(treated') = k /\ treated'[k] = header
          /\ \A i \in 1..Len(treated) : treated'[i] = treated[i]
      BY <1>1, <2>2
    <3>2. Place' = [from |-> k + 1, pos |-> 1]
      BY <1>1, <3>1 DEF Place
    <3>3. \A i \in 1..k : i \in 1..Len(treated) \/ i = k
      BY <2>1
    <3>4. \A i \in 1..Len(treated) : treated[i].instruction = p[i]
      BY <1>7 DEF InPlace
    <3>5. QED
      BY <2>1, <3>1, <3>2, <3>3, <3>4
  <2>7. Whole(p, k) = HEADER_SIZE + b /\ HEADER_SIZE \in Nat
    BY SizeAssumption DEF Whole
  <2> HIDE DEF k, p, b
  \* A body of no bytes leaves everything where it is.
  <2>8. CASE b = 0
    <3>1. (Left' = <<>> <=> Left = <<>>) /\ (Left # <<>> => Left'[1] = Left[1])
          /\ (Left # <<>> /\ RunsOut(Left, p) => RunsOut(Left', p))
      BY <2>3, <2>4, <2>8
    <3>2. Place' = Place
      BY <2>5, <2>6, <2>8
    <3>3. QED
      BY <1>1, <1>7, <2>1, <2>3, <2>6, <3>1, <3>2 DEF InPlace, p, k
  <2>9. CASE b # 0
    <3>1. Left # <<>> /\ b \in 1..Len(Left)
      BY <2>2, <2>3, <2>4, <2>9
    <3>2. Left[1] = [from |-> k, pos |-> HEADER_SIZE + 1]
      BY <1>7, <2>5, <2>9, <3>1 DEF InPlace
    <3>3. /\ b < Len(Left) => Behind(Left[1], Left[b + 1], b, Whole(p, k))
          /\ Behind(Left[1], Left[b], b - 1, Whole(p, k))
      BY <1>1, <2>3, <3>1, <3>2, PlaceBehind DEF p
    <3>4. b < Len(Left) => Left'[1] = Place'
      <4>1. b < Len(Left) => Left[b + 1] = [from |-> k + 1, pos |-> 1]
        BY <2>2, <2>7, <3>2, <3>3 DEF Behind
      <4>2. QED
        BY <2>3, <2>6, <4>1
    <3>5. ASSUME peer # "reset", Left' = <<>> PROVE Place' = [from |-> Len(p) + 1, pos |-> 1]
      <4>1. b = Len(Left) /\ Left[b] = [from |-> Len(p), pos |-> Whole(p, Len(p))]
        BY <1>7, <2>3, <3>1, <3>5 DEF InPlace, RunsOut, p
      <4>2. Left[b] = [from |-> k, pos |-> HEADER_SIZE + b]
        BY <2>2, <2>7, <2>9, <3>2, <3>3 DEF Behind
      <4>3. k = Len(p)
        BY <4>1, <4>2
      <4>4. QED
        BY <2>6, <4>3
    <3>6. Left' # <<>> => b < Len(Left)
      BY <2>3, <2>4
    <3>7. ASSUME peer # "reset", Left' # <<>> PROVE RunsOut(Left', p)
      BY <1>7, <2>3, <3>1, <3>6, <3>7 DEF InPlace, p
    <3>8. QED
      BY <1>1, <2>1, <2>3, <2>6, <3>4, <3>5, <3>6, <3>7 DEF InPlace, p, k
  <2>10. QED
    BY <2>8, <2>9
<1>8. QED
  BY <1>4, <1>5, <1>6, <1>7 DEF OrderInv

\* Every step keeps the order.
LEMMA OrderStep == OrderInv /\ [Next]_vars => OrderInv'
<1> SUFFICES ASSUME OrderInv, [Next]_vars PROVE OrderInv'
  OBVIOUS
<1>1. CASE UNCHANGED vars
  <2>1. UNCHANGED <<inbound, reading, thread, peer>>
    BY <1>1 DEF vars
  <2>2. QED
    BY <2>1, OrderUnchanged DEF OrderInv, TakenOver, inbound
<1>2. CASE Peer
  <2>1. CASE PeerClose
    BY <2>1, OrderUnchanged DEF PeerClose, OrderInv, TakenOver, inbound
  <2>2. QED
    BY <1>2, <2>1, OrderSend, OrderReset DEF Peer
<1>3. CASE KernelEndsReceive \/ KernelWrites \/ KernelEndsWrite
  BY <1>3, OrderUnchanged DEF KernelEndsReceive, KernelWrites, KernelEndsWrite, OrderInv,
     TakenOver, inbound
<1>4. CASE \E m \in Message : send(m)
  BY <1>4, OrderUnchanged DEF send, OrderInv, TakenOver, inbound
<1>5. CASE sendHandler
  BY <1>5, OrderUnchanged DEF sendHandler, OrderInv, TakenOver, inbound
\* Closing leaves no read that is pending but one that was.
<1>6. CASE recvFailed \/ sendFailed
  <2>1. UNCHANGED <<inbound, peer>> /\ thread' = thread /\ thread = "idle"
    BY <1>6 DEF recvFailed, sendFailed, InLoop
  <2>2. reading' = "pending" => reading = "pending"
    BY <1>6 DEF recvFailed, sendFailed, closeClient, Cancelled, AfterFailedRead
  <2>3. TakenOver'
    BY <2>1, <2>2 DEF OrderInv, TakenOver, inbound
  <2>4. QED
    BY <2>1, <2>3, OrderUnchanged
<1>7. CASE unPackNothing
  BY <1>7, OrderUnchanged DEF unPackNothing, Unpacking, Return, Rearmed, OrderInv, TakenOver, inbound
<1>8. QED
  BY <1>1, <1>2, <1>3, <1>4, <1>5, <1>6, <1>7, OrderReceives, OrderRecv, OrderHeader, OrderBody
     DEF Next, Kernel, Thread

\* So it is kept for ever.
LEMMA OrderAlways == Spec => []OrderInv
  BY OrderInit, OrderStep, PTL DEF Spec

\* The front of a front.
LEMMA FrontOfFront ==
    ASSUME NEW S, NEW s \in Seq(S), NEW m \in 0..Len(s), NEW n \in 0..m
    PROVE  SubSeq(SubSeq(s, 1, m), 1, n) = [i \in 1..n |-> s[i]]
<1> DEFINE t == SubSeq(s, 1, m)
<1>1. t \in Seq(S) /\ Len(t) = m /\ m \in Nat /\ n \in Nat /\ \A i \in 1..m : t[i] = s[i]
  OBVIOUS
<1> HIDE DEF t
<1>2. SubSeq(t, 1, n) = [i \in 1..n |-> t[i]]
  BY <1>1
<1>3. QED
  BY <1>1, <1>2 DEF t

\* The receiving side of a connection implements a channel: a peer's commands
\* are treated in order and once, wherever the network cuts the bytes, up to the
\* first command that the server does not know, and the first ERR.
THEOREM CommandsInOrderHolds == Spec => CommandsInOrder
<1> DEFINE put == SubSeq(pushed, 1, Regular)
           got == [i \in 1 .. (IF Len(treated) < Regular THEN Len(treated) ELSE Regular)
                     |-> treated[i].instruction]
<1>1. Init => Inbound!Init
  <2> SUFFICES ASSUME Init PROVE put = <<>> /\ got = <<>>
    BY DEF Inbound!Init
  <2>1. OrderInv /\ pushed = <<>> /\ treated = <<>>
    BY OrderInit DEF Init
  <2>2. Regular = 0
    BY <2>1, RegularIs DEF OrderInv, AreRegular
  <2>3. QED
    BY <2>1, <2>2
<1>2. OrderInv /\ OrderInv' /\ [Next]_vars => [Inbound!Next]_<<put, got>>
  <2> SUFFICES ASSUME OrderInv, OrderInv', [Next]_vars
               PROVE  Inbound!Next \/ UNCHANGED <<put, got>>
    OBVIOUS
  <2>1. /\ pushed \in Seq(Sent) /\ treated \in Seq(Treatable) /\ AreRegular(pushed, Regular)
        /\ Regular \in 0..Len(pushed) /\ Len(pushed) \in Nat /\ Len(treated) \in Nat /\ Regular \in Nat
    BY RegularIs DEF OrderInv, OrderTypes, AreRegular
  \* A command sent: it is put in when it is a regular one, with no other before it.
  <2>2. ASSUME NEW m \in Sent, PeerSend(m) PROVE Inbound!Next \/ UNCHANGED <<put, got>>
    <3>1. /\ pushed' = Append(pushed, m) /\ treated' = treated
          /\ Regular' = IF Regular = Len(pushed) /\ m \in Known \ {ERR} THEN Regular + 1 ELSE Regular
      BY <2>2, RegularLonger DEF PeerSend, OrderInv
    <3>2. CASE Regular' = Regular
      BY <2>1, <3>1, <3>2
    <3>3. CASE Regular' # Regular
      <4>1. Regular = Len(pushed) /\ Regular' = Regular + 1 /\ Len(treated) <= Len(pushed)
        BY <2>1, <3>1, <3>3 DEF OrderInv, Lost, InPlace
      <4>2. put = pushed /\ put' = Append(put, m)
        BY <2>1, <3>1, <4>1
      <4>3. got' = got
        BY <2>1, <3>1, <4>1
      <4>4. QED
        BY <2>2, <4>2, <4>3 DEF Inbound!Next, Inbound!Put
    <3>4. QED
      BY <3>2, <3>3
  \* A command treated is the next one that was put in.
  <2>3. ASSUME unPackBody PROVE Inbound!Next \/ UNCHANGED <<put, got>>
    <3>1. pushed' = pushed /\ put' = put /\ Regular' = Regular
      BY <2>3 DEF unPackBody, Regular
    <3>2. CASE treated' = treated
      BY <3>1, <3>2
    <3>3. CASE treated' # treated /\ Len(treated) >= Regular
      <4>1. /\ treated' = Append(treated, header) /\ header \in Treatable
        BY <2>3, <3>3 DEF unPackBody, OrderInv, OrderTypes
      <4>2. Len(treated') = Len(treated) + 1 /\ \A i \in 1..Len(treated) : treated'[i] = treated[i]
        BY <2>1, <4>1
      <4>3. got' = got
        BY <2>1, <3>1, <3>3, <4>2
      <4>4. QED
        BY <3>1, <4>3
    <3>4. CASE treated' # treated /\ Len(treated) < Regular
      <4>1. /\ treated' = Append(treated, header) /\ header # Null /\ header \in Treatable
        BY <2>3, <3>4 DEF unPackBody, OrderInv, OrderTypes
      <4>2. /\ Len(treated') = Len(treated) + 1 /\ treated'[Len(treated) + 1] = header
            /\ \A i \in 1..Len(treated) : treated'[i] = treated[i]
        BY <2>1, <4>1
      <4>3. /\ header.instruction = pushed[Len(treated) + 1]
            /\ \A i \in 1..Len(treated) : treated[i].instruction = pushed[i]
        BY <2>1, <3>4, <4>1 DEF OrderInv, Lost, InPlace
      <4> DEFINE n == Len(treated) + 1
      <4>4. /\ n \in 1..Regular /\ got' = [i \in 1..n |-> treated'[i].instruction]
            /\ got = [i \in 1..Len(treated) |-> treated[i].instruction]
        BY <2>1, <3>1, <3>4, <4>2
      <4>5. \A i \in 1..n : treated'[i].instruction = pushed[i]
        <5>1. \A i \in 1..n : i \in 1..Len(treated) \/ i = n
          BY <2>1
        <5>2. QED
          BY <4>2, <4>3, <5>1
      <4> HIDE DEF n
      <4>6. got' = [i \in 1..n |-> pushed[i]]
        BY <4>4, <4>5
      <4>7. n \in Nat /\ Len(put) = Regular /\ \A i \in 1..n : put[i] = pushed[i]
        BY <2>1, <4>4
      <4>8. got' = SubSeq(put, 1, n)
        <5>1. Regular \in 0..Len(pushed) /\ n \in 0..Regular
          BY <2>1, <4>4
        <5>2. SubSeq(put, 1, n) = [i \in 1..n |-> pushed[i]]
          BY ONLY <2>1, <5>1, FrontOfFront DEF put
        <5>3. QED
          BY <4>6, <5>2
      <4>9. Len(got) = Len(treated)
        BY <2>1, <4>4
      <4>10. n \in (Len(got) + 1) .. Len(put)
        BY <2>1, <4>4, <4>7, <4>9 DEF n
      <4>11. QED
        BY <3>1, <4>8, <4>10 DEF Inbound!Next, Inbound!Get
    <3>5. Len(treated) >= Regular \/ Len(treated) < Regular
      BY <2>1
    <3> HIDE DEF put, got
    <3>6. QED
      BY <3>2, <3>3, <3>4, <3>5
  <2>4. ASSUME UNCHANGED <<pushed, treated>> PROVE UNCHANGED <<put, got>>
    BY <2>4 DEF Regular
  <2>5. CASE ~unPackBody /\ ~(\E m \in Sent : PeerSend(m))
    <3>1. UNCHANGED <<pushed, treated>>
      BY <2>5 DEF Next, vars, inbound, Peer, PeerClose, PeerReset, Kernel, Receives,
         KernelReceives, KernelEndsReceive, KernelWrites, KernelEndsWrite, Thread, recvHandler,
         recvFailed, sendHandler, sendFailed, unPackHeader, unPackNothing, send
    <3>2. QED
      BY <2>4, <3>1
  <2>6. QED
    BY <2>2, <2>3, <2>5
<1>3. QED BY <1>1, <1>2, OrderAlways, PTL DEF Spec, CommandsInOrder, Inbound!Spec

-----------------------------------------------------------------------------
(* What the progress of a connection rests on *)

\* The server returns to its loop only with less than a whole header, or a whole
\* body, in its buffer.
WaitsForMore ==
    thread = "idle" =>
        \/ Lost
        \/ IF header = Null THEN Len(mBuffer) < HEADER_SIZE ELSE ~BodyArrived

\* Once everything the peer has sent has come in, and the thread is in its loop,
\* every regular command was treated.
AllTreatedWhenIdle ==
    (thread = "idle" /\ peer # "reset" /\ mReadBuffer = <<>> /\ wire = <<>>) =>
        Len(treated) >= Regular

\* While the Client lives a receive is under way, or its handler is.
ReceiveOutstanding == (process = "running" /\ listener) => reading # "idle"

\* Once lost, the server stays so.
LEMMA LostStays == OrderInv /\ OrderInv' /\ [Next]_vars /\ Lost => Lost'
<1> SUFFICES ASSUME OrderInv, OrderInv', [Next]_vars, Lost PROVE Lost'
  OBVIOUS
<1>1. /\ pushed \in Seq(Sent) /\ Len(treated) \in Nat /\ Len(pushed) \in Nat /\ Regular \in Nat
      /\ Regular < Len(pushed) /\ Len(treated) >= Regular /\ treated \in Seq(Treatable)
  BY RegularIs DEF OrderInv, OrderTypes, AreRegular, Lost
<1>2. CASE \E m \in Sent : PeerSend(m)
  <2>1. PICK m \in Sent : PeerSend(m)
    BY <1>2
  <2>2. pushed' = Append(pushed, m) /\ treated' = treated
    BY <2>1 DEF PeerSend
  <2>3. Regular' = Regular
    BY <1>1, <2>2, RegularLonger DEF OrderInv
  <2>4. QED
    BY <1>1, <2>2, <2>3 DEF Lost
<1>3. CASE unPackBody
  <2>1. pushed' = pushed /\ (treated' = treated \/ treated' = Append(treated, header))
    BY <1>3 DEF unPackBody
  <2>2. Regular' = Regular /\ Len(treated') >= Len(treated) /\ Len(treated') \in Nat
    BY <1>1, <2>1 DEF Regular
  <2>3. QED
    BY <1>1, <2>1, <2>2 DEF Lost
<1>4. CASE ~unPackBody /\ ~(\E m \in Sent : PeerSend(m))
  <2>1. UNCHANGED <<pushed, treated>>
    BY <1>4 DEF Next, vars, inbound, Peer, PeerClose, PeerReset, Kernel, Receives,
       KernelReceives, KernelEndsReceive, KernelWrites, KernelEndsWrite, Thread, recvHandler,
       recvFailed, sendHandler, sendFailed, unPackHeader, unPackNothing, send
  <2>2. QED
    BY <2>1 DEF Lost, Regular
<1>5. QED
  BY <1>2, <1>3, <1>4

\* The loop is left when no whole command is in the buffer, or at one that is not
\* regular.
LEMMA WaitsStep == OrderInv /\ OrderInv' /\ WaitsForMore /\ [Next]_vars => WaitsForMore'
<1> SUFFICES ASSUME OrderInv, OrderInv', WaitsForMore, [Next]_vars, ~Lost, thread' = "idle"
             PROVE  (IF header = Null THEN Len(mBuffer) < HEADER_SIZE ELSE ~BodyArrived)'
  BY LostStays DEF WaitsForMore
<1>1. InPlace
  BY DEF OrderInv
<1>2. CASE unPackHeader
  BY <1>1, <1>2, NextHeader DEF unPackHeader, Unpacking
<1>3. CASE unPackBody
  <2>1. /\ header # Null /\ thread = "unpacking"
        /\ header.instruction # ERR => UNCHANGED thread
    BY <1>3 DEF unPackBody, Unpacking, Unpacked
  <2>2. Len(treated) < Len(pushed) /\ header.instruction = pushed[Len(treated) + 1]
    BY <1>1, <2>1 DEF InPlace
  <2>3. header.instruction # ERR
    BY <1>1, <2>2, NextIsRegular DEF OrderInv
  <2>4. QED
    BY <2>1, <2>3
<1>4. CASE unPackNothing
  BY <1>4 DEF unPackNothing, inbound, BodyArrived, SizeBody
<1>5. CASE recvHandler /\ listener
  BY <1>5 DEF recvHandler
<1>6. CASE UNCHANGED <<thread, mBuffer, header>>
  BY <1>6 DEF WaitsForMore, BodyArrived, SizeBody
<1>7. QED
  BY <1>2, <1>3, <1>4, <1>5, <1>6 DEF Next, vars, inbound, Peer, PeerSend, PeerClose, PeerReset,
     Kernel, Receives, KernelReceives, KernelEndsReceive, KernelWrites, KernelEndsWrite, Thread,
     recvHandler, recvFailed, sendHandler, sendFailed, send

\* In place, with all bytes in the buffer, a command that is not treated is whole.
LEMMA WholeIsTreated == OrderInv /\ WaitsForMore => AllTreatedWhenIdle
<1> SUFFICES ASSUME OrderInv, WaitsForMore, thread = "idle", peer # "reset",
                    mReadBuffer = <<>>, wire = <<>>, ~(Len(treated) >= Regular)
             PROVE  FALSE
  BY DEF AllTreatedWhenIdle
<1> DEFINE k == Len(treated) + 1
           p == pushed
           L == Len(mBuffer)
<1>1. /\ p \in Seq(Sent) /\ Len(treated) \in Nat /\ Len(p) \in Nat /\ Regular \in 0..Len(p)
      /\ mBuffer \in Seq(Byte)
  BY RegularIs DEF OrderInv, OrderTypes, AreRegular
<1>2. ~Lost /\ InPlace /\ Len(treated) < Len(p) /\ k \in 1..Len(p)
  BY <1>1 DEF OrderInv, Lost
<1>3. Left = mBuffer
  BY <1>1, ConcatEmptySeq DEF Left
<1>4. /\ IsRun(mBuffer, p) /\ (mBuffer # <<>> => mBuffer[1] = Place)
      /\ IF mBuffer = <<>> THEN Place = [from |-> Len(p) + 1, pos |-> 1] ELSE RunsOut(mBuffer, p)
  BY <1>2, <1>3 DEF InPlace
<1>5. p[k] \in Known \ {ERR}
  BY <1>2, NextIsRegular DEF OrderInv
<1>6. /\ Whole(p, k) = HEADER_SIZE + BodySize[p[k]] /\ BodySize[p[k]] \in Nat
      /\ HEADER_SIZE \in Nat /\ HEADER_SIZE >= 1
  BY <1>1, <1>2, WholeFits, SizeAssumption DEF Whole
<1>7. L \in Nat /\ (mBuffer = <<>> <=> L = 0)
  BY <1>1, NothingLeft
<1>8. CASE header = Null
  <2>1. L < HEADER_SIZE /\ Place = [from |-> k, pos |-> 1]
    BY <1>2, <1>8 DEF WaitsForMore, Place
  <2> HIDE DEF k, p, L
  <2>2. L # 0
    BY <1>1, <1>2, <1>4, <1>7, <2>1
  <2>3. mBuffer # <<>> /\ L \in 1..L /\ mBuffer[1] = [from |-> k, pos |-> 1]
    BY <1>4, <1>7, <2>1, <2>2
  <2>4. Behind(mBuffer[1], mBuffer[L], L - 1, Whole(p, k))
    BY <1>1, <1>4, <2>3, PlaceBehind DEF L
  <2>5. mBuffer[L] = [from |-> k, pos |-> L]
    BY <1>6, <1>7, <2>1, <2>2, <2>3, <2>4 DEF Behind
  <2>6. mBuffer[L] = [from |-> Len(p), pos |-> Whole(p, Len(p))]
    BY <1>4, <2>3 DEF RunsOut, L
  <2>7. L = Whole(p, k)
    BY <2>5, <2>6
  <2>8. QED
    BY <1>6, <1>7, <2>1, <2>7
<1>9. CASE header # Null
  <2> DEFINE b == BodySize[p[k]]
  <2>1. header.instruction = p[k]
    BY <1>2, <1>9 DEF InPlace
  <2>2. L < b
    BY <1>2, <1>5, <1>6, <1>7, <1>9, <2>1 DEF WaitsForMore, BodyArrived, SizeBody
  <2>3. Place = [from |-> k, pos |-> HEADER_SIZE + 1]
    BY <1>6, <1>7, <1>9, <2>1, <2>2 DEF Place
  <2> HIDE DEF k, p, L, b
  <2>4. L # 0
    BY <1>1, <1>2, <1>4, <1>6, <1>7, <2>3
  <2>5. mBuffer # <<>> /\ L \in 1..L /\ mBuffer[1] = [from |-> k, pos |-> HEADER_SIZE + 1]
    BY <1>4, <1>7, <2>3, <2>4
  <2>6. Behind(mBuffer[1], mBuffer[L], L - 1, Whole(p, k))
    BY <1>1, <1>4, <2>5, PlaceBehind DEF L
  <2>7. mBuffer[L] = [from |-> k, pos |-> HEADER_SIZE + L]
    BY <1>6, <1>7, <2>2, <2>4, <2>5, <2>6 DEF Behind, b
  <2>8. mBuffer[L] = [from |-> Len(p), pos |-> Whole(p, Len(p))]
    BY <1>4, <2>5 DEF RunsOut, L
  <2>9. HEADER_SIZE + L = Whole(p, k)
    BY <2>7, <2>8
  <2>10. QED
    BY <1>6, <1>7, <2>2, <2>9 DEF b
<1>10. QED
  BY <1>8, <1>9

\* No regular command is forgotten in the buffer, waiting for bytes that may
\* never come: the loop of onSocketReadable cuts off all there are.  What
\* EveryCommandIsTreated adds is that the bytes come in and the loop ends.
THEOREM AllTreated == Spec => []AllTreatedWhenIdle
<1>1. Init => WaitsForMore
  BY SizeAssumption DEF Init, WaitsForMore
<1>2. Spec => []WaitsForMore
  BY <1>1, WaitsStep, OrderAlways, PTL DEF Spec
<1>3. QED
  BY <1>2, OrderAlways, WholeIsTreated, PTL

\* Every handler of a receive starts the next one, or closes.
LEMMA OutstandingStep == ReceiveOutstanding /\ [Next]_vars => ReceiveOutstanding'
<1> SUFFICES ASSUME ReceiveOutstanding, [Next]_vars PROVE ReceiveOutstanding'
  OBVIOUS
<1>1. CASE UNCHANGED <<process, listener, reading>>
  BY <1>1 DEF ReceiveOutstanding
<1>2. CASE Receives \/ KernelEndsReceive
  BY <1>2 DEF Receives, KernelReceives, KernelEndsReceive, ReceiveOutstanding
<1>3. CASE recvFailed \/ sendFailed
  BY <1>3 DEF recvFailed, sendFailed, closeClient, ReceiveOutstanding
<1>4. CASE recvHandler \/ sendHandler
  BY <1>4 DEF recvHandler, sendHandler, ReceiveOutstanding
<1>5. CASE unPackHeader \/ unPackBody \/ unPackNothing
  BY <1>5 DEF unPackHeader, unPackBody, unPackNothing, Return, Rearmed, Unpacked, ReceiveOutstanding
<1>6. QED
  BY <1>1, <1>2, <1>3, <1>4, <1>5 DEF Next, vars, Peer, PeerSend, PeerClose, PeerReset, Kernel,
     KernelWrites, KernelEndsWrite, Thread, send

\* A receive is always outstanding while a Client lives, so that the loss of the
\* peer can be noticed (LossIsNoticed) and what it sends can come in.
THEOREM ReadingGoesOn == Spec => []ReceiveOutstanding
<1>1. Init => ReceiveOutstanding
  BY DEF Init, ReceiveOutstanding
<1>2. QED
  BY <1>1, OutstandingStep, PTL DEF Spec
=============================================================================
