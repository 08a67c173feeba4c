------------------------------ MODULE SoundPath ------------------------------
(***************************************************************************)
(* The sound of Babel's calls, from the microphone of one client to the    *)
(* loudspeaker of another (src/Babel/client/sources/Audio).                *)
(*                                                                         *)
(* Two threads run in a client: that of the sound devices, whose callbacks *)
(* record and play, and Qt's, which starts and stops calls, sends what was *)
(* recorded and takes in what arrives.  A recorded sound goes from one to  *)
(* the other as a posted event, a received one through mBuffers of the     *)
(* output.  Between clients are UDP datagrams, lost, doubled, delayed and  *)
(* overtaken at will.  Sounds are stamped with the second of their sender, *)
(* and hosts' clocks need not agree.                                       *)
(*                                                                         *)
(* Of a sound is kept its stamp and, until it is sent, whom it was         *)
(* recorded for; two sounds of one second are alike.  The codec and the    *)
(* devices are libraries.                                                  *)
(***************************************************************************)
EXTENDS Integers, Sequences, FiniteSetsExt

CONSTANTS
    Host,          \* the clients, by the address of their host
    Null,
    Partner,       \* whom each may be in a call with
    Devices,       \* which devices of each can be opened, as Outcome says
    MaxPosted,     \* bound: sounds each has recorded and not yet sent
    MaxBuffered,   \* bound: sounds each has received and not yet played
    MaxNet,        \* bound: datagrams of one other under way to each
    MaxClock,      \* bound: seconds counted
    MaxSkew        \* how many seconds the clocks of two hosts may differ

\* How starting the input and then the output can end.
Outcome == {"none", "input", "both"}

ASSUME SoundAssumption ==
    /\ Null \notin Host
    /\ Partner \in [Host -> SUBSET Host]
    /\ Devices \in [Host -> SUBSET Outcome]
    /\ {MaxPosted, MaxBuffered, MaxNet} \subseteq [Host -> Nat]
    /\ MaxClock \in Nat
    /\ MaxSkew \in Nat \ {0}

VARIABLES
    mInCommunication,  \* of CallManager
    recording,         \* mIsRunning of SoundInputDevice
    playing,           \* mIsRunning of SoundOutputDevice
    mAcceptedHost,     \* of SoundPacketBuilder, with mTimestamp
    mTimestamp,
    posted,            \* recorded sounds posted to Qt's thread: whom each is for, or
                       \* Null when a call with another has begun since
    mBuffers,          \* of SoundOutputDevice: received sounds, the oldest first
    heard,             \* the sound played last
    clock,             \* the seconds counted by each host
    net                \* datagrams that have been sent and may arrive

call == <<mInCommunication, recording, playing, mAcceptedHost>>
soundVars == <<call, mTimestamp, posted, mBuffers, heard, clock, net>>

Second == 0..MaxClock
Sound == [from : Host, timestamp : Second]
Nothing == [from |-> Null, timestamp |-> 0]
Datagram == [from : Host, to : Host, timestamp : Second]

SoundInit ==
    /\ mInCommunication = [h \in Host |-> FALSE]
    /\ recording = [h \in Host |-> FALSE]
    /\ playing = [h \in Host |-> FALSE]
    /\ mAcceptedHost = [h \in Host |-> Null]
    /\ mTimestamp = [h \in Host |-> 0]
    /\ posted = [h \in Host |-> <<>>]
    /\ mBuffers = [h \in Host |-> <<>>]
    /\ heard = [h \in Host |-> Nothing]
    /\ clock = [h \in Host |-> 0]
    /\ net = {}

-----------------------------------------------------------------------------
(* Devices and the accepted host *)

\* startStream: a stream that does not run is opened and started, or is not.
inputStartStream(h, opens) == recording' = [recording EXCEPT ![h] = @ \/ opens]
outputStartStream(h, opens) == playing' = [playing EXCEPT ![h] = @ \/ opens]

inputStopStream(h) == recording' = [recording EXCEPT ![h] = FALSE]
outputStopStream(h) == playing' = [playing EXCEPT ![h] = FALSE]

acceptPacketsFrom(h, host) == mAcceptedHost' = [mAcceptedHost EXCEPT ![h] = host]

-----------------------------------------------------------------------------
(* Calls *)

\* The server has announced a call with p.  Another may be going on: it is not
\* stopped when the server is lost, and a third user can take it over.  A device
\* that runs is left alone, and so are the sounds that are posted, which may be
\* some of another call: history keeps that they are not for p.
startCall(h, p) ==
    /\ \E devices \in Devices[h] :
          /\ recording[h] => devices # "none"
          /\ playing[h] => devices # "input"
          /\ inputStartStream(h, devices # "none")
          /\ outputStartStream(h, devices = "both")
    /\ mInCommunication' = [mInCommunication EXCEPT ![h] = TRUE]
    /\ acceptPacketsFrom(h, p)
    /\ posted' = [posted EXCEPT ![h] = [i \in DOMAIN @ |-> IF @[i] = p THEN p ELSE Null]]
    /\ UNCHANGED <<mTimestamp, mBuffers, heard, clock, net>>

\* Mutant of stopCall: packets are still accepted from the partner, and sent to it.
stopCallAccepting(h) ==
    /\ mInCommunication[h]
    /\ mInCommunication' = [mInCommunication EXCEPT ![h] = FALSE]
    /\ inputStopStream(h)
    /\ outputStopStream(h)
    /\ UNCHANGED <<mAcceptedHost, mTimestamp, posted, mBuffers, heard, clock, net>>

\* Neither what is posted nor what is buffered is thrown away.
stopCall(h) ==
    /\ mInCommunication[h]
    /\ mInCommunication' = [mInCommunication EXCEPT ![h] = FALSE]
    /\ inputStopStream(h)
    /\ outputStopStream(h)
    /\ acceptPacketsFrom(h, Null)
    /\ UNCHANGED <<mTimestamp, posted, mBuffers, heard, clock, net>>

\* The program ends, also by an exception of a sound device that cannot be closed
\* or of the codec, and is started again.
Restart(h) ==
    /\ mInCommunication' = [mInCommunication EXCEPT ![h] = FALSE]
    /\ inputStopStream(h)
    /\ outputStopStream(h)
    /\ acceptPacketsFrom(h, Null)
    /\ mTimestamp' = [mTimestamp EXCEPT ![h] = 0]
    /\ posted' = [posted EXCEPT ![h] = <<>>]
    /\ mBuffers' = [mBuffers EXCEPT ![h] = <<>>]
    /\ heard' = [heard EXCEPT ![h] = Nothing]
    /\ UNCHANGED <<clock, net>>

-----------------------------------------------------------------------------
(* From the microphone to the network *)

\* The sound that the input has buffered is taken out, encoded and posted.
onSoundAvailable(h) == posted' = [posted EXCEPT ![h] = Append(@, mAcceptedHost[h])]

\* The input's callback, in the thread of the device, buffers no second sound
\* before onSoundAvailable has taken out the first.
inputCallback(h) ==
    /\ recording[h]
    /\ Len(posted[h]) < MaxPosted[h]
    /\ onSoundAvailable(h)
    /\ UNCHANGED <<call, mTimestamp, mBuffers, heard, clock, net>>

\* Mutants of SoundPacket: the second is rounded up; the packet is sent as if it
\* came from its receiver.
SoundPacketRoundedUp(h) ==
    [from |-> h, to |-> mAcceptedHost[h],
     timestamp |-> IF clock[h] < MaxClock THEN clock[h] + 1 ELSE clock[h]]
SoundPacketUnsent(h) ==
    [from |-> h, to |-> Null, timestamp |-> clock[h]]

SoundPacket(h) ==
    [from |-> h, to |-> mAcceptedHost[h], timestamp |-> clock[h]]

\* A datagram too many is lost, and so is one to no host.
send(h, d) ==
    LET p == mAcceptedHost[h]
        room == p # Null /\ Cardinality({e \in net : e.from = h /\ e.to = p}) < MaxNet[p]
    IN  net' = IF room THEN net \cup {d} ELSE net

\* The posted sound is stamped when it is sent, and sent to whoever is the
\* accepted host by then.
sendSound(h) ==
    /\ posted[h] # <<>>
    /\ posted' = [posted EXCEPT ![h] = Tail(@)]
    /\ send(h, SoundPacket(h))
    /\ UNCHANGED <<call, mTimestamp, mBuffers, heard, clock>>

-----------------------------------------------------------------------------
(* From the network to the loudspeaker *)

\* Mutants of Accepts: no look at the stamp; only a later second is good enough.
AcceptsAnyTime(h, d) == d.from = mAcceptedHost[h]
AcceptsLater(h, d) == d.from = mAcceptedHost[h] /\ d.timestamp > mTimestamp[h]

Accepts(h, d) == d.from = mAcceptedHost[h] /\ d.timestamp >= mTimestamp[h]

\* d arrives; it may arrive again.
receive(h, d) ==
    /\ d \in net
    /\ d.to = h
    /\ net' \in {net, net \ {d}}

\* A sound is decoded and put into the output's buffers whether or not that runs.
playSound(h, sound) == mBuffers' = [mBuffers EXCEPT ![h] = Append(@, sound)]

onSocketReadable(h, d) ==
    /\ receive(h, d)
    /\ \/ /\ Accepts(h, d)
          /\ Len(mBuffers[h]) < MaxBuffered[h]
          /\ mTimestamp' = [mTimestamp EXCEPT ![h] = d.timestamp]
          /\ playSound(h, [from |-> d.from, timestamp |-> d.timestamp])
       \/ /\ ~Accepts(h, d)
          /\ UNCHANGED <<mTimestamp, mBuffers>>
    /\ UNCHANGED <<call, posted, heard, clock>>

\* The output's callback, in the thread of the device.
outputCallback(h) ==
    /\ playing[h]
    /\ mBuffers[h] # <<>>
    /\ heard' = [heard EXCEPT ![h] = Head(mBuffers[h])]
    /\ mBuffers' = [mBuffers EXCEPT ![h] = Tail(@)]
    /\ UNCHANGED <<call, mTimestamp, posted, clock, net>>

-----------------------------------------------------------------------------
(* Network and time *)

Lose(d) ==
    /\ d \in net
    /\ net' = net \ {d}
    /\ UNCHANGED <<call, mTimestamp, posted, mBuffers, heard, clock>>

\* A second passes on h.
Tick(h) ==
    /\ clock[h] < MaxClock
    /\ \A p \in Host : clock[h] < clock[p] + MaxSkew
    /\ clock' = [clock EXCEPT ![h] = @ + 1]
    /\ UNCHANGED <<call, mTimestamp, posted, mBuffers, heard, net>>

SoundNext ==
    \/ \E h \in Host :
          \/ \E p \in Partner[h] : startCall(h, p)
          \/ stopCall(h) \/ Restart(h)
          \/ inputCallback(h) \/ sendSound(h) \/ outputCallback(h) \/ Tick(h)
          \/ \E d \in net : onSocketReadable(h, d)
    \/ \E d \in net : Lose(d)

SoundSpec == SoundInit /\ [][SoundNext]_soundVars
=============================================================================
