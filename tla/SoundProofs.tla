------------------------------ MODULE SoundProofs ------------------------------
(***************************************************************************)
(* Proofs about the sound of calls, for any hosts, calls, bounds and       *)
(* difference of clocks.                                                   *)
(***************************************************************************)
EXTENDS SoundProperties, TLAPS

\* Sound is recorded in calls only, and what is posted while a call goes on was
\* recorded for its partner, unless it was there when the call began.
Recorded(h) ==
    /\ mInCommunication[h] <=> mAcceptedHost[h] # Null
    /\ recording[h] => mInCommunication[h]
    /\ mAcceptedHost[h] # Null => \A i \in 1..Len(posted[h]) : posted[h][i] \in {mAcceptedHost[h], Null}
RecordedForPartner == \A h \in Host : Recorded(h)

\* Clocks stay together, and no stamp is ahead of the clock of its sender.
StampedInThePast ==
    /\ \A h, p \in Host : clock[h] <= clock[p] + MaxSkew
    /\ \A d \in net : d.timestamp <= clock[d.from]

\* What is buffered is in order, not before what was heard last and not after
\* what was accepted last.
InOrder(h) ==
    /\ heard[h].timestamp <= mTimestamp[h]
    /\ \A i \in 1..Len(mBuffers[h]) :
          /\ heard[h].timestamp <= mBuffers[h][i].timestamp
          /\ mBuffers[h][i].timestamp <= mTimestamp[h]
    /\ \A i, j \in 1..Len(mBuffers[h]) :
          i < j => mBuffers[h][i].timestamp <= mBuffers[h][j].timestamp
BufferedInOrder == \A h \in Host : InOrder(h)

SoundInv ==
    SoundTypeOK /\ RecordedForPartner /\ StampedInThePast /\ SilenceIsBounded /\ BufferedInOrder

-----------------------------------------------------------------------------
(* Sequences *)

\* The end of a buffer: what Append does.
LEMMA AppendFacts ==
    ASSUME NEW S, NEW s \in Seq(S), NEW e \in S
    PROVE  /\ Append(s, e) \in Seq(S)
           /\ Len(Append(s, e)) = Len(s) + 1
           /\ \A i \in 1..Len(s) : Append(s, e)[i] = s[i]
           /\ Append(s, e)[Len(s) + 1] = e
           /\ Len(s) \in Nat
  OBVIOUS

\* The beginning of a buffer: what Head and Tail do.
LEMMA TailFacts ==
    ASSUME NEW S, NEW s \in Seq(S), s # <<>>
    PROVE  /\ Tail(s) \in Seq(S)
           /\ Len(s) \in Nat /\ Len(s) >= 1
           /\ Len(Tail(s)) = Len(s) - 1
           /\ \A i \in 1..(Len(s) - 1) : Tail(s)[i] = s[i + 1]
           /\ Head(s) = s[1] /\ Head(s) \in S
  OBVIOUS

\* What a call that begins makes of the history of what is posted.
LEMMA MarkedFacts ==
    ASSUME NEW S, NEW q \in Seq(S), NEW T, NEW e \in T, NEW n \in T
    PROVE  LET s == [i \in DOMAIN q |-> IF q[i] = e THEN e ELSE n]
           IN  s \in Seq(T) /\ \A i \in 1..Len(s) : s[i] \in {e, n}
  <1> DEFINE s == [i \in DOMAIN q |-> IF q[i] = e THEN e ELSE n]
  <1>1. Len(q) \in Nat /\ DOMAIN q = 1..Len(q)
    OBVIOUS
  <1>2. s = [i \in 1..Len(q) |-> IF q[i] = e THEN e ELSE n]
    BY <1>1
  <1>3. s \in Seq(T) /\ Len(s) = Len(q)
    BY <1>1, <1>2
  <1>4. \A i \in 1..Len(q) : s[i] \in {e, n}
    BY <1>2
  <1> QED
    BY <1>3, <1>4

-----------------------------------------------------------------------------
(* Types *)

\* Seconds are numbers.
LEMMA Seconds ==
    /\ MaxClock \in Nat /\ Second \subseteq Nat /\ 0 \in Second
    /\ MaxSkew \in Nat /\ MaxSkew >= 1
  <1>1. MaxClock \in Nat
    BY SoundAssumption
  <1>2. MaxSkew \in Nat /\ MaxSkew >= 1
    BY SoundAssumption
  <1> QED
    BY <1>1, <1>2 DEF Second

\* The parts of a datagram under way.
LEMMA DatagramParts ==
    ASSUME SoundTypeOK, NEW d \in net
    PROVE  d.from \in Host /\ d.timestamp \in Second /\ d.timestamp \in Nat
  <1>1. d \in Datagram
    BY DEF SoundTypeOK
  <1> QED
    BY <1>1, Seconds DEF Datagram

\* What one client has to do with time.
LEMMA TimesOf ==
    ASSUME SoundTypeOK, NEW k \in Host
    PROVE  /\ mTimestamp[k] \in Nat /\ clock[k] \in Nat /\ heard[k].timestamp \in Nat
           /\ mBuffers[k] \in Seq(Sound) /\ Len(mBuffers[k]) \in Nat
           /\ \A i \in 1..Len(mBuffers[k]) : mBuffers[k][i].timestamp \in Nat
  <1>1. mTimestamp[k] \in Nat /\ clock[k] \in Nat
    BY Seconds DEF SoundTypeOK
  <1>2. heard[k] \in Sound \cup {Nothing} /\ mBuffers[k] \in Seq(Sound)
    BY DEF SoundTypeOK
  <1>3. \A x \in Sound : x.timestamp \in Nat
    BY Seconds DEF Sound
  <1>4. heard[k].timestamp \in Nat
    BY <1>2, <1>3 DEF Nothing
  <1>5. \A i \in 1..Len(mBuffers[k]) : mBuffers[k][i] \in Sound
    BY <1>2
  <1> QED
    BY <1>1, <1>2, <1>3, <1>4, <1>5

-----------------------------------------------------------------------------
(* The invariant holds at first *)

LEMMA InitSoundInv == SoundInit => SoundInv
  <1> SUFFICES ASSUME SoundInit PROVE SoundInv
    OBVIOUS
  <1> USE SoundAssumption DEF SoundInit
  <1>1. SoundTypeOK
    BY DEF SoundTypeOK, Second, Sound, Nothing, Datagram
  <1>2. RecordedForPartner
    BY DEF RecordedForPartner, Recorded
  <1>3. StampedInThePast /\ SilenceIsBounded
    BY DEF StampedInThePast, SilenceIsBounded
  <1>4. BufferedInOrder
    BY DEF BufferedInOrder, InOrder, Nothing
  <1> QED
    BY <1>1, <1>2, <1>3, <1>4 DEF SoundInv

-----------------------------------------------------------------------------
(* Each part of it is kept by every step *)

LEMMA KeepsType == SoundInv /\ SoundNext => SoundTypeOK'
  <1> SUFFICES ASSUME SoundInv, SoundNext PROVE SoundTypeOK'
    OBVIOUS
  <1> USE SoundAssumption DEF SoundInv, SoundTypeOK, call, Second
  <1>1. ASSUME NEW h \in Host, NEW p \in Partner[h], startCall(h, p) PROVE SoundTypeOK'
    <2> DEFINE s == [i \in DOMAIN posted[h] |-> IF posted[h][i] = p THEN p ELSE Null]
    <2>1. p \in Host /\ posted[h] \in Seq(Host \cup {Null})
      OBVIOUS
    <2>2. s \in Seq(Host \cup {Null})
      <3> DEFINE T == Host \cup {Null}
                 q == posted[h]
      <3>1. q \in Seq(T) /\ p \in T /\ Null \in T
        BY <2>1
      <3> HIDE DEF T, q
      <3>2. [i \in DOMAIN q |-> IF q[i] = p THEN p ELSE Null] \in Seq(T)
        BY <3>1, MarkedFacts
      <3> QED
        BY <3>2 DEF T, q
    <2>3. posted' = [posted EXCEPT ![h] = s]
      BY <1>1 DEF startCall
    <2> HIDE DEF s
    <2>4. posted' \in [Host -> Seq(Host \cup {Null})]
      BY <2>2, <2>3
    <2> QED
      BY <1>1, <2>1, <2>4 DEF startCall, inputStartStream, outputStartStream, acceptPacketsFrom
  <1>2. ASSUME NEW h \in Host, stopCall(h) PROVE SoundTypeOK'
    BY <1>2 DEF stopCall, inputStopStream, outputStopStream, acceptPacketsFrom
  <1>3. ASSUME NEW h \in Host, Restart(h) PROVE SoundTypeOK'
    BY <1>3 DEF Restart, inputStopStream, outputStopStream, acceptPacketsFrom
  <1>4. ASSUME NEW h \in Host, inputCallback(h) PROVE SoundTypeOK'
    <2>1. Append(posted[h], mAcceptedHost[h]) \in Seq(Host \cup {Null})
      BY AppendFacts
    <2> QED
      BY <1>4, <2>1 DEF inputCallback, onSoundAvailable
  <1>5. ASSUME NEW h \in Host, sendSound(h) PROVE SoundTypeOK'
    <2>1. Tail(posted[h]) \in Seq(Host \cup {Null})
      BY <1>5, TailFacts DEF sendSound, send
    <2>2. mAcceptedHost[h] # Null => SoundPacket(h) \in Datagram
      BY DEF SoundPacket, Datagram
    <2> QED
      BY <1>5, <2>1, <2>2 DEF sendSound, send
  <1>6. ASSUME NEW h \in Host, outputCallback(h) PROVE SoundTypeOK'
    <2>1. Tail(mBuffers[h]) \in Seq(Sound) /\ Head(mBuffers[h]) \in Sound
      BY <1>6, TailFacts DEF outputCallback
    <2> QED
      BY <1>6, <2>1 DEF outputCallback
  <1>7. ASSUME NEW h \in Host, Tick(h) PROVE SoundTypeOK'
    BY <1>7 DEF Tick
  <1>8. ASSUME NEW h \in Host, NEW d \in net, onSocketReadable(h, d) PROVE SoundTypeOK'
    <2> DEFINE e == [from |-> d.from, timestamp |-> d.timestamp]
               b == Append(mBuffers[h], e)
    <2>1. e \in Sound /\ d.timestamp \in 0..MaxClock
      BY DatagramParts DEF Sound
    <2>2. b \in Seq(Sound)
      BY <2>1, AppendFacts
    <2>3. \/ /\ mTimestamp' = [mTimestamp EXCEPT ![h] = d.timestamp]
             /\ mBuffers' = [mBuffers EXCEPT ![h] = b]
          \/ UNCHANGED <<mTimestamp, mBuffers>>
      BY <1>8 DEF onSocketReadable, receive, playSound
    <2> HIDE DEF b, e
    <2>4. mTimestamp' \in [Host -> 0..MaxClock] /\ mBuffers' \in [Host -> Seq(Sound)]
      <3>1. CASE UNCHANGED <<mTimestamp, mBuffers>>
        BY <3>1
      <3>2. CASE /\ mTimestamp' = [mTimestamp EXCEPT ![h] = d.timestamp]
                 /\ mBuffers' = [mBuffers EXCEPT ![h] = b]
        <4>1. mTimestamp' \in [Host -> 0..MaxClock]
          BY <2>1, <3>2
        <4>2. mBuffers' \in [Host -> Seq(Sound)]
          BY <2>2, <3>2
        <4> QED
          BY <4>1, <4>2
      <3> QED
        BY <2>3, <3>1, <3>2
    <2>5. net' \subseteq net
      BY <1>8 DEF onSocketReadable, receive, playSound
    <2> QED
      BY <1>8, <2>4, <2>5 DEF onSocketReadable, receive, playSound
  <1>9. ASSUME NEW d \in net, Lose(d) PROVE SoundTypeOK'
    BY <1>9 DEF Lose
  <1> QED
    BY <1>1, <1>2, <1>3, <1>4, <1>5, <1>6, <1>7, <1>8, <1>9 DEF SoundNext

\* What RecordedForPartner says of one client depends on four variables only.
LEMMA KeepsRecorded == SoundInv /\ SoundNext => RecordedForPartner'
  <1> SUFFICES ASSUME SoundInv, SoundNext, NEW k \in Host PROVE Recorded(k)'
    BY DEF RecordedForPartner
  <1> USE SoundAssumption DEF SoundInv, SoundTypeOK, Recorded, call
  <1>0. Recorded(k)
    BY DEF RecordedForPartner
  <1>1. ASSUME NEW h \in Host, NEW p \in Partner[h], startCall(h, p) PROVE Recorded(k)'
    <2>1. p \in Host /\ p # Null
      OBVIOUS
    <2>2. CASE k = h
      <3> DEFINE s == [i \in DOMAIN posted[k] |-> IF posted[k][i] = p THEN p ELSE Null]
      <3>1. posted'[k] = s /\ mAcceptedHost'[k] = p /\ mInCommunication'[k]
        BY <1>1, <2>2 DEF startCall, inputStartStream, outputStartStream, acceptPacketsFrom
      <3>2. \A i \in 1..Len(s) : s[i] \in {p, Null}
        BY <2>1, MarkedFacts
      <3> HIDE DEF s
      <3> QED
        BY <2>1, <3>1, <3>2
    <2>3. CASE k # h
      <3>1. /\ posted'[k] = posted[k] /\ mAcceptedHost'[k] = mAcceptedHost[k]
            /\ mInCommunication'[k] = mInCommunication[k] /\ recording'[k] = recording[k]
        BY <1>1, <2>3 DEF startCall, inputStartStream, outputStartStream, acceptPacketsFrom
      <3> QED
        BY <1>0, <3>1
    <2> QED
      BY <2>2, <2>3
  <1>2. ASSUME NEW h \in Host, stopCall(h) PROVE Recorded(k)'
    BY <1>0, <1>2 DEF stopCall, inputStopStream, outputStopStream, acceptPacketsFrom
  <1>3. ASSUME NEW h \in Host, Restart(h) PROVE Recorded(k)'
    BY <1>0, <1>3 DEF Restart, inputStopStream, outputStopStream, acceptPacketsFrom
  <1>4. ASSUME NEW h \in Host, inputCallback(h) PROVE Recorded(k)'
    <2>1. CASE k = h
      <3> DEFINE s == Append(posted[k], mAcceptedHost[k])
      <3>1. /\ Len(posted[k]) \in Nat
            /\ Len(s) = Len(posted[k]) + 1
            /\ \A i \in 1..Len(posted[k]) : s[i] = posted[k][i]
            /\ s[Len(posted[k]) + 1] = mAcceptedHost[k]
        BY AppendFacts
      <3>2. mAcceptedHost[k] # Null => \A i \in 1..Len(s) : s[i] \in {mAcceptedHost[k], Null}
        <4> SUFFICES ASSUME mAcceptedHost[k] # Null, NEW i \in 1..Len(s)
                     PROVE  s[i] \in {mAcceptedHost[k], Null}
          OBVIOUS
        <4>1. CASE i \in 1..Len(posted[k])
          BY <1>0, <3>1, <4>1
        <4>2. CASE i = Len(posted[k]) + 1
          BY <3>1, <4>2
        <4> QED
          BY <3>1, <4>1, <4>2
      <3>3. posted'[k] = s
        BY <1>4, <2>1 DEF inputCallback, onSoundAvailable
      <3> HIDE DEF s
      <3> QED
        BY <1>0, <1>4, <3>2, <3>3 DEF inputCallback, onSoundAvailable
    <2>2. CASE k # h
      BY <1>0, <1>4, <2>2 DEF inputCallback, onSoundAvailable
    <2> QED
      BY <2>1, <2>2
  <1>5. ASSUME NEW h \in Host, sendSound(h) PROVE Recorded(k)'
    <2>1. CASE k = h
      <3> DEFINE t == Tail(posted[k])
      <3>1. \A i \in 1..Len(t) : i + 1 \in 1..Len(posted[k]) /\ t[i] = posted[k][i + 1]
        BY <1>5, <2>1, TailFacts DEF sendSound, send
      <3>2. posted'[k] = t
        BY <1>5, <2>1 DEF sendSound, send
      <3> HIDE DEF t
      <3> QED
        BY <1>0, <1>5, <3>1, <3>2 DEF sendSound, send
    <2>2. CASE k # h
      BY <1>0, <1>5, <2>2 DEF sendSound, send
    <2> QED
      BY <2>1, <2>2
  <1>6. ASSUME UNCHANGED <<call, posted>> PROVE Recorded(k)'
    BY <1>0, <1>6
  <1> QED
    BY <1>1, <1>2, <1>3, <1>4, <1>5, <1>6
    DEF SoundNext, outputCallback, Tick, onSocketReadable, receive, playSound, Lose

\* Only sending adds a datagram, and it is stamped with the present second; only
\* Tick moves a clock, and none that is MaxSkew ahead of another.
LEMMA KeepsStamps == SoundInv /\ SoundNext => StampedInThePast'
  <1>0. SUFFICES ASSUME SoundInv, SoundNext PROVE StampedInThePast'
    OBVIOUS
  <1> USE SoundAssumption, <1>0 DEF SoundInv, SoundTypeOK, StampedInThePast, Second
  <1>1. ASSUME NEW h \in Host, sendSound(h) PROVE StampedInThePast'
    <2>1. net' \subseteq net \cup {SoundPacket(h)} /\ clock' = clock
      BY <1>1 DEF sendSound, send
    <2>2. SoundPacket(h).from = h /\ SoundPacket(h).timestamp = clock[h]
      BY DEF SoundPacket
    <2> QED
      BY <2>1, <2>2
  <1>2. ASSUME NEW h \in Host, Tick(h) PROVE StampedInThePast'
    <2>1. /\ clock' = [clock EXCEPT ![h] = @ + 1]
          /\ net' = net
          /\ \A p \in Host : clock[h] < clock[p] + MaxSkew
      BY <1>2 DEF Tick
    <2>2. \A p, q \in Host : clock'[p] <= clock'[q] + MaxSkew
      <3>1. \A p \in Host : clock'[p] = (IF p = h THEN clock[h] + 1 ELSE clock[p])
        BY <2>1
      <3>2. \A p \in Host : clock[p] \in Nat
        BY TimesOf
      <3> SUFFICES ASSUME NEW p \in Host, NEW q \in Host PROVE clock'[p] <= clock'[q] + MaxSkew
        OBVIOUS
      <3>3. /\ clock[p] \in Nat /\ clock[q] \in Nat /\ MaxSkew \in Nat /\ MaxSkew >= 1
            /\ clock[p] <= clock[q] + MaxSkew
            /\ p = h => clock[p] < clock[q] + MaxSkew
        BY <2>1, <3>2, Seconds
      <3>4. clock'[p] = (IF p = h THEN clock[p] + 1 ELSE clock[p])
        BY <3>1
      <3>5. clock'[q] = clock[q] \/ clock'[q] = clock[q] + 1
        BY <3>1
      <3> HIDE <1>0 DEF StampedInThePast, SoundTypeOK, SoundInv, Second
      <3>6. CASE p = h /\ p = q
        BY <3>3, <3>4, <3>6
      <3>7. CASE p = h /\ p # q
        BY <3>1, <3>3, <3>7
      <3>8. CASE p # h
        BY <3>3, <3>4, <3>5, <3>8
      <3> QED
        BY <3>6, <3>7, <3>8
    <2>3. \A d \in net : d.from \in Host /\ d.timestamp \in Nat /\ d.timestamp <= clock[d.from]
      BY DatagramParts
    <2>4. \A d \in net' : d.timestamp <= clock'[d.from]
      BY <2>1, <2>3
    <2> QED
      BY <2>2, <2>4
  <1>3. ASSUME net' \subseteq net, UNCHANGED clock PROVE StampedInThePast'
    BY <1>3
  <1> QED
    BY <1>1, <1>2, <1>3
    DEF SoundNext, startCall, inputStartStream, outputStartStream, acceptPacketsFrom,
        stopCall, inputStopStream, outputStopStream, Restart, inputCallback,
        onSoundAvailable, outputCallback, onSocketReadable, receive, playSound, Lose

\* A stamp that is accepted is no later than the clock of its sender, which is
\* near every other.
LEMMA KeepsSilence == SoundInv /\ SoundNext => SilenceIsBounded'
  <1> SUFFICES ASSUME SoundInv, SoundNext, NEW p \in Host, NEW q \in Host
               PROVE  mTimestamp'[p] <= clock'[q] + MaxSkew
    BY DEF SilenceIsBounded
  <1>0. /\ mTimestamp[p] \in Nat /\ clock[q] \in Nat /\ MaxSkew \in Nat
        /\ mTimestamp[p] <= clock[q] + MaxSkew
        /\ mTimestamp \in [Host -> Second] /\ clock \in [Host -> Second]
    BY TimesOf, Seconds DEF SoundInv, SilenceIsBounded, SoundTypeOK
  <1>1. ASSUME NEW h \in Host, Restart(h) PROVE mTimestamp'[p] <= clock'[q] + MaxSkew
    <2>1. clock'[q] = clock[q] /\ (mTimestamp'[p] = 0 \/ mTimestamp'[p] = mTimestamp[p])
      BY <1>0, <1>1 DEF Restart, inputStopStream, outputStopStream, acceptPacketsFrom
    <2> QED
      BY <1>0, <2>1
  <1>2. ASSUME NEW h \in Host, Tick(h) PROVE mTimestamp'[p] <= clock'[q] + MaxSkew
    <2>1. /\ mTimestamp'[p] = mTimestamp[p]
          /\ clock'[q] = clock[q] \/ clock'[q] = clock[q] + 1
      BY <1>0, <1>2 DEF Tick
    <2> QED
      BY <1>0, <2>1
  <1>3. ASSUME NEW h \in Host, NEW d \in net, onSocketReadable(h, d)
        PROVE  mTimestamp'[p] <= clock'[q] + MaxSkew
    <2>1. /\ mTimestamp'[p] = mTimestamp[p] \/ mTimestamp'[p] = d.timestamp
          /\ clock'[q] = clock[q]
      BY <1>0, <1>3 DEF onSocketReadable, receive, playSound
    <2>2. d.from \in Host /\ d.timestamp \in Nat /\ clock[d.from] \in Nat
      BY DatagramParts, TimesOf DEF SoundInv
    <2>3. d.timestamp <= clock[d.from] /\ clock[d.from] <= clock[q] + MaxSkew
      BY <2>2 DEF SoundInv, StampedInThePast
    <2> QED
      BY <1>0, <2>1, <2>2, <2>3
  <1>4. ASSUME UNCHANGED <<mTimestamp, clock>> PROVE mTimestamp'[p] <= clock'[q] + MaxSkew
    BY <1>0, <1>4
  <1> QED
    BY <1>1, <1>2, <1>3, <1>4
    DEF SoundNext, startCall, inputStartStream, outputStartStream, acceptPacketsFrom,
        stopCall, inputStopStream, outputStopStream, inputCallback, onSoundAvailable,
        sendSound, send, outputCallback, Lose

\* What is appended was accepted, so it is as late as all before it; what is
\* played is the first of what is buffered.
LEMMA KeepsOrder == SoundInv /\ SoundNext => BufferedInOrder'
  <1> SUFFICES ASSUME SoundInv, SoundNext, NEW k \in Host PROVE InOrder(k)'
    BY DEF BufferedInOrder
  <1> USE SoundAssumption DEF SoundInv, SoundTypeOK, InOrder
  <1>0. /\ InOrder(k)
        /\ mBuffers[k] \in Seq(Sound) /\ Len(mBuffers[k]) \in Nat
        /\ mTimestamp[k] \in Nat /\ heard[k].timestamp \in Nat
        /\ \A i \in 1..Len(mBuffers[k]) : mBuffers[k][i].timestamp \in Nat
    BY TimesOf DEF BufferedInOrder
  <1>1. ASSUME NEW h \in Host, Restart(h) PROVE InOrder(k)'
    <2>1. CASE k = h
      <3>1. mTimestamp'[k] = 0 /\ mBuffers'[k] = <<>> /\ heard'[k].timestamp = 0
        BY <1>1, <2>1 DEF Restart, inputStopStream, outputStopStream, acceptPacketsFrom,
                          Nothing
      <3> QED
        BY <3>1
    <2>2. CASE k # h
      BY <1>0, <1>1, <2>2 DEF Restart, inputStopStream, outputStopStream, acceptPacketsFrom
    <2> QED
      BY <2>1, <2>2
  <1>2. ASSUME NEW h \in Host, outputCallback(h) PROVE InOrder(k)'
    <2>1. CASE k = h
      <3> DEFINE t == Tail(mBuffers[k])
      <3>1. /\ Len(mBuffers[k]) >= 1 /\ Len(t) = Len(mBuffers[k]) - 1
            /\ \A i \in 1..Len(t) : t[i] = mBuffers[k][i + 1]
            /\ Head(mBuffers[k]) = mBuffers[k][1]
        BY <1>0, <1>2, <2>1, TailFacts DEF outputCallback
      <3>2. mBuffers'[k] = t /\ heard'[k] = Head(mBuffers[k]) /\ mTimestamp' = mTimestamp
        BY <1>2, <2>1 DEF outputCallback
      <3> HIDE DEF t
      <3>3. \A i \in 1..Len(t) : i + 1 \in 1..Len(mBuffers[k]) /\ 1 < i + 1
        BY <1>0, <3>1
      <3>4. 1 \in 1..Len(mBuffers[k])
        BY <1>0, <3>1
      <3>5. heard'[k].timestamp <= mTimestamp'[k]
        BY <1>0, <3>1, <3>2, <3>4
      <3>6. \A i \in 1..Len(t) :
               heard'[k].timestamp <= t[i].timestamp /\ t[i].timestamp <= mTimestamp'[k]
        <4> SUFFICES ASSUME NEW i \in 1..Len(t)
                     PROVE  heard'[k].timestamp <= t[i].timestamp /\ t[i].timestamp <= mTimestamp'[k]
          OBVIOUS
        <4>1. i + 1 \in 1..Len(mBuffers[k]) /\ 1 < i + 1 /\ t[i] = mBuffers[k][i + 1]
          BY <3>1, <3>3
        <4> QED
          BY <1>0, <3>1, <3>2, <3>4, <4>1
      <3>7. \A i, j \in 1..Len(t) : i < j => t[i].timestamp <= t[j].timestamp
        <4> SUFFICES ASSUME NEW i \in 1..Len(t), NEW j \in 1..Len(t), i < j
                     PROVE  t[i].timestamp <= t[j].timestamp
          OBVIOUS
        <4>1. i + 1 < j + 1
          BY <1>0, <3>1
        <4> QED
          BY <1>0, <3>1, <3>3, <4>1
      <3> QED
        BY <3>2, <3>5, <3>6, <3>7
    <2>2. CASE k # h
      BY <1>0, <1>2, <2>2 DEF outputCallback
    <2> QED
      BY <2>1, <2>2
  <1>3. ASSUME NEW h \in Host, NEW d \in net, onSocketReadable(h, d) PROVE InOrder(k)'
    <2>1. CASE k = h /\ Accepts(h, d)
      <3> DEFINE e == [from |-> d.from, timestamp |-> d.timestamp]
                 n == Len(mBuffers[k])
                 b == Append(mBuffers[k], e)
      <3>1. e \in Sound /\ e.timestamp = d.timestamp /\ d.timestamp \in Nat
        BY DatagramParts DEF Sound
      <3>2. /\ Len(b) = n + 1 /\ b[n + 1] = e
            /\ \A i \in 1..n : b[i] = mBuffers[k][i]
            /\ n \in Nat
        BY <1>0, <3>1, AppendFacts
      <3>3. /\ mBuffers'[k] = b /\ mTimestamp'[k] = d.timestamp /\ heard' = heard
            /\ mTimestamp[k] <= d.timestamp
        BY <1>0, <1>3, <2>1, <3>1 DEF onSocketReadable, receive, playSound, Accepts
      <3> HIDE DEF b, e, n
      <3>4. \A i \in 1..(n + 1) : i \in 1..n \/ i = n + 1
        BY <3>2
      <3>a. \A i \in 1..n : /\ b[i].timestamp \in Nat
                            /\ heard[k].timestamp <= b[i].timestamp
                            /\ b[i].timestamp <= mTimestamp[k]
        BY <1>0, <3>2 DEF n
      <3>b. \A i, j \in 1..n : i < j => b[i].timestamp <= b[j].timestamp
        BY <1>0, <3>2 DEF n
      <3>c. heard[k].timestamp <= mTimestamp[k]
        BY <1>0
      <3>5. /\ heard'[k].timestamp <= mTimestamp'[k]
            /\ \A i \in 1..Len(b) : /\ heard'[k].timestamp <= b[i].timestamp
                                    /\ b[i].timestamp <= mTimestamp'[k]
        <4>1. heard'[k].timestamp <= mTimestamp'[k]
          BY <1>0, <3>1, <3>3, <3>c
        <4> SUFFICES ASSUME NEW i \in 1..Len(b)
                     PROVE  heard'[k].timestamp <= b[i].timestamp /\ b[i].timestamp <= mTimestamp'[k]
          BY <4>1
        <4>2. CASE i \in 1..n
          BY <1>0, <3>1, <3>3, <3>a, <4>2
        <4>3. CASE i = n + 1
          BY <1>0, <3>1, <3>2, <3>3, <4>1, <4>3
        <4> QED
          BY <3>2, <3>4, <4>2, <4>3
      <3>6. \A i, j \in 1..Len(b) : i < j => b[i].timestamp <= b[j].timestamp
        <4> SUFFICES ASSUME NEW i \in 1..Len(b), NEW j \in 1..Len(b), i < j
                     PROVE  b[i].timestamp <= b[j].timestamp
          OBVIOUS
        <4>1. i \in 1..n
          BY <3>2
        <4>2. CASE j \in 1..n
          BY <3>b, <4>1, <4>2
        <4>3. CASE j = n + 1
          BY <1>0, <3>1, <3>2, <3>3, <3>a, <4>1, <4>3
        <4> QED
          BY <3>2, <3>4, <4>2, <4>3
      <3> QED
        BY <3>3, <3>5, <3>6
    <2>2. CASE k # h \/ ~Accepts(h, d)
      <3>1. UNCHANGED heard /\ mTimestamp'[k] = mTimestamp[k] /\ mBuffers'[k] = mBuffers[k]
        BY <1>3, <2>2 DEF onSocketReadable, receive, playSound
      <3> QED
        BY <1>0, <3>1
    <2> QED
      BY <2>1, <2>2
  <1>4. ASSUME UNCHANGED <<mTimestamp, mBuffers, heard>> PROVE InOrder(k)'
    BY <1>0, <1>4
  <1> QED
    BY <1>1, <1>2, <1>3, <1>4
    DEF SoundNext, startCall, inputStartStream, outputStartStream, acceptPacketsFrom,
        stopCall, inputStopStream, outputStopStream, inputCallback, onSoundAvailable,
        sendSound, send, Tick, Lose

-----------------------------------------------------------------------------
(* Theorems *)

LEMMA SoundInvIsInvariant == SoundSpec => []SoundInv
  <1>1. SoundInv /\ [SoundNext]_soundVars => SoundInv'
    <2>1. SoundInv /\ SoundNext => SoundInv'
      BY KeepsType, KeepsRecorded, KeepsStamps, KeepsSilence, KeepsOrder DEF SoundInv
    <2>2. SoundInv /\ UNCHANGED soundVars => SoundInv'
      BY DEF SoundInv, SoundTypeOK, RecordedForPartner, Recorded, StampedInThePast,
             SilenceIsBounded, BufferedInOrder, InOrder, soundVars, call
    <2> QED
      BY <2>1, <2>2
  <1> QED
    BY InitSoundInv, <1>1, PTL DEF SoundSpec

\* Type correctness: what is sent has a receiver, and no stamp is beyond the bound.
THEOREM SoundTypes == SoundSpec => []SoundTypeOK
  BY SoundInvIsInvariant, PTL DEF SoundInv

\* A partner whose clock is behind is mute for no longer than the difference that
\* clocks may have, however many calls and restarts there were before.
THEOREM SilenceBound == SoundSpec => []SilenceIsBounded
  BY SoundInvIsInvariant, PTL DEF SoundInv

\* Sound is played in the order of its stamps, whatever the network does.
THEOREM SoundOrder == SoundSpec => HeardInOrder
  <1> DEFINE Later == \A h \in Host :
                         heard'[h] # Nothing => heard'[h].timestamp >= heard[h].timestamp
  <1>1. SoundInv /\ [SoundNext]_soundVars => [Later]_soundVars
    <2> SUFFICES ASSUME SoundInv, SoundNext, NEW k \in Host, heard'[k] # Nothing
                 PROVE  heard'[k].timestamp >= heard[k].timestamp
      OBVIOUS
    <2>0. heard[k].timestamp \in Nat /\ InOrder(k) /\ mBuffers[k] \in Seq(Sound)
      BY TimesOf DEF SoundInv, BufferedInOrder
    <2>1. ASSUME NEW h \in Host, outputCallback(h) PROVE heard'[k].timestamp >= heard[k].timestamp
      <3>1. CASE k = h
        <4>1. heard'[k] = mBuffers[k][1] /\ 1 \in 1..Len(mBuffers[k])
          BY <2>0, <2>1, <3>1, TailFacts DEF outputCallback, SoundInv, SoundTypeOK
        <4>2. heard'[k].timestamp \in Nat
          BY <4>1, TimesOf DEF SoundInv
        <4> QED
          BY <2>0, <4>1, <4>2 DEF InOrder
      <3>2. CASE k # h
        BY <2>0, <2>1, <3>2 DEF outputCallback, SoundInv, SoundTypeOK
      <3> QED
        BY <3>1, <3>2
    <2>2. ASSUME NEW h \in Host, Restart(h) PROVE heard'[k].timestamp >= heard[k].timestamp
      <3>1. k # h
        BY <2>2 DEF Restart, inputStopStream, outputStopStream, acceptPacketsFrom, SoundInv,
                    SoundTypeOK
      <3> QED
        BY <2>0, <2>2, <3>1 DEF Restart, inputStopStream, outputStopStream,
                                acceptPacketsFrom, SoundInv, SoundTypeOK
    <2>3. ASSUME UNCHANGED heard PROVE heard'[k].timestamp >= heard[k].timestamp
      BY <2>0, <2>3
    <2> QED
      BY <2>1, <2>2, <2>3
      DEF SoundNext, startCall, inputStartStream, outputStartStream, acceptPacketsFrom,
          stopCall, inputStopStream, outputStopStream, inputCallback, onSoundAvailable,
          sendSound, send, Tick, onSocketReadable, receive, playSound, Lose
  <1> HIDE DEF Later
  <1>2. SoundSpec => [][Later]_soundVars
    BY SoundInvIsInvariant, <1>1, PTL DEF SoundSpec
  <1> QED
    BY <1>2 DEF HeardInOrder, Later

\* What was recorded in a call is sent in a call, to its partner, or not at all,
\* except for what was posted when a call with another began.
THEOREM SoundStaysInCall == SoundSpec => SentInItsCall
  <1> DEFINE Rightly == \A d \in net' \ net :
                           /\ mInCommunication[d.from]
                           /\ Head(posted[d.from]) \in {d.to, Null}
  <1>1. SoundInv /\ [SoundNext]_soundVars => [Rightly]_soundVars
    <2> SUFFICES ASSUME SoundInv, SoundNext, NEW d \in net' \ net
                 PROVE  mInCommunication[d.from] /\ Head(posted[d.from]) \in {d.to, Null}
      OBVIOUS
    <2>1. PICK h \in Host : sendSound(h)
      BY DEF SoundNext, startCall, inputStartStream, outputStartStream, acceptPacketsFrom,
             stopCall, inputStopStream, outputStopStream, Restart, inputCallback,
             onSoundAvailable, outputCallback, Tick, onSocketReadable, receive, playSound,
             Lose
    <2>2. d = SoundPacket(h) /\ mAcceptedHost[h] # Null /\ posted[h] # <<>>
      BY <2>1 DEF sendSound, send
    <2>3. /\ Recorded(h) /\ 1 \in 1..Len(posted[h]) /\ Head(posted[h]) = posted[h][1]
      BY <2>2, TailFacts DEF SoundInv, SoundTypeOK, RecordedForPartner
    <2> QED
      BY <2>2, <2>3 DEF SoundPacket, Recorded
  <1> HIDE DEF Rightly
  <1>2. SoundSpec => [][Rightly]_soundVars
    BY SoundInvIsInvariant, <1>1, PTL DEF SoundSpec
  <1> QED
    BY <1>2 DEF SentInItsCall, Rightly
=============================================================================
