---------------------------- MODULE SoundProperties ----------------------------
(***************************************************************************)
(* What makes the sound of calls correct.                                  *)
(***************************************************************************)
EXTENDS SoundPath

\* The type invariant: every part of a client's sound state, and every datagram, is
\* what the devices, the builder and the network can hold.
SoundTypeOK ==
    /\ mInCommunication \in [Host -> BOOLEAN]
    /\ recording \in [Host -> BOOLEAN]
    /\ playing \in [Host -> BOOLEAN]
    /\ mAcceptedHost \in [Host -> Host \cup {Null}]
    /\ mTimestamp \in [Host -> Second]
    /\ posted \in [Host -> Seq(Host \cup {Null})]
    /\ mBuffers \in [Host -> Seq(Sound)]
    /\ heard \in [Host -> Sound \cup {Nothing}]
    /\ clock \in [Host -> Second]
    /\ net \subseteq Datagram

\* What a microphone records in a call is sent in a call, and to its partner, or
\* not at all: it passes from the thread of the device to Qt's as an event that
\* does not say whom it is for, and is addressed when it is delivered.  Only what
\* is posted already when a call with another begins, over the present one or
\* right after it, goes to whom it was not recorded for.
SentInItsCall ==
    [][\A d \in net' \ net :
          /\ mInCommunication[d.from]
          /\ Head(posted[d.from]) \in {d.to, Null}]_soundVars

\* What is heard never goes back in time, over all calls of a program, whatever
\* the network does to the order of the datagrams and whenever the output is
\* started and stopped.
HeardInOrder ==
    [][\A h \in Host : heard'[h] # Nothing => heard'[h].timestamp >= heard[h].timestamp]_soundVars

\* The stamp that a sound must reach to be played is kept from one call to the
\* next, and was given by another host's clock then.  A partner whose clock is
\* behind is mute, but for no longer than clocks differ.
SilenceIsBounded ==
    \A h, p \in Host : mTimestamp[h] <= clock[p] + MaxSkew

-----------------------------------------------------------------------------
(* Liveness *)

\* One of the sounds that p has sent to h in the present second arrives.
Arrives(h, p) ==
    \E d \in net : d.from = p /\ d.timestamp = clock[p] /\ onSocketReadable(h, d)

\* A datagram of an earlier second, or of an earlier call, is not doubled any more.
Expires(p) ==
    \E d \in net :
        /\ d.from = p
        /\ d.timestamp < clock[p] \/ d.to # mAcceptedHost[p]
        /\ Lose(d)

Talker == {h \in Host : MaxPosted[h] > 0}
Listener == {h \in Host : "both" \in Devices[h]}

\* Devices that run call back, Qt's loop delivers what is posted, time passes,
\* and the network neither loses everything nor doubles a datagram for ever.
SoundFairness ==
    /\ \A h \in Talker :
          /\ WF_soundVars(inputCallback(h) \/ sendSound(h))
          /\ WF_soundVars(Expires(h))
    /\ \A h \in Listener :
          /\ WF_soundVars(outputCallback(h))
          /\ \A p \in Partner[h] : SF_soundVars(Arrives(h, p))
    /\ \A h \in Host : WF_soundVars(Tick(h))

FairSoundSpec == SoundSpec /\ SoundFairness

\* p talks to h, who has its loudspeaker on.
TalksTo(p, h) ==
    recording[p] /\ mAcceptedHost[p] = h /\ playing[h] /\ mAcceptedHost[h] = p

\* Who talks for long enough is heard in the end, whatever the partner heard in
\* the calls before, also when its own clock is behind.
TalkerIsHeard ==
    \A h \in Listener : \A p \in Partner[h] :
        <>[]TalksTo(p, h) => <>(heard[h] = [from |-> p, timestamp |-> MaxClock])
=============================================================================
