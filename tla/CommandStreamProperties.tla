------------------------ MODULE CommandStreamProperties ------------------------
(***************************************************************************)
(* What makes the packets and their cutting by the client correct.         *)
(***************************************************************************)
EXTENDS CommandStream

\* On a connection that began with the reading of a header, every command read
\* is the next one that the server sent, and each of its fields holds what the
\* server meant, but for what does not leave room for a zero byte: wherever the
\* stream was cut, whatever was being asked meanwhile and whatever was left of
\* the connection before.
ReadInOrder ==
    (link = "up" /\ inStep) =>
        /\ Len(received) <= Len(sent)
        /\ \A k \in DOMAIN received :
              /\ received[k].instruction = sent[k].instruction
              /\ received[k].fields =
                    [name \in DOMAIN sent[k].value |->
                        AsFits(name, sent[k].value[name], BodySend[sent[k].instruction])]

\* When Qt's loop waits for bytes, no command that has arrived whole is unread:
\* Qt does not signal again what came while a slot was running.
AllReadWhenIdle ==
    (link = "up" /\ inStep /\ thread = "idle") =>
        \A k \in DOMAIN sent : End(k) <= arrived => k <= Len(received)

\* A client takes itself for greeted only on a live connection on which it has
\* read a handshake, also when it reads what was left of a lost one.
GreetedOnLink ==
    mHasHandshaked =>
        /\ link = "up"
        /\ \E k \in DOMAIN received : received[k].instruction = "HANDSHAKE"

IsAscii(value) == \A name \in DOMAIN value : value[name].chars = value[name].bytes

\* The server takes a request for the command that it is, waits for as many bytes
\* as the client sends, and its handlers are given, at the place where they look for
\* it, each text and number that the user gave and no part of another: whole, or the
\* beginning that leaves room for a zero byte.  A text with accents loses more of its
\* end.
RequestArrives ==
    request # Null =>
        LET i == request.instruction
            param == ReadByServer(i, request.packet)
        IN  /\ ServerInstruction[request.code] = i
            /\ Size(request.packet) = ServerCommand[i].getSizeBody
            /\ DOMAIN param = DOMAIN HandlerTakes[i]
            /\ DOMAIN request.value = ToSet(HandlerTakes[i])
            /\ \A k \in DOMAIN param :
                  LET name == HandlerTakes[i][k]
                      fitting == AsFits(name, request.value[name], Body[i])
                  IN  /\ [param[k] EXCEPT !.kept = 0] = [fitting EXCEPT !.kept = 0]
                      /\ IF IsAscii(request.value) THEN param[k] = fitting
                         ELSE param[k].kept \in (IF IsNumber(name) THEN 0 ELSE 1)..fitting.kept

-----------------------------------------------------------------------------
(* What the protocol document says, and the code does not do *)

\* babel_rfc, "accept_call": host is the address of the partner.  (setParam leaves
\* room for a zero byte in a field that has none for it.)
HostArrives ==
    (link = "up" /\ inStep) =>
        \A k \in DOMAIN received :
            received[k].instruction = "ACCEPT_CALL" =>
                received[k].fields =
                    [name \in DOMAIN sent[k].value |-> AsMeant(name, sent[k].value[name])]
=============================================================================
