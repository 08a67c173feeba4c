------------------------------ MODULE SystemProofs ------------------------------
(***************************************************************************)
(* The composition of clients and server, for every number of users,       *)
(* connections and accounts, and whatever users ask for.                   *)
(*                                                                         *)
(* The server of BabelSystem takes steps of BabelServer only, so that what *)
(* LoginProofs shows of its steps holds in the system too.  For that every *)
(* command in a queue must be one that BabelServer treats: a client that   *)
(* names an account has been given it by its user or by the server.        *)
(*                                                                         *)
(* The queues are then followed for what clients rely on: the handshake is *)
(* the first message they read, and the page they show and the contacts    *)
(* they list are those of their session, and the call they are in is the   *)
(* one the server has for them, once the commands and messages between     *)
(* them are read.  The last needs that no third user comes between: with   *)
(* LeaveDuringCall off for any number of users, else for two.              *)
(***************************************************************************)
EXTENDS BabelSystemProperties, CallProofs, FileProofs, FiniteSetTheorems

-----------------------------------------------------------------------------
(* What the server sends *)

\* The requests whose answers change no page.
Plain == Instruction \ {"LOG", "EXIT"}

\* What c's request own sends: to those who have shaken hands, and about an
\* account unless it is an answer.
Tells(messages, c, own) ==
    \A m \in messages :
        /\ m.to \in Slot /\ client[m.to].handshaked
        /\ m.cmd # "HANDSHAKE"
        /\ IF m.cmd = "ERR" THEN m.instruction \in Plain \/ (m.to = c /\ m.instruction = own)
           ELSE m.who \in Account

LEMMA TellsUnion ==
    ASSUME NEW c, NEW own, NEW first, NEW second, Tells(first, c, own), Tells(second, c, own)
    PROVE  Tells(first \cup second, c, own)
BY DEF Tells

\* Messages about one account, to one client.
LEMMA OneTold ==
    ASSUME NEW c \in Slot, NEW own, NEW s \in Slot, client[s].handshaked, NEW code
    PROVE  /\ Tells({}, c, own)
           /\ \A i \in Plain : Tells({Err(s, i, code)}, c, own)
           /\ s = c => Tells({Err(s, own, code)}, c, own)
           /\ \A a \in Account, cmd \in {"ADD", "CALL", "CLOSE_CALL", "DEL", "SEND"} :
                 Tells({Tell(s, cmd, a)}, c, own)
           /\ \A a \in Account, accept \in BOOLEAN : Tells({Answered(s, a, accept)}, c, own)
BY DEF Tells, Err, Tell, Answered

\* Clients whose sessions have shaken hands.
Greeted(clients) == \A s \in Slot : clients[s].isConnected => client[s].handshaked

LEMMA OnlineGreeted ==
    ASSUME NEW clients, Greeted(clients), NEW a, findOnlineClient(clients, a) # Null
    PROVE  /\ findOnlineClient(clients, a) \in Slot
           /\ client[findOnlineClient(clients, a)].handshaked
BY FindOnline DEF Greeted

LEMMA RepliesTell ==
    ASSUME NEW c \in Slot, NEW own, NEW s \in Slot, client[s].handshaked, NEW clients, NEW files
    PROVE  /\ \A a \in Account : Tells(ShowReply(clients, files, s, a), c, own)
           /\ clients[s].contact \subseteq Account => Tells(ListReply(clients, files, s), c, own)
<1>1. ASSUME NEW a \in Account
      PROVE  Tells(ShowReply(clients, files, s, a), c, own)
  BY DEF ShowReply, Tells, Err, Show, Plain, Instruction
<1>2. QED
  BY <1>1 DEF ListReply, Tells

LEMMA NotifyTells ==
    ASSUME NEW c \in Slot, NEW own, NEW clients, Greeted(clients), clients[c].account \in Account
    PROVE  Tells(notifyMyFriendsOfModificationAboutMe(clients, c), c, own)
<1>1. ASSUME NEW m \in notifyMyFriendsOfModificationAboutMe(clients, c)
      PROVE  /\ m.to \in Slot /\ client[m.to].handshaked
             /\ m.cmd = "SHOW" /\ m.who \in Account
  <2>1. PICK a : /\ OnlineAs(clients, a) # {}
                 /\ m = Show(findOnlineClient(clients, a), clients[c].account, clients[c].pseudo,
                             clients[c].status, clients[c].isConnected)
    BY DEF notifyMyFriendsOfModificationAboutMe
  <2>2. findOnlineClient(clients, a) \in OnlineAs(clients, a)
    BY <2>1 DEF findOnlineClient
  <2>3. findOnlineClient(clients, a) \in Slot /\ client[findOnlineClient(clients, a)].handshaked
    BY <2>2 DEF OnlineAs, Greeted
  <2>4. QED
    BY <2>1, <2>3 DEF Show
<1>2. QED
  BY <1>1 DEF Tells

LEMMA CloseCallTells ==
    ASSUME NEW c \in Slot, client[c].handshaked, NEW own, NEW clients, Greeted(clients),
           \A s \in Slot : clients[s].isConnected => clients[s].account \in Account,
           NEW files, NEW a
    PROVE  Tells(CloseCall(clients, files, c, a).sent, c, own)
<1> DEFINE t == findOnlineClient(clients, a)
           code == CloseCallError(clients, c, a)
<1>1. "CLOSE_CALL" \in Plain
  BY DEF Plain, Instruction
<1>2. CASE code # "OK"
  <2>1. CloseCall(clients, files, c, a).sent = {Err(c, "CLOSE_CALL", code)}
    BY <1>2 DEF CloseCall
  <2> HIDE DEF code
  <2>2. QED
    BY <1>1, <2>1 DEF Tells, Err
<1>3. CASE code = "OK"
  <2>1. CloseCall(clients, files, c, a).sent =
           {Err(c, "CLOSE_CALL", "OK"), Tell(t, "CLOSE_CALL", clients[c].account),
            Tell(c, "CLOSE_CALL", clients[t].account)}
    BY <1>3 DEF CloseCall
  <2>2. clients[c].isConnected /\ t # Null
    BY <1>3 DEF CloseCallError
  <2>3. t \in Slot /\ client[t].handshaked /\ clients[t].account \in Account
    BY <2>2, OnlineGreeted, FindOnline
  <2> HIDE DEF t
  <2>4. QED
    BY <1>1, <2>1, <2>2, <2>3 DEF Tells, Err, Tell
<1>4. QED
  BY <1>2, <1>3

\* What a handler can rely on: its own client, and those it finds online.
LEMMA ServedFacts ==
    ASSUME TypeOK, SessionsAreNamed, ObjectInv, NEW c \in Slot, Serves(c)
    PROVE  /\ client \in Clients /\ file \in Files
           /\ client[c].handshaked /\ client[c] \in ClientRec
           /\ \A s \in Slot : client[s].isConnected => client[s].account \in Account
           /\ Greeted(client)
BY DEF TypeOK, Clients, Files, Serves, ObjectInv, Greeted, SessionsAreNamed, Session

\* A table in which nobody else is logged in.
LEMMA GreetedBy ==
    ASSUME Greeted(client), NEW clients, NobodyLogsIn(client, clients)
    PROVE  Greeted(clients)
BY DEF Greeted, NobodyLogsIn

LEMMA LogTells ==
    ASSUME TypeOK, SessionsAreNamed, ObjectInv, NEW c \in Slot, NEW a \in Account, NEW password,
           onLog(c, a, password)
    PROVE  Tells(sent', c, "LOG")
<1> DEFINE loaded == Loaded(client[c], a)
           in == Connected(loaded)
           clients == [client EXCEPT ![c] = in]
           files == Store(file, in)
<1>1. Serves(c)
  BY DEF onLog
<1>2. /\ client \in Clients /\ file \in Files /\ client[c].handshaked /\ Greeted(client)
      /\ client[c] \in ClientRec
  BY <1>1, ServedFacts
<1>3. loaded \in ClientRec /\ loaded.account = a
  BY <1>2 DEF Loaded, Clients, Files, ClientRec, FileRec
<1> HIDE DEF loaded
<1>4. in \in ClientRec /\ in.account = a
  BY <1>3, RecordTypes, RecordLogins
<1> HIDE DEF in
<1>5. Greeted(clients) /\ clients[c] = in
  BY <1>2 DEF Greeted, Clients
<1>6. clients[c].contact \subseteq Account /\ clients[c].account \in Account
  BY <1>4, <1>5 DEF ClientRec
<1> HIDE DEF clients, files
<1>7. /\ Tells(ListReply(clients, files, c), c, "LOG")
      /\ Tells(notifyMyFriendsOfModificationAboutMe(clients, c), c, "LOG")
  BY <1>2, <1>5, <1>6, RepliesTell, NotifyTells
<1>8. \A code : Tells({Err(c, "LOG", code)}, c, "LOG")
  BY <1>2 DEF Tells, Err
<1>9. \/ \E code : sent' = {Err(c, "LOG", code)}
      \/ sent' = {Err(c, "LOG", "OK")} \cup ListReply(clients, files, c)
                    \cup notifyMyFriendsOfModificationAboutMe(clients, c)
  BY DEF onLog, Become, Send, clients, files, in, loaded
<1>10. QED
  BY <1>7, <1>8, <1>9 DEF Tells

LEMMA UpdateTells ==
    ASSUME TypeOK, SessionsAreNamed, ObjectInv, NEW c \in Slot, NEW a \in Account,
           NEW pseudo \in Pseudo, NEW password, NEW status, NEW own,
           onReg(c, a, pseudo, password) \/ onUpdate(c, a, pseudo, password, status)
    PROVE  Tells(sent', c, own)
<1> DEFINE clients == [client EXCEPT ![c].pseudo = pseudo, ![c].status = status]
<1>1. Serves(c)
  BY DEF onReg, onUpdate
<1>2. /\ client \in Clients /\ client[c].handshaked /\ Greeted(client)
      /\ client[c].isConnected => client[c].account \in Account
  BY <1>1, ServedFacts
<1>3. Greeted(clients) /\ clients[c].account = client[c].account
  BY <1>2 DEF Greeted, Clients, ClientRec
<1> HIDE DEF clients
<1>4. client[c].isConnected => Tells(notifyMyFriendsOfModificationAboutMe(clients, c), c, own)
  BY <1>2, <1>3, NotifyTells
<1>5. \A code : \A i \in {"REG", "UPDATE"} : Tells({Err(c, i, code)}, c, own)
  BY <1>2 DEF Tells, Err, Plain, Instruction
<1>6. CASE onReg(c, a, pseudo, password)
  <2>1. sent' = {Err(c, "REG", RegError(c, a))}
    BY <1>6 DEF onReg
  <2>2. QED
    BY <1>5, <2>1
<1>7. CASE onUpdate(c, a, pseudo, password, status)
  <2> DEFINE error == UpdateError(c, a, status)
  <2>1. \/ sent' = {Err(c, "UPDATE", error)}
        \/ /\ error = "OK"
           /\ \E files : sent' = {Err(c, "UPDATE", "OK")}
                                    \cup notifyMyFriendsOfModificationAboutMe(clients, c)
                                    \cup ShowReply(clients, files, c, a)
    BY <1>7 DEF onUpdate, Become, Send, clients
  <2>2. UpdateError(c, a, status) = "OK" => client[c].isConnected
    BY DEF UpdateError
  <2>3. \A files : Tells(ShowReply(clients, files, c, a), c, own)
    BY <1>2, RepliesTell
  <2>4. QED
    BY <1>4, <1>5, <2>1, <2>2, <2>3 DEF Tells
<1>8. QED
  BY <1>6, <1>7

LEMMA ExitTells ==
    ASSUME TypeOK, SessionsAreNamed, ObjectInv, NEW c \in Slot, onExit(c)
    PROVE  Tells(sent', c, "EXIT")
<1> DEFINE left(clients) == [clients EXCEPT ![c] = Disconnected(@)]
           closed(a) == CloseCall(client, file, c, a)
<1>1. Serves(c)
  BY DEF onExit
<1>2. /\ client \in Clients /\ file \in Files /\ client[c].handshaked /\ Greeted(client)
      /\ \A s \in Slot : client[s].isConnected => client[s].account \in Account
  BY <1>1, ServedFacts
<1>3. \A code : Tells({Err(c, "EXIT", code)}, c, "EXIT")
  BY <1>2 DEF Tells, Err
<1>4. ASSUME client[c].isConnected, NEW clients \in Clients, SameLogins(client, clients)
      PROVE  Tells(notifyMyFriendsOfModificationAboutMe(left(clients), c), c, "EXIT")
  <2>1. NobodyLogsIn(client, left(clients)) /\ left(clients)[c].account = client[c].account
    BY <1>4, RecordLogins DEF NobodyLogsIn, SameLogins, Clients
  <2> HIDE DEF left
  <2>2. QED
    BY <1>2, <1>4, <2>1, GreetedBy, NotifyTells
<1>5. ASSUME NEW a
      PROVE  /\ Tells(closed(a).sent, c, "EXIT")
             /\ closed(a).clients \in Clients /\ SameLogins(client, closed(a).clients)
  <2>1. Tells(closed(a).sent, c, "EXIT")
    BY <1>2, CloseCallTells
  <2>2. closed(a).clients \in Clients /\ SameLogins(client, closed(a).clients)
    BY <1>2, CloseCallTypes, CloseCallLogins
  <2>3. QED
    BY <2>1, <2>2
<1>6. \/ \E code : sent' = {Err(c, "EXIT", code)}
      \/ sent' = {}
      \/ /\ client[c].isConnected
         /\ sent' = {Err(c, "EXIT", "OK")} \cup {} \cup notifyMyFriendsOfModificationAboutMe(left(client), c)
      \/ /\ client[c].isConnected
         /\ \E a : sent' = {Err(c, "EXIT", "OK")} \cup closed(a).sent
                            \cup notifyMyFriendsOfModificationAboutMe(left(closed(a).clients), c)
  BY DEF onExit, Become, Send, Die
<1>7. SameLogins(client, client)
  BY DEF SameLogins
<1> HIDE DEF left, closed
<1>8. ASSUME client[c].isConnected, NEW clients \in Clients, SameLogins(client, clients),
             NEW told, Tells(told, c, "EXIT"),
             sent' = {Err(c, "EXIT", "OK")} \cup told
                        \cup notifyMyFriendsOfModificationAboutMe(left(clients), c)
      PROVE  Tells(sent', c, "EXIT")
  <2>1. /\ Tells(notifyMyFriendsOfModificationAboutMe(left(clients), c), c, "EXIT")
        /\ Tells({Err(c, "EXIT", "OK")}, c, "EXIT")
    BY <1>3, <1>4, <1>8
  <2>2. QED
    BY <1>8, <2>1 DEF Tells
<1>9. Tells({}, c, "EXIT")
  BY DEF Tells
<1>10. QED
  BY <1>2, <1>3, <1>5, <1>6, <1>7, <1>8, <1>9

LEMMA TalkTells ==
    ASSUME TypeOK, SessionsAreNamed, ObjectInv, NEW c \in Slot, NEW a \in Account,
           NEW accept \in BOOLEAN, NEW own,
           \/ onList(c) \/ onShow(c, a) \/ onAdd(c, a) \/ onSend(c, a)
           \/ onCall(c, a) \/ onAcceptCall(c, a, accept) \/ onCloseCall(c, a)
    PROVE  Tells(sent', c, own)
<1> DEFINE t == findOnlineClient(client, a)
           me == client[c].account
<1>1. Serves(c)
  BY DEF onList, onShow, onAdd, onSend, onCall, onAcceptCall, onCloseCall
<1>2. /\ client \in Clients /\ client[c].handshaked /\ Greeted(client) /\ client[c] \in ClientRec
      /\ \A s \in Slot : client[s].isConnected => client[s].account \in Account
  BY <1>1, ServedFacts
<1>3. \A i \in {"LIST", "SHOW", "ADD", "SEND", "CALL", "ACCEPT_CALL"} :
         \A code : Tells({Err(c, i, code)}, c, own)
  BY <1>2 DEF Tells, Err, Plain, Instruction
<1>4. ASSUME t # Null, client[c].isConnected
      PROVE  /\ \A cmd \in {"ADD", "SEND", "CALL"} : Tells({Tell(t, cmd, me)}, c, own)
             /\ Tells({Answered(t, me, accept)}, c, own)
             /\ Tells({Answered(c, a, accept)}, c, own)
  <2>1. t \in Slot /\ client[t].handshaked /\ me \in Account
    BY <1>2, <1>4, OnlineGreeted
  <2> HIDE DEF t, me
  <2>2. QED
    BY <1>2, <2>1 DEF Tells, Tell, Answered
<1>5. CASE onList(c)
  <2>1. client[c].contact \subseteq Account
    BY <1>2 DEF ClientRec
  <2>2. Tells(ListReply(client, file, c), c, own)
    BY <1>2, <2>1, RepliesTell
  <2>3. QED
    BY <1>3, <1>5, <2>2 DEF onList, Send
<1>6. CASE onShow(c, a)
  <2>1. Tells(ShowReply(client, file, c, a), c, own)
    BY <1>2, RepliesTell
  <2>2. QED
    BY <1>3, <1>6, <2>1 DEF onShow, Send
<1>7. CASE onAdd(c, a)
  <2> DEFINE error == AddError(c, a)
  <2>1. sent' = {Err(c, "ADD", error)}
          \cup {Tell(x, "ADD", me) : x \in IF error = "OK" THEN {t} ELSE {}}
    BY <1>7 DEF onAdd, Send
  <2>2. error = "OK" => t # Null /\ client[c].isConnected
    BY DEF AddError
  <2> HIDE DEF error, t, me
  <2>3. QED
    BY <1>3, <1>4, <2>1, <2>2 DEF Tells
<1>8. CASE onSend(c, a)
  <2> DEFINE error == SendError(c, a)
  <2>1. sent' = {Err(c, "SEND", error)}
          \cup {Tell(x, "SEND", me) : x \in IF error = "OK" THEN {t} ELSE {}}
    BY <1>8 DEF onSend, Send
  <2>2. error = "OK" => t # Null /\ client[c].isConnected
    BY DEF SendError
  <2> HIDE DEF error, t, me
  <2>3. QED
    BY <1>3, <1>4, <2>1, <2>2 DEF Tells
<1>9. CASE onCall(c, a)
  <2>1. \/ \E code : sent' = {Err(c, "CALL", code)}
        \/ /\ CallError(c, a) = "OK"
           /\ sent' = {Err(c, "CALL", "OK"), Tell(t, "CALL", me)}
    BY <1>9 DEF onCall, Become, Send
  <2>2. CallError(c, a) = "OK" => t # Null /\ client[c].isConnected
    BY DEF CallError
  <2> HIDE DEF t, me
  <2>3. QED
    BY <1>3, <1>4, <2>1, <2>2 DEF Tells
<1>10. CASE onAcceptCall(c, a, accept)
  <2>1. \/ \E code : sent' = {Err(c, "ACCEPT_CALL", code)}
        \/ /\ AcceptCallError(c, a) = "OK"
           /\ \/ sent' = {Answered(t, me, accept)}
                           \cup {Err(c, "ACCEPT_CALL", "OK"), Answered(c, a, accept)}
              \/ sent' = {Answered(t, me, accept)} \cup {Err(c, "ACCEPT_CALL", "OK")}
    BY <1>10 DEF onAcceptCall, Become, Send
  <2>2. AcceptCallError(c, a) = "OK" => t # Null /\ client[c].isConnected
    BY DEF AcceptCallError
  <2> HIDE DEF t, me
  <2>3. QED
    BY <1>3, <1>4, <2>1, <2>2 DEF Tells
<1>11. CASE onCloseCall(c, a)
  <2>1. Tells(CloseCall(client, file, c, a).sent, c, own)
    BY <1>2, CloseCallTells
  <2>2. QED
    BY <1>11, <2>1 DEF onCloseCall, Become
<1>12. QED
  BY <1>5, <1>6, <1>7, <1>8, <1>9, <1>10, <1>11

LEMMA ContactTells ==
    ASSUME TypeOK, SessionsAreNamed, ObjectInv, NEW c \in Slot, NEW a \in Account,
           NEW accept \in BOOLEAN, NEW own, onAcceptAdd(c, a, accept) \/ onDel(c, a)
    PROVE  Tells(sent', c, own)
<1> DEFINE t == findOnlineClient(client, a)
           me == client[c].account
           mine == [client EXCEPT ![c].contact = @ \ {a}]
           both == [mine EXCEPT ![t].contact = @ \ {me}]
           told == {Err(c, "DEL", "OK"), Tell(c, "DEL", a), Tell(t, "DEL", me)}
<1>1. Serves(c)
  BY DEF onAcceptAdd, onDel
<1>2. /\ client \in Clients /\ client[c].handshaked /\ Greeted(client) /\ client[c] \in ClientRec
      /\ \A s \in Slot : client[s].isConnected => client[s].account \in Account
  BY <1>1, ServedFacts
<1>3. \A i \in {"ACCEPT_ADD", "DEL"} : \A code : Tells({Err(c, i, code)}, c, own)
  BY <1>2 DEF Tells, Err, Plain, Instruction
<1>4. t # Null => t \in Slot /\ client[t].handshaked
  BY <1>2, OnlineGreeted
<1>5. CASE onAcceptAdd(c, a, accept)
  <2> DEFINE error == AcceptAddError(c, a)
  <2>1. \/ \E code : sent' = {Err(c, "ACCEPT_ADD", code)}
        \/ sent' = {}
        \/ /\ error = "OK"
           /\ \E clients, files :
                 sent' = {Err(c, "ACCEPT_ADD", "OK")} \cup ShowReply(clients, files, t, me)
                            \cup ShowReply(clients, files, c, a)
    BY <1>5 DEF onAcceptAdd, Become, Send, Die
  <2>2. error = "OK" => t # Null /\ me \in Account
    BY <1>2 DEF AcceptAddError
  <2>3. Tells({}, c, own)
    BY DEF Tells
  <2> HIDE DEF error, t, me
  <2>4. \A clients, files : /\ Tells(ShowReply(clients, files, c, a), c, own)
                            /\ error = "OK" => Tells(ShowReply(clients, files, t, me), c, own)
    BY <1>2, <1>4, <2>2, RepliesTell
  <2>5. QED
    BY <1>3, <2>1, <2>3, <2>4 DEF Tells
<1>6. CASE onDel(c, a)
  <2> DEFINE error == DelError(c, a)
             closed(files) == CloseCall(both, files, c, a)
  <2>1. \/ \E code : sent' = {Err(c, "DEL", code)}
        \/ sent' = {}
        \/ /\ error = "OK" /\ t # Null
           /\ \/ sent' = told
              \/ \E files : sent' = told \cup closed(files).sent
    BY <1>6 DEF onDel, Become, Send, Die
  <2>2. error = "OK" => client[c].isConnected
    BY DEF DelError
  <2>3. ASSUME error = "OK", t # Null
        PROVE  Tells(told, c, own)
    <3>1. t \in Slot /\ client[t].handshaked /\ me \in Account
      BY <1>2, <1>4, <2>2, <2>3
    <3> HIDE DEF t, me
    <3>2. QED
      BY <1>2, <3>1 DEF Tells, Err, Tell, Plain, Instruction
  <2>4. ASSUME error = "OK", t # Null, NEW files
        PROVE  Tells(closed(files).sent, c, own)
    <3>1. t \in Slot
      BY <1>4, <2>4
    <3>2. mine \in Clients /\ SameLogins(client, mine)
      BY <1>2, FieldLogins DEF Clients, ClientRec
    <3> HIDE DEF mine, t, me
    <3>3. SameLogins(mine, both)
      BY <3>1, <3>2, FieldLogins
    <3>4. Greeted(both) /\ \A s \in Slot : both[s].isConnected => both[s].account \in Account
      BY <1>2, <3>2, <3>3 DEF Greeted, SameLogins
    <3> HIDE DEF both
    <3>5. QED
      BY <1>2, <3>4, CloseCallTells
  <2>5. Tells({}, c, own)
    BY DEF Tells
  <2> HIDE DEF error, t, told, closed
  <2>6. QED
    BY <1>3, <2>1, <2>3, <2>4, <2>5 DEF Tells
<1>7. QED
  BY <1>5, <1>6

-----------------------------------------------------------------------------
(* What is under way, and what a client knows *)

\* Commands that BabelServer treats: those about an account name one.
Treatable ==
    {m \in [cmd : Instruction, who : Account \cup {Null}, accept : BOOLEAN] :
        m.cmd \in {"HANDSHAKE", "EXIT"} \/ m.who \in Account}

\* Messages as a client gets them: all but answers and the handshake are about
\* an account.
Answer == [to : Slot, cmd : {"ERR"}, instruction : {"LOG", "EXIT"}, code : {"OK"}]
Greeting == [to : Slot, cmd : {"HANDSHAKE"}, who : {Null}]
News ==
    [to : Slot, cmd : {"SHOW", "ADD", "CALL", "CLOSE_CALL", "DEL", "SEND"}, who : Account]
      \cup [to : Slot, cmd : {"ACCEPT_CALL"}, who : Account, accept : BOOLEAN]
Notice == Answer \cup Greeting \cup News

Unlogged == {m \in Treatable : m.cmd # "LOG"}
Unanswered == {m \in Notice : m.cmd = "ERR" => m.instruction # "LOG"}

\* A client names whom it knows: its partner, who asks it, and its own account.
WellNamed(r) ==
    /\ r.mIsCall => r.mContactInCall \in Account
    /\ r.question.kind # "none" => r.question.who \in Account
    /\ r.page = "main" => r.mLoggedUser \in Account
    /\ r.conn = Null => r.page = "flyer"

\* The types of the clients and of the queues.
QueueTypes ==
    /\ app \in [User -> AppRec]
    /\ toServer \in [Slot -> Seq(Treatable)]
    /\ toClient \in [Slot -> Seq(Notice)]

\* Nobody has a login answered, or under way, who has not said whose it is.
NamesKnown ==
    \A p \in User :
        LET c == app[p].conn
        IN  /\ WellNamed(app[p])
            /\ (c # Null /\ app[p].mLoggedUser = Null) =>
                  toServer[c] \in Seq(Unlogged) /\ toClient[c] \in Seq(Unanswered)

\* A connection has one client.
OwnConnections ==
    \A p, q \in User : (app[p].conn = app[q].conn /\ app[p].conn # Null) => p = q

\* The part of a client that its session is about.
SameSession(r, q) ==
    /\ q.conn = r.conn /\ q.mHasHandshaked = r.mHasHandshaked
    /\ q.page = r.page /\ q.mLoggedUser = r.mLoggedUser

LEMMA SlotRecords ==
    ASSUME NEW r \in AppRec, WellNamed(r), NEW a \in Account, NEW accept \in BOOLEAN, NEW devices
    PROVE  /\ \A q \in {receiveContactInfo(r, a), receiveContactDeletion(r, a), stopCall(r),
                        startCall(r, a, devices), receiveCallAnswer(r, a, accept, devices),
                        receiveCallClose(r, a)} :
                 /\ q \in AppRec /\ WellNamed(q) /\ SameSession(r, q)
           /\ \A q \in {startCommunication(r, a, accept), terminateCommunication(r)} :
                 /\ q \in AppRec /\ WellNamed(q) /\ SameSession(r, q)
<1>1. ASSUME NEW q \in {receiveContactInfo(r, a), receiveContactDeletion(r, a)}
      PROVE  q \in AppRec /\ WellNamed(q) /\ SameSession(r, q)
  BY DEF receiveContactInfo, receiveContactDeletion, AppRec, WellNamed, SameSession
<1>2. ASSUME NEW q \in {stopCall(r), startCall(r, a, devices)}
      PROVE  q \in AppRec /\ WellNamed(q) /\ SameSession(r, q)
  BY DEF stopCall, startCall, AppRec, WellNamed, SameSession
<1>3. SameSession(r, r)
  BY DEF SameSession
<1>4. ASSUME NEW q \in {receiveCallAnswer(r, a, accept, devices), receiveCallClose(r, a)}
      PROVE  q \in AppRec /\ WellNamed(q) /\ SameSession(r, q)
  BY <1>2, <1>3 DEF receiveCallAnswer, receiveCallClose
<1>5. ASSUME NEW q \in {startCommunication(r, a, accept), terminateCommunication(r)}
      PROVE  q \in AppRec /\ WellNamed(q) /\ SameSession(r, q)
  BY DEF startCommunication, terminateCommunication, AppRec, WellNamed, SameSession
<1>6. QED
  BY <1>1, <1>2, <1>4, <1>5

\* Losing the connection.
LEMMA DisconnectedRecord ==
    ASSUME NEW r \in AppRec, r.mIsCall => r.mContactInCall \in Account,
           r.question.kind # "none" => r.question.who \in Account
    PROVE  /\ onDisconnection(r) \in AppRec /\ WellNamed(onDisconnection(r))
           /\ onDisconnection(r).conn = Null /\ onDisconnection(r).mLoggedUser = r.mLoggedUser
BY DEF onDisconnection, disconnectedFromServer, AppRec, WellNamed, Page

-----------------------------------------------------------------------------
(* How messages are delivered *)

\* An enumeration of a finite set has its elements once each.
LEMMA Enumerated ==
    ASSUME NEW S, IsFiniteSet(S), NEW q \in SetToSeqs(S)
    PROVE  /\ q \in Seq(S)
           /\ S # {} => q # <<>>
           /\ \A i, j \in 1..Len(q) : i # j => q[i] # q[j]
           /\ \A x \in S : \E i \in 1..Len(q) : q[i] = x
<1>1. Cardinality(S) \in Nat /\ (S # {} => Cardinality(S) # 0)
  BY FS_CardinalityType, FS_EmptySet
<1> DEFINE n == Cardinality(S)
<1>2. q \in [1..n -> S] /\ \A i, j \in 1..n : i # j => q[i] # q[j]
  BY DEF SetToSeqs
<1> HIDE DEF n
<1>3. q \in Seq(S) /\ Len(q) = n
  BY <1>1, <1>2 DEF n
<1>4. \A x \in S : \E i \in 1..Len(q) : q[i] = x
  <2>1. IsFiniteSet(1..n) /\ Cardinality(1..n) = n
    BY <1>1, FS_Interval DEF n
  <2>2. q \in Injection(1..n, S)
    BY <1>2 DEF Injection, IsInjective
  <2>3. q \in Surjection(1..n, S)
    BY <2>1, <2>2, FS_Injection DEF n
  <2>4. QED
    BY <1>3, <2>3 DEF Surjection
<1>5. QED
  BY <1>1, <1>2, <1>3, <1>4 DEF n

\* The messages that one client can get.
NoticesTo(c) == {m \in Notice : m.to = c}

LEMMA FiniteNotices ==
    ASSUME NEW c \in Slot
    PROVE  IsFiniteSet(NoticesTo(c))
<1> DEFINE about(f) == {f[a] : a \in Account}
<1>1. ASSUME NEW f
      PROVE  IsFiniteSet(about(f))
  <2> DEFINE g == [a \in Account |-> f[a]]
  <2>1. g \in Surjection(Account, about(f))
    BY DEF Surjection
  <2>2. QED
    BY <2>1, FS_Surjection, FiniteAssumption
<1> DEFINE telling(cmd) == [a \in Account |-> Tell(c, cmd, a)]
           answering(accept) == [a \in Account |-> Answered(c, a, accept)]
           told(cmd) == about(telling(cmd))
           answered(accept) == about(answering(accept))
           answers == {Err(c, "LOG", "OK"), Err(c, "EXIT", "OK"), Tell(c, "HANDSHAKE", Null)}
<1>2. IsFiniteSet(answers)
  <2>1. IsFiniteSet({}) BY FS_EmptySet
  <2>2. IsFiniteSet({} \cup {Err(c, "LOG", "OK")}) BY <2>1, FS_AddElement
  <2>3. IsFiniteSet({} \cup {Err(c, "LOG", "OK")} \cup {Err(c, "EXIT", "OK")}) BY <2>2, FS_AddElement
  <2>4. IsFiniteSet({} \cup {Err(c, "LOG", "OK")} \cup {Err(c, "EXIT", "OK")} \cup {Tell(c, "HANDSHAKE", Null)})
    BY <2>3, FS_AddElement
  <2>5. QED
    BY <2>4, Zenon
<1>3. IsFiniteSet(told("SHOW")) /\ IsFiniteSet(told("ADD")) /\ IsFiniteSet(told("CALL"))
  BY <1>1
<1>4. IsFiniteSet(told("CLOSE_CALL")) /\ IsFiniteSet(told("DEL")) /\ IsFiniteSet(told("SEND"))
  BY <1>1
<1>5. IsFiniteSet(answered(TRUE)) /\ IsFiniteSet(answered(FALSE))
  BY <1>1
<1> DEFINE all == answers \cup (told("SHOW") \cup (told("ADD") \cup (told("CALL") \cup (told("CLOSE_CALL")
                     \cup (told("DEL") \cup (told("SEND") \cup (answered(TRUE) \cup answered(FALSE))))))))
<1>6. ASSUME NEW m \in NoticesTo(c)
      PROVE  m \in all
  <2>1. CASE m \in Answer \cup Greeting
    <3>1. m \in answers
      BY <2>1 DEF Answer, Greeting, NoticesTo, Err, Tell
    <3>2. QED
      BY <3>1
  <2>2. CASE m \in [to : Slot, cmd : {"ACCEPT_CALL"}, who : Account, accept : BOOLEAN]
    <3>1. m = Answered(c, m.who, m.accept) /\ m.who \in Account /\ m.accept \in BOOLEAN
      BY <2>2 DEF NoticesTo, Answered
    <3>2. m \in answered(m.accept)
      BY <3>1
    <3>3. QED
      BY <3>1, <3>2
  <2>3. CASE m \in [to : Slot, cmd : {"SHOW", "ADD", "CALL", "CLOSE_CALL", "DEL", "SEND"}, who : Account]
    <3>1. m = Tell(c, m.cmd, m.who) /\ m.who \in Account
          /\ m.cmd \in {"SHOW", "ADD", "CALL", "CLOSE_CALL", "DEL", "SEND"}
      BY <2>3 DEF NoticesTo, Tell
    <3>2. m \in told(m.cmd)
      BY <3>1
    <3>3. QED
      BY <3>1, <3>2
  <2>4. QED
    BY <2>1, <2>2, <2>3 DEF NoticesTo, Notice, News
<1>7. IsFiniteSet(all)
  <2> HIDE DEF answers, told, answered
  <2>1. IsFiniteSet(answered(TRUE) \cup answered(FALSE)) BY <1>5, FS_Union
  <2>2. IsFiniteSet(told("SEND") \cup (answered(TRUE) \cup answered(FALSE))) BY <2>1, <1>4, FS_Union
  <2>3. IsFiniteSet(told("DEL") \cup (told("SEND") \cup (answered(TRUE) \cup answered(FALSE)))) BY <2>2, <1>4, FS_Union
  <2>4. IsFiniteSet(told("CLOSE_CALL") \cup (told("DEL") \cup (told("SEND") \cup (answered(TRUE) \cup answered(FALSE)))))
    BY <2>3, <1>4, FS_Union
  <2> DEFINE four == told("CLOSE_CALL") \cup (told("DEL") \cup (told("SEND") \cup (answered(TRUE) \cup answered(FALSE))))
  <2> HIDE DEF four
  <2>5. IsFiniteSet(four) BY <2>4 DEF four
  <2>6. IsFiniteSet(told("CALL") \cup four) BY <2>5, <1>3, FS_Union
  <2>7. IsFiniteSet(told("ADD") \cup (told("CALL") \cup four)) BY <2>6, <1>3, FS_Union
  <2>8. IsFiniteSet(told("SHOW") \cup (told("ADD") \cup (told("CALL") \cup four))) BY <2>7, <1>3, FS_Union
  <2>9. IsFiniteSet(answers \cup (told("SHOW") \cup (told("ADD") \cup (told("CALL") \cup four)))) BY <2>8, <1>2, FS_Union
  <2>10. QED
    BY <2>9 DEF four
<1> HIDE DEF all
<1>8. QED
  BY <1>6, <1>7, FS_Subset

\* Messages are about an account, but for answers and the handshake.
WellMeant(messages) ==
    \A m \in messages : IF m.cmd = "ERR" THEN TRUE
                        ELSE IF m.cmd = "HANDSHAKE" THEN m.who = Null ELSE m.who \in Account

LEMMA MeantForOne ==
    ASSUME NEW messages \in SUBSET Message, WellMeant(messages), NEW c \in Slot
    PROVE  /\ MessagesFor(c, messages) \subseteq NoticesTo(c)
           /\ IsFiniteSet(MessagesFor(c, messages))
<1>1. ASSUME NEW n \in messages, n.to = c, Effective(n)
      PROVE  Reduced(n) \in NoticesTo(c)
  <2>1. CASE n.cmd = "ERR"
    <3>1. n \in Answer
      BY <1>1, <2>1 DEF Message, Effective, Answer
    <3>2. QED
      BY <1>1, <2>1, <3>1 DEF Reduced, NoticesTo, Notice
  <2>2. CASE n.cmd = "SHOW"
    <3>1. n.who \in Account
      BY <2>2 DEF WellMeant
    <3>2. QED
      BY <1>1, <2>2, <3>1 DEF Reduced, Tell, NoticesTo, Notice, News
  <2>3. CASE n.cmd = "HANDSHAKE"
    <3>1. n \in Greeting
      BY <2>3 DEF Message, WellMeant, Greeting
    <3>2. QED
      BY <1>1, <2>3, <3>1 DEF Reduced, NoticesTo, Notice
  <2>4. CASE n.cmd \notin {"ERR", "SHOW", "HANDSHAKE"}
    <3>1. n.who \in Account
      BY <2>4 DEF WellMeant
    <3>2. n \in News
      BY <2>4, <3>1 DEF Message, News
    <3>3. QED
      BY <1>1, <2>4, <3>2 DEF Reduced, NoticesTo, Notice
  <2>5. QED
    BY <2>1, <2>2, <2>3, <2>4
<1>2. MessagesFor(c, messages) \subseteq NoticesTo(c)
  BY <1>1 DEF MessagesFor
<1>3. QED
  BY <1>2, FiniteNotices, FS_Subset

\* Each queue that is read grows by the messages for it, once each.
LEMMA Delivered ==
    ASSUME NEW messages \in SUBSET Message, WellMeant(messages), Deliver(messages), NEW c \in Slot
    PROVE  \E q \in Seq(NoticesTo(c)) :
              /\ q \in Seq(MessagesFor(c, messages))
              /\ MessagesFor(c, messages) # {} => q # <<>>
              /\ \A m \in MessagesFor(c, messages) : \E i \in 1..Len(q) : q[i] = m
              /\ \A i, j \in 1..Len(q) : i # j => q[i] # q[j]
              /\ toClient'[c] = IF Attached(c) THEN toClient[c] \o q ELSE <<>>
<1>1. PICK q \in SetToSeqs(MessagesFor(c, messages)) :
              toClient'[c] = IF Attached(c) THEN toClient[c] \o q ELSE <<>>
  BY DEF Deliver
<1>2. IsFiniteSet(MessagesFor(c, messages)) /\ MessagesFor(c, messages) \subseteq NoticesTo(c)
  BY MeantForOne
<1>3. /\ q \in Seq(MessagesFor(c, messages))
      /\ MessagesFor(c, messages) # {} => q # <<>>
      /\ \A m \in MessagesFor(c, messages) : \E i \in 1..Len(q) : q[i] = m
      /\ \A i, j \in 1..Len(q) : i # j => q[i] # q[j]
  BY <1>2, Enumerated
<1>4. q \in Seq(NoticesTo(c))
  BY <1>2, <1>3
<1>5. QED
  BY <1>1, <1>3, <1>4

-----------------------------------------------------------------------------
(* Steps of the server in the system *)

ServerInv == TypeOK /\ SessionsAreNamed /\ ObjectInv

\* A command that is treated is a request of BabelServer, and only the handshake
\* is answered before it.
LEMMA Treated ==
    ASSUME ServerInv, NEW c \in Slot, NEW command \in Treatable, Treat(c, command)
    PROVE  /\ Request(c)
           /\ command.cmd = "HANDSHAKE" => onHandshake(c)
           /\ command.cmd # "HANDSHAKE" => Serves(c) /\ Tells(sent', c, command.cmd)
<1> DEFINE a == command.who
           own == command.cmd
<1>1. TypeOK /\ SessionsAreNamed /\ ObjectInv
  BY DEF ServerInv
<1>2. command.accept \in BOOLEAN /\ (own \notin {"HANDSHAKE", "EXIT"} => a \in Account)
  BY DEF Treatable
<1>3. CASE own = "HANDSHAKE"
  BY <1>3 DEF Treat, Request
<1>4. CASE own = "EXIT"
  <2>1. onExit(c)
    BY <1>4 DEF Treat
  <2>2. QED
    BY <1>1, <1>4, <2>1, ExitTells DEF Request, onExit
<1>5. CASE own = "REG"
  <2>1. PICK pseudo \in Pseudo, password \in Password : onReg(c, a, pseudo, password)
    BY <1>5 DEF Treat
  <2>2. Tells(sent', c, own)
    BY <1>1, <1>2, <1>5, <2>1, UpdateTells
  <2>3. QED
    BY <1>2, <1>5, <2>1, <2>2 DEF Request, onReg
<1>6. CASE own = "LOG"
  <2>1. PICK password \in Password : onLog(c, a, password)
    BY <1>6 DEF Treat
  <2>2. Tells(sent', c, "LOG")
    BY <1>1, <1>2, <1>6, <2>1, LogTells
  <2>3. QED
    BY <1>2, <1>6, <2>1, <2>2 DEF Request, onLog
<1>7. CASE own = "UPDATE"
  <2>1. PICK pseudo \in Pseudo, password \in Password, status \in StatusByte :
                onUpdate(c, a, pseudo, password, status)
    BY <1>7 DEF Treat
  <2>2. Tells(sent', c, own)
    BY <1>1, <1>2, <1>7, <2>1, UpdateTells
  <2>3. QED
    BY <1>2, <1>7, <2>1, <2>2 DEF Request, onUpdate
<1>8. CASE own \in {"SHOW", "ADD", "SEND", "CALL", "ACCEPT_CALL", "CLOSE_CALL"}
  <2>1. \/ onShow(c, a) \/ onAdd(c, a) \/ onSend(c, a)
        \/ onCall(c, a) \/ onAcceptCall(c, a, command.accept) \/ onCloseCall(c, a)
    BY <1>8 DEF Treat
  <2>2. Tells(sent', c, own)
    BY <1>1, <1>2, <1>8, <2>1, TalkTells
  <2>3. Request(c)
    BY <1>2, <1>8, <2>1 DEF Request
  <2>4. Serves(c)
    BY <2>1 DEF onShow, onAdd, onSend, onCall, onAcceptCall, onCloseCall
  <2>5. QED
    BY <1>8, <2>2, <2>3, <2>4
<1>9. CASE own \in {"ACCEPT_ADD", "DEL"}
  <2>1. onAcceptAdd(c, a, command.accept) \/ onDel(c, a)
    BY <1>9 DEF Treat
  <2>2. Tells(sent', c, own)
    BY <1>1, <1>2, <1>9, <2>1, ContactTells
  <2>3. Request(c)
    BY <1>2, <1>9, <2>1 DEF Request
  <2>4. Serves(c)
    BY <2>1 DEF onAcceptAdd, onDel
  <2>5. QED
    BY <1>9, <2>2, <2>3, <2>4
<1>10. own # "LIST"
  BY DEF Treat
<1>11. QED
  BY <1>3, <1>4, <1>5, <1>6, <1>7, <1>8, <1>9, <1>10 DEF Treatable, Instruction

\* The end of a connection is told to others only.
LEMMA ClosedTells ==
    ASSUME ServerInv, NEW c \in Slot, onSocketClosed(c)
    PROVE  Tells(sent', c, "CLOSE_CALL")
<1> DEFINE left == [client EXCEPT ![c] = Disconnected(@)]
<1>1. /\ client \in Clients /\ Greeted(client)
      /\ client[c].isConnected => client[c].account \in Account
  BY DEF ServerInv, TypeOK, Clients, Greeted, ObjectInv, SessionsAreNamed, Session
<1>2. NobodyLogsIn(client, left) /\ left[c].account = client[c].account
  BY <1>1, RecordLogins DEF NobodyLogsIn, Clients
<1> HIDE DEF left
<1>3. Greeted(left)
  BY <1>1, <1>2, GreetedBy
<1>4. client[c].isConnected => Tells(notifyMyFriendsOfModificationAboutMe(left, c), c, "CLOSE_CALL")
  BY <1>1, <1>2, <1>3, NotifyTells
<1>5. \/ sent' = {}
      \/ client[c].isConnected /\ sent' = notifyMyFriendsOfModificationAboutMe(left, c)
  BY DEF onSocketClosed, CloseConnection, Become, left
<1>6. QED
  BY <1>4, <1>5 DEF Tells

LEMMA ToldWell ==
    ASSUME NEW c \in Slot,
           \/ onHandshake(c)
           \/ \E own : Tells(sent', c, own)
    PROVE  WellMeant(sent')
<1>1. CASE onHandshake(c)
  BY <1>1 DEF onHandshake, Become, WellMeant, Tell
<1>2. CASE \E own : Tells(sent', c, own)
  BY <1>2 DEF Tells, WellMeant
<1>3. QED
  BY <1>1, <1>2

\* The steps of BabelServer that a connection brings: no kill, restart or full disk.
Serving == \E c \in Slot : Connection(c) \/ Request(c)

\* The server of the system takes such steps.
LEMMA SystemSteps ==
    ASSUME ServerInv, QueueTypes, SystemNext
    PROVE  [Serving]_vars /\ [Next]_vars
<1>1. CASE \E p \in User : ClientStep(p) \/ NoticeLoss(p)
  BY <1>1 DEF ClientStep, NoticeLoss
<1>2. CASE \E p \in User, c \in Slot : Connect(p, c)
  BY <1>2 DEF Connect, Next, Serving, Connection
<1>3. CASE \E c \in Slot : Close(c)
  BY <1>3 DEF Close, Next, Serving, Connection
<1>4. CASE \E c \in Slot : Serve(c)
  <2>1. PICK c \in Slot : toServer[c] # <<>> /\ Treat(c, Head(toServer[c]))
    BY <1>4 DEF Serve
  <2>2. Head(toServer[c]) \in Treatable
    BY <2>1 DEF QueueTypes
  <2>3. Request(c)
    BY <2>1, <2>2, Treated
  <2>4. QED
    BY <2>3 DEF Next, Serving
<1>5. QED
  BY <1>1, <1>2, <1>3, <1>4 DEF SystemNext

LEMMA ServerKept ==
    ASSUME ServerInv, [Next]_vars
    PROVE  ServerInv'
BY NextTypes, StepNames, StepObjects DEF ServerInv

-----------------------------------------------------------------------------
(* Steps of a client *)

Staying == {m \in Treatable : m.cmd # "EXIT"}
Talk == {m \in Treatable : m.cmd \notin {"LOG", "EXIT"}}

\* A user's command, or one lost with the connection: logging out is the only
\* one that turns the page.
Speaks(p, r, commands) ==
    /\ r \in AppRec /\ WellNamed(r) /\ r.conn = app[p].conn
    /\ Turn(p, r, commands) /\ toClient' = toClient
    /\ commands \in Seq(Treatable)
    /\ r.mLoggedUser = Null => app[p].mLoggedUser = Null /\ commands \in Seq(Unlogged)
    /\ r.conn # Null =>
          /\ r.mHasHandshaked = app[p].mHasHandshaked
          /\ \/ r.page = app[p].page /\ commands \in Seq(Staying)
             \/ app[p].page = "main" /\ r.page = "flyer" /\ commands = <<disconnect>>

\* The next message is read: an answer turns the page, and only the handshake
\* is one.
Reads(p, r, commands) ==
    LET c == app[p].conn
        m == Head(toClient[c])
    IN  /\ c # Null /\ toClient[c] # <<>>
        /\ r \in AppRec /\ WellNamed(r) /\ r.conn = c
        /\ Turn(p, r, commands) /\ toClient' = [toClient EXCEPT ![c] = Tail(@)]
        /\ commands \in Seq(Talk)
        /\ r.mLoggedUser = app[p].mLoggedUser
        /\ r.mHasHandshaked = (app[p].mHasHandshaked \/ m.cmd = "HANDSHAKE")
        /\ m.cmd # "ERR" => r.page = app[p].page
        /\ m.cmd = "ERR" => r.page = IF m.instruction = "LOG" THEN "main" ELSE "flyer"

\* The commands that ServerCommunication builds.
LEMMA CommandTypes ==
    /\ disconnect \in Treatable /\ disconnect \in Unlogged /\ <<>> \in Seq(Treatable)
    /\ <<>> \in Seq(Talk) /\ <<>> \in Seq(Staying) /\ <<>> \in Seq(Unlogged)
    /\ \A a \in Account, accept \in BOOLEAN :
          /\ authenticate(a) \in Staying
          /\ \A m \in {createAccount(a), updateInfo(a), getContactInfo(a), addContact(a),
                       acceptContactInvitation(a, accept), deleteContact(a), sendMessage(a),
                       call(a), acceptCallInvitation(a, accept), terminateCall(a)} :
                m \in Talk
BY DEF Treatable, Unlogged, Talk, Staying, Command, Instruction, disconnect, authenticate,
       createAccount, updateInfo, getContactInfo, addContact, acceptContactInvitation,
       deleteContact, sendMessage, call, acceptCallInvitation, terminateCall

LEMMA CommandSets ==
    /\ Talk \subseteq Treatable /\ Talk \subseteq Unlogged /\ Talk \subseteq Staying
    /\ Unlogged \subseteq Treatable /\ Staying \subseteq Treatable
    /\ Seq(Talk) \subseteq Seq(Treatable) /\ Seq(Talk) \subseteq Seq(Unlogged)
    /\ Seq(Talk) \subseteq Seq(Staying)
    /\ Seq(Staying) \subseteq Seq(Treatable) /\ Seq(Unlogged) \subseteq Seq(Treatable)
<1>1. /\ Talk \subseteq Treatable /\ Talk \subseteq Unlogged /\ Talk \subseteq Staying
      /\ Unlogged \subseteq Treatable /\ Staying \subseteq Treatable
  BY DEF Talk, Unlogged, Staying
<1>2. \A S, T : S \subseteq T => Seq(S) \subseteq Seq(T)
  OBVIOUS
<1>3. QED
  BY <1>1, <1>2

\* Sending a command, or losing it with the connection.
LEMMA CommandSent ==
    ASSUME NEW p \in User, app[p] \in AppRec, WellNamed(app[p]), NEW r \in AppRec, WellNamed(r),
           r.conn = app[p].conn, r.mHasHandshaked = app[p].mHasHandshaked,
           NEW command \in Treatable, sendCommand(p, r, command), toClient' = toClient,
           r.mLoggedUser = Null => app[p].mLoggedUser = Null /\ command \in Unlogged,
           \/ r.page = app[p].page /\ command \in Staying
           \/ app[p].page = "main" /\ r.page = "flyer" /\ command = disconnect
    PROVE  \E q, commands : Speaks(p, q, commands)
<1>1. CASE r.conn = Null
  <2>1. /\ onDisconnection(r) \in AppRec /\ WellNamed(onDisconnection(r))
        /\ onDisconnection(r).conn = Null /\ onDisconnection(r).mLoggedUser = r.mLoggedUser
    BY DisconnectedRecord DEF WellNamed
  <2>2. Turn(p, onDisconnection(r), <<>>)
    BY <1>1 DEF sendCommand
  <2>3. Speaks(p, onDisconnection(r), <<>>)
    BY <1>1, <2>1, <2>2, CommandTypes DEF Speaks
  <2>4. QED
    BY <2>3
<1>2. CASE r.conn # Null
  <2>1. Turn(p, r, <<command>>)
    BY <1>2 DEF sendCommand
  <2>2. /\ <<command>> \in Seq(Treatable)
        /\ command \in Unlogged => <<command>> \in Seq(Unlogged)
        /\ command \in Staying => <<command>> \in Seq(Staying)
    OBVIOUS
  <2>3. Speaks(p, r, <<command>>)
    BY <1>2, <2>1, <2>2 DEF Speaks
  <2>4. QED
    BY <2>3
<1>3. QED
  BY <1>1, <1>2

\* Whatever a user does is such a command.
LEMMA Spoken ==
    ASSUME NEW p \in User, app[p] \in AppRec, WellNamed(app[p]), Use(p)
    PROVE  \E r, commands : Speaks(p, r, commands)
<1> DEFINE me == app[p]
<1>1. CASE \E a \in Login[p] : askForAuthentication(p, a) \/ submitInscription(p, a)
  <2>1. PICK a \in Login[p] : askForAuthentication(p, a) \/ submitInscription(p, a)
    BY <1>1
  <2>2. a \in Account /\ a # Null
    BY SystemAssumption, NullAssumption
  <2>3. CASE askForAuthentication(p, a)
    <3> DEFINE r == [app[p] EXCEPT !.mLoggedUser = a]
    <3>1. /\ r \in AppRec /\ WellNamed(r) /\ r.conn = me.conn
          /\ r.mHasHandshaked = me.mHasHandshaked
          /\ r.mLoggedUser # Null /\ r.page = me.page
      BY <2>2 DEF AppRec, WellNamed
    <3>2. sendCommand(p, r, authenticate(a)) /\ toClient' = toClient
      BY <2>3 DEF askForAuthentication, Asks
    <3>3. authenticate(a) \in Staying /\ authenticate(a) \in Treatable
      BY <2>2, CommandTypes, CommandSets
    <3> HIDE DEF r
    <3>4. QED
      BY <3>1, <3>2, <3>3, CommandSent
  <2>4. CASE submitInscription(p, a)
    <3>1. sendCommand(p, app[p], createAccount(a)) /\ toClient' = toClient
      BY <2>4 DEF submitInscription, Asks
    <3>2. createAccount(a) \in Talk
      BY <2>2, CommandTypes
    <3>3. QED
      BY <3>1, <3>2, CommandSent, CommandSets
  <2>5. QED
    BY <2>1, <2>3, <2>4
<1>2. CASE \E a \in Account \ {app[p].mLoggedUser} :
              \/ onAddContactButtonClicked(p, a) \/ onDeleteButtonClicked(p, a)
              \/ onSendButtonClicked(p, a) \/ onCallButtonClicked(p, a)
  <2>1. PICK a \in Account :
              \/ onAddContactButtonClicked(p, a) \/ onDeleteButtonClicked(p, a)
              \/ onSendButtonClicked(p, a) \/ onCallButtonClicked(p, a)
    BY <1>2
  <2>2. toClient' = toClient
    BY <2>1 DEF onAddContactButtonClicked, onDeleteButtonClicked, onSendButtonClicked,
                onCallButtonClicked, Asks
  <2>3. \E command \in {addContact(a), deleteContact(a), sendMessage(a), call(a),
                        terminateCall(me.mContactInCall)} :
           /\ sendCommand(p, app[p], command)
           /\ command = terminateCall(me.mContactInCall) => me.mIsCall \/ command \in Talk
    <3>1. call(a) \in Talk /\ addContact(a) \in Talk /\ deleteContact(a) \in Talk /\ sendMessage(a) \in Talk
      BY CommandTypes
    <3>2. CASE onAddContactButtonClicked(p, a) \/ onDeleteButtonClicked(p, a) \/ onSendButtonClicked(p, a)
      BY <3>1, <3>2 DEF onAddContactButtonClicked, onDeleteButtonClicked, onSendButtonClicked, Asks
    <3>3. CASE onCallButtonClicked(p, a)
      <4>1. sendCommand(p, app[p], IF me.mIsCall THEN terminateCall(me.mContactInCall) ELSE call(a))
        BY <3>3 DEF onCallButtonClicked, Asks
      <4>2. QED
        BY <3>1, <4>1
    <3>4. QED
      BY <2>1, <3>2, <3>3
  <2>4. \E command \in Talk : sendCommand(p, app[p], command)
    <3>1. me.mIsCall => me.mContactInCall \in Account
      BY DEF WellNamed
    <3>2. me.mIsCall => terminateCall(me.mContactInCall) \in Talk
      BY <3>1, CommandTypes
    <3>3. QED
      BY <2>3, <3>2, CommandTypes
  <2>5. QED
    BY <2>2, <2>4, CommandSent, CommandSets
<1>3. CASE submitUpdate(p)
  <2>1. sendCommand(p, app[p], updateInfo(me.mLoggedUser)) /\ toClient' = toClient /\ me.page = "main"
    BY <1>3 DEF submitUpdate, Asks, Input, updateContactInfo
  <2>2. updateInfo(me.mLoggedUser) \in Talk
    BY <2>1, CommandTypes DEF WellNamed
  <2>3. QED
    BY <2>1, <2>2, CommandSent, CommandSets
<1>4. CASE onLogoutButtonClicked(p)
  <2> DEFINE r == [app[p] EXCEPT !.page = "flyer"]
  <2>1. sendCommand(p, r, disconnect) /\ toClient' = toClient /\ me.page = "main"
    BY <1>4 DEF onLogoutButtonClicked, Asks, Input
  <2>2. /\ r \in AppRec /\ WellNamed(r) /\ r.conn = me.conn
        /\ r.mHasHandshaked = me.mHasHandshaked
        /\ r.mLoggedUser = me.mLoggedUser /\ r.page = "flyer"
    BY DEF AppRec, WellNamed, Page
  <2> HIDE DEF r
  <2>3. QED
    BY <2>1, <2>2, CommandSent, CommandTypes
<1>5. CASE \E accept \in BOOLEAN : newContactInvitation(p, accept) \/ newCallInvitation(p, accept)
  <2> DEFINE r == [app[p] EXCEPT !.question = NoQuestion]
             who == me.question.who
  <2>1. PICK accept \in BOOLEAN : newContactInvitation(p, accept) \/ newCallInvitation(p, accept)
    BY <1>5
  <2>2. /\ me.question.kind # "none" /\ toClient' = toClient
        /\ \E command \in {acceptContactInvitation(who, accept), acceptCallInvitation(who, accept)} :
              sendCommand(p, r, command)
    BY <2>1 DEF newContactInvitation, newCallInvitation, Replies
  <2>3. who \in Account
    BY <2>2 DEF WellNamed
  <2>4. acceptContactInvitation(who, accept) \in Talk /\ acceptCallInvitation(who, accept) \in Talk
    BY <2>3, CommandTypes
  <2>5. /\ r \in AppRec /\ WellNamed(r) /\ r.conn = me.conn
        /\ r.mHasHandshaked = me.mHasHandshaked
        /\ r.mLoggedUser = me.mLoggedUser /\ r.page = me.page
    BY DEF AppRec, WellNamed, NoQuestion
  <2> HIDE DEF r, who
  <2>6. QED
    BY <2>2, <2>4, <2>5, CommandSent, CommandSets
<1>6. QED
  BY <1>1, <1>2, <1>3, <1>4, <1>5 DEF Use

\* Whatever is received is read like that: the slots of a message keep the
\* session, but for those of an answer.
LEMMA Heard ==
    ASSUME NEW p \in User, QueueTypes, NamesKnown, Handle(p)
    PROVE  \E r, commands : Reads(p, r, commands)
<1> DEFINE me == app[p]
           c == me.conn
           m == Head(toClient[c])
           Hears(r, commands) == /\ r \in AppRec /\ WellNamed(r) /\ SameSession(me, r)
                                 /\ Turn(p, r, commands) /\ commands \in Seq(Talk)
<1>1. /\ me \in AppRec /\ WellNamed(me)
      /\ (c # Null /\ me.mLoggedUser = Null) => toClient[c] \in Seq(Unanswered)
  BY DEF QueueTypes, NamesKnown
<1>2. PICK cmd \in {"HANDSHAKE", "SHOW", "DEL", "SEND", "ADD", "CALL", "ACCEPT_CALL", "CLOSE_CALL", "ERR"} :
          Receives(p, cmd)
  BY DEF Handle, handleHandshakeCommand, handleShowCommand, handleDelCommand, handleSendCommand,
         handleAddCommand, handleCallCommand, handleAcceptCallCommand, handleCloseCallCommand,
         handleErrCommand
<1>3. /\ c # Null /\ toClient[c] # <<>> /\ me.question = NoQuestion
      /\ toClient' = [toClient EXCEPT ![c] = Tail(@)] /\ m.cmd = cmd
  BY <1>2 DEF Receives
<1>4. c \in Slot
  BY <1>1, <1>3 DEF AppRec
<1>5. m \in Notice
  BY <1>3, <1>4 DEF QueueTypes
<1>6. m.cmd \notin {"ERR", "HANDSHAKE"} => m.who \in Account
  BY <1>5 DEF Notice, Answer, Greeting, News
<1>7. m.cmd = "ACCEPT_CALL" => m.accept \in BOOLEAN
  BY <1>5 DEF Notice, Answer, Greeting, News
<1>8. m.cmd = "ERR" => m.instruction \in {"LOG", "EXIT"}
  BY <1>5 DEF Notice, Answer, Greeting, News
<1> HIDE DEF m
<1>9. ASSUME NEW r, NEW commands, Hears(r, commands), m.cmd \notin {"ERR", "HANDSHAKE"}
      PROVE  Reads(p, r, commands)
  BY <1>1, <1>3, <1>9 DEF Reads, SameSession, m, AppRec
<1>10. Received(p) = m
  BY DEF Received, m
<1>11. CASE handleHandshakeCommand(p)
  <2> DEFINE r == [app[p] EXCEPT !.mHasHandshaked = TRUE]
  <2>1. Turn(p, r, <<>>) /\ m.cmd = "HANDSHAKE"
    BY <1>11 DEF handleHandshakeCommand, Receives, m
  <2>2. /\ r \in AppRec /\ WellNamed(r) /\ r.conn = c /\ r.mLoggedUser = me.mLoggedUser
        /\ r.mHasHandshaked /\ r.page = me.page
    BY <1>1 DEF AppRec, WellNamed
  <2> HIDE DEF r
  <2>3. Reads(p, r, <<>>)
    BY <1>3, <2>1, <2>2, CommandTypes DEF Reads, m
  <2>4. QED
    BY <2>3
<1>12. CASE handleShowCommand(p) \/ handleDelCommand(p)
  <2>1. m.cmd \in {"SHOW", "DEL"}
        /\ \/ Turn(p, receiveContactInfo(me, m.who), <<>>)
           \/ Turn(p, receiveContactDeletion(me, m.who), <<>>)
    BY <1>12, <1>10 DEF handleShowCommand, handleDelCommand, Receives, m
  <2>2. \A q \in {receiveContactInfo(me, m.who), receiveContactDeletion(me, m.who)} :
           q \in AppRec /\ WellNamed(q) /\ SameSession(me, q)
    BY <1>1, <1>6, <2>1, SlotRecords
  <2>3. QED
    BY <1>9, <2>1, <2>2, CommandTypes
<1>13. CASE handleSendCommand(p)
  <2>1. m.cmd = "SEND" /\ Turn(p, me, <<>>)
    BY <1>13 DEF handleSendCommand, Receives, m
  <2>2. SameSession(me, me)
    BY DEF SameSession
  <2>3. QED
    BY <1>1, <1>9, <2>1, <2>2, CommandTypes
<1>14. CASE handleAddCommand(p) \/ handleCallCommand(p)
  <2> DEFINE r(kind) == [app[p] EXCEPT !.question = [kind |-> kind, who |-> m.who]]
  <2>1. m.cmd \in {"ADD", "CALL"} /\ \E kind \in {"ADD", "CALL"} : Turn(p, r(kind), <<>>)
    BY <1>14, <1>10 DEF handleAddCommand, handleCallCommand, Receives, m
  <2>2. ASSUME NEW kind \in {"ADD", "CALL"}
        PROVE  r(kind) \in AppRec /\ WellNamed(r(kind)) /\ SameSession(me, r(kind))
    <3>1. m.who \in Account
      BY <1>6, <2>1
    <3>2. QED
      BY <1>1, <3>1 DEF AppRec, WellNamed, SameSession
  <2> HIDE DEF r
  <2>3. QED
    BY <1>9, <2>1, <2>2, CommandTypes
<1>15. CASE handleAcceptCallCommand(p)
  <2> DEFINE taken(devices) == receiveCallAnswer(me, m.who, m.accept, devices)
             r(devices) == startCommunication(taken(devices), m.who, m.accept)
  <2>1. /\ m.cmd = "ACCEPT_CALL"
        /\ \E devices : Turn(p, r(devices), criticalErrorHappenedInCallManager(m.who, devices))
    BY <1>15, <1>10 DEF handleAcceptCallCommand, Receives, m
  <2>2. m.who \in Account /\ m.accept \in BOOLEAN
    BY <1>6, <1>7, <2>1
  <2>3. ASSUME NEW devices
        PROVE  r(devices) \in AppRec /\ WellNamed(r(devices)) /\ SameSession(me, r(devices))
    <3>1. taken(devices) \in AppRec /\ WellNamed(taken(devices)) /\ SameSession(me, taken(devices))
      BY <1>1, <2>2, SlotRecords
    <3> HIDE DEF taken
    <3>2. r(devices) \in AppRec /\ WellNamed(r(devices)) /\ SameSession(taken(devices), r(devices))
      BY <2>2, <3>1, SlotRecords
    <3>3. QED
      BY <3>1, <3>2 DEF SameSession
  <2>4. \A devices : criticalErrorHappenedInCallManager(m.who, devices) \in Seq(Talk)
    <3>1. terminateCall(m.who) \in Talk
      BY <2>2, CommandTypes
    <3>2. <<terminateCall(m.who)>> \in Seq(Talk)
      BY <3>1
    <3>3. QED
      BY <3>2, CommandTypes DEF criticalErrorHappenedInCallManager
  <2> HIDE DEF r
  <2>5. QED
    BY <1>9, <2>1, <2>3, <2>4
<1>16. CASE handleCloseCallCommand(p)
  <2> DEFINE taken == receiveCallClose(me, m.who)
             r == terminateCommunication(taken)
  <2>1. m.cmd = "CLOSE_CALL" /\ Turn(p, r, <<>>)
    BY <1>16, <1>10 DEF handleCloseCallCommand, Receives, m
  <2>2. m.who \in Account
    BY <1>6, <2>1
  <2>3. taken \in AppRec /\ WellNamed(taken) /\ SameSession(me, taken)
    BY <1>1, <2>2, SlotRecords
  <2> HIDE DEF taken
  <2>4. r \in AppRec /\ WellNamed(r) /\ SameSession(taken, r)
    BY <2>2, <2>3, SlotRecords
  <2>5. SameSession(me, r)
    BY <2>3, <2>4 DEF SameSession
  <2> HIDE DEF r
  <2>6. QED
    BY <1>9, <2>1, <2>4, <2>5, CommandTypes
<1>17. CASE handleErrCommand(p)
  <2>1. m.cmd = "ERR"
    BY <1>17 DEF handleErrCommand, Receives, m
  <2>2. CASE m.instruction = "LOG"
    <3> DEFINE r == authenticateSuccess(me)
    <3>1. Turn(p, r, <<getContactInfo(me.mLoggedUser)>>)
      BY <1>17, <1>10, <2>2 DEF handleErrCommand
    <3>2. me.mLoggedUser \in Account
      <4>1. CASE me.mLoggedUser = Null
        <5>1. m \in Unanswered
          BY <1>1, <1>3, <4>1 DEF m
        <5>2. QED
          BY <2>1, <2>2, <5>1 DEF Unanswered
      <4>2. QED
        BY <1>1, <4>1 DEF AppRec
    <3>3. <<getContactInfo(me.mLoggedUser)>> \in Seq(Talk)
      <4>1. getContactInfo(me.mLoggedUser) \in Talk
        BY <3>2, CommandTypes
      <4>2. QED
        BY <4>1
    <3>4. /\ r \in AppRec /\ WellNamed(r) /\ r.conn = c /\ r.mLoggedUser = me.mLoggedUser
          /\ r.mHasHandshaked = me.mHasHandshaked /\ r.page = "main"
      BY <1>1, <1>3, <3>2 DEF authenticateSuccess, AppRec, WellNamed, Page
    <3> HIDE DEF r
    <3>5. Reads(p, r, <<getContactInfo(me.mLoggedUser)>>)
      BY <1>1, <1>3, <2>1, <2>2, <3>1, <3>3, <3>4 DEF Reads, m, AppRec
    <3>6. QED
      BY <3>5
  <2>3. CASE m.instruction = "EXIT"
    <3> DEFINE r == disconnectSuccess(receiveServerAnswerForDisconnecting(me))
    <3>1. Turn(p, r, <<>>)
      BY <1>17, <1>10, <2>3 DEF handleErrCommand
    <3>2. /\ r \in AppRec /\ WellNamed(r) /\ r.conn = c /\ r.mLoggedUser = me.mLoggedUser
          /\ r.mHasHandshaked = me.mHasHandshaked /\ r.page = "flyer"
      BY <1>1 DEF disconnectSuccess, receiveServerAnswerForDisconnecting, stopCall, AppRec, WellNamed, Page
    <3> HIDE DEF r
    <3>3. Reads(p, r, <<>>)
      BY <1>1, <1>3, <2>1, <2>3, <3>1, <3>2, CommandTypes DEF Reads, m, AppRec
    <3>4. QED
      BY <3>3
  <2>4. QED
    BY <1>8, <2>1, <2>2, <2>3
<1>18. QED
  BY <1>11, <1>12, <1>13, <1>14, <1>15, <1>16, <1>17 DEF Handle

-----------------------------------------------------------------------------
(* The invariant of the system *)

SystemInv == ServerInv /\ QueueTypes /\ NamesKnown /\ OwnConnections

LEMMA QueueFacts ==
    ASSUME NEW S
    PROVE  /\ <<>> \in Seq(S)
           /\ \A q \in Seq(S) : q # <<>> => Head(q) \in S /\ Tail(q) \in Seq(S)
OBVIOUS

\* Only d's request own is answered.
AnswersOnly(messages, d, own) ==
    \A m \in messages : m.cmd = "ERR" => m.instruction \in Plain \/ (m.to = d /\ m.instruction = own)

AnswersFor(q, c, d, own) ==
    \A i \in 1..Len(q) : q[i].cmd = "ERR" => c = d /\ q[i].instruction = own

LEMMA Lengthened ==
    ASSUME NEW messages \in SUBSET Message, WellMeant(messages), NEW d, NEW own,
           AnswersOnly(messages, d, own), Deliver(messages), NEW c \in Slot
    PROVE  \E q \in Seq(NoticesTo(c)) :
              /\ q \in Seq(MessagesFor(c, messages))
              /\ MessagesFor(c, messages) # {} => q # <<>>
              /\ \A m \in MessagesFor(c, messages) : \E i \in 1..Len(q) : q[i] = m
              /\ \A i, j \in 1..Len(q) : i # j => q[i] # q[j]
              /\ toClient'[c] = IF Attached(c) THEN toClient[c] \o q ELSE <<>>
              /\ AnswersFor(q, c, d, own)
<1>1. ASSUME NEW m \in MessagesFor(c, messages), m.cmd = "ERR"
      PROVE  c = d /\ m.instruction = own
  <2>1. PICK n \in messages : n.to = c /\ Effective(n) /\ m = Reduced(n)
    BY <1>1 DEF MessagesFor
  <2>2. n.cmd = "ERR" /\ m = n
    BY <1>1, <2>1 DEF Reduced, Tell
  <2>3. QED
    BY <2>1, <2>2 DEF AnswersOnly, Effective, Plain
<1>2. PICK q \in Seq(NoticesTo(c)) :
              /\ q \in Seq(MessagesFor(c, messages))
              /\ MessagesFor(c, messages) # {} => q # <<>>
              /\ \A m \in MessagesFor(c, messages) : \E i \in 1..Len(q) : q[i] = m
              /\ \A i, j \in 1..Len(q) : i # j => q[i] # q[j]
              /\ toClient'[c] = IF Attached(c) THEN toClient[c] \o q ELSE <<>>
  BY Delivered
<1>3. \A i \in 1..Len(q) : q[i].cmd = "ERR" => c = d /\ q[i].instruction = own
  <2>1. \A i \in 1..Len(q) : q[i] \in MessagesFor(c, messages)
    BY <1>2
  <2>2. QED
    BY <1>1, <2>1
<1>4. QED
  BY <1>2, <1>3 DEF AnswersFor

\* How the queues of the server's messages change, once a step has sent its messages.
LEMMA Queued ==
    ASSUME NEW messages \in SUBSET Message, WellMeant(messages), NEW d, NEW own,
           AnswersOnly(messages, d, own), QueueTypes, Deliver(messages)
    PROVE  /\ toClient' \in [Slot -> Seq(Notice)]
           /\ \A c \in Slot : \E q \in Seq(NoticesTo(c)) :
                 /\ toClient'[c] = IF Attached(c) THEN toClient[c] \o q ELSE <<>>
                 /\ \A i \in 1..Len(q) : q[i].cmd = "ERR" => c = d /\ q[i].instruction = own
<1>1. ASSUME NEW c \in Slot
      PROVE  /\ toClient'[c] \in Seq(Notice)
             /\ \E q \in Seq(NoticesTo(c)) :
                   /\ toClient'[c] = IF Attached(c) THEN toClient[c] \o q ELSE <<>>
                   /\ \A i \in 1..Len(q) : q[i].cmd = "ERR" => c = d /\ q[i].instruction = own
  <2>1. PICK q \in Seq(NoticesTo(c)) :
              /\ toClient'[c] = IF Attached(c) THEN toClient[c] \o q ELSE <<>>
              /\ \A i \in 1..Len(q) : q[i].cmd = "ERR" => c = d /\ q[i].instruction = own
    BY Lengthened DEF AnswersFor
  <2>2. q \in Seq(Notice)
    BY <2>1 DEF NoticesTo
  <2>3. toClient'[c] \in Seq(Notice)
    BY <2>1, <2>2 DEF QueueTypes
  <2>4. QED
    BY <2>1, <2>3
<1>2. DOMAIN toClient' = Slot /\ toClient' = [c \in Slot |-> toClient'[c]]
  BY DEF Deliver
<1>3. QED
  BY <1>1, <1>2

\* What a command, or the end of a connection, adds to the queues.
LEMMA ServerSends ==
    ASSUME ServerInv, QueueTypes, NEW d \in Slot, Serve(d) \/ Close(d)
    PROVE  /\ sent' \in SUBSET Message /\ WellMeant(sent') /\ Deliver(sent')
           /\ Serve(d) => AnswersOnly(sent', d, Head(toServer[d]).cmd)
           /\ Close(d) => AnswersOnly(sent', d, "CLOSE_CALL")
<1>1. ServerInv'
  <2>1. SystemNext
    BY DEF SystemNext
  <2>2. QED
    BY <2>1, SystemSteps, ServerKept
<1>2. sent' \in SUBSET Message /\ Deliver(sent')
  BY <1>1 DEF ServerInv, TypeOK, Serve, Close
<1>3. ASSUME Serve(d)
      PROVE  WellMeant(sent') /\ AnswersOnly(sent', d, Head(toServer[d]).cmd)
  <2>1. toServer[d] # <<>> /\ Treat(d, Head(toServer[d])) /\ Head(toServer[d]) \in Treatable
    BY <1>3 DEF Serve, QueueTypes
  <2>2. onHandshake(d) \/ Tells(sent', d, Head(toServer[d]).cmd)
    BY <2>1, Treated
  <2>3. WellMeant(sent')
    BY <2>2, ToldWell
  <2>4. AnswersOnly(sent', d, Head(toServer[d]).cmd)
    BY <2>2 DEF AnswersOnly, Tells, onHandshake, Become, Tell
  <2>5. QED
    BY <2>3, <2>4
<1>4. ASSUME Close(d)
      PROVE  WellMeant(sent') /\ AnswersOnly(sent', d, "CLOSE_CALL")
  <2>1. Tells(sent', d, "CLOSE_CALL")
    BY <1>4, ClosedTells DEF Close
  <2>2. WellMeant(sent')
    BY <2>1, ToldWell
  <2>3. AnswersOnly(sent', d, "CLOSE_CALL")
    BY <2>1 DEF AnswersOnly, Tells
  <2>4. QED
    BY <2>2, <2>3
<1>5. QED
  BY <1>2, <1>3, <1>4

\* The queues after a step of the server.
LEMMA ServerQueues ==
    ASSUME SystemInv, NEW d \in Slot, Serve(d) \/ Close(d)
    PROVE  QueueTypes' /\ NamesKnown' /\ OwnConnections'
<1> USE DEF SystemInv
<1> DEFINE own == IF Serve(d) THEN Head(toServer[d]).cmd ELSE "CLOSE_CALL"
<1>1. /\ sent' \in SUBSET Message /\ WellMeant(sent') /\ Deliver(sent')
      /\ AnswersOnly(sent', d, own)
  BY ServerSends
<1>2. /\ app' = app
      /\ \/ toServer' = [toServer EXCEPT ![d] = Tail(@)] /\ toServer[d] # <<>>
         \/ toServer' = [toServer EXCEPT ![d] = <<>>]
  BY DEF Serve, Close
<1>3. /\ toServer \in [Slot -> Seq(Treatable)]
      /\ app \in [User -> AppRec]
  BY DEF QueueTypes
<1>4. own = "LOG" => toServer[d] # <<>> /\ Head(toServer[d]).cmd = "LOG"
  BY DEF Serve
<1> HIDE DEF own
<1>5. /\ toClient' \in [Slot -> Seq(Notice)]
      /\ \A c \in Slot : \E q \in Seq(NoticesTo(c)) :
            /\ toClient'[c] = IF Attached(c) THEN toClient[c] \o q ELSE <<>>
            /\ \A i \in 1..Len(q) : q[i].cmd = "ERR" => c = d /\ q[i].instruction = own
  BY <1>1, Queued
<1>6. toServer' \in [Slot -> Seq(Treatable)] /\ \A c \in Slot \ {d} : toServer'[c] = toServer[c]
  <2>1. ASSUME NEW x \in Seq(Treatable), toServer' = [toServer EXCEPT ![d] = x]
        PROVE  toServer' \in [Slot -> Seq(Treatable)] /\ \A c \in Slot \ {d} : toServer'[c] = toServer[c]
    BY <1>3, <2>1
  <2>2. <<>> \in Seq(Treatable) /\ (toServer[d] # <<>> => Tail(toServer[d]) \in Seq(Treatable))
    BY <1>3, QueueFacts
  <2>3. QED
    BY <1>2, <2>1, <2>2
<1>7. QueueTypes'
  BY <1>2, <1>3, <1>5, <1>6 DEF QueueTypes
<1>8. ASSUME NEW p \in User, app[p].conn # Null, app[p].mLoggedUser = Null
      PROVE  toServer'[app[p].conn] \in Seq(Unlogged) /\ toClient'[app[p].conn] \in Seq(Unanswered)
  <2> DEFINE c == app[p].conn
  <2>1. c \in Slot
    BY <1>3, <1>8 DEF AppRec
  <2>2. toServer[c] \in Seq(Unlogged) /\ toClient[c] \in Seq(Unanswered)
    BY <1>8 DEF NamesKnown
  <2>3. toServer'[c] \in Seq(Unlogged)
    <3>1. CASE c = d
      <4>1. toServer'[d] = <<>> \/ (toServer[d] # <<>> /\ toServer'[d] = Tail(toServer[d]))
        BY <1>2, <1>3
      <4>2. QED
        BY <2>2, <3>1, <4>1, QueueFacts
    <3>2. CASE c # d
      BY <1>6, <2>1, <2>2, <3>2
    <3>3. QED
      BY <3>1, <3>2
  <2>4. PICK q \in Seq(NoticesTo(c)) :
            /\ toClient'[c] = IF Attached(c) THEN toClient[c] \o q ELSE <<>>
            /\ \A i \in 1..Len(q) : q[i].cmd = "ERR" => c = d /\ q[i].instruction = own
    BY <1>5, <2>1
  <2>5. c = d => own # "LOG"
    BY <1>4, <2>2 DEF Unlogged
  <2>6. \A i \in 1..Len(q) : q[i] \in Unanswered
    BY <2>4, <2>5 DEF NoticesTo, Unanswered
  <2>7. q \in Seq(Unanswered)
    BY <2>6
  <2>8. QED
    BY <2>2, <2>3, <2>4, <2>7
<1>9. NamesKnown'
  BY <1>2, <1>8 DEF NamesKnown
<1>10. OwnConnections'
  BY <1>2 DEF OwnConnections
<1>11. QED
  BY <1>7, <1>9, <1>10

\* The queues after a step of a client.
LEMMA SpokenQueues ==
    ASSUME SystemInv, NEW p \in User, NEW r, NEW commands, Speaks(p, r, commands)
    PROVE  QueueTypes' /\ NamesKnown' /\ OwnConnections'
<1> USE DEF SystemInv
<1>1. /\ app \in [User -> AppRec] /\ toServer \in [Slot -> Seq(Treatable)]
      /\ toClient \in [Slot -> Seq(Notice)]
  BY DEF QueueTypes
<1>2. /\ r \in AppRec /\ WellNamed(r) /\ r.conn = app[p].conn /\ toClient' = toClient
      /\ app' = [app EXCEPT ![p] = r] /\ commands \in Seq(Treatable)
      /\ toServer' = IF r.conn = Null THEN toServer ELSE [toServer EXCEPT ![r.conn] = @ \o commands]
      /\ r.mLoggedUser = Null => app[p].mLoggedUser = Null /\ commands \in Seq(Unlogged)
  BY DEF Speaks, Turn
<1>3. r.conn \in Slot \cup {Null}
  BY <1>2 DEF AppRec
<1>4. toServer' \in [Slot -> Seq(Treatable)] /\ app' \in [User -> AppRec]
  BY <1>1, <1>2, <1>3
<1>5. ASSUME NEW u \in User
      PROVE  /\ WellNamed(app'[u]) /\ app'[u].conn = app[u].conn
             /\ (app'[u].conn # Null /\ app'[u].mLoggedUser = Null) =>
                   /\ toServer'[app'[u].conn] \in Seq(Unlogged)
                   /\ toClient'[app'[u].conn] \in Seq(Unanswered)
  <2>1. /\ WellNamed(app[u])
        /\ (app[u].conn # Null /\ app[u].mLoggedUser = Null) =>
                   /\ toServer[app[u].conn] \in Seq(Unlogged)
                   /\ toClient[app[u].conn] \in Seq(Unanswered)
    BY DEF NamesKnown
  <2>2. CASE u = p
    <3>1. app'[u] = r
      BY <1>1, <1>2, <2>2
    <3>2. r.conn # Null => toServer'[r.conn] = toServer[r.conn] \o commands
      BY <1>1, <1>2, <1>3
    <3>3. QED
      BY <1>2, <2>1, <2>2, <3>1, <3>2
  <2>3. CASE u # p
    <3>1. app'[u] = app[u]
      BY <1>1, <1>2, <2>3
    <3>2. app[u].conn # Null => toServer'[app[u].conn] = toServer[app[u].conn]
      BY <1>1, <1>2, <1>3, <2>3 DEF OwnConnections
    <3>3. QED
      BY <1>2, <2>1, <3>1, <3>2
  <2>4. QED
    BY <2>2, <2>3
<1>6. QueueTypes'
  BY <1>1, <1>2, <1>4 DEF QueueTypes
<1>7. NamesKnown'
  BY <1>5 DEF NamesKnown
<1>8. OwnConnections'
  BY <1>5 DEF OwnConnections
<1>9. QED
  BY <1>6, <1>7, <1>8

LEMMA HeardQueues ==
    ASSUME SystemInv, NEW p \in User, NEW r, NEW commands, Reads(p, r, commands)
    PROVE  QueueTypes' /\ NamesKnown' /\ OwnConnections'
<1> USE DEF SystemInv
<1> DEFINE c == app[p].conn
<1>1. /\ app \in [User -> AppRec] /\ toServer \in [Slot -> Seq(Treatable)]
      /\ toClient \in [Slot -> Seq(Notice)]
  BY DEF QueueTypes
<1>2. /\ c # Null /\ toClient[c] # <<>> /\ r \in AppRec /\ WellNamed(r) /\ r.conn = c
      /\ toClient' = [toClient EXCEPT ![c] = Tail(@)]
      /\ app' = [app EXCEPT ![p] = r] /\ commands \in Seq(Talk)
      /\ toServer' = [toServer EXCEPT ![c] = @ \o commands]
      /\ r.mLoggedUser = app[p].mLoggedUser
  BY DEF Reads, Turn
<1>3. c \in Slot /\ commands \in Seq(Treatable) /\ commands \in Seq(Unlogged)
  BY <1>1, <1>2, CommandSets DEF AppRec
<1>4. /\ toServer' \in [Slot -> Seq(Treatable)] /\ app' \in [User -> AppRec]
      /\ toClient' \in [Slot -> Seq(Notice)]
  BY <1>1, <1>2, <1>3
<1>5. ASSUME NEW u \in User
      PROVE  /\ WellNamed(app'[u]) /\ app'[u].conn = app[u].conn
             /\ (app'[u].conn # Null /\ app'[u].mLoggedUser = Null) =>
                   /\ toServer'[app'[u].conn] \in Seq(Unlogged)
                   /\ toClient'[app'[u].conn] \in Seq(Unanswered)
  <2>1. /\ WellNamed(app[u])
        /\ (app[u].conn # Null /\ app[u].mLoggedUser = Null) =>
                   /\ toServer[app[u].conn] \in Seq(Unlogged)
                   /\ toClient[app[u].conn] \in Seq(Unanswered)
    BY DEF NamesKnown
  <2>2. CASE u = p
    <3>1. app'[u] = r
      BY <1>1, <1>2, <2>2
    <3>2. toServer'[c] = toServer[c] \o commands /\ toClient'[c] = Tail(toClient[c])
      BY <1>1, <1>2, <1>3
    <3>3. QED
      BY <1>2, <1>3, <2>1, <2>2, <3>1, <3>2
  <2>3. CASE u # p
    <3>1. app'[u] = app[u]
      BY <1>1, <1>2, <2>3
    <3>2. app[u].conn # Null => /\ toServer'[app[u].conn] = toServer[app[u].conn]
                                /\ toClient'[app[u].conn] = toClient[app[u].conn]
      BY <1>1, <1>2, <1>3, <2>3 DEF OwnConnections
    <3>3. QED
      BY <1>2, <2>1, <3>1, <3>2
  <2>4. QED
    BY <2>2, <2>3
<1>6. QueueTypes'
  BY <1>4 DEF QueueTypes
<1>7. NamesKnown'
  BY <1>5 DEF NamesKnown
<1>8. OwnConnections'
  BY <1>5 DEF OwnConnections
<1>9. QED
  BY <1>6, <1>7, <1>8

\* A new connection, and the loss of one.
LEMMA LinkQueues ==
    ASSUME SystemInv, NEW p \in User,
           NoticeLoss(p) \/ \E c \in Slot : Connect(p, c)
    PROVE  QueueTypes' /\ NamesKnown' /\ OwnConnections'
<1> USE DEF SystemInv
<1> DEFINE me == app[p]
<1>1. /\ app \in [User -> AppRec] /\ toServer \in [Slot -> Seq(Treatable)]
      /\ toClient \in [Slot -> Seq(Notice)] /\ WellNamed(me)
  BY DEF QueueTypes, NamesKnown
<1>2. me \in AppRec /\ me.conn \in Slot \cup {Null}
  BY <1>1 DEF AppRec
<1>3. CASE NoticeLoss(p)
  <2> DEFINE r == onDisconnection(me)
  <2>1. /\ r \in AppRec /\ WellNamed(r) /\ r.conn = Null
    BY <1>1, <1>2, DisconnectedRecord DEF WellNamed
  <2>2. /\ app' = [app EXCEPT ![p] = r] /\ me.conn # Null
        /\ r.conn = Null => toServer' = toServer
        /\ toClient' = [toClient EXCEPT ![me.conn] = <<>>]
    BY <1>3 DEF NoticeLoss, onSocketClosedByServer, Turn
  <2> HIDE DEF r
  <2>3. QueueTypes'
    BY <1>1, <1>2, <2>1, <2>2, QueueFacts DEF QueueTypes
  <2>4. ASSUME NEW u \in User
        PROVE  /\ WellNamed(app'[u])
               /\ app'[u].conn # Null => u # p /\ app'[u] = app[u] /\ app[u].conn # me.conn
    BY <1>1, <2>1, <2>2 DEF NamesKnown, OwnConnections
  <2>5. OwnConnections'
    BY <2>4 DEF OwnConnections
  <2>6. ASSUME NEW u \in User, app'[u].conn # Null, app'[u].mLoggedUser = Null
        PROVE  toServer'[app'[u].conn] \in Seq(Unlogged) /\ toClient'[app'[u].conn] \in Seq(Unanswered)
    <3>1. /\ toServer[app[u].conn] \in Seq(Unlogged) /\ toClient[app[u].conn] \in Seq(Unanswered)
          /\ app'[u] = app[u] /\ app[u].conn # me.conn
      BY <2>4, <2>6 DEF NamesKnown
    <3>2. toClient'[app[u].conn] = toClient[app[u].conn]
      BY <1>1, <2>2, <2>4, <2>6 DEF AppRec
    <3>3. QED
      BY <2>1, <2>2, <3>1, <3>2
  <2>7. NamesKnown'
    BY <2>4, <2>6 DEF NamesKnown
  <2>8. QED
    BY <2>3, <2>5, <2>7
<1>4. ASSUME NEW c \in Slot, Connect(p, c)
      PROVE  QueueTypes' /\ NamesKnown' /\ OwnConnections'
  <2> DEFINE q == IF me.conn = Null THEN me ELSE onDisconnection(me)
             r == [q EXCEPT !.conn = c]
  <2>1. ~Attached(c) /\ me.page = "flyer" /\ me.question = NoQuestion
    BY <1>4 DEF Connect, connectToServer, Input
  <2>2. /\ app' = [app EXCEPT ![p] = r]
        /\ toServer' = [toServer EXCEPT ![c] = <<sendHandshake>>]
        /\ toClient' = [d \in Slot |-> IF d \in {c, me.conn} THEN <<>> ELSE toClient[d]]
    BY <1>4 DEF Connect, connectToServer
  <2>3. q \in AppRec /\ WellNamed(q) /\ q.page = "flyer"
    <3>1. onDisconnection(me) \in AppRec /\ WellNamed(onDisconnection(me)) /\ onDisconnection(me).conn = Null
      BY <1>1, <1>2, DisconnectedRecord DEF WellNamed
    <3>2. QED
      BY <1>1, <1>2, <2>1, <3>1 DEF WellNamed
  <2> HIDE DEF q
  <2>4. r \in AppRec /\ WellNamed(r) /\ r.conn = c
    BY <2>3 DEF AppRec, WellNamed
  <2> HIDE DEF r
  <2>5. /\ sendHandshake \in Treatable /\ sendHandshake \in Unlogged /\ c # Null
    BY NullAssumption DEF sendHandshake, Command, Treatable, Unlogged, Instruction
  <2>6. <<sendHandshake>> \in Seq(Treatable) /\ <<sendHandshake>> \in Seq(Unlogged)
    BY <2>5
  <2>7. toServer' \in [Slot -> Seq(Treatable)] /\ toServer'[c] \in Seq(Unlogged)
        /\ toClient' \in [Slot -> Seq(Notice)] /\ toClient'[c] = <<>>
    BY <1>1, <2>2, <2>6, QueueFacts
  <2>8. QueueTypes'
    BY <1>1, <2>2, <2>4, <2>7 DEF QueueTypes
  <2>9. ASSUME NEW u \in User \ {p}
        PROVE  /\ app'[u] = app[u] /\ WellNamed(app[u]) /\ app[u].conn # c
               /\ app[u].conn # Null => app[u].conn # me.conn
    BY <1>1, <2>1, <2>2 DEF NamesKnown, OwnConnections, Attached
  <2>10. app'[p] = r
    BY <1>1, <2>2
  <2>11. OwnConnections'
    BY <2>4, <2>9, <2>10 DEF OwnConnections
  <2>12. ASSUME NEW u \in User, app'[u].conn # Null, app'[u].mLoggedUser = Null
         PROVE  toServer'[app'[u].conn] \in Seq(Unlogged) /\ toClient'[app'[u].conn] \in Seq(Unanswered)
    <3>1. CASE u = p
      BY <2>4, <2>7, <2>10, <3>1, QueueFacts
    <3>2. CASE u # p
      <4>1. /\ app'[u] = app[u] /\ app[u].conn \notin {c, me.conn} /\ app[u].conn \in Slot
            /\ toServer[app[u].conn] \in Seq(Unlogged) /\ toClient[app[u].conn] \in Seq(Unanswered)
        BY <1>1, <2>9, <2>12, <3>2 DEF NamesKnown, AppRec
      <4>2. toServer'[app[u].conn] = toServer[app[u].conn] /\ toClient'[app[u].conn] = toClient[app[u].conn]
        BY <1>1, <2>2, <4>1
      <4>3. QED
        BY <4>1, <4>2
    <3>3. QED
      BY <3>1, <3>2
  <2>13. NamesKnown'
    <3>1. \A u \in User : WellNamed(app'[u])
      BY <2>4, <2>9, <2>10
    <3>2. QED
      BY <2>12, <3>1 DEF NamesKnown
  <2>14. QED
    BY <2>8, <2>11, <2>13
<1>5. QED
  BY <1>3, <1>4

LEMMA SystemStarts == SystemInit => SystemInv
<1> SUFFICES ASSUME SystemInit
             PROVE  SystemInv
  OBVIOUS
<1>1. /\ app = [p \in User |-> NewApp]
      /\ toServer = [c \in Slot |-> <<>>] /\ toClient = [c \in Slot |-> <<>>]
  BY DEF SystemInit, ClientInit
<1>2. NewApp \in AppRec /\ WellNamed(NewApp) /\ NewApp.conn = Null
  BY DEF NewApp, AppRec, WellNamed, NoQuestion, Page
<1>3. QueueTypes
  BY <1>1, <1>2, QueueFacts DEF QueueTypes
<1>4. NamesKnown /\ OwnConnections
  BY <1>1, <1>2 DEF NamesKnown, OwnConnections
<1>5. file \in Files
  <2>1. PICK befriended \in Befriended, pseudo \in Pseudo :
          file = [a \in Account |->
                    [NoFile EXCEPT !.state = "good", !.pseudo = pseudo,
                                   !.contact = IF befriended THEN Account \ {a} ELSE {}]]
    BY DEF SystemInit
  <2>2. ASSUME NEW a \in Account, NEW contact \in SUBSET Account
        PROVE  [NoFile EXCEPT !.state = "good", !.pseudo = pseudo, !.contact = contact] \in FileRec
    BY StatusTypes DEF NoFile, FileRec
  <2>3. QED
    BY <2>1, <2>2 DEF Files
<1>6. TypeOK
  BY <1>5, ConstantTypes DEF SystemInit, TypeOK, Files
<1>7. SessionsAreNamed /\ ObjectInv
  BY DEF SystemInit, SessionsAreNamed, ObjectInv, Session, NoClient
<1>8. QED
  BY <1>3, <1>4, <1>6, <1>7 DEF SystemInv, ServerInv

LEMMA SystemKept ==
    ASSUME SystemInv, [SystemNext]_systemVars
    PROVE  SystemInv'
<1>1. CASE UNCHANGED systemVars
  <2>1. UNCHANGED <<vars, app, toServer, toClient>>
    BY <1>1 DEF systemVars, clientVars
  <2>2. ServerInv'
    BY <2>1, ServerKept DEF SystemInv
  <2>3. QED
    BY <2>1, <2>2 DEF SystemInv, QueueTypes, NamesKnown, OwnConnections
<1>2. CASE SystemNext
  <2>1. ServerInv'
    BY <1>2, SystemSteps, ServerKept DEF SystemInv
  <2>2. ASSUME NEW p \in User, ClientStep(p)
        PROVE  QueueTypes' /\ NamesKnown' /\ OwnConnections'
    <3>1. app[p] \in AppRec /\ WellNamed(app[p])
      BY DEF SystemInv, QueueTypes, NamesKnown
    <3>2. \/ \E r, commands : Speaks(p, r, commands)
          \/ \E r, commands : Reads(p, r, commands)
      BY <2>2, <3>1, Spoken, Heard DEF ClientStep, SystemInv
    <3>3. QED
      BY <3>2, SpokenQueues, HeardQueues
  <2>3. QueueTypes' /\ NamesKnown' /\ OwnConnections'
    BY <1>2, <2>2, LinkQueues, ServerQueues DEF SystemNext
  <2>4. QED
    BY <2>1, <2>3 DEF SystemInv
<1>3. QED
  BY <1>1, <1>2

LEMMA SystemInvariant == SystemSpec => []SystemInv
<1>1. SystemInv /\ [SystemNext]_systemVars => SystemInv'
  BY SystemKept
<1>2. QED
  BY <1>1, SystemStarts, PTL DEF SystemSpec

\* The server of the system is BabelServer: whatever clients send, each command is
\* one of its requests, and each connection made or lost one of its steps.
THEOREM ServerOfSystem == SystemSpec => [][Serving]_vars /\ [][Next]_vars
<1>1. SystemInv /\ [SystemNext]_systemVars => [Serving]_vars /\ [Next]_vars
  <2>1. UNCHANGED systemVars => UNCHANGED vars
    BY DEF systemVars
  <2>2. QED
    BY <2>1, SystemSteps DEF SystemInv
<1>2. QED
  BY <1>1, SystemInvariant, PTL DEF SystemSpec

LEMMA SystemLogins == SystemSpec => []LoginInv
<1>1. SystemInit => LoginInv
  <2>1. SystemInit => client = [s \in Slot |-> NoClient] /\ unwritable = {}
    BY DEF SystemInit
  <2>2. ~NoClient.isConnected
    BY DEF NoClient
  <2>3. SystemInit => Session = {}
    BY <2>1, <2>2 DEF Session
  <2>4. QED
    BY <2>1, <2>3 DEF LoginInv, NoDoubleLogin, SessionHoldsFile
<1>2. SystemInv /\ LoginInv /\ [Serving]_vars => LoginInv'
  BY SlotHeld, UnchangedHeld DEF SystemInv, ServerInv, Serving, vars
<1>3. QED
  BY <1>1, <1>2, SystemInvariant, ServerOfSystem, PTL DEF SystemSpec

\* No account is logged in twice in the system, which starts with accounts and
\* contacts: the lock of onLog is in their files, which can be written here.
THEOREM SystemLoginsExclusive == SystemSpec => [](NoDoubleLogin /\ SessionHoldsFile)
<1>1. LoginInv => NoDoubleLogin /\ SessionHoldsFile
  BY DEF LoginInv
<1>2. QED
  BY <1>1, SystemLogins, PTL

-----------------------------------------------------------------------------
(* The first message on a connection *)

\* A client that has not read the handshake will read it next, unless the server
\* has not treated its own yet; and then it is sent nothing.
GreetedInv ==
    \A p \in User :
        LET c == app[p].conn
        IN  (c # Null /\ ~app[p].mHasHandshaked) =>
               \/ toClient[c] # <<>> /\ Head(toClient[c]).cmd = "HANDSHAKE"
               \/ toClient[c] = <<>> /\ ~client[c].handshaked

\* Who has not shaken hands is sent nothing, unless it is the handshake.
LEMMA UntoldQueues ==
    ASSUME SystemInv, NEW d \in Slot, Serve(d) \/ Close(d), NEW c \in Slot, ~client[c].handshaked,
           Attached(c), toClient[c] = <<>>
    PROVE  \/ toClient'[c] = <<>> /\ ~client'[c].handshaked
           \/ toClient'[c] # <<>> /\ Head(toClient'[c]).cmd = "HANDSHAKE"
<1> USE DEF SystemInv
<1> DEFINE own == IF Serve(d) THEN Head(toServer[d]).cmd ELSE "CLOSE_CALL"
<1>1. /\ sent' \in SUBSET Message /\ WellMeant(sent') /\ Deliver(sent')
      /\ AnswersOnly(sent', d, own)
  BY ServerSends
<1> HIDE DEF own
<1>2. PICK q \in Seq(NoticesTo(c)) :
              /\ q \in Seq(MessagesFor(c, sent'))
              /\ MessagesFor(c, sent') # {} => q # <<>>
              /\ toClient'[c] = toClient[c] \o q
  BY <1>1, Delivered
<1>3. toClient'[c] = q
  BY <1>2
<1>4. q # <<>> => Head(q) \in MessagesFor(c, sent')
  BY <1>2
<1>5. ASSUME NEW m \in MessagesFor(c, sent')
      PROVE  \E n \in sent' : n.to = c /\ m = Reduced(n)
  BY DEF MessagesFor
<1>6. ASSUME NEW e, NEW x, Tells(sent', e, x)
      PROVE  toClient'[c] = <<>>
  <2>1. \A n \in sent' : n.to # c
    BY <1>6 DEF Tells
  <2>2. QED
    BY <1>3, <1>4, <1>5, <2>1
<1>7. CASE Serve(d)
  <2>1. /\ toServer[d] # <<>> /\ Treat(d, Head(toServer[d])) /\ Head(toServer[d]) \in Treatable
    BY <1>7 DEF Serve, QueueTypes
  <2> DEFINE command == Head(toServer[d])
  <2>2. /\ Request(d)
        /\ command.cmd = "HANDSHAKE" => onHandshake(d)
        /\ command.cmd # "HANDSHAKE" => Serves(d) /\ Tells(sent', d, command.cmd)
    BY <2>1, Treated
  <2> HIDE DEF command
  <2>3. CASE onHandshake(d)
    <3>1. /\ sent' = {Tell(d, "HANDSHAKE", Null)}
          /\ client' = [client EXCEPT ![d].handshaked = TRUE]
      BY <2>3 DEF onHandshake, Become
    <3>2. CASE c = d
      <4>1. \A n \in sent' : Reduced(n).cmd = "HANDSHAKE" /\ Effective(n) /\ n.to = d
        BY <3>1 DEF Reduced, Tell, Effective
      <4>2. Tell(d, "HANDSHAKE", Null) \in sent'
        BY <3>1
      <4>3. Reduced(Tell(d, "HANDSHAKE", Null)) \in MessagesFor(c, sent')
        BY <3>2, <4>1, <4>2 DEF MessagesFor
      <4>4. q # <<>> /\ Head(q).cmd = "HANDSHAKE"
        BY <1>2, <1>4, <1>5, <4>1, <4>3
      <4>5. QED
        BY <1>3, <4>4
    <3>3. CASE c # d
      <4>1. \A n \in sent' : n.to # c
        BY <3>1, <3>3 DEF Tell
      <4>2. toClient'[c] = <<>>
        BY <1>3, <1>4, <1>5, <4>1
      <4>3. client'[c] = client[c]
        BY <3>1, <3>3 DEF ServerInv, TypeOK
      <4>4. QED
        BY <4>2, <4>3
    <3>4. QED
      BY <3>2, <3>3
  <2>4. CASE ~onHandshake(d)
    <3>1. toClient'[c] = <<>>
      BY <1>6, <2>2, <2>4
    <3>2. SamePlaces(client, client') \/ \E files : Die(files, accountsFile)
      BY <2>2, <2>4, RequestPlaces DEF ServerInv
    <3>3. ~client'[c].handshaked
      BY <3>2 DEF SamePlaces, Die, NoClient
    <3>4. QED
      BY <3>1, <3>3
  <2>5. QED
    BY <2>3, <2>4
<1>8. CASE Close(d)
  <2>1. onSocketClosed(d)
    BY <1>8 DEF Close
  <2>2. toClient'[c] = <<>>
    BY <1>6, <2>1, ClosedTells
  <2>3. ~client'[c].handshaked
    <3>1. client' = [CloseConnection(d).clients EXCEPT ![d] = NoClient]
      BY <2>1 DEF onSocketClosed, Become
    <3>2. CloseConnection(d).clients \in Clients
      BY CloseConnectionTypes DEF ServerInv
    <3>3. client'[d] = NoClient /\ \A s \in Slot \ {d} : client'[s] = client[s]
      BY <3>1, <3>2, ClosedObject DEF ServerInv, Clients
    <3>4. QED
      BY <3>3 DEF NoClient
  <2>4. QED
    BY <2>2, <2>3
<1>9. QED
  BY <1>7, <1>8

LEMMA ServerGreets ==
    ASSUME SystemInv, GreetedInv, NEW d \in Slot, Serve(d) \/ Close(d)
    PROVE  GreetedInv'
<1>1. app' = app
  BY DEF Serve, Close
<1> SUFFICES ASSUME NEW p \in User, app[p].conn # Null, ~app[p].mHasHandshaked
             PROVE  LET c == app[p].conn
                    IN  \/ toClient'[c] # <<>> /\ Head(toClient'[c]).cmd = "HANDSHAKE"
                        \/ toClient'[c] = <<>> /\ ~client'[c].handshaked
  BY <1>1 DEF GreetedInv
<1> DEFINE c == app[p].conn
<1>2. c \in Slot /\ Attached(c)
  BY DEF SystemInv, QueueTypes, AppRec, Attached
<1>3. CASE toClient[c] # <<>> /\ Head(toClient[c]).cmd = "HANDSHAKE"
  <2>1. sent' \in SUBSET Message /\ WellMeant(sent') /\ Deliver(sent')
    BY ServerSends DEF SystemInv
  <2>2. PICK q \in Seq(NoticesTo(c)) : toClient'[c] = toClient[c] \o q
    BY <1>2, <2>1, Delivered
  <2>3. q \in Seq(Notice) /\ toClient[c] \in Seq(Notice)
    BY <1>2, <2>2 DEF NoticesTo, SystemInv, QueueTypes
  <2>4. toClient'[c] # <<>> /\ Head(toClient'[c]) = Head(toClient[c])
    BY <1>3, <2>2, <2>3
  <2>5. QED
    BY <1>3, <2>4
<1>4. CASE toClient[c] = <<>> /\ ~client[c].handshaked
  BY <1>2, <1>4, UntoldQueues
<1>5. QED
  BY <1>3, <1>4 DEF GreetedInv

LEMMA ClientGreeted ==
    ASSUME SystemInv, GreetedInv, NEW p \in User,
           ClientStep(p) \/ NoticeLoss(p) \/ \E c \in Slot : Connect(p, c)
    PROVE  GreetedInv'
<1> USE DEF SystemInv
<1>1. /\ app \in [User -> AppRec] /\ toClient \in [Slot -> Seq(Notice)] /\ client \in [Slot -> ClientRec]
  BY DEF QueueTypes, ServerInv, TypeOK
<1>2. CASE ClientStep(p)
  <2>1. client' = client
    BY <1>2 DEF ClientStep, vars, memory
  <2>2. PICK r, commands : Speaks(p, r, commands) \/ Reads(p, r, commands)
    <3>1. app[p] \in AppRec /\ WellNamed(app[p])
      BY DEF QueueTypes, NamesKnown
    <3>2. QED
      BY <1>2, <3>1, Spoken, Heard DEF ClientStep
  <2>3. app' = [app EXCEPT ![p] = r] /\ r.conn = app[p].conn
    BY <2>2 DEF Speaks, Reads, Turn
  <2>4. ASSUME NEW u \in User, app'[u].conn # Null, ~app'[u].mHasHandshaked
        PROVE  /\ app[u].conn = app'[u].conn /\ ~app[u].mHasHandshaked
               /\ toClient'[app[u].conn] = toClient[app[u].conn]
    <3>1. app[u].conn = app'[u].conn /\ app[u].conn \in Slot
      BY <1>1, <2>3, <2>4 DEF AppRec
    <3>2. CASE Speaks(p, r, commands)
      BY <1>1, <2>3, <2>4, <3>1, <3>2 DEF Speaks
    <3>3. CASE Reads(p, r, commands)
      <4>1. CASE u = p
        <5>1. ~app[p].mHasHandshaked /\ Head(toClient[app[p].conn]).cmd # "HANDSHAKE"
              /\ toClient[app[p].conn] # <<>> /\ app[p].conn # Null
          BY <1>1, <2>3, <2>4, <3>3, <4>1 DEF Reads
        <5>2. QED
          BY <5>1 DEF GreetedInv
      <4>2. CASE u # p
        <5>1. app[u].conn # app[p].conn
          BY <2>4, <3>1, <4>2 DEF OwnConnections
        <5>2. toClient'[app[u].conn] = toClient[app[u].conn]
          BY <1>1, <3>1, <3>3, <5>1 DEF Reads
        <5>3. QED
          BY <1>1, <2>3, <2>4, <3>1, <4>2, <5>2
      <4>3. QED
        BY <4>1, <4>2
    <3>4. QED
      BY <2>2, <3>2, <3>3
  <2>5. QED
    BY <2>1, <2>4 DEF GreetedInv
<1>3. CASE NoticeLoss(p)
  <2> DEFINE r == onDisconnection(app[p])
  <2>1. r.conn = Null
    BY <1>1 DEF onDisconnection, disconnectedFromServer, AppRec
  <2>2. /\ client' = client /\ app' = [app EXCEPT ![p] = r] /\ app[p].conn # Null
        /\ toClient' = [toClient EXCEPT ![app[p].conn] = <<>>]
    BY <1>3 DEF NoticeLoss, onSocketClosedByServer, Turn, vars, memory
  <2> HIDE DEF r
  <2>3. ASSUME NEW u \in User, app'[u].conn # Null
        PROVE  app'[u] = app[u] /\ toClient'[app[u].conn] = toClient[app[u].conn]
    <3>1. u # p /\ app'[u] = app[u]
      BY <1>1, <2>1, <2>2, <2>3
    <3>2. app[u].conn # app[p].conn /\ app[u].conn \in Slot
      BY <1>1, <2>2, <2>3, <3>1 DEF OwnConnections, AppRec
    <3>3. QED
      BY <1>1, <2>2, <3>1, <3>2
  <2>4. QED
    BY <2>2, <2>3 DEF GreetedInv
<1>4. ASSUME NEW c \in Slot, Connect(p, c)
      PROVE  GreetedInv'
  <2> DEFINE q == IF app[p].conn = Null THEN app[p] ELSE onDisconnection(app[p])
             r == [q EXCEPT !.conn = c]
  <2>1. /\ ~Attached(c) /\ app' = [app EXCEPT ![p] = r]
        /\ toClient' = [d \in Slot |-> IF d \in {c, app[p].conn} THEN <<>> ELSE toClient[d]]
        /\ client' = [client EXCEPT ![c] = NewClient]
    BY <1>4 DEF Connect, connectToServer, onNewConnection, Become
  <2>2. r.conn = c
    BY <1>1 DEF onDisconnection, disconnectedFromServer, AppRec
  <2> HIDE DEF r
  <2>3. toClient'[c] = <<>> /\ ~client'[c].handshaked
    BY <1>1, <2>1 DEF NewClient, NoClient
  <2>4. ASSUME NEW u \in User, u # p, app[u].conn # Null
        PROVE  /\ app'[u] = app[u] /\ toClient'[app[u].conn] = toClient[app[u].conn]
               /\ client'[app[u].conn] = client[app[u].conn]
    <3>1. app'[u] = app[u] /\ app[u].conn \in Slot
      BY <1>1, <2>1, <2>4 DEF AppRec
    <3>2. app[u].conn # app[p].conn /\ app[u].conn # c
      BY <2>1, <2>4 DEF OwnConnections, Attached
    <3>3. QED
      BY <1>1, <2>1, <3>1, <3>2
  <2>5. app'[p] = r
    BY <1>1, <2>1
  <2>6. \A u \in User : u # p => app'[u] = app[u]
    BY <1>1, <2>1
  <2>7. QED
    BY <2>2, <2>3, <2>4, <2>5, <2>6 DEF GreetedInv
<1>5. QED
  BY <1>2, <1>3, <1>4

\* GreetedFirst is an invariant: nothing reaches a client before the handshake,
\* not even of another session's doing, nor of the connection it had before.
THEOREM GreetedFirstHolds == SystemSpec => []GreetedFirst
<1>1. SystemInit => GreetedInv
  <2>1. SystemInit => app = [p \in User |-> NewApp]
    BY DEF SystemInit, ClientInit
  <2>2. NewApp.conn = Null
    BY DEF NewApp
  <2>3. QED
    BY <2>1, <2>2 DEF GreetedInv
<1>2. SystemInv /\ GreetedInv /\ [SystemNext]_systemVars => GreetedInv'
  <2>1. ASSUME SystemInv, GreetedInv, SystemNext
        PROVE  GreetedInv'
    BY <2>1, ServerGreets, ClientGreeted DEF SystemNext
  <2>2. GreetedInv /\ UNCHANGED systemVars => GreetedInv'
    BY DEF GreetedInv, systemVars, clientVars, vars, memory
  <2>3. QED
    BY <2>1, <2>2
<1>3. GreetedInv => GreetedFirst
  BY DEF GreetedInv, GreetedFirst
<1>4. QED
  BY <1>1, <1>2, <1>3, SystemInvariant, PTL DEF SystemSpec

-----------------------------------------------------------------------------
(* Pages and sessions *)

\* The answer to a login, and a logout under way.
Welcomes(m) == m.cmd = "ERR" /\ m.instruction = "LOG"
Leaving(r) == \E i \in 1..Len(r) : r[i].cmd = "EXIT"

\* A client shows page, its session on the server is on or off, it will read the
\* messages q and the server will treat the commands r.  A login is on its way to
\* be shown, or its end is; they never cross.
PageAgrees(page, on, q, r) ==
    /\ \A i, j \in 1..Len(q) : (i < j /\ Welcomes(q[i])) => q[j].cmd # "ERR"
    /\ \A i, j \in 1..Len(r) : (i < j /\ r[i].cmd = "EXIT") => r[j].cmd # "EXIT"
    /\ (on /\ page = "flyer") => Leaving(r) \/ \E i \in 1..Len(q) : Welcomes(q[i])
    /\ ~on => page = "flyer" /\ ~Leaving(r) /\ \A i \in 1..Len(q) : ~Welcomes(q[i])
    /\ page = "main" => ~Leaving(r)
    /\ page = "main" \/ Leaving(r) => \A i \in 1..Len(q) : q[i].cmd # "ERR"

LEMMA Joined ==
    ASSUME NEW S, NEW q \in Seq(S), NEW x \in Seq(S)
    PROVE  /\ q \o x \in Seq(S) /\ Len(q \o x) = Len(q) + Len(x)
           /\ Len(q) \in Nat /\ Len(x) \in Nat
           /\ \A i \in 1..Len(q) : i \in 1..Len(q \o x) /\ (q \o x)[i] = q[i]
           /\ \A i \in 1..Len(x) : Len(q) + i \in 1..Len(q \o x) /\ (q \o x)[Len(q) + i] = x[i]
           /\ \A i \in 1..Len(q \o x) : i \in 1..Len(q) \/ (i - Len(q) \in 1..Len(x) /\ (q \o x)[i] = x[i - Len(q)])
OBVIOUS

LEMMA Shortened ==
    ASSUME NEW S, NEW q \in Seq(S), q # <<>>
    PROVE  /\ Tail(q) \in Seq(S) /\ Len(Tail(q)) = Len(q) - 1 /\ Len(q) \in Nat \ {0}
           /\ Head(q) = q[1]
           /\ \A i \in 1..Len(Tail(q)) : i + 1 \in 1..Len(q) /\ Tail(q)[i] = q[i + 1]
           /\ \A i \in 1..Len(q) : i = 1 \/ (i - 1 \in 1..Len(Tail(q)) /\ Tail(q)[i - 1] = q[i])
OBVIOUS

\* Commands that log nobody out.
LEMMA StaysAgreed ==
    ASSUME NEW page, NEW on \in BOOLEAN, NEW q \in Seq(Notice), NEW r \in Seq(Treatable),
           PageAgrees(page, on, q, r), NEW x \in Seq(Staying)
    PROVE  PageAgrees(page, on, q, r \o x) /\ (Leaving(r \o x) <=> Leaving(r))
<1>1. x \in Seq(Treatable) /\ \A i \in 1..Len(x) : x[i].cmd # "EXIT"
  BY CommandSets DEF Staying
<1>2. Leaving(r \o x) <=> Leaving(r)
  BY <1>1, Joined DEF Leaving
<1>3. \A i, j \in 1..Len(r \o x) : (i < j /\ (r \o x)[i].cmd = "EXIT") => (r \o x)[j].cmd # "EXIT"
  <2>1. ASSUME NEW i \in 1..Len(r \o x), (r \o x)[i].cmd = "EXIT"
        PROVE  i \in 1..Len(r) /\ r[i].cmd = "EXIT"
    BY <1>1, <2>1, Joined
  <2>2. QED
    BY <2>1 DEF PageAgrees
<1>4. QED
  BY <1>2, <1>3 DEF PageAgrees

\* Logging out.
LEMMA LeavesAgreed ==
    ASSUME NEW on \in BOOLEAN, NEW q \in Seq(Notice), NEW r \in Seq(Treatable),
           PageAgrees("main", on, q, r)
    PROVE  PageAgrees("flyer", on, q, r \o <<disconnect>>)
<1>1. <<disconnect>> \in Seq(Treatable) /\ disconnect.cmd = "EXIT"
  BY CommandTypes DEF disconnect, Command
<1>2. on /\ ~Leaving(r) /\ \A i \in 1..Len(q) : q[i].cmd # "ERR"
  BY DEF PageAgrees
<1>3. ASSUME NEW i \in 1..Len(r \o <<disconnect>>), (r \o <<disconnect>>)[i].cmd = "EXIT"
      PROVE  i = Len(r) + 1
  <2>1. \A j \in 1..Len(r) : r[j].cmd # "EXIT"
    BY <1>2 DEF Leaving
  <2>2. i \notin 1..Len(r)
    BY <1>1, <1>3, <2>1, Joined
  <2>3. QED
    BY <2>2
<1>4. Leaving(r \o <<disconnect>>)
  <2>1. Len(r) + 1 \in 1..Len(r \o <<disconnect>>) /\ (r \o <<disconnect>>)[Len(r) + 1] = disconnect
    OBVIOUS
  <2>2. QED
    BY <1>1, <2>1 DEF Leaving
<1>5. QED
  BY <1>2, <1>3, <1>4 DEF PageAgrees, Welcomes

\* Reading a message.
LEMMA ReadAgreed ==
    ASSUME NEW page, NEW on \in BOOLEAN, NEW q \in Seq(Notice), NEW r \in Seq(Treatable),
           page \in Page, PageAgrees(page, on, q, r), q # <<>>
    PROVE  PageAgrees(IF Head(q).cmd # "ERR" THEN page
                      ELSE IF Head(q).instruction = "LOG" THEN "main" ELSE "flyer", on, Tail(q), r)
<1> DEFINE t == Tail(q)
           m == Head(q)
<1>1. m = q[1] /\ 1 \in 1..Len(q)
  BY Shortened
<1>2. /\ \A i \in 1..Len(t) : i + 1 \in 1..Len(q) /\ t[i] = q[i + 1]
      /\ \A i \in 1..Len(q) : i = 1 \/ (i - 1 \in 1..Len(t) /\ t[i - 1] = q[i])
  BY Shortened
<1> HIDE DEF t, m
<1>3. \A i, j \in 1..Len(t) : (i < j /\ Welcomes(t[i])) => t[j].cmd # "ERR"
  BY <1>2 DEF PageAgrees
<1>4. CASE m.cmd # "ERR"
  <2>1. (\E i \in 1..Len(q) : Welcomes(q[i])) => \E i \in 1..Len(t) : Welcomes(t[i])
    BY <1>1, <1>2, <1>4 DEF Welcomes
  <2>2. PageAgrees(page, on, t, r)
    BY <1>2, <1>3, <2>1 DEF PageAgrees
  <2>3. QED
    BY <1>4, <2>2 DEF t, m
<1>5. CASE m.cmd = "ERR" /\ m.instruction = "LOG"
  <2>1. Welcomes(q[1])
    BY <1>1, <1>5 DEF Welcomes
  <2>2. on /\ ~Leaving(r)
    BY <1>1, <1>5, <2>1 DEF PageAgrees
  <2>3. \A i \in 1..Len(t) : t[i].cmd # "ERR"
    <3>1. ASSUME NEW i \in 1..Len(t)
          PROVE  i + 1 \in 1..Len(q) /\ 1 < i + 1 /\ t[i] = q[i + 1]
      BY <1>2
    <3>2. QED
      BY <1>1, <2>1, <3>1 DEF PageAgrees
  <2>4. PageAgrees("main", on, t, r)
    BY <1>3, <2>2, <2>3 DEF PageAgrees
  <2>5. QED
    BY <1>5, <2>4 DEF t, m
<1>6. CASE m.cmd = "ERR" /\ m.instruction # "LOG"
  <2>1. page = "flyer" /\ ~Leaving(r)
    BY <1>1, <1>6 DEF PageAgrees, Page
  <2>2. (\E i \in 1..Len(q) : Welcomes(q[i])) => \E i \in 1..Len(t) : Welcomes(t[i])
    BY <1>1, <1>2, <1>6 DEF Welcomes
  <2>3. PageAgrees("flyer", on, t, r)
    BY <1>2, <1>3, <2>1, <2>2 DEF PageAgrees
  <2>4. QED
    BY <1>6, <2>3 DEF t, m
<1>7. QED
  BY <1>4, <1>5, <1>6

\* Messages that are no answers.
LEMMA ToldAgreed ==
    ASSUME NEW page, NEW on \in BOOLEAN, NEW q \in Seq(Notice), NEW r \in Seq(Treatable),
           PageAgrees(page, on, q, r), NEW x \in Seq(Notice),
           \A i \in 1..Len(x) : x[i].cmd # "ERR"
    PROVE  PageAgrees(page, on, q \o x, r)
<1> DEFINE t == q \o x
<1>1. /\ \A i \in 1..Len(q) : i \in 1..Len(t) /\ t[i] = q[i]
      /\ \A i \in 1..Len(t) : i \in 1..Len(q) \/ t[i].cmd # "ERR"
  BY Joined
<1> HIDE DEF t
<1>2. \A i, j \in 1..Len(t) : (i < j /\ Welcomes(t[i])) => t[j].cmd # "ERR"
  <2>1. ASSUME NEW i \in 1..Len(t), NEW j \in 1..Len(t), i < j, Welcomes(t[i]), t[j].cmd = "ERR"
        PROVE  i \in 1..Len(q) /\ j \in 1..Len(q) /\ Welcomes(q[i]) /\ q[j].cmd = "ERR"
    BY <1>1, <2>1 DEF Welcomes
  <2>2. QED
    BY <2>1 DEF PageAgrees
<1>3. (\E i \in 1..Len(q) : Welcomes(q[i])) => \E i \in 1..Len(t) : Welcomes(t[i])
  BY <1>1
<1>4. (\A i \in 1..Len(q) : ~Welcomes(q[i])) => \A i \in 1..Len(t) : ~Welcomes(t[i])
  BY <1>1 DEF Welcomes
<1>5. (\A i \in 1..Len(q) : q[i].cmd # "ERR") => \A i \in 1..Len(t) : t[i].cmd # "ERR"
  BY <1>1
<1>6. PageAgrees(page, on, t, r)
  BY <1>2, <1>3, <1>4, <1>5 DEF PageAgrees
<1>7. QED
  BY <1>6 DEF t

\* A command is treated that logs nobody in or out.
LEMMA TreatedAgreed ==
    ASSUME NEW page, NEW on \in BOOLEAN, NEW q \in Seq(Notice), NEW r \in Seq(Treatable),
           PageAgrees(page, on, q, r), r # <<>>, Head(r).cmd # "EXIT"
    PROVE  PageAgrees(page, on, q, Tail(r))
<1> DEFINE t == Tail(r)
<1>1. /\ \A i \in 1..Len(t) : i + 1 \in 1..Len(r) /\ t[i] = r[i + 1]
      /\ \A i \in 1..Len(r) : i = 1 \/ (i - 1 \in 1..Len(t) /\ t[i - 1] = r[i])
      /\ r[1].cmd # "EXIT"
  BY Shortened
<1> HIDE DEF t
<1>2. Leaving(t) <=> Leaving(r)
  BY <1>1 DEF Leaving
<1>3. \A i, j \in 1..Len(t) : (i < j /\ t[i].cmd = "EXIT") => t[j].cmd # "EXIT"
  <2>1. ASSUME NEW i \in 1..Len(t), NEW j \in 1..Len(t), i < j
        PROVE  /\ i + 1 \in 1..Len(r) /\ j + 1 \in 1..Len(r) /\ i + 1 < j + 1
               /\ t[i] = r[i + 1] /\ t[j] = r[j + 1]
    BY <1>1, <2>1
  <2>2. QED
    BY <2>1 DEF PageAgrees
<1>4. PageAgrees(page, on, q, t)
  BY <1>2, <1>3 DEF PageAgrees
<1>5. QED
  BY <1>4 DEF t

\* A login is treated and answered.
LEMMA LoggedAgreed ==
    ASSUME NEW page, NEW q \in Seq(Notice), NEW r \in Seq(Treatable),
           PageAgrees(page, FALSE, q, r), NEW x \in Seq(Notice),
           \A i \in 1..Len(x) : x[i].cmd = "ERR" => Welcomes(x[i]),
           \A i, j \in 1..Len(x) : x[i].cmd = "ERR" /\ x[j].cmd = "ERR" => i = j,
           \E i \in 1..Len(x) : Welcomes(x[i])
    PROVE  PageAgrees(page, TRUE, q \o x, r)
<1> DEFINE t == q \o x
<1>1. /\ \A i \in 1..Len(x) : Len(q) + i \in 1..Len(t) /\ t[Len(q) + i] = x[i]
      /\ \A i \in 1..Len(t) : \/ i \in 1..Len(q) /\ t[i] = q[i]
                              \/ i - Len(q) \in 1..Len(x) /\ t[i] = x[i - Len(q)]
      /\ Len(q) \in Nat
  BY Joined
<1> HIDE DEF t
<1>2. page = "flyer" /\ ~Leaving(r) /\ \A i \in 1..Len(q) : ~Welcomes(q[i])
  BY DEF PageAgrees
<1>3. \A i, j \in 1..Len(t) : (i < j /\ Welcomes(t[i])) => t[j].cmd # "ERR"
  <2>1. ASSUME NEW i \in 1..Len(t), NEW j \in 1..Len(t), i < j, Welcomes(t[i]), t[j].cmd = "ERR"
        PROVE  FALSE
    <3>1. i - Len(q) \in 1..Len(x) /\ x[i - Len(q)].cmd = "ERR"
      BY <1>1, <1>2, <2>1 DEF Welcomes
    <3>2. j \notin 1..Len(q)
      BY <1>1, <2>1, <3>1
    <3>3. j - Len(q) \in 1..Len(x) /\ x[j - Len(q)].cmd = "ERR"
      BY <1>1, <2>1, <3>2
    <3>4. i - Len(q) = j - Len(q)
      BY <3>1, <3>3
    <3>5. QED
      BY <1>1, <2>1, <3>4
  <2>2. QED
    BY <2>1
<1>4. \E i \in 1..Len(t) : Welcomes(t[i])
  BY <1>1
<1>5. PageAgrees(page, TRUE, t, r)
  BY <1>2, <1>3, <1>4 DEF PageAgrees
<1>6. QED
  BY <1>5 DEF t

\* A logout is treated.
LEMMA EndedAgreed ==
    ASSUME NEW page \in Page, NEW on \in BOOLEAN, NEW q \in Seq(Notice), NEW r \in Seq(Treatable),
           PageAgrees(page, on, q, r), r # <<>>, Head(r).cmd = "EXIT",
           NEW x \in Seq(Notice), \A i \in 1..Len(x) : ~Welcomes(x[i])
    PROVE  on = TRUE /\ PageAgrees(page, FALSE, q \o x, Tail(r))
<1> DEFINE t == q \o x
           s == Tail(r)
<1>1. \A i \in 1..Len(t) : (i \in 1..Len(q) /\ t[i] = q[i]) \/ ~Welcomes(t[i])
  <2>1. \A i \in 1..Len(t) : \/ i \in 1..Len(q) /\ t[i] = q[i]
                             \/ i - Len(q) \in 1..Len(x) /\ t[i] = x[i - Len(q)]
    BY Joined
  <2> HIDE DEF t
  <2>2. QED
    BY <2>1
<1>2. /\ \A i \in 1..Len(s) : i + 1 \in 1..Len(r) /\ 1 < i + 1 /\ s[i] = r[i + 1]
      /\ 1 \in 1..Len(r) /\ r[1].cmd = "EXIT"
  BY Shortened
<1> HIDE DEF t, s
<1>3. Leaving(r)
  BY <1>2 DEF Leaving
<1>4. page = "flyer" /\ on = TRUE /\ \A i \in 1..Len(q) : q[i].cmd # "ERR"
  BY <1>3 DEF PageAgrees, Page
<1>5. \A i \in 1..Len(s) : s[i].cmd # "EXIT"
  BY <1>2 DEF PageAgrees
<1>6. \A i \in 1..Len(t) : ~Welcomes(t[i])
  BY <1>1, <1>4 DEF Welcomes
<1>7. PageAgrees(page, FALSE, t, s)
  BY <1>4, <1>5, <1>6 DEF PageAgrees, Leaving
<1>8. QED
  BY <1>4, <1>7 DEF t, s

\* The session of d after its request named cmd, and how d is answered.
Turns(d, cmd) ==
    /\ \A s \in Slot \ {d} : client'[s].isConnected = client[s].isConnected
    /\ cmd \notin {"LOG", "EXIT"} => client'[d].isConnected = client[d].isConnected
    /\ cmd = "LOG" =>
          \/ /\ client'[d].isConnected = client[d].isConnected
             /\ \E code : code # "OK" /\ sent' = {Err(d, "LOG", code)}
          \/ ~client[d].isConnected /\ client'[d].isConnected /\ Err(d, "LOG", "OK") \in sent'
    /\ cmd = "EXIT" => (client[d].isConnected => ~client'[d].isConnected)

LEMMA AccountTurns ==
    ASSUME ServerInv, unwritable = {}, NEW d \in Slot, NEW a \in Account, NEW pseudo, NEW password,
           NEW status
    PROVE  /\ onReg(d, a, pseudo, password) => Turns(d, "REG")
           /\ onUpdate(d, a, pseudo, password, status) => Turns(d, "UPDATE")
           /\ onLog(d, a, password) => Turns(d, "LOG")
<1>1. client \in Clients /\ client[d] \in ClientRec
  BY DEF ServerInv, TypeOK, Clients
<1>2. ASSUME onReg(d, a, pseudo, password)
      PROVE  Turns(d, "REG")
  <2> DEFINE fresh == [client[d] EXCEPT !.account = a, !.pseudo = pseudo,
                                   !.status = DISCONNECTED, !.statusCall = "NONE",
                                   !.contact = {}, !.isConnected = FALSE]
  <2>1. fresh.isConnected = FALSE /\ client[d].isConnected \in BOOLEAN
    BY <1>1 DEF ClientRec
  <2> HIDE DEF fresh
  <2>2. RegError(d, a) \in {"OK", "CANNOT_SAVE_DATA"} => ~client[d].isConnected
    BY DEF RegError
  <2>3. \/ client' = client
        \/ ~client[d].isConnected /\ client' = [client EXCEPT ![d] = fresh]
    BY <1>2, <2>2 DEF onReg, memory, fresh
  <2>4. \A s \in Slot : client'[s].isConnected = client[s].isConnected
    BY <1>1, <2>1, <2>3 DEF Clients
  <2>5. QED
    BY <2>4 DEF Turns
<1>3. ASSUME onUpdate(d, a, pseudo, password, status)
      PROVE  Turns(d, "UPDATE")
  <2> DEFINE clients == [client EXCEPT ![d].pseudo = pseudo, ![d].status = status]
  <2>1. SameLogins(client, clients)
    BY <1>1, FieldLogins
  <2> HIDE DEF clients
  <2>2. client' = client \/ client' = clients
    BY <1>3 DEF onUpdate, Become, Send, memory, clients
  <2>3. QED
    BY <2>1, <2>2 DEF Turns, SameLogins
<1>4. ASSUME onLog(d, a, password)
      PROVE  Turns(d, "LOG")
  <2> DEFINE in == Connected(Loaded(client[d], a))
             code == LogError(d, a, password)
  <2>1. in.isConnected
    BY DEF Connected
  <2>2. LogError(d, a, password) # "CANNOT_SAVE_DATA"
        /\ (LogError(d, a, password) = "OK" => ~client[d].isConnected)
    BY DEF LogError
  <2>3. \/ /\ code = "OK" /\ client' = [client EXCEPT ![d] = in]
           /\ Err(d, "LOG", "OK") \in sent'
        \/ code # "OK" /\ client' = client /\ sent' = {Err(d, "LOG", code)}
    BY <1>4, <2>2 DEF onLog, Become, Send, memory
  <2> HIDE DEF in, code
  <2>4. CASE code = "OK"
    BY <1>1, <2>1, <2>2, <2>3, <2>4 DEF Turns, Clients, code
  <2>5. CASE code # "OK"
    BY <2>3, <2>5 DEF Turns
  <2>6. QED
    BY <2>4, <2>5
<1>5. QED
  BY <1>2, <1>3, <1>4

LEMMA ExitTurns ==
    ASSUME ServerInv, NEW d \in Slot, onExit(d)
    PROVE  Turns(d, "EXIT") \/ \E files : Die(files, accountsFile)
<1> DEFINE left(clients) == [clients EXCEPT ![d] = Disconnected(@)]
           reset(clients) == [left(clients) EXCEPT ![d] = ResetAttributes(@)]
<1>1. client \in Clients /\ file \in Files
  BY DEF ServerInv, TypeOK, Clients, Files
<1>2. ASSUME NEW clients \in Clients, SameLogins(client, clients)
      PROVE  /\ \A s \in Slot \ {d} : reset(clients)[s].isConnected = client[s].isConnected
             /\ ~reset(clients)[d].isConnected
  <2>1. left(clients)[d] = Disconnected(clients[d]) /\ reset(clients)[d] = ResetAttributes(left(clients)[d])
        /\ \A s \in Slot \ {d} : reset(clients)[s] = clients[s]
    BY DEF Clients
  <2>2. Disconnected(clients[d]) \in ClientRec /\ ~Disconnected(clients[d]).isConnected
    BY RecordTypes, RecordLogins DEF Clients
  <2>3. ~reset(clients)[d].isConnected
    BY <2>1, <2>2, RecordLogins
  <2>4. QED
    BY <1>2, <2>1, <2>3 DEF SameLogins
<1>3. ASSUME NEW a
      PROVE  /\ CloseCall(client, file, d, a).clients \in Clients
             /\ SameLogins(client, CloseCall(client, file, d, a).clients)
  BY <1>1, CloseCallTypes, CloseCallLogins
<1>4. \/ ~client[d].isConnected /\ client' = client
      \/ client' = reset(client)
      \/ \E a : client' = reset(CloseCall(client, file, d, a).clients)
      \/ \E files : Die(files, accountsFile)
  BY DEF onExit, Become, Send, memory
<1>5. SameLogins(client, client)
  BY DEF SameLogins
<1> HIDE DEF reset, left
<1>6. QED
  BY <1>1, <1>2, <1>3, <1>4, <1>5 DEF Turns

LEMMA TreatedTurns ==
    ASSUME ServerInv, unwritable = {}, NEW d \in Slot, NEW command \in Treatable, Treat(d, command)
    PROVE  Turns(d, command.cmd) \/ \E files : Die(files, accountsFile)
<1> DEFINE a == command.who
           own == command.cmd
<1>1. command.accept \in BOOLEAN /\ (own \notin {"HANDSHAKE", "EXIT"} => a \in Account)
  BY DEF Treatable
<1>2. client \in Clients
  BY DEF ServerInv, TypeOK, Clients
<1>3. SameLogins(client, client') /\ own \notin {"LOG", "EXIT"} => Turns(d, own)
  BY DEF SameLogins, Turns
<1>4. CASE own = "HANDSHAKE"
  <2>1. client' = [client EXCEPT ![d].handshaked = TRUE]
    BY <1>4 DEF Treat, onHandshake, Become
  <2>2. QED
    BY <1>2, <1>3, <1>4, <2>1, FieldLogins
<1>5. CASE own = "EXIT"
  BY <1>5, ExitTurns DEF Treat
<1>6. CASE own \in {"REG", "LOG", "UPDATE"}
  <2>1. \/ own = "REG" /\ \E pseudo, password : onReg(d, a, pseudo, password)
        \/ own = "LOG" /\ \E password : onLog(d, a, password)
        \/ own = "UPDATE" /\ \E pseudo, password, status : onUpdate(d, a, pseudo, password, status)
    BY <1>6 DEF Treat
  <2>2. QED
    BY <1>1, <1>6, <2>1, AccountTurns
<1>7. CASE own \in {"SHOW", "ADD", "SEND"}
  <2>1. client' = client
    BY <1>7 DEF Treat, onShow, onAdd, onSend, Send, memory
  <2>2. QED
    BY <1>3, <1>7, <2>1 DEF SameLogins
<1>8. CASE own \in {"CALL", "ACCEPT_CALL", "CLOSE_CALL"}
  <2>1. onCall(d, a) \/ onAcceptCall(d, a, command.accept) \/ onCloseCall(d, a)
    BY <1>8 DEF Treat
  <2>2. SameLogins(client, client')
    BY <1>1, <1>8, <2>1, CallLogins DEF ServerInv
  <2>3. QED
    BY <1>3, <1>8, <2>2
<1>9. CASE own \in {"ACCEPT_ADD", "DEL"}
  <2>1. onAcceptAdd(d, a, command.accept) \/ onDel(d, a)
    BY <1>9 DEF Treat
  <2>2. SameLogins(client, client') \/ \E files : Die(files, accountsFile)
    BY <1>1, <1>9, <2>1, ContactLogins DEF ServerInv
  <2>3. QED
    BY <1>3, <1>9, <2>2
<1>10. own # "LIST"
  BY DEF Treat
<1>11. QED
  BY <1>4, <1>5, <1>6, <1>7, <1>8, <1>9, <1>10 DEF Treatable, Instruction

\* Every client whose connection the server has not closed agrees with its session.
PageInv ==
    \A p \in User :
        LET c == app[p].conn
        IN  (c # Null /\ client[c].alive) =>
               PageAgrees(app[p].page, client[c].isConnected, toClient[c], toServer[c])

LEMMA ServePages ==
    ASSUME SystemInv, unwritable = {}, PageInv, NEW d \in Slot, Serve(d)
    PROVE  PageInv'
<1> USE DEF SystemInv
<1> DEFINE command == Head(toServer[d])
<1>1. /\ toServer \in [Slot -> Seq(Treatable)] /\ toClient \in [Slot -> Seq(Notice)]
      /\ app \in [User -> AppRec] /\ client \in [Slot -> ClientRec]
  BY DEF QueueTypes, ServerInv, TypeOK
<1>2. /\ toServer[d] # <<>> /\ Treat(d, command) /\ command \in Treatable /\ app' = app
      /\ toServer' = [toServer EXCEPT ![d] = Tail(@)]
  BY <1>1 DEF Serve
<1>3. /\ sent' \in SUBSET Message /\ WellMeant(sent') /\ Deliver(sent')
      /\ AnswersOnly(sent', d, command.cmd)
  BY ServerSends
<1>4. Turns(d, command.cmd) \/ \E files : Die(files, accountsFile)
  BY <1>2, TreatedTurns
<1>5. \A s \in Slot : client'[s].alive => client[s].alive
  <2>1. Request(d) /\ (SamePlaces(client, client') \/ onHandshake(d) \/ \E files : Die(files, accountsFile))
    BY <1>2, Treated, RequestPlaces DEF ServerInv
  <2>2. CASE onHandshake(d)
    BY <1>1, <2>2 DEF onHandshake, Become, ClientRec
  <2>3. QED
    BY <2>1, <2>2 DEF SamePlaces, Die, NoClient
<1> HIDE DEF command
<1>6. ASSUME NEW p \in User, app[p].conn # Null, client'[app[p].conn].alive
      PROVE  PageAgrees(app[p].page, client'[app[p].conn].isConnected,
                        toClient'[app[p].conn], toServer'[app[p].conn])
  <2> DEFINE c == app[p].conn
             q == toClient[c]
             r == toServer[c]
             on == client[c].isConnected
             page == app[p].page
  <2>1. /\ c \in Slot /\ Attached(c) /\ q \in Seq(Notice) /\ r \in Seq(Treatable)
        /\ on \in BOOLEAN /\ page \in Page
    BY <1>1, <1>6 DEF AppRec, Attached, ClientRec
  <2>2. PageAgrees(page, on, q, r)
    BY <1>5, <1>6, <2>1 DEF PageInv
  <2>3. Turns(d, command.cmd)
    BY <1>4, <1>6, <2>1 DEF Die, NoClient
  <2>4. PICK x \in Seq(NoticesTo(c)) :
           /\ x \in Seq(MessagesFor(c, sent'))
           /\ \A m \in MessagesFor(c, sent') : \E i \in 1..Len(x) : x[i] = m
           /\ \A i, j \in 1..Len(x) : i # j => x[i] # x[j]
           /\ toClient'[c] = q \o x
           /\ \A i \in 1..Len(x) : x[i].cmd = "ERR" => c = d /\ x[i].instruction = command.cmd
    <3> DEFINE own == command.cmd
    <3>1. AnswersOnly(sent', d, own)
      BY <1>3
    <3> HIDE DEF own, c
    <3>2. c \in Slot
      BY <2>1
    <3>3. PICK s \in Seq(NoticesTo(c)) :
              /\ s \in Seq(MessagesFor(c, sent'))
              /\ MessagesFor(c, sent') # {} => s # <<>>
              /\ \A m \in MessagesFor(c, sent') : \E i \in 1..Len(s) : s[i] = m
              /\ \A i, j \in 1..Len(s) : i # j => s[i] # s[j]
              /\ toClient'[c] = IF Attached(c) THEN toClient[c] \o s ELSE <<>>
              /\ AnswersFor(s, c, d, own)
      BY <1>3, <3>1, <3>2, Lengthened
    <3>4. toClient'[c] = toClient[c] \o s
      BY <2>1, <3>3
    <3>5. QED
      BY <3>3, <3>4 DEF own, AnswersFor
  <2>5. /\ x \in Seq(Notice)
        /\ \A i \in 1..Len(x) : x[i].cmd = "ERR" => /\ command.cmd \in {"LOG", "EXIT"}
                                                    /\ x[i] = Err(c, command.cmd, "OK")
    <3>1. ASSUME NEW m \in NoticesTo(c)
          PROVE  m \in Notice /\ (m.cmd = "ERR" => m.instruction \in {"LOG", "EXIT"} /\ m = Err(c, m.instruction, "OK"))
      BY DEF NoticesTo, Notice, Answer, Greeting, News, Err
    <3>2. \A i \in 1..Len(x) : x[i] \in NoticesTo(c)
      BY <2>4
    <3>3. x \in Seq(Notice)
      BY <2>4 DEF NoticesTo
    <3>4. QED
      BY <2>4, <3>1, <3>2, <3>3
  <2> HIDE DEF page, on
  <2>6. CASE c # d
    <3>1. \A i \in 1..Len(x) : x[i].cmd # "ERR"
      BY <2>4, <2>6
    <3>2. PageAgrees(page, on, q \o x, r)
      BY <2>1, <2>2, <2>5, <3>1, ToldAgreed
    <3>3. toServer'[c] = r /\ client'[c].isConnected = on
      BY <1>1, <1>2, <2>1, <2>3, <2>6 DEF Turns, on
    <3>4. QED
      BY <2>4, <3>2, <3>3 DEF page
  <2>7. CASE c = d /\ command.cmd # "EXIT"
    <3>1. r # <<>> /\ Head(r).cmd # "EXIT" /\ toServer'[c] = Tail(r) /\ Tail(r) \in Seq(Treatable)
      BY <1>1, <1>2, <2>1, <2>7, QueueFacts DEF command
    <3>2. PageAgrees(page, on, q, Tail(r))
      BY <2>1, <2>2, <3>1, TreatedAgreed
    <3>3. CASE client'[c].isConnected = on /\ \A i \in 1..Len(x) : x[i].cmd # "ERR"
      <4>1. PageAgrees(page, on, q \o x, Tail(r))
        BY <2>1, <2>5, <3>1, <3>2, <3>3, ToldAgreed
      <4>2. QED
        BY <2>4, <3>1, <3>3, <4>1 DEF page
    <3>4. CASE command.cmd # "LOG"
      <4>1. client'[c].isConnected = on
        BY <2>3, <2>7, <3>4 DEF Turns, on
      <4>2. \A i \in 1..Len(x) : x[i].cmd # "ERR"
        BY <2>5, <2>7, <3>4
      <4>3. QED
        BY <3>3, <4>1, <4>2
    <3>5. CASE command.cmd = "LOG" /\ \E code : code # "OK" /\ sent' = {Err(d, "LOG", code)}
                 /\ client'[d].isConnected = client[d].isConnected
      <4>1. MessagesFor(c, sent') = {}
        BY <3>5 DEF MessagesFor, Effective, Err
      <4>2. \A i \in 1..Len(x) : x[i].cmd # "ERR"
        BY <2>4, <4>1
      <4>3. QED
        BY <2>7, <3>3, <3>5, <4>2 DEF on
    <3>6. CASE /\ command.cmd = "LOG" /\ ~client[d].isConnected /\ client'[d].isConnected
               /\ Err(d, "LOG", "OK") \in sent'
      <4>1. on = FALSE /\ client'[d].isConnected = TRUE
        <5>1. client'[d].isConnected \in BOOLEAN
          <6>1. ServerInv'
            BY SystemSteps, ServerKept DEF SystemNext
          <6>2. QED
            BY <6>1 DEF ServerInv, TypeOK, ClientRec
        <5>2. QED
          BY <2>1, <2>7, <3>6, <5>1 DEF on
      <4>2. \A i \in 1..Len(x) : x[i].cmd = "ERR" => Welcomes(x[i])
        BY <2>5, <3>6 DEF Welcomes, Err
      <4>3. \A i, j \in 1..Len(x) : x[i].cmd = "ERR" /\ x[j].cmd = "ERR" => i = j
        BY <2>4, <2>5
      <4>4. \E i \in 1..Len(x) : Welcomes(x[i])
        <5>1. Effective(Err(d, "LOG", "OK")) /\ Err(d, "LOG", "OK").to = d
              /\ Reduced(Err(d, "LOG", "OK")) = Err(d, "LOG", "OK")
          BY DEF Effective, Err, Reduced
        <5>2. Err(d, "LOG", "OK") \in MessagesFor(c, sent')
          BY <2>7, <3>6, <5>1 DEF MessagesFor
        <5>3. Welcomes(Err(d, "LOG", "OK"))
          BY DEF Welcomes, Err
        <5>4. QED
          BY <2>4, <5>2, <5>3
      <4>5. PageAgrees(page, FALSE, q, Tail(r))
        BY <3>2, <4>1
      <4>6. PageAgrees(page, TRUE, q \o x, Tail(r))
        BY <2>1, <2>5, <3>1, <4>2, <4>3, <4>4, <4>5, LoggedAgreed
      <4>7. QED
        BY <2>4, <2>7, <3>1, <4>1, <4>6 DEF page
    <3>7. QED
      BY <2>3, <3>4, <3>5, <3>6 DEF Turns
  <2>8. CASE c = d /\ command.cmd = "EXIT"
    <3>1. r # <<>> /\ Head(r).cmd = "EXIT" /\ toServer'[c] = Tail(r)
      BY <1>1, <1>2, <2>1, <2>8 DEF command
    <3>2. \A i \in 1..Len(x) : ~Welcomes(x[i])
      BY <2>5, <2>8 DEF Welcomes, Err
    <3>3. on = TRUE /\ PageAgrees(page, FALSE, q \o x, Tail(r))
      <4>1. /\ page \in Page /\ on \in BOOLEAN /\ q \in Seq(Notice) /\ r \in Seq(Treatable)
            /\ r # <<>> /\ Head(r).cmd = "EXIT" /\ x \in Seq(Notice)
        BY <2>1, <2>5, <3>1
      <4> HIDE DEF q, r
      <4>2. QED
        BY <2>2, <3>2, <4>1, EndedAgreed
    <3>4. client'[d].isConnected = FALSE
      <4>1. client'[d].isConnected \in BOOLEAN
        <5>1. ServerInv'
          BY SystemSteps, ServerKept DEF SystemNext
        <5>2. QED
          BY <5>1 DEF ServerInv, TypeOK, ClientRec
      <4>2. QED
        BY <2>3, <2>8, <3>3, <4>1 DEF Turns, on
    <3>5. QED
      BY <2>4, <2>8, <3>1, <3>3, <3>4 DEF page
  <2>9. QED
    BY <2>6, <2>7, <2>8
<1>7. QED
  BY <1>2, <1>6 DEF PageInv

LEMMA ClosePages ==
    ASSUME SystemInv, PageInv, NEW d \in Slot, Close(d)
    PROVE  PageInv'
<1> USE DEF SystemInv
<1>1. /\ toServer \in [Slot -> Seq(Treatable)] /\ toClient \in [Slot -> Seq(Notice)]
      /\ app \in [User -> AppRec] /\ client \in [Slot -> ClientRec]
  BY DEF QueueTypes, ServerInv, TypeOK
<1>2. /\ onSocketClosed(d) /\ app' = app
      /\ \A s \in Slot \ {d} : toServer'[s] = toServer[s]
  BY <1>1 DEF Close
<1>3. client'[d] = NoClient /\ \A s \in Slot \ {d} : client'[s] = client[s]
  <2>1. client' = [CloseConnection(d).clients EXCEPT ![d] = NoClient]
    BY <1>2 DEF onSocketClosed, Become
  <2>2. CloseConnection(d).clients \in Clients
    BY CloseConnectionTypes DEF ServerInv
  <2>3. QED
    BY <2>1, <2>2, ClosedObject DEF ServerInv, Clients
<1>4. /\ sent' \in SUBSET Message /\ WellMeant(sent') /\ Deliver(sent')
      /\ AnswersOnly(sent', d, "CLOSE_CALL")
  BY ServerSends
<1>5. ASSUME NEW p \in User, app[p].conn # Null, client'[app[p].conn].alive
      PROVE  PageAgrees(app[p].page, client'[app[p].conn].isConnected,
                        toClient'[app[p].conn], toServer'[app[p].conn])
  <2> DEFINE c == app[p].conn
  <2>1. /\ c \in Slot /\ Attached(c) /\ c # d
        /\ toClient[c] \in Seq(Notice) /\ toServer[c] \in Seq(Treatable)
        /\ client[c].isConnected \in BOOLEAN
    BY <1>1, <1>3, <1>5 DEF AppRec, Attached, ClientRec, NoClient
  <2>2. /\ client'[c] = client[c] /\ toServer'[c] = toServer[c]
        /\ PageAgrees(app[p].page, client[c].isConnected, toClient[c], toServer[c])
    BY <1>2, <1>3, <1>5, <2>1 DEF PageInv
  <2> HIDE DEF c
  <2>3. PICK x \in Seq(NoticesTo(c)) :
              /\ toClient'[c] = IF Attached(c) THEN toClient[c] \o x ELSE <<>>
              /\ AnswersFor(x, c, d, "CLOSE_CALL")
    BY <1>4, <2>1, Lengthened
  <2>4. x \in Seq(Notice) /\ \A i \in 1..Len(x) : x[i].cmd # "ERR"
    BY <2>1, <2>3 DEF NoticesTo, AnswersFor
  <2>5. PageAgrees(app[p].page, client[c].isConnected, toClient[c] \o x, toServer[c])
    BY <2>1, <2>2, <2>4, ToldAgreed
  <2>6. QED
    BY <2>1, <2>2, <2>3, <2>5 DEF c
<1>6. QED
  BY <1>2, <1>5 DEF PageInv

\* A client that gives a command, or reads a message.
LEMMA TurnPages ==
    ASSUME SystemInv, PageInv, NEW p \in User, client' = client,
           NEW r, NEW commands, Speaks(p, r, commands) \/ Reads(p, r, commands)
    PROVE  PageInv'
<1> USE DEF SystemInv
<1> DEFINE c == app[p].conn
           on == client[c].isConnected
<1>1. /\ toServer \in [Slot -> Seq(Treatable)] /\ toClient \in [Slot -> Seq(Notice)]
      /\ app \in [User -> AppRec] /\ client \in [Slot -> ClientRec]
  BY DEF QueueTypes, ServerInv, TypeOK
<1>2. /\ app' = [app EXCEPT ![p] = r] /\ r.conn = c
      /\ toServer' = IF c = Null THEN toServer ELSE [toServer EXCEPT ![c] = @ \o commands]
      /\ toClient' = toClient \/ toClient' = [toClient EXCEPT ![c] = Tail(@)]
  BY DEF Speaks, Reads, Turn
<1>3. ASSUME c # Null, client[c].alive
      PROVE  PageAgrees(r.page, on, toClient'[c], toServer'[c])
  <2> DEFINE q == toClient[c]
             s == toServer[c]
             page == app[p].page
  <2>1. /\ c \in Slot /\ q \in Seq(Notice) /\ s \in Seq(Treatable) /\ on \in BOOLEAN
        /\ page \in Page /\ PageAgrees(page, on, q, s)
    BY <1>1, <1>3 DEF AppRec, ClientRec, PageInv
  <2>2. toServer'[c] = s \o commands
    BY <1>1, <1>2, <1>3, <2>1
  <2> HIDE DEF page, on
  <2>3. CASE Speaks(p, r, commands)
    <3>1. toClient'[c] = q
      BY <2>3 DEF Speaks
    <3>2. CASE r.page = app[p].page /\ commands \in Seq(Staying)
      <4>1. PageAgrees(page, on, q, s \o commands)
        BY <2>1, <3>2, StaysAgreed
      <4>2. QED
        BY <2>2, <3>1, <3>2, <4>1 DEF page
    <3>3. CASE app[p].page = "main" /\ r.page = "flyer" /\ commands = <<disconnect>>
      <4>1. PageAgrees("main", on, q, s)
        BY <2>1, <3>3 DEF page
      <4>2. PageAgrees("flyer", on, q, s \o <<disconnect>>)
        BY <2>1, <4>1, LeavesAgreed
      <4>3. QED
        BY <2>2, <3>1, <3>3, <4>2
    <3>4. QED
      BY <1>2, <1>3, <2>3, <3>2, <3>3 DEF Speaks
  <2>4. CASE Reads(p, r, commands)
    <3> DEFINE turned == IF Head(q).cmd # "ERR" THEN page
                         ELSE IF Head(q).instruction = "LOG" THEN "main" ELSE "flyer"
    <3>1. /\ q # <<>> /\ toClient'[c] = Tail(q) /\ commands \in Seq(Staying)
          /\ r.page = turned
      BY <1>1, <2>1, <2>4, CommandSets DEF Reads, page
    <3>2. PageAgrees(turned, on, Tail(q), s)
      BY <2>1, <3>1, ReadAgreed
    <3>3. Tail(q) \in Seq(Notice)
      BY <2>1, <3>1, QueueFacts
    <3> HIDE DEF turned
    <3>4. PageAgrees(turned, on, Tail(q), s \o commands)
      BY <2>1, <3>1, <3>2, <3>3, StaysAgreed
    <3>5. QED
      BY <2>2, <3>1, <3>4
  <2>5. QED
    BY <2>3, <2>4
<1>4. ASSUME NEW u \in User, u # p, app[u].conn # Null
      PROVE  /\ app'[u] = app[u] /\ toClient'[app[u].conn] = toClient[app[u].conn]
             /\ toServer'[app[u].conn] = toServer[app[u].conn]
  <2>1. app'[u] = app[u] /\ app[u].conn \in Slot /\ app[u].conn # c
    BY <1>1, <1>2, <1>4 DEF AppRec, OwnConnections
  <2>2. QED
    BY <1>1, <1>2, <2>1
<1>5. app'[p] = r
  BY <1>1, <1>2
<1>6. \A u \in User : u # p => app'[u] = app[u]
  BY <1>1, <1>2
<1>7. QED
  BY <1>2, <1>3, <1>4, <1>5, <1>6 DEF PageInv

\* A client that makes a connection, or loses one.
LEMMA LinkPages ==
    ASSUME SystemInv, PageInv, NEW p \in User, NoticeLoss(p) \/ \E c \in Slot : Connect(p, c)
    PROVE  PageInv'
<1> USE DEF SystemInv
<1>1. /\ toServer \in [Slot -> Seq(Treatable)] /\ toClient \in [Slot -> Seq(Notice)]
      /\ app \in [User -> AppRec] /\ client \in [Slot -> ClientRec]
  BY DEF QueueTypes, ServerInv, TypeOK
<1>2. CASE NoticeLoss(p)
  <2> DEFINE r == onDisconnection(app[p])
  <2>1. r.conn = Null
    BY <1>1 DEF onDisconnection, disconnectedFromServer, AppRec
  <2>2. /\ client' = client /\ app' = [app EXCEPT ![p] = r] /\ app[p].conn # Null
        /\ toServer' = toServer /\ toClient' = [toClient EXCEPT ![app[p].conn] = <<>>]
    BY <1>2, <2>1 DEF NoticeLoss, onSocketClosedByServer, Turn, vars, memory
  <2> HIDE DEF r
  <2>3. ASSUME NEW u \in User, app'[u].conn # Null
        PROVE  app'[u] = app[u] /\ toClient'[app[u].conn] = toClient[app[u].conn]
    <3>1. u # p /\ app'[u] = app[u]
      BY <1>1, <2>1, <2>2, <2>3
    <3>2. app[u].conn # app[p].conn /\ app[u].conn \in Slot
      BY <1>1, <2>2, <2>3, <3>1 DEF OwnConnections, AppRec
    <3>3. QED
      BY <1>1, <2>2, <3>1, <3>2
  <2>4. QED
    BY <2>2, <2>3 DEF PageInv
<1>3. ASSUME NEW c \in Slot, Connect(p, c)
      PROVE  PageInv'
  <2> DEFINE q == IF app[p].conn = Null THEN app[p] ELSE onDisconnection(app[p])
             r == [q EXCEPT !.conn = c]
  <2>1. /\ ~Attached(c) /\ app' = [app EXCEPT ![p] = r] /\ Input(p, "flyer")
        /\ toServer' = [toServer EXCEPT ![c] = <<sendHandshake>>]
        /\ toClient' = [d \in Slot |-> IF d \in {c, app[p].conn} THEN <<>> ELSE toClient[d]]
        /\ client' = [client EXCEPT ![c] = NewClient]
    BY <1>3 DEF Connect, connectToServer, onNewConnection, Become
  <2>2. r.conn = c /\ r.page = "flyer"
    BY <1>1, <2>1 DEF onDisconnection, disconnectedFromServer, AppRec, Input
  <2> HIDE DEF r
  <2>3. /\ toClient'[c] = <<>> /\ toServer'[c] = <<sendHandshake>> /\ ~client'[c].isConnected
        /\ client'[c].isConnected = FALSE
    BY <1>1, <2>1 DEF NewClient, NoClient
  <2>4. PageAgrees("flyer", FALSE, <<>>, <<sendHandshake>>)
    BY DEF PageAgrees, Leaving, sendHandshake, Command
  <2>5. ASSUME NEW u \in User, u # p, app[u].conn # Null
        PROVE  /\ app'[u] = app[u] /\ toClient'[app[u].conn] = toClient[app[u].conn]
               /\ toServer'[app[u].conn] = toServer[app[u].conn]
               /\ client'[app[u].conn] = client[app[u].conn]
    <3>1. app'[u] = app[u] /\ app[u].conn \in Slot
      BY <1>1, <2>1, <2>5 DEF AppRec
    <3>2. app[u].conn # app[p].conn /\ app[u].conn # c
      BY <2>1, <2>5 DEF OwnConnections, Attached
    <3>3. QED
      BY <1>1, <2>1, <3>1, <3>2
  <2>6. app'[p] = r
    BY <1>1, <2>1
  <2>7. \A u \in User : u # p => app'[u] = app[u]
    BY <1>1, <2>1
  <2>8. PageAgrees(r.page, client'[c].isConnected, toClient'[c], toServer'[c])
    BY <2>2, <2>3, <2>4
  <2>9. QED
    BY <2>2, <2>5, <2>6, <2>7, <2>8 DEF PageInv
<1>4. QED
  BY <1>2, <1>3

\* PageFollowsSession is an invariant: when nothing is under way, the window shows
\* the main page exactly to whom the server has logged in, however logins and
\* logouts, their answers, the commands between them and the losses of connections
\* followed each other.  A logout ends the session because its file can be written,
\* as those of SystemSpec always can (LoginInv).
THEOREM PageFollowsSessionHolds == SystemSpec => []PageFollowsSession
<1>1. SystemInit => PageInv
  <2>1. SystemInit => app = [p \in User |-> NewApp]
    BY DEF SystemInit, ClientInit
  <2>2. NewApp.conn = Null
    BY DEF NewApp
  <2>3. QED
    BY <2>1, <2>2 DEF PageInv
<1>2. SystemInv /\ LoginInv /\ PageInv /\ [SystemNext]_systemVars => PageInv'
  <2> SUFFICES ASSUME SystemInv, LoginInv, PageInv, [SystemNext]_systemVars
               PROVE  PageInv'
    OBVIOUS
  <2>1. CASE \E d \in Slot : Serve(d)
    BY <2>1, ServePages DEF LoginInv
  <2>2. CASE \E d \in Slot : Close(d)
    BY <2>2, ClosePages
  <2>3. CASE \E p \in User : ClientStep(p)
    <3>1. PICK p \in User : ClientStep(p)
      BY <2>3
    <3>2. client' = client
      BY <3>1 DEF ClientStep, vars, memory
    <3>3. \E r, commands : Speaks(p, r, commands) \/ Reads(p, r, commands)
      <4>1. app[p] \in AppRec /\ WellNamed(app[p])
        BY DEF SystemInv, QueueTypes, NamesKnown
      <4>2. QED
        BY <3>1, <4>1, Spoken, Heard DEF ClientStep, SystemInv
    <3>4. QED
      BY <3>2, <3>3, TurnPages
  <2>4. CASE \E p \in User : NoticeLoss(p) \/ \E c \in Slot : Connect(p, c)
    BY <2>4, LinkPages
  <2>5. CASE UNCHANGED systemVars
    BY <2>5 DEF PageInv, systemVars, clientVars, vars, memory
  <2>6. QED
    BY <2>1, <2>2, <2>3, <2>4, <2>5 DEF SystemNext
<1>3. SystemInv /\ PageInv => PageFollowsSession
  <2> SUFFICES ASSUME SystemInv, PageInv, Settled, NEW p \in User
               PROVE  (app[p].page = "main") = Online(p)
    BY DEF PageFollowsSession
  <2> DEFINE c == app[p].conn
  <2>1. /\ app[p].page \in Page /\ (c # Null => c \in Slot /\ client[c].isConnected \in BOOLEAN)
        /\ c = Null => app[p].page = "flyer"
    BY DEF SystemInv, QueueTypes, ServerInv, TypeOK, AppRec, ClientRec, NamesKnown, WellNamed
  <2>2. CASE c = Null
    BY <2>1, <2>2 DEF Online
  <2>3. CASE c # Null
    <3>1. PageAgrees(app[p].page, client[c].isConnected, <<>>, <<>>)
      BY <2>1, <2>3 DEF Settled, PageInv
    <3>2. app[p].page = "main" <=> client[c].isConnected
      BY <2>1, <2>3, <3>1 DEF PageAgrees, Leaving, Page
    <3>3. QED
      BY <2>1, <2>3, <3>2 DEF Online
  <2>4. QED
    BY <2>2, <2>3
<1>4. QED
  BY <1>1, <1>2, <1>3, SystemInvariant, SystemLogins, PTL DEF SystemSpec

-----------------------------------------------------------------------------
(* Contact lists *)

\* The answer to a logout, which empties the list of who reads it; messages that
\* take a out of the list, and that put it in: not one's own account.
Farewell(m) == m.cmd = "ERR" /\ m.instruction = "EXIT"
Ends(m, a) == Farewell(m) \/ (m.cmd = "DEL" /\ m.who = a)
Shows(m, own, a) == m.cmd = "SHOW" /\ m.who = a /\ a # own

\* None of the messages q[i + 1] .. q[n] takes a out of the list.
Spared(q, i, n, a) == \A j \in 1..n : j > i => ~Ends(q[j], a)

\* A client with this list, whose user is own, has a in it once it has read the
\* first n messages of q.
Listed(list, own, q, n, a) ==
    \/ a \in list /\ Spared(q, 0, n, a)
    \/ \E i \in 1..n : Shows(q[i], own, a) /\ Spared(q, i, n, a)

\* What follows in the queue does not matter.
LEMMA ListedLonger ==
    ASSUME NEW S, NEW q \in Seq(S), NEW x \in Seq(S), NEW n \in 0..Len(q),
           NEW list, NEW own, NEW a
    PROVE  Listed(list, own, q \o x, n, a) <=> Listed(list, own, q, n, a)
<1>1. \A i \in 1..n : (q \o x)[i] = q[i]
  BY Joined
<1> DEFINE t == q \o x
<1> HIDE DEF t
<1>2. \A i \in 1..n : t[i] = q[i]
  BY <1>1 DEF t
<1>3. \A i : Spared(t, i, n, a) <=> Spared(q, i, n, a)
  BY <1>2 DEF Spared
<1>4. Listed(list, own, t, n, a) <=> Listed(list, own, q, n, a)
  BY <1>2, <1>3 DEF Listed
<1>5. QED
  BY <1>4 DEF t

\* Reading on: the list that results from q is what x is read with.
LEMMA ListedFurther ==
    ASSUME NEW S, NEW q \in Seq(S), NEW x \in Seq(S), NEW n \in 0..Len(x),
           NEW list, NEW own, NEW a
    PROVE  Listed(list, own, q \o x, Len(q) + n, a) <=>
              \/ Listed(list, own, q, Len(q), a) /\ Spared(x, 0, n, a)
              \/ \E i \in 1..n : Shows(x[i], own, a) /\ Spared(x, i, n, a)
<1> DEFINE t == q \o x
           k == Len(q)
<1>1. /\ k \in Nat /\ \A i \in 1..k : t[i] = q[i]
      /\ \A i \in 1..n : t[k + i] = x[i]
  BY Joined
<1> HIDE DEF t, k
<1>2. \A j \in 1..(k + n) : j \in 1..k \/ j - k \in 1..n
  BY <1>1
<1>3. \A j \in 1..n : k + j \in 1..(k + n) /\ t[k + j] = x[j]
  BY <1>1
<1>4. \A j \in 1..k : j \in 1..(k + n) /\ t[j] = q[j]
  BY <1>1
<1>5. ASSUME NEW i \in 0..k
      PROVE  Spared(t, i, k + n, a) <=> Spared(q, i, k, a) /\ Spared(x, 0, n, a)
  <2>1. Spared(t, i, k + n, a) => Spared(q, i, k, a)
    BY <1>4 DEF Spared
  <2>2. ASSUME Spared(t, i, k + n, a), NEW j \in 1..n
        PROVE  ~Ends(x[j], a)
    <3>1. k + j > i
      BY <1>1
    <3>2. QED
      BY <1>3, <2>2, <3>1 DEF Spared
  <2>3. ASSUME Spared(q, i, k, a), Spared(x, 0, n, a), NEW j \in 1..(k + n), j > i
        PROVE  ~Ends(t[j], a)
    <3>1. CASE j \in 1..k
      BY <1>4, <2>3, <3>1 DEF Spared
    <3>2. CASE j - k \in 1..n
      <4>1. t[k + (j - k)] = x[j - k] /\ k + (j - k) = j
        BY <1>1, <1>3, <3>2
      <4>2. j - k > 0
        BY <3>2
      <4>3. QED
        BY <2>3, <3>2, <4>1, <4>2 DEF Spared
    <3>3. QED
      BY <1>2, <3>1, <3>2
  <2>4. QED
    BY <2>1, <2>2, <2>3 DEF Spared
<1>6. ASSUME NEW i \in 1..n
      PROVE  Spared(t, k + i, k + n, a) <=> Spared(x, i, n, a)
  <2>1. ASSUME Spared(t, k + i, k + n, a), NEW j \in 1..n, j > i
        PROVE  ~Ends(x[j], a)
    <3>1. k + j > k + i
      BY <1>1, <2>1
    <3>2. QED
      BY <1>3, <2>1, <3>1 DEF Spared
  <2>2. ASSUME Spared(x, i, n, a), NEW j \in 1..(k + n), j > k + i
        PROVE  ~Ends(t[j], a)
    <3>1. j - k \in 1..n /\ j - k > i /\ k + (j - k) = j
      BY <1>1, <1>2, <2>2
    <3>2. t[k + (j - k)] = x[j - k]
      BY <1>3, <3>1
    <3>3. QED
      BY <2>2, <3>1, <3>2 DEF Spared
  <2>3. QED
    BY <2>1, <2>2 DEF Spared
<1>7. ASSUME Listed(list, own, t, k + n, a)
      PROVE  \/ Listed(list, own, q, k, a) /\ Spared(x, 0, n, a)
             \/ \E i \in 1..n : Shows(x[i], own, a) /\ Spared(x, i, n, a)
  <2>1. CASE a \in list /\ Spared(t, 0, k + n, a)
    BY <1>1, <1>5, <2>1 DEF Listed
  <2>2. ASSUME NEW j \in 1..(k + n), Shows(t[j], own, a), Spared(t, j, k + n, a)
        PROVE  \/ Listed(list, own, q, k, a) /\ Spared(x, 0, n, a)
               \/ \E i \in 1..n : Shows(x[i], own, a) /\ Spared(x, i, n, a)
    <3>1. CASE j \in 1..k
      <4>1. j \in 0..k /\ t[j] = q[j]
        BY <1>1, <3>1
      <4>2. Spared(q, j, k, a) /\ Spared(x, 0, n, a)
        BY <1>5, <2>2, <4>1
      <4>3. QED
        BY <2>2, <3>1, <4>1, <4>2 DEF Listed
    <3>2. CASE j - k \in 1..n
      <4>1. k + (j - k) = j
        BY <1>1, <3>2
      <4>2. t[j] = x[j - k] /\ Spared(x, j - k, n, a)
        BY <1>1, <1>6, <2>2, <3>2, <4>1
      <4>3. QED
        BY <2>2, <3>2, <4>2
    <3>3. QED
      BY <1>2, <3>1, <3>2
  <2>3. QED
    BY <1>7, <2>1, <2>2 DEF Listed
<1>8. ASSUME Listed(list, own, q, k, a), Spared(x, 0, n, a)
      PROVE  Listed(list, own, t, k + n, a)
  <2>1. CASE a \in list /\ Spared(q, 0, k, a)
    BY <1>1, <1>5, <1>8, <2>1 DEF Listed
  <2>2. ASSUME NEW i \in 1..k, Shows(q[i], own, a), Spared(q, i, k, a)
        PROVE  Listed(list, own, t, k + n, a)
    <3>1. i \in 0..k /\ i \in 1..(k + n) /\ t[i] = q[i]
      BY <1>1, <1>4
    <3>2. Spared(t, i, k + n, a)
      BY <1>5, <1>8, <2>2, <3>1
    <3>3. QED
      BY <2>2, <3>1, <3>2 DEF Listed
  <2>3. QED
    BY <1>8, <2>1, <2>2 DEF Listed
<1>9. ASSUME NEW i \in 1..n, Shows(x[i], own, a), Spared(x, i, n, a)
      PROVE  Listed(list, own, t, k + n, a)
  BY <1>3, <1>6, <1>9 DEF Listed
<1>10. QED
  BY <1>7, <1>8, <1>9 DEF t, k

\* Reading one message, which leaves the list new.
LEMMA ListedRead ==
    ASSUME NEW S, NEW q \in Seq(S), q # <<>>, NEW n \in 1..Len(q),
           NEW list, NEW own, NEW a, NEW new,
           a \in new <=> Shows(Head(q), own, a) \/ (a \in list /\ ~Ends(Head(q), a))
    PROVE  Listed(list, own, q, n, a) <=> Listed(new, own, Tail(q), n - 1, a)
<1> DEFINE t == Tail(q)
<1>1. /\ Head(q) = q[1] /\ n - 1 \in Nat /\ 1 \in 1..n
      /\ \A i \in 1..(n - 1) : i + 1 \in 1..n /\ t[i] = q[i + 1]
      /\ \A i \in 1..n : i = 1 \/ (i - 1 \in 1..(n - 1) /\ t[i - 1] = q[i])
  BY Shortened
<1> HIDE DEF t
<1>2. ASSUME NEW i \in 1..n
      PROVE  Spared(q, i, n, a) <=> Spared(t, i - 1, n - 1, a)
  <2>1. ASSUME Spared(q, i, n, a), NEW j \in 1..(n - 1), j > i - 1
        PROVE  ~Ends(t[j], a)
    <3>1. j + 1 > i
      BY <2>1
    <3>2. QED
      BY <1>1, <2>1, <3>1 DEF Spared
  <2>2. ASSUME Spared(t, i - 1, n - 1, a), NEW j \in 1..n, j > i
        PROVE  ~Ends(q[j], a)
    <3>1. j # 1 /\ j - 1 > i - 1
      BY <2>2
    <3>2. j - 1 \in 1..(n - 1) /\ t[j - 1] = q[j]
      BY <1>1, <3>1
    <3>3. QED
      BY <2>2, <3>1, <3>2 DEF Spared
  <2>3. QED
    BY <2>1, <2>2 DEF Spared
<1>3. Spared(q, 0, n, a) <=> ~Ends(q[1], a) /\ Spared(q, 1, n, a)
  BY <1>1 DEF Spared
<1>4. Spared(q, 1, n, a) <=> Spared(t, 0, n - 1, a)
  BY <1>1, <1>2
<1>5. ASSUME NEW i \in 1..n, i # 1, Shows(q[i], own, a), Spared(q, i, n, a)
      PROVE  Listed(new, own, t, n - 1, a)
  BY <1>1, <1>2, <1>5 DEF Listed
<1>6. ASSUME NEW i \in 1..(n - 1), Shows(t[i], own, a), Spared(t, i, n - 1, a)
      PROVE  Listed(list, own, q, n, a)
  <2>1. i + 1 \in 1..n /\ (i + 1) - 1 = i
    BY <1>1
  <2>2. Shows(q[i + 1], own, a) /\ Spared(q, i + 1, n, a)
    BY <1>1, <1>2, <1>6, <2>1
  <2>3. QED
    BY <2>1, <2>2 DEF Listed
<1>7. ASSUME Listed(list, own, q, n, a)
      PROVE  Listed(new, own, t, n - 1, a)
  BY <1>1, <1>3, <1>4, <1>5, <1>7 DEF Listed
<1>8. ASSUME Listed(new, own, t, n - 1, a)
      PROVE  Listed(list, own, q, n, a)
  BY <1>1, <1>3, <1>4, <1>6, <1>8 DEF Listed
<1>9. QED
  BY <1>7, <1>8 DEF t

\* The list of a client whose user is own, with session s on the server, agrees
\* with it once it has read q: it is the contacts of the session, or more of them
\* if a deletion was told nobody, and empties with the session.  Whoever wrote is
\* in the list when it is read, and nobody is invited by himself.
ListAgrees(own, list, s, q, untold) ==
    /\ s.isConnected => \A a \in s.contact : Listed(list, own, q, Len(q), a)
    /\ (s.isConnected /\ ~untold) =>
          \A a \in Account : Listed(list, own, q, Len(q), a) => a \in s.contact
    /\ (s.alive /\ ~s.isConnected) =>
          /\ \A i \in 1..Len(q) :
                q[i].cmd = "SHOW" => \E j \in 1..Len(q) : j > i /\ Farewell(q[j])
          /\ list # {} => \E j \in 1..Len(q) : Farewell(q[j])
    /\ \A i \in 1..Len(q) : q[i].cmd = "SEND" => Listed(list, own, q, i - 1, q[i].who)
    /\ \A i \in 1..Len(q) : q[i].cmd = "ADD" => q[i].who # own

\* The messages x of a step that makes session old, of user own, new.
Told(x, old, new, own, untold) ==
    /\ \A i \in 1..Len(x) :
          /\ x[i].cmd = "SHOW" => new.isConnected /\ x[i].who \in new.contact \cup {own}
          /\ x[i].cmd = "SEND" =>
                /\ old.isConnected /\ new.isConnected
                /\ x[i].who \in old.contact /\ x[i].who \in new.contact
          /\ x[i].cmd = "ADD" => x[i].who # own
          /\ x[i].cmd = "DEL" => x[i].who \notin new.contact
          /\ Farewell(x[i]) => old.isConnected /\ ~new.isConnected
    /\ (old.isConnected /\ new.isConnected /\ ~untold) =>
          \A a \in old.contact \ new.contact :
             \E i \in 1..Len(x) : x[i].cmd = "DEL" /\ x[i].who = a
    /\ new.isConnected =>
          \A a \in new.contact :
             /\ a # own
             /\ \/ old.isConnected /\ a \in old.contact
                \/ \E i \in 1..Len(x) : x[i].cmd = "SHOW" /\ x[i].who = a
    /\ (old.isConnected /\ ~new.isConnected /\ new.alive) => \E i \in 1..Len(x) : Farewell(x[i])
    /\ (new.isConnected => new.alive) /\ (new.alive => old.alive)

\* The list still agrees once such messages are sent.
LEMMA ToldLists ==
    ASSUME NEW S, NEW q \in Seq(S), NEW x \in Seq(S), NEW own, NEW list, NEW old, NEW new,
           NEW before \in BOOLEAN, NEW untold \in BOOLEAN, before => untold,
           ListAgrees(own, list, old, q, before), Told(x, old, new, own, untold)
    PROVE  ListAgrees(own, list, new, q \o x, untold)
<1> DEFINE t == q \o x
           k == Len(q)
           n == Len(x)
<1>1. /\ t \in Seq(S) /\ Len(t) = k + n /\ k \in Nat /\ n \in Nat
      /\ \A i \in 1..k : i \in 1..(k + n) /\ t[i] = q[i]
      /\ \A i \in 1..n : k + i \in 1..(k + n) /\ t[k + i] = x[i]
      /\ \A i \in 1..(k + n) : i \in 1..k \/ (i - k \in 1..n /\ t[i] = x[i - k])
  BY Joined
<1>2. \A m \in 0..k : \A a : Listed(list, own, t, m, a) <=> Listed(list, own, q, m, a)
  BY ListedLonger
<1>3. \A m \in 0..n : \A a : Listed(list, own, t, k + m, a) <=>
              \/ Listed(list, own, q, k, a) /\ Spared(x, 0, m, a)
              \/ \E i \in 1..m : Shows(x[i], own, a) /\ Spared(x, i, m, a)
  BY ListedFurther
<1> HIDE DEF t, k, n
<1>4. ASSUME new.isConnected, NEW a \in new.contact, NEW m \in 0..n, NEW i \in 0..n
      PROVE  Spared(x, i, m, a)
  <2>1. ASSUME NEW j \in 1..n PROVE ~Ends(x[j], a)
    BY <1>4, <2>1 DEF Told, Ends, n
  <2>2. QED
    BY <1>1, <2>1 DEF Spared
<1>5. ASSUME new.isConnected, NEW a \in new.contact
      PROVE  Listed(list, own, t, k + n, a)
  <2>1. a # own /\ (\/ old.isConnected /\ a \in old.contact
                    \/ \E i \in 1..n : x[i].cmd = "SHOW" /\ x[i].who = a)
    BY <1>5 DEF Told, n
  <2>2. CASE old.isConnected /\ a \in old.contact
    <3>1. Listed(list, own, q, k, a)
      BY <2>2 DEF ListAgrees, k
    <3>2. Spared(x, 0, n, a)
      BY <1>1, <1>4, <1>5
    <3>3. QED
      BY <1>1, <1>3, <3>1, <3>2
  <2>3. ASSUME NEW i \in 1..n, x[i].cmd = "SHOW", x[i].who = a
        PROVE  Listed(list, own, t, k + n, a)
    <3>1. Shows(x[i], own, a)
      BY <2>1, <2>3 DEF Shows
    <3>2. Spared(x, i, n, a)
      BY <1>1, <1>4, <1>5
    <3>3. n \in 0..n /\ \E j \in 1..n : Shows(x[j], own, a) /\ Spared(x, j, n, a)
      BY <1>1, <3>1, <3>2
    <3>4. QED
      BY <1>3, <3>3
  <2>4. QED
    BY <2>1, <2>2, <2>3
<1>6. ASSUME new.isConnected, ~untold, NEW a \in Account, Listed(list, own, t, k + n, a)
      PROVE  a \in new.contact
  <2>1. \/ Listed(list, own, q, k, a) /\ Spared(x, 0, n, a)
        \/ \E i \in 1..n : Shows(x[i], own, a) /\ Spared(x, i, n, a)
    <3>1. n \in 0..n
      BY <1>1
    <3>2. Listed(list, own, t, k + n, a) <=>
              \/ Listed(list, own, q, k, a) /\ Spared(x, 0, n, a)
              \/ \E i \in 1..n : Shows(x[i], own, a) /\ Spared(x, i, n, a)
      BY <1>3, <3>1
    <3>3. QED
      BY <1>6, <3>2
  <2>2. CASE \E i \in 1..n : Shows(x[i], own, a)
    BY <2>2 DEF Shows, Told, n
  <2>3. CASE old.isConnected /\ Listed(list, own, q, k, a) /\ Spared(x, 0, n, a)
    <3>1. a \in old.contact
      BY <1>6, <2>3 DEF ListAgrees, k
    <3>2. ~\E i \in 1..n : x[i].cmd = "DEL" /\ x[i].who = a
      BY <2>3 DEF Spared, Ends
    <3>3. QED
      BY <1>6, <2>3, <3>1, <3>2 DEF Told, n
  <2>4. CASE ~old.isConnected /\ Listed(list, own, q, k, a) /\ new.alive
    <3>1. old.alive
      BY <2>4 DEF Told
    <3>2. CASE a \in list /\ Spared(q, 0, k, a)
      <4>1. PICK j \in 1..k : Farewell(q[j])
        BY <2>4, <3>1, <3>2 DEF ListAgrees, k
      <4>2. QED
        BY <3>2, <4>1 DEF Spared, Ends
    <3>3. ASSUME NEW i \in 1..k, Shows(q[i], own, a), Spared(q, i, k, a)
          PROVE  FALSE
      <4>1. PICK j \in 1..k : j > i /\ Farewell(q[j])
        BY <2>4, <3>1, <3>3 DEF ListAgrees, k, Shows
      <4>2. QED
        BY <3>3, <4>1 DEF Spared, Ends
    <3>4. QED
      BY <2>4, <3>2, <3>3 DEF Listed
  <2>5. QED
    BY <1>6, <2>1, <2>2, <2>3, <2>4 DEF Told
<1>7. ASSUME new.alive, ~new.isConnected
      PROVE  /\ \A i \in 1..(k + n) :
                   t[i].cmd = "SHOW" => \E j \in 1..(k + n) : j > i /\ Farewell(t[j])
             /\ list # {} => \E j \in 1..(k + n) : Farewell(t[j])
  <2>1. \A i \in 1..n : x[i].cmd # "SHOW"
    BY <1>7 DEF Told, n
  <2>2. CASE old.isConnected
    <3>1. PICK i \in 1..n : Farewell(x[i])
      BY <1>7, <2>2 DEF Told, n
    <3>2. k + i \in 1..(k + n) /\ Farewell(t[k + i])
      BY <1>1, <3>1
    <3>3. ASSUME NEW j \in 1..(k + n), t[j].cmd = "SHOW"
          PROVE  k + i > j
      BY <1>1, <2>1, <3>3
    <3>4. QED
      BY <3>2, <3>3
  <2>3. CASE ~old.isConnected
    <3>1. old.alive
      BY <1>7 DEF Told
    <3>2. list # {} => \E j \in 1..k : Farewell(q[j])
      BY <2>3, <3>1 DEF ListAgrees, k
    <3>3. ASSUME NEW i \in 1..(k + n), t[i].cmd = "SHOW"
          PROVE  \E j \in 1..k : j > i /\ Farewell(q[j])
      <4>1. i \in 1..k /\ q[i].cmd = "SHOW"
        BY <1>1, <2>1, <3>3
      <4>2. QED
        BY <2>3, <3>1, <4>1 DEF ListAgrees, k
    <3>4. QED
      BY <1>1, <3>2, <3>3
  <2>4. QED
    BY <2>2, <2>3
<1>8. ASSUME NEW i \in 1..(k + n), t[i].cmd = "SEND"
      PROVE  Listed(list, own, t, i - 1, t[i].who)
  <2>1. CASE i \in 1..k
    <3>1. i - 1 \in 0..k /\ t[i] = q[i]
      BY <1>1, <2>1
    <3>2. Listed(list, own, q, i - 1, q[i].who)
      BY <1>8, <2>1, <3>1 DEF ListAgrees, k
    <3>3. QED
      BY <1>2, <3>1, <3>2
  <2>2. CASE i - k \in 1..n /\ t[i] = x[i - k]
    <3>1. i - k - 1 \in 0..n /\ k + (i - k - 1) = i - 1 /\ t[i] = x[i - k]
      BY <1>1, <2>2
    <3>2. /\ old.isConnected /\ new.isConnected
          /\ t[i].who \in old.contact /\ t[i].who \in new.contact
      BY <1>8, <2>2, <3>1 DEF Told, n
    <3>3. Listed(list, own, q, k, t[i].who)
      BY <3>2 DEF ListAgrees, k
    <3>4. Spared(x, 0, i - k - 1, t[i].who)
      BY <1>1, <1>4, <3>1, <3>2
    <3>5. QED
      BY <1>3, <3>1, <3>3, <3>4
  <2>3. QED
    BY <1>1, <2>1, <2>2
<1>9. ASSUME NEW i \in 1..(k + n), t[i].cmd = "ADD"
      PROVE  t[i].who # own
  <2>1. CASE i \in 1..k
    BY <1>1, <1>9, <2>1 DEF ListAgrees, k
  <2>2. CASE i - k \in 1..n /\ t[i] = x[i - k]
    BY <1>9, <2>2 DEF Told, n
  <2>3. QED
    BY <1>1, <2>1, <2>2
<1>10. ListAgrees(own, list, new, t, untold)
  BY <1>1, <1>5, <1>6, <1>7, <1>8, <1>9 DEF ListAgrees
<1>11. QED
  BY <1>10 DEF t

\* The list still agrees once the next message is read.
LEMMA ReadLists ==
    ASSUME NEW S, NEW q \in Seq(S), q # <<>>, NEW own, NEW list, NEW after, NEW s,
           NEW untold \in BOOLEAN, ListAgrees(own, list, s, q, untold),
           \A a : a \in after <=> Shows(Head(q), own, a) \/ (a \in list /\ ~Ends(Head(q), a))
    PROVE  ListAgrees(own, after, s, Tail(q), untold)
<1> DEFINE t == Tail(q)
           k == Len(q)
<1>1. /\ Head(q) = q[1] /\ k \in Nat \ {0} /\ Len(t) = k - 1 /\ 1 \in 1..k
      /\ \A i \in 1..(k - 1) : i + 1 \in 1..k /\ t[i] = q[i + 1]
      /\ \A i \in 1..k : i = 1 \/ (i - 1 \in 1..(k - 1) /\ t[i - 1] = q[i])
  BY Shortened
<1>2. \A n \in 1..k : \A a : Listed(list, own, q, n, a) <=> Listed(after, own, t, n - 1, a)
  BY ListedRead
<1> HIDE DEF t, k
<1>3. \A a : Listed(list, own, q, k, a) <=> Listed(after, own, t, k - 1, a)
  BY <1>1, <1>2
<1>4. ASSUME s.alive, ~s.isConnected
      PROVE  /\ \A i \in 1..(k - 1) :
                   t[i].cmd = "SHOW" => \E j \in 1..(k - 1) : j > i /\ Farewell(t[j])
             /\ after # {} => \E j \in 1..(k - 1) : Farewell(t[j])
  <2>1. ASSUME NEW i \in 1..k, q[i].cmd = "SHOW"
        PROVE  \E j \in 1..(k - 1) : j > i - 1 /\ Farewell(t[j])
    <3>1. PICK j \in 1..k : j > i /\ Farewell(q[j])
      BY <1>4, <2>1 DEF ListAgrees, k
    <3>2. j - 1 \in 1..(k - 1) /\ t[j - 1] = q[j] /\ j - 1 > i - 1
      BY <1>1, <3>1
    <3>3. QED
      BY <3>1, <3>2
  <2>2. ASSUME NEW i \in 1..(k - 1), t[i].cmd = "SHOW"
        PROVE  \E j \in 1..(k - 1) : j > i /\ Farewell(t[j])
    <3>1. i + 1 \in 1..k /\ q[i + 1].cmd = "SHOW" /\ (i + 1) - 1 = i
      BY <1>1, <2>2
    <3>2. QED
      BY <2>1, <3>1
  <2>3. ASSUME NEW a \in after
        PROVE  \E j \in 1..(k - 1) : Farewell(t[j])
    <3>1. CASE Shows(q[1], own, a)
      BY <1>1, <2>1, <3>1 DEF Shows
    <3>2. CASE a \in list /\ ~Ends(q[1], a)
      <4>1. PICK j \in 1..k : Farewell(q[j])
        BY <1>4, <3>2 DEF ListAgrees, k
      <4>2. j # 1
        BY <3>2, <4>1 DEF Ends
      <4>3. QED
        BY <1>1, <4>1, <4>2
    <3>3. QED
      BY <1>1, <2>3, <3>1, <3>2
  <2>4. QED
    BY <2>2, <2>3
<1>5. ASSUME NEW i \in 1..(k - 1), t[i].cmd = "SEND"
      PROVE  Listed(after, own, t, i - 1, t[i].who)
  <2>1. i + 1 \in 1..k /\ t[i] = q[i + 1] /\ (i + 1) - 1 = i /\ i \in 1..k
    BY <1>1
  <2>2. Listed(list, own, q, i, t[i].who)
    BY <1>5, <2>1 DEF ListAgrees, k
  <2>3. QED
    BY <1>2, <2>1, <2>2
<1>6. ASSUME NEW i \in 1..(k - 1), t[i].cmd = "ADD"
      PROVE  t[i].who # own
  BY <1>1, <1>6 DEF ListAgrees, k
<1>7. ListAgrees(own, after, s, t, untold)
  BY <1>1, <1>3, <1>4, <1>5, <1>6 DEF ListAgrees, k
<1>8. QED
  BY <1>7 DEF t

\* Nor does it matter, before the login, that the user says to be another whom no
\* unread message is about.
LEMMA RenamedLists ==
    ASSUME NEW S, NEW q \in Seq(S), NEW own, NEW other, NEW list, NEW s, ~s.isConnected,
           NEW untold \in BOOLEAN, ListAgrees(own, list, s, q, untold),
           \A i \in 1..Len(q) : q[i].cmd \in {"SHOW", "ADD"} => q[i].who # other
    PROVE  ListAgrees(other, list, s, q, untold)
<1>1. ASSUME NEW n \in 0..Len(q), NEW a, Listed(list, own, q, n, a)
      PROVE  Listed(list, other, q, n, a)
  <2>1. ASSUME NEW i \in 1..n, Shows(q[i], own, a)
        PROVE  Shows(q[i], other, a)
    <3>1. i \in 1..Len(q)
      OBVIOUS
    <3>2. QED
      BY <2>1, <3>1 DEF Shows
  <2>2. QED
    BY <1>1, <2>1 DEF Listed
<1>2. ASSUME NEW i \in 1..Len(q), q[i].cmd = "SEND"
      PROVE  Listed(list, other, q, i - 1, q[i].who)
  <2>1. i - 1 \in 0..Len(q)
    OBVIOUS
  <2>2. Listed(list, own, q, i - 1, q[i].who)
    BY <1>2 DEF ListAgrees
  <2>3. QED
    BY <1>1, <2>1, <2>2
<1>3. QED
  BY <1>2 DEF ListAgrees

\* A command that would be refused when it is treated: there is no session, and no
\* login among the commands before it.
Void(on, t, i) == ~on /\ \A j \in 1..Len(t) : j < i => t[j].cmd # "LOG"

\* The commands t on their way to session s are those of user own.
NamedBy(own, s, t) ==
    /\ s.isConnected => s.account = own
    /\ \A i \in 1..Len(t) :
          /\ t[i].cmd = "LOG" => t[i].who = own
          /\ t[i].cmd = "SHOW" => t[i].who = own \/ Void(s.isConnected, t, i)
          /\ t[i].cmd = "ACCEPT_ADD" => t[i].who # own \/ Void(s.isConnected, t, i)

\* Commands a client adds for its user.
LEMMA NamedMore ==
    ASSUME NEW S, NEW t \in Seq(S), NEW x \in Seq(S), NEW own, NEW s, NamedBy(own, s, t),
           \A i \in 1..Len(x) : /\ x[i].cmd \in {"LOG", "SHOW"} => x[i].who = own
                                /\ x[i].cmd = "ACCEPT_ADD" => x[i].who # own
    PROVE  NamedBy(own, s, t \o x)
<1> DEFINE u == t \o x
           k == Len(t)
           n == Len(x)
<1>1. /\ Len(u) = k + n /\ k \in Nat /\ n \in Nat
      /\ \A i \in 1..k : u[i] = t[i]
      /\ \A i \in 1..(k + n) : i \in 1..k \/ (i - k \in 1..n /\ u[i] = x[i - k])
  BY Joined
<1> HIDE DEF u, k, n
<1>2. ASSUME NEW i \in 1..k, NEW on, Void(on, t, i)
      PROVE  Void(on, u, i)
  <2>1. ASSUME NEW j \in 1..(k + n), j < i
        PROVE  u[j].cmd # "LOG"
    <3>1. j \in 1..k
      BY <1>1, <2>1
    <3>2. QED
      BY <1>1, <1>2, <2>1, <3>1 DEF Void, k
  <2>2. QED
    BY <1>1, <1>2, <2>1 DEF Void
<1>3. ASSUME NEW i \in 1..(k + n)
      PROVE  /\ u[i].cmd = "LOG" => u[i].who = own
             /\ u[i].cmd = "SHOW" => u[i].who = own \/ Void(s.isConnected, u, i)
             /\ u[i].cmd = "ACCEPT_ADD" => u[i].who # own \/ Void(s.isConnected, u, i)
  <2>1. CASE i \in 1..k
    BY <1>1, <1>2, <2>1 DEF NamedBy, k
  <2>2. CASE i - k \in 1..n /\ u[i] = x[i - k]
    BY <2>2 DEF n
  <2>3. QED
    BY <1>1, <2>1, <2>2
<1>4. NamedBy(own, s, u)
  BY <1>1, <1>3 DEF NamedBy
<1>5. QED
  BY <1>4 DEF u

\* The user says to be other, without a session or a login under way.
LEMMA NamedAnew ==
    ASSUME NEW S, NEW t \in Seq(S), NEW x \in Seq(S), NEW other, NEW s, ~s.isConnected,
           \A i \in 1..Len(t) : t[i].cmd # "LOG",
           Len(x) = 1, x[1].cmd = "LOG", x[1].who = other
    PROVE  NamedBy(other, s, t \o x)
<1>1. NamedBy(other, s, t)
  BY DEF NamedBy, Void
<1>2. QED
  BY <1>1, NamedMore

\* The first command has been treated, which has made session old new; or another
\* session's command has.
LEMMA NamedLess ==
    ASSUME NEW S, NEW t \in Seq(S), NEW own, NEW old, NEW new, NamedBy(own, old, t),
           old.isConnected \in BOOLEAN, new.isConnected \in BOOLEAN,
           (old.isConnected /\ new.isConnected) => new.account = old.account
    PROVE  /\ (new.isConnected => old.isConnected) => NamedBy(own, new, t)
           /\ (t # <<>> /\ ((~old.isConnected /\ new.isConnected) =>
                               Head(t).cmd = "LOG" /\ new.account = Head(t).who))
                 => NamedBy(own, new, Tail(t))
<1>1. ASSUME new.isConnected => old.isConnected
      PROVE  NamedBy(own, new, t)
  BY <1>1 DEF NamedBy, Void
<1>2. ASSUME t # <<>>,
             (~old.isConnected /\ new.isConnected) => Head(t).cmd = "LOG" /\ new.account = Head(t).who
      PROVE  NamedBy(own, new, Tail(t))
  <2> DEFINE u == Tail(t)
             k == Len(t)
  <2>1. /\ Head(t) = t[1] /\ k \in Nat \ {0} /\ Len(u) = k - 1 /\ 1 \in 1..k
        /\ \A i \in 1..(k - 1) : i + 1 \in 1..k /\ u[i] = t[i + 1]
    BY <1>2, Shortened
  <2> HIDE DEF u, k
  <2>2. new.isConnected => new.account = own
    BY <1>2, <2>1 DEF NamedBy, k
  <2>3. ASSUME NEW i \in 1..(k - 1), Void(old.isConnected, t, i + 1)
        PROVE  Void(new.isConnected, u, i)
    <3>1. ~new.isConnected
      BY <1>2, <2>1, <2>3 DEF Void, k
    <3>2. \A j \in 1..(k - 1) : j < i => j + 1 \in 1..k /\ j + 1 < i + 1
      BY <2>1
    <3>3. QED
      BY <2>1, <2>3, <3>1, <3>2 DEF Void, k
  <2>4. ASSUME NEW i \in 1..(k - 1)
        PROVE  /\ u[i].cmd = "LOG" => u[i].who = own
               /\ u[i].cmd = "SHOW" => u[i].who = own \/ Void(new.isConnected, u, i)
               /\ u[i].cmd = "ACCEPT_ADD" => u[i].who # own \/ Void(new.isConnected, u, i)
    BY <2>1, <2>3 DEF NamedBy, k
  <2>5. NamedBy(own, new, u)
    BY <2>1, <2>2, <2>4 DEF NamedBy
  <2>6. QED
    BY <2>5 DEF u
<1>3. QED
  BY <1>1, <1>2

-----------------------------------------------------------------------------
(* What the server holds of the contacts *)

\* Every object is a member of mClients, and the lists in the files, those of the
\* sessions, are mutual.
ServerLists ==
    /\ \A s \in Slot : client[s].alive => client[s].listed
    /\ Mirrored(client, file)
    /\ UnknownAlone /\ ContactsSymmetric /\ RegisteredHasFile

\* A step of the server that keeps what is known of it.
ListsKept ==
    /\ ServerInv /\ LoginInv /\ ServerLists /\ Agree(client, file)
    /\ ServerInv' /\ LoginInv' /\ ServerLists' /\ Agree(client', file')

LEMMA ServerAgrees ==
    ASSUME ServerInv, LoginInv, ServerLists
    PROVE  Agree(client, file)
BY SessionsListed, MirrorsAgree DEF ServerInv, ServerLists

LEMMA StepKeepsLists ==
    ASSUME ServerInv, LoginInv, ServerLists, NEW c \in Slot,
           onNewConnection(c) \/ onSocketClosed(c) \/ Request(c)
    PROVE  ListsKept
<1>1. Connection(c) \/ Request(c)
  BY DEF Connection
<1>2. Next
  BY <1>1 DEF Next
<1>3. ServerInv' /\ LoginInv'
  BY <1>1, <1>2, ServerKept, SlotHeld DEF ServerInv
<1>4. Agree(client, file)
  BY ServerAgrees
<1>5. UnknownAlone' /\ ContactsSymmetric'
  BY <1>1, <1>4, NextContacts, ContactsKept DEF ServerInv, ServerLists
<1>6. RegisteredHasFile' /\ Mirrored(client', file')
  BY <1>1, <1>2, <1>3, NextHasFile, RequestMirrors DEF ServerInv, ServerLists
<1>7. \A s \in Slot : client'[s].alive => client'[s].listed
  <2>1. client \in Clients
    BY DEF ServerInv, TypeOK, Clients
  <2>2. CASE onNewConnection(c)
    BY <2>1, <2>2 DEF onNewConnection, Become, NewClient, NoClient, Clients, ServerLists
  <2>3. CASE onSocketClosed(c)
    <3>1. client' = [CloseConnection(c).clients EXCEPT ![c] = NoClient]
      BY <2>3 DEF onSocketClosed, Become
    <3>2. CloseConnection(c).clients \in Clients
      BY CloseConnectionTypes DEF ServerInv
    <3>3. client'[c] = NoClient /\ \A s \in Slot \ {c} : client'[s] = client[s]
      BY <3>1, <3>2, ClosedObject DEF ServerInv, Clients
    <3>4. QED
      BY <3>3 DEF NoClient, ServerLists
  <2>4. CASE Request(c)
    <3>1. SamePlaces(client, client') \/ onHandshake(c) \/ \E files : Die(files, accountsFile)
      BY <2>4, RequestPlaces DEF ServerInv
    <3>2. CASE onHandshake(c)
      BY <2>1, <3>2 DEF onHandshake, Become, Clients, ClientRec, ServerLists
    <3>3. QED
      BY <3>1, <3>2 DEF SamePlaces, Die, NoClient, ServerLists
  <2>5. QED
    BY <2>2, <2>3, <2>4
<1>8. Agree(client', file')
  <2>1. ~NoClient.isConnected
    BY DEF NoClient
  <2>2. \A s \in Slot : client'[s].isConnected => client'[s].alive
    BY <1>3, <2>1 DEF ServerInv, ObjectInv
  <2>3. \A s \in Slot : client'[s].isConnected =>
                           client'[s].listed /\ client'[s].account \in Account
    BY <1>3, <1>7, <2>2 DEF ServerInv, SessionsAreNamed, Session
  <2>4. QED
    BY <1>6, <2>3, MirrorsAgree
<1>9. QED
  BY <1>3, <1>4, <1>5, <1>6, <1>7, <1>8 DEF ListsKept, ServerLists

\* A client that accepts no invitation of its own account does not become its own
\* contact.
LEMMA StaysDistinct ==
    ASSUME ServerInv, LoginInv, ServerLists, NoOwnContact,
           NEW c \in Slot, NEW command \in Treatable, Treat(c, command),
           (client[c].isConnected /\ command.cmd = "ACCEPT_ADD") => command.who # client[c].account
    PROVE  NoOwnContact'
<1> DEFINE a == command.who
<1>1. Agree(client, file)
  BY ServerAgrees
<1>2. command.cmd \notin {"HANDSHAKE", "EXIT"} => a \in Account
  BY DEF Treatable
<1>3. \A itself : (~itself /\ ContactStep(itself)) => NoOwnContact'
  BY ContactsKept DEF ServerLists
<1>4. CASE command.cmd # "ACCEPT_ADD"
  <2>1. OtherSteps(c)
    BY <1>2, <1>4 DEF Treat, OtherSteps, Treatable
  <2>2. ContactStep(FALSE)
    BY <1>1, <2>1, OtherContacts DEF ServerInv, ServerLists
  <2>3. QED
    BY <1>3, <2>2
<1>5. CASE command.cmd = "ACCEPT_ADD"
  <2>1. onAcceptAdd(c, a, command.accept)
    BY <1>5 DEF Treat
  <2>2. CASE client[c].isConnected
    <3>1. ContactStep(client[c].account = a)
      BY <1>1, <1>2, <1>5, <2>1, AcceptAddContacts DEF ServerInv, Treatable
    <3>2. QED
      BY <1>3, <1>5, <2>2, <3>1
  <2>3. CASE ~client[c].isConnected
    <3>1. UNCHANGED <<memory, disk>>
      BY <2>1, <2>3 DEF onAcceptAdd, AcceptAddError, Send
    <3>2. QED
      BY <3>1 DEF memory, disk, NoOwnContact
  <2>4. QED
    BY <2>2, <2>3
<1>6. QED
  BY <1>4, <1>5

-----------------------------------------------------------------------------
(* What the server's messages say of the contacts *)

\* What is true, before and after a step, when message m is sent in it.
Fits(m) ==
    LET old == client[m.to]
        new == client'[m.to]
    IN  /\ m.cmd = "SHOW" => new.isConnected /\ m.who \in new.contact \cup {new.account}
        /\ m.cmd = "SEND" => /\ old.isConnected /\ new.isConnected
                             /\ m.who \in old.contact /\ m.who \in new.contact
        /\ m.cmd = "ADD" => old.isConnected /\ m.who # old.account
        /\ m.cmd = "DEL" => m.who \notin new.contact
        /\ (Farewell(m) /\ m.code = "OK") => old.isConnected /\ ~new.isConnected

IsTold(d, cmd, a) == \E m \in sent' : m.to = d /\ m.cmd = cmd /\ m.who = a

\* What session d is told when c's command is treated: its new contacts, those it
\* has no more, unless it is c and they go unnoticed, and its end.
Follows(c, command, d) ==
    LET old == client[d]
        new == client'[d]
    IN  /\ (old.isConnected /\ new.isConnected) =>
              /\ new.account = old.account
              /\ \A a \in old.contact \ new.contact :
                    IsTold(d, "DEL", a) \/ (d = c /\ Unnoticed(c))
        /\ (~old.isConnected /\ new.isConnected) =>
              d = c /\ command.cmd = "LOG" /\ new.account = command.who
        /\ new.isConnected =>
              \A a \in new.contact :
                 (old.isConnected /\ a \in old.contact) \/ IsTold(d, "SHOW", a)
        /\ (old.isConnected /\ ~new.isConnected /\ new.alive) => Err(d, "EXIT", "OK") \in sent'

Informed(c, command) ==
    /\ \A m \in sent' : Fits(m)
    /\ \A d \in Slot : Follows(c, command, d)

\* Messages that say nothing of contacts.
Idle(m) == m.cmd \in {"ERR", "HANDSHAKE", "CALL", "ACCEPT_CALL", "CLOSE_CALL"} /\ ~Farewell(m)

LEMMA IdleFits == \A m : Idle(m) => Fits(m)
BY DEF Idle, Fits

\* The fields of the messages.
LEMMA MessageFields ==
    ASSUME NEW s, NEW a, NEW x, NEW y, NEW z
    PROVE  /\ \A instruction \in Instruction \ {"EXIT"} : Idle(Err(s, instruction, x))
           /\ \A cmd \in {"HANDSHAKE", "CALL", "CLOSE_CALL"} : Idle(Tell(s, cmd, a))
           /\ Idle(Answered(s, a, x))
           /\ Show(s, a, x, y, z).to = s /\ Show(s, a, x, y, z).cmd = "SHOW"
           /\ Show(s, a, x, y, z).who = a
           /\ \A cmd : Tell(s, cmd, a).to = s /\ Tell(s, cmd, a).cmd = cmd /\ Tell(s, cmd, a).who = a
BY DEF Idle, Err, Tell, Answered, Show, Farewell, Instruction

LEMMA CloseCallIdle ==
    ASSUME NEW clients, NEW files, NEW c, NEW a
    PROVE  \A m \in CloseCall(clients, files, c, a).sent : Idle(m)
<1> DEFINE t == findOnlineClient(clients, a)
           code == CloseCallError(clients, c, a)
<1>1. CloseCall(clients, files, c, a).sent
        \subseteq {Err(c, "CLOSE_CALL", code), Err(c, "CLOSE_CALL", "OK"),
                   Tell(t, "CLOSE_CALL", clients[c].account),
                   Tell(c, "CLOSE_CALL", clients[t].account)}
  BY DEF CloseCall
<1> HIDE DEF t, code
<1>2. /\ Idle(Err(c, "CLOSE_CALL", code)) /\ Idle(Err(c, "CLOSE_CALL", "OK"))
      /\ Idle(Tell(t, "CLOSE_CALL", clients[c].account))
      /\ Idle(Tell(c, "CLOSE_CALL", clients[t].account))
  BY MessageFields DEF Instruction
<1>3. QED
  BY <1>1, <1>2

\* An account is shown if it has a file.
LEMMA ReplyShows ==
    ASSUME NEW clients, NEW files, NEW c, NEW a
    PROVE  /\ \A m \in ShowReply(clients, files, c, a) :
                 Idle(m) \/ (m.to = c /\ m.cmd = "SHOW" /\ m.who = a)
           /\ ~NoOfflineClient(files, a) =>
                 \E m \in ShowReply(clients, files, c, a) : m.to = c /\ m.cmd = "SHOW" /\ m.who = a
<1> DEFINE show == Show(c, a, files[a].pseudo, clients[c].status, clients[c].isConnected)
<1>1. ShowReply(clients, files, c, a) \subseteq
         {Err(c, "SHOW", "UNKNOWN_ACCOUNT"), Err(c, "SHOW", "OK"), show}
  BY DEF ShowReply
<1>2. ~NoOfflineClient(files, a) => show \in ShowReply(clients, files, c, a)
  BY DEF ShowReply
<1>3. show.to = c /\ show.cmd = "SHOW" /\ show.who = a
  BY MessageFields
<1> HIDE DEF show
<1>4. Idle(Err(c, "SHOW", "UNKNOWN_ACCOUNT")) /\ Idle(Err(c, "SHOW", "OK"))
  BY MessageFields DEF Instruction
<1>5. QED
  BY <1>1, <1>2, <1>3, <1>4

Mutual(files) == \A a, b \in Account : b \in files[a].contact => a \in files[b].contact

\* Only contacts, which list the account too, are notified of it.
LEMMA NotifyShows ==
    ASSUME NEW clients, NEW files, Agree(clients, files), Mutual(files), NEW c,
           clients[c].account \in Account, clients[c].contact \subseteq Account,
           clients[c].contact = files[clients[c].account].contact
    PROVE  \A m \in notifyMyFriendsOfModificationAboutMe(clients, c) :
              /\ m.to \in Slot /\ m.cmd = "SHOW"
              /\ clients[m.to].isConnected /\ m.who \in clients[m.to].contact
<1> DEFINE me == clients[c]
<1>1. SUFFICES ASSUME NEW b \in me.contact, OnlineAs(clients, b) # {}
               PROVE  LET t == findOnlineClient(clients, b)
                          m == Show(t, me.account, me.pseudo, me.status, me.isConnected)
                      IN  /\ m.to \in Slot /\ m.cmd = "SHOW"
                          /\ clients[m.to].isConnected /\ m.who \in clients[m.to].contact
  BY DEF notifyMyFriendsOfModificationAboutMe
<1> DEFINE t == findOnlineClient(clients, b)
<1>2. t # Null
  <2>1. t \in OnlineAs(clients, b)
    BY <1>1 DEF findOnlineClient
  <2>2. QED
    BY <2>1, NullAssumption DEF OnlineAs
<1>3. t \in Slot /\ clients[t].isConnected /\ clients[t].account = b
  BY <1>2, FindOnline
<1> HIDE DEF t
<1>4. me.account \in files[b].contact
  BY DEF Mutual
<1>5. me.account \in clients[t].contact
  BY <1>3, <1>4 DEF Agree
<1>6. QED
  BY <1>3, <1>5, MessageFields DEF t

\* Steps that change nobody's session or contacts.
LEMMA SteadyInformed ==
    ASSUME SameImages(client, client'), \A m \in sent' : Fits(m), NEW c, NEW command
    PROVE  Informed(c, command)
<1>1. \A d \in Slot : /\ client'[d].isConnected = client[d].isConnected
                      /\ client'[d].account = client[d].account
                      /\ client'[d].contact = client[d].contact
  BY SameImagesLists DEF SameImages, SameImagesBut, SameImage, SameLists
<1>2. ASSUME NEW d \in Slot
      PROVE  Follows(c, command, d)
  BY <1>1 DEF Follows
<1>3. QED
  BY <1>2 DEF Informed

LEMMA DeadInformed ==
    ASSUME NEW files, NEW accounts, Die(files, accounts), NEW c, NEW command
    PROVE  Informed(c, command)
<1>1. sent' = {} /\ \A d \in Slot : ~client'[d].isConnected /\ ~client'[d].alive
  BY DEF Die, NoClient
<1>2. QED
  BY <1>1 DEF Informed, Follows

\* Shown on request: oneself only, for the client asks for nobody else.
LEMMA TalkInformed ==
    ASSUME ListsKept, NEW c \in Slot, NEW a \in Account, NEW accept \in BOOLEAN, NEW command,
           \/ onShow(c, a) /\ (client[c].isConnected => a = client[c].account)
           \/ onAdd(c, a) \/ onSend(c, a)
           \/ onCall(c, a) \/ onAcceptCall(c, a, accept) \/ onCloseCall(c, a)
    PROVE  Informed(c, command)
<1> DEFINE t == findOnlineClient(client, a)
<1>1. /\ TypeOK /\ LoginInv /\ Mirrored(client, file) /\ client \in Clients
      /\ SameImages(client, client)
  BY DEF ListsKept, ServerInv, ServerLists, TypeOK, Clients, SameImages, SameImagesBut, SameImage
<1>2. CASE onShow(c, a) /\ (client[c].isConnected => a = client[c].account)
  <2>1. client' = client
    BY <1>2 DEF onShow, Send, memory
  <2>2. CASE client[c].isConnected
    <3>1. \A m \in sent' : Idle(m) \/ (m.to = c /\ m.cmd = "SHOW" /\ m.who = a)
      BY <1>2, <2>2, ReplyShows DEF onShow, Send
    <3>2. \A m \in sent' : Fits(m)
      BY <1>2, <2>1, <2>2, <3>1, IdleFits DEF Fits, Farewell
    <3>3. QED
      BY <1>1, <2>1, <3>2, SteadyInformed
  <2>3. CASE ~client[c].isConnected
    <3>1. Idle(Err(c, "SHOW", "YOU_ARE_NOT_LOGGED"))
      BY MessageFields DEF Instruction
    <3>2. \A m \in sent' : Idle(m)
      BY <1>2, <2>3, <3>1 DEF onShow, Send
    <3>3. QED
      BY <1>1, <2>1, <3>2, IdleFits, SteadyInformed
  <2>4. QED
    BY <2>2, <2>3
<1>3. CASE onAdd(c, a)
  <2>1. client' = client
    BY <1>3 DEF onAdd, Send, memory
  <2>2. \/ sent' = {Err(c, "ADD", AddError(c, a))}
        \/ AddError(c, a) = "OK" /\ sent' = {Err(c, "ADD", "OK"), Tell(t, "ADD", client[c].account)}
    BY <1>3 DEF onAdd, Send
  <2>3. Idle(Err(c, "ADD", AddError(c, a))) /\ Idle(Err(c, "ADD", "OK"))
    BY MessageFields DEF Instruction
  <2>4. AddError(c, a) = "OK" =>
           /\ client[t].isConnected /\ client[t].account = a /\ a # client[c].account
    BY FindOnline DEF AddError
  <2>5. AddError(c, a) = "OK" => Fits(Tell(t, "ADD", client[c].account))
    <3> DEFINE m == Tell(t, "ADD", client[c].account)
    <3>1. m.to = t /\ m.cmd = "ADD" /\ m.who = client[c].account
      BY DEF Tell
    <3> HIDE DEF t, m
    <3>2. AddError(c, a) = "OK" => Fits(m)
      BY <2>4, <3>1 DEF Fits, Farewell
    <3>3. QED
      BY <3>2 DEF m
  <2>6. \A m \in sent' : Fits(m)
    BY <2>2, <2>3, <2>5, IdleFits
  <2>7. QED
    BY <1>1, <2>1, <2>6, SteadyInformed
<1>4. CASE onSend(c, a)
  <2>1. client' = client
    BY <1>4 DEF onSend, Send, memory
  <2>2. \/ sent' = {Err(c, "SEND", SendError(c, a))}
        \/ SendError(c, a) = "OK" /\ sent' = {Err(c, "SEND", "OK"), Tell(t, "SEND", client[c].account)}
    BY <1>4 DEF onSend, Send
  <2>3. Idle(Err(c, "SEND", SendError(c, a))) /\ Idle(Err(c, "SEND", "OK"))
    BY MessageFields DEF Instruction
  <2>4. SendError(c, a) = "OK" =>
           client[t].isConnected /\ client[c].account \in client[t].contact
    BY FindOnline DEF SendError, isAlreadyFriends
  <2>5. SendError(c, a) = "OK" => Fits(Tell(t, "SEND", client[c].account))
    <3> DEFINE m == Tell(t, "SEND", client[c].account)
    <3>1. m.to = t /\ m.cmd = "SEND" /\ m.who = client[c].account
      BY DEF Tell
    <3> HIDE DEF t, m
    <3>2. SendError(c, a) = "OK" => Fits(m)
      BY <2>1, <2>4, <3>1 DEF Fits, Farewell
    <3>3. QED
      BY <3>2 DEF m
  <2>6. \A m \in sent' : Fits(m)
    BY <2>2, <2>3, <2>5, IdleFits
  <2>7. QED
    BY <1>1, <2>1, <2>6, SteadyInformed
<1>5. CASE onCall(c, a) \/ onAcceptCall(c, a, accept) \/ onCloseCall(c, a)
  <2>1. SameImages(client, client')
    BY <1>1, <1>5, CallMirrors
  <2>2. CASE onCloseCall(c, a)
    BY <2>1, <2>2, CloseCallIdle, IdleFits, SteadyInformed DEF onCloseCall, Become
  <2>3. CASE onCall(c, a)
    <3>1. \E code : sent' \subseteq {Err(c, "CALL", code), Tell(t, "CALL", client[c].account)}
      BY <2>3 DEF onCall, Become, Send
    <3>2. Idle(Tell(t, "CALL", client[c].account)) /\ \A code : Idle(Err(c, "CALL", code))
      <4> HIDE DEF t
      <4>1. QED
        BY MessageFields DEF Instruction
    <3>3. \A m \in sent' : Idle(m)
      BY <3>1, <3>2
    <3>4. QED
      BY <2>1, <3>3, IdleFits, SteadyInformed
  <2>4. CASE onAcceptCall(c, a, accept)
    <3>1. \E code : sent' \subseteq {Err(c, "ACCEPT_CALL", code), Answered(c, a, accept),
                                     Answered(t, client[c].account, accept)}
      BY <2>4 DEF onAcceptCall, Become, Send
    <3>2. /\ Idle(Answered(c, a, accept)) /\ Idle(Answered(t, client[c].account, accept))
          /\ \A code : Idle(Err(c, "ACCEPT_CALL", code))
      <4> HIDE DEF t
      <4>1. QED
        BY MessageFields DEF Instruction
    <3>3. \A m \in sent' : Idle(m)
      BY <3>1, <3>2
    <3>4. QED
      BY <2>1, <3>3, IdleFits, SteadyInformed
  <2>5. QED
    BY <1>5, <2>2, <2>3, <2>4
<1>6. QED
  BY <1>2, <1>3, <1>4, <1>5

LEMMA HandshakeInformed ==
    ASSUME ListsKept, NEW c \in Slot, NEW command, onHandshake(c)
    PROVE  Informed(c, command)
<1>1. client \in Clients
  BY DEF ListsKept, ServerInv, TypeOK, Clients
<1>2. SameImages(client, client')
  BY <1>1, CallFieldImages DEF onHandshake, Become
<1>3. Idle(Tell(c, "HANDSHAKE", Null))
  BY MessageFields
<1>4. \A m \in sent' : Idle(m)
  BY <1>3 DEF onHandshake, Become
<1>5. QED
  BY <1>2, <1>4, IdleFits, SteadyInformed

\* A session that stays as it is.
LEMMA SameFollows ==
    ASSUME NEW d \in Slot, client'[d].isConnected = client[d].isConnected,
           client'[d].isConnected => /\ client'[d].account = client[d].account
                                     /\ client'[d].contact = client[d].contact,
           NEW c, NEW command
    PROVE  Follows(c, command, d)
BY DEF Follows

LEMMA UnchangedInformed ==
    ASSUME UNCHANGED client, NEW s, NEW instruction \in Instruction, NEW code,
           code # "OK" \/ instruction # "EXIT", sent' = {Err(s, instruction, code)},
           NEW c, NEW command
    PROVE  Informed(c, command)
<1>1. SameImages(client, client')
  BY DEF SameImages, SameImagesBut, SameImage
<1>2. Fits(Err(s, instruction, code))
  BY DEF Err, Fits, Farewell
<1>3. QED
  BY <1>1, <1>2, SteadyInformed

LEMMA RegInformed ==
    ASSUME ListsKept, NEW c \in Slot, NEW a \in Account, NEW pseudo, NEW password, NEW command,
           onReg(c, a, pseudo, password)
    PROVE  Informed(c, command)
<1> DEFINE fresh == [client[c] EXCEPT !.account = a, !.pseudo = pseudo,
                                      !.status = DISCONNECTED, !.statusCall = "NONE",
                                      !.contact = {}, !.isConnected = FALSE]
<1>1. client \in Clients
  BY DEF ListsKept, ServerInv, TypeOK, Clients
<1>2. sent' = {Err(c, "REG", RegError(c, a))}
  BY DEF onReg
<1>3. CASE UNCHANGED client
  BY <1>2, <1>3, UnchangedInformed DEF Instruction
<1>4. CASE RegError(c, a) \in {"OK", "CANNOT_SAVE_DATA"}
  <2>1. client' = [client EXCEPT ![c] = fresh] /\ client[c].isConnected = FALSE
    BY <1>1, <1>4 DEF onReg, RegError, Clients, ClientRec
  <2>2. fresh.isConnected = FALSE
    BY <1>1 DEF Clients, ClientRec
  <2> HIDE DEF fresh
  <2>3. client'[c].isConnected = FALSE /\ \A d \in Slot \ {c} : client'[d] = client[d]
    BY <1>1, <2>1, <2>2 DEF Clients
  <2>4. \A d \in Slot : Follows(c, command, d)
    BY <2>1, <2>3, SameFollows
  <2>5. Fits(Err(c, "REG", RegError(c, a)))
    BY DEF Err, Fits, Farewell
  <2>6. QED
    BY <1>2, <2>4, <2>5 DEF Informed
<1>5. QED
  BY <1>3, <1>4 DEF onReg, memory

\* Who logs in is shown the contacts of its file, which have files themselves, and
\* is shown to those that are logged in.
LEMMA LogInformed ==
    ASSUME ListsKept, NEW c \in Slot, NEW a \in Account, NEW password, password # Null,
           NEW command, command.cmd = "LOG", command.who = a, onLog(c, a, password)
    PROVE  Informed(c, command)
<1> DEFINE in == Connected(Loaded(client[c], a))
           clients == [client EXCEPT ![c] = in]
           files == Store(file, in)
<1>1. client \in Clients /\ file \in Files /\ unwritable = {} /\ up
  BY DEF ListsKept, ServerInv, TypeOK, Clients, Files, LoginInv, onLog, Serves
<1>2. CASE LogError(c, a, password) = "OK"
  <2>1. /\ client' = clients /\ file' = files /\ client[c].isConnected = FALSE
        /\ UNCHANGED <<up, mAccounts, accountsFile>>
        /\ sent' = {Err(c, "LOG", "OK")} \cup ListReply(clients, files, c)
                     \cup notifyMyFriendsOfModificationAboutMe(clients, c)
    BY <1>1, <1>2 DEF onLog, LogError, Become, Clients, ClientRec
  <2>2. in.account = a /\ in.isConnected = TRUE /\ in.contact = file[a].contact
    BY <1>1 DEF Connected, Loaded, Clients, ClientRec
  <2> HIDE DEF in
  <2>3. clients[c] = in /\ \A s \in Slot \ {c} : clients[s] = client[s]
    BY <1>1 DEF Clients
  <2> HIDE DEF clients, files
  <2>4. Agree(client', file') /\ Mutual(file')
    BY <1>1, <2>1 DEF ListsKept, ServerLists, ContactsSymmetric, Mutual
  <2>5. in.contact = file'[a].contact /\ in.contact \subseteq Account
    BY <1>1, <2>1, <2>2, <2>3, <2>4 DEF Agree, Files, FileRec
  <2>6. ASSUME NEW b \in in.contact
        PROVE  ~NoOfflineClient(files, b)
    <3>1. a \in file'[b].contact
      BY <2>4, <2>5 DEF Mutual
    <3>2. mAccounts'[b] # Null
      BY <1>1, <2>1, <2>5, <3>1 DEF ListsKept, ServerLists, UnknownAlone
    <3>3. QED
      BY <2>1, <2>5, <3>2 DEF ListsKept, ServerLists, RegisteredHasFile, NoOfflineClient
  <2>7. ASSUME NEW b \in in.contact
        PROVE  /\ IsTold(c, "SHOW", b)
               /\ \A m \in ShowReply(clients, files, c, b) : Fits(m)
    <3>1. ShowReply(clients, files, c, b) \subseteq sent'
      BY <2>1, <2>3 DEF ListReply
    <3>2. PICK m \in ShowReply(clients, files, c, b) : m.to = c /\ m.cmd = "SHOW" /\ m.who = b
      BY <2>6, ReplyShows
    <3>3. IsTold(c, "SHOW", b)
      BY <3>1, <3>2 DEF IsTold
    <3>4. \A n \in ShowReply(clients, files, c, b) : Fits(n)
      <4>1. SUFFICES ASSUME NEW n \in ShowReply(clients, files, c, b), n.to = c, n.cmd = "SHOW", n.who = b
                     PROVE  Fits(n)
        BY ReplyShows, IdleFits
      <4>2. QED
        BY <2>1, <2>2, <2>3, <4>1 DEF Fits, Farewell
    <3>5. QED
      BY <3>3, <3>4
  <2>8. \A m \in ListReply(clients, files, c) : Fits(m)
    BY <2>3, <2>7 DEF ListReply
  <2>9. \A m \in notifyMyFriendsOfModificationAboutMe(clients, c) : Fits(m)
    <3>1. \A m \in notifyMyFriendsOfModificationAboutMe(clients, c) :
             /\ m.to \in Slot /\ m.cmd = "SHOW"
             /\ clients[m.to].isConnected /\ m.who \in clients[m.to].contact
      BY <2>1, <2>2, <2>3, <2>4, <2>5, NotifyShows
    <3>2. QED
      BY <2>1, <3>1 DEF Fits, Farewell
  <2>10. Fits(Err(c, "LOG", "OK"))
    BY DEF Err, Fits, Farewell
  <2>11. \A d \in Slot \ {c} : Follows(c, command, d)
    BY <2>1, <2>3, SameFollows
  <2>12. Follows(c, command, c)
    BY <2>1, <2>2, <2>3, <2>7 DEF Follows
  <2>13. QED
    BY <2>1, <2>8, <2>9, <2>10, <2>11, <2>12 DEF Informed
<1>3. CASE LogError(c, a, password) # "OK"
  <2>1. LogError(c, a, password) # "CANNOT_SAVE_DATA"
    BY <1>1 DEF LogError
  <2>2. UNCHANGED client /\ sent' = {Err(c, "LOG", LogError(c, a, password))}
    BY <1>3, <2>1 DEF onLog, Send, memory
  <2>3. QED
    BY <2>2, UnchangedInformed DEF Instruction
<1>4. QED
  BY <1>2, <1>3


LEMMA UpdateInformed ==
    ASSUME ListsKept, NEW c \in Slot, NEW a \in Account, NEW pseudo, NEW password, NEW status,
           NEW command, onUpdate(c, a, pseudo, password, status)
    PROVE  Informed(c, command)
<1> DEFINE clients == [client EXCEPT ![c].pseudo = pseudo, ![c].status = status]
           files == Store(file, clients[c])
<1>1. client \in Clients /\ file \in Files /\ unwritable = {} /\ up
  BY DEF ListsKept, ServerInv, TypeOK, Clients, Files, LoginInv, onUpdate, Serves
<1>2. CASE UpdateError(c, a, status) = "OK"
  <2>1. /\ client' = clients /\ file' = files /\ up' = up
        /\ client[c].isConnected = TRUE /\ client[c].account = a
        /\ sent' = {Err(c, "UPDATE", "OK")} \cup notifyMyFriendsOfModificationAboutMe(clients, c)
                     \cup ShowReply(clients, files, c, a)
    BY <1>1, <1>2 DEF onUpdate, UpdateError, Clients, ClientRec
  <2>2. /\ clients[c].account = a /\ clients[c].isConnected = TRUE
        /\ clients[c].contact = client[c].contact
        /\ \A s \in Slot \ {c} : clients[s] = client[s]
    BY <1>1, <2>1 DEF Clients, ClientRec
  <2> HIDE DEF clients, files
  <2>3. Agree(client', file') /\ Mutual(file')
    BY <1>1, <2>1 DEF ListsKept, ServerLists, ContactsSymmetric, Mutual
  <2>4. clients[c].contact = file'[a].contact /\ clients[c].contact \subseteq Account
    BY <1>1, <2>1, <2>2, <2>3 DEF Agree, Clients, ClientRec
  <2>5. \A m \in notifyMyFriendsOfModificationAboutMe(clients, c) : Fits(m)
    <3>1. \A m \in notifyMyFriendsOfModificationAboutMe(clients, c) :
             /\ m.to \in Slot /\ m.cmd = "SHOW"
             /\ clients[m.to].isConnected /\ m.who \in clients[m.to].contact
      BY <2>1, <2>2, <2>3, <2>4, NotifyShows
    <3>2. QED
      BY <2>1, <3>1 DEF Fits, Farewell
  <2>6. \A m \in ShowReply(clients, files, c, a) : Fits(m)
    <3>1. SUFFICES ASSUME NEW m \in ShowReply(clients, files, c, a), m.to = c, m.cmd = "SHOW", m.who = a
                   PROVE  Fits(m)
      BY ReplyShows, IdleFits
    <3>2. QED
      BY <2>1, <2>2, <3>1 DEF Fits, Farewell
  <2>7. Fits(Err(c, "UPDATE", "OK"))
    BY DEF Err, Fits, Farewell
  <2>8. \A d \in Slot : Follows(c, command, d)
    BY <2>1, <2>2, SameFollows
  <2>9. QED
    BY <2>1, <2>5, <2>6, <2>7, <2>8 DEF Informed
<1>3. CASE UpdateError(c, a, status) # "OK"
  <2>1. UpdateError(c, a, status) # "CANNOT_SAVE_DATA"
    BY <1>1 DEF UpdateError
  <2>2. UNCHANGED client /\ sent' = {Err(c, "UPDATE", UpdateError(c, a, status))}
    BY <1>3, <2>1 DEF onUpdate, Send, memory
  <2>3. QED
    BY <2>2, UnchangedInformed DEF Instruction
<1>4. QED
  BY <1>2, <1>3

\* Who leaves is shown to its contacts once more.
LEMMA LeavingShows ==
    ASSUME ListsKept, up, NEW clients \in Clients, SameImages(client, clients),
           NEW c \in Slot, client[c].isConnected,
           NEW left, left = [clients EXCEPT ![c] = Disconnected(@)],
           \A s \in Slot \ {c} : client'[s] = left[s]
    PROVE  \A m \in notifyMyFriendsOfModificationAboutMe(left, c) : Fits(m)
<1>1. /\ left[c].account = clients[c].account /\ left[c].isConnected = FALSE
      /\ left[c].contact = clients[c].contact
      /\ \A s \in Slot \ {c} : left[s] = clients[s]
  BY DEF Disconnected, Clients, ClientRec
<1>2. SameLists(client, clients)
  BY SameImagesLists
<1>3. Agree(clients, file) /\ clients[c].isConnected
  BY <1>2, ListsAgree DEF ListsKept, SameImages, SameImagesBut, SameImage
<1>4. Agree(left, file) /\ Mutual(file)
  BY <1>1, <1>3 DEF Agree, Mutual, ListsKept, ServerLists, ContactsSymmetric
<1>5. /\ left[c].account \in Account /\ left[c].contact \subseteq Account
      /\ left[c].contact = file[left[c].account].contact
  BY <1>1, <1>3 DEF Agree, Clients, ClientRec
<1>6. \A table : (/\ Agree(table, file) /\ Mutual(file)
                  /\ table[c].account \in Account /\ table[c].contact \subseteq Account
                  /\ table[c].contact = file[table[c].account].contact) =>
         \A m \in notifyMyFriendsOfModificationAboutMe(table, c) :
            /\ m.to \in Slot /\ m.cmd = "SHOW"
            /\ table[m.to].isConnected /\ m.who \in table[m.to].contact
  BY NotifyShows
<1>7. \A m \in notifyMyFriendsOfModificationAboutMe(left, c) :
         /\ m.to \in Slot /\ m.cmd = "SHOW"
         /\ left[m.to].isConnected /\ m.who \in left[m.to].contact
  BY <1>4, <1>5, <1>6
<1>8. QED
  BY <1>1, <1>7 DEF Fits, Farewell

LEMMA ExitInformed ==
    ASSUME ListsKept, NEW c \in Slot, NEW command, onExit(c)
    PROVE  Informed(c, command)
<1> DEFINE left(clients) == [clients EXCEPT ![c] = Disconnected(@)]
<1>1. client \in Clients /\ file \in Files /\ unwritable = {} /\ up
  BY DEF ListsKept, ServerInv, TypeOK, Clients, Files, LoginInv, onExit, Serves
<1>2. CASE ~client[c].isConnected
  <2>1. UNCHANGED client /\ sent' = {Err(c, "EXIT", "YOU_ARE_NOT_LOGGED")}
    BY <1>2 DEF onExit, Send, memory
  <2>2. QED
    BY <2>1, UnchangedInformed DEF Instruction
<1>3. ASSUME NEW clients \in Clients, SameImages(client, clients), client[c].isConnected,
             client' = [left(clients) EXCEPT ![c] = ResetAttributes(@)],
             Err(c, "EXIT", "OK") \in sent',
             \A m \in sent' : \/ m = Err(c, "EXIT", "OK") \/ Idle(m)
                              \/ m \in notifyMyFriendsOfModificationAboutMe(left(clients), c)
      PROVE  Informed(c, command)
  <2> DEFINE gone == left(clients)
  <2>1. client'[c].isConnected = FALSE
    BY <1>3 DEF Disconnected, ResetAttributes, Clients, ClientRec
  <2>2. gone = [clients EXCEPT ![c] = Disconnected(@)]
    OBVIOUS
  <2>3. \A s \in Slot \ {c} : client'[s] = gone[s] /\ gone[s] = clients[s]
    BY <1>3 DEF Clients
  <2> HIDE DEF left, gone
  <2>4. \A m \in notifyMyFriendsOfModificationAboutMe(gone, c) : Fits(m)
    BY <1>1, <1>3, <2>2, <2>3, LeavingShows
  <2>5. Fits(Err(c, "EXIT", "OK"))
    BY <1>3, <2>1 DEF Err, Fits, Farewell
  <2>6. \A m \in sent' : Fits(m)
    BY <1>3, <2>4, <2>5, IdleFits DEF gone
  <2>7. SameLists(client, clients)
    BY <1>3, SameImagesLists
  <2>8. ASSUME NEW d \in Slot \ {c}
        PROVE  Follows(c, command, d)
    <3>1. /\ client'[d].isConnected = client[d].isConnected
          /\ client'[d].account = client[d].account /\ client'[d].contact = client[d].contact
      BY <1>3, <2>3, <2>7 DEF SameLists, SameImages, SameImagesBut, SameImage
    <3>2. QED
      BY <3>1, SameFollows
  <2>9. Follows(c, command, c)
    BY <1>3, <2>1 DEF Follows
  <2>10. QED
    BY <2>6, <2>8, <2>9 DEF Informed
<1>4. ASSUME client[c].isConnected,
             client' = [left(client) EXCEPT ![c] = ResetAttributes(@)],
             sent' = {Err(c, "EXIT", "OK")} \cup {}
                       \cup notifyMyFriendsOfModificationAboutMe(left(client), c)
      PROVE  Informed(c, command)
  <2>1. SameImages(client, client)
    BY DEF SameImages, SameImagesBut, SameImage
  <2> HIDE DEF left
  <2>2. QED
    BY <1>1, <1>3, <1>4, <2>1
<1>5. ASSUME NEW a, client[c].isConnected,
             client' = [left(CloseCall(client, file, c, a).clients) EXCEPT ![c] = ResetAttributes(@)],
             sent' = {Err(c, "EXIT", "OK")} \cup CloseCall(client, file, c, a).sent
                       \cup notifyMyFriendsOfModificationAboutMe(
                               left(CloseCall(client, file, c, a).clients), c)
      PROVE  Informed(c, command)
  <2>1. CloseCall(client, file, c, a).clients \in Clients
    BY <1>1, CloseCallTypes
  <2>2. SameImages(client, CloseCall(client, file, c, a).clients)
    BY <1>1, CloseCallImages
  <2>3. \A m \in CloseCall(client, file, c, a).sent : Idle(m)
    BY CloseCallIdle
  <2> HIDE DEF left
  <2>4. QED
    BY <1>3, <1>5, <2>1, <2>2, <2>3
<1>6. CASE Die(file, accountsFile)
  BY <1>6, DeadInformed
<1>7. QED
  BY <1>2, <1>4, <1>5, <1>6 DEF onExit, Become

LEMMA ClosedInformed ==
    ASSUME ListsKept, NEW c \in Slot, NEW command, onSocketClosed(c)
    PROVE  Informed(c, command)
<1> DEFINE left == [client EXCEPT ![c] = Disconnected(@)]
<1>1. client \in Clients /\ up
  BY DEF ListsKept, ServerInv, TypeOK, Clients, onSocketClosed
<1>2. /\ \A s \in Slot \ {c} : CloseConnection(c).clients[s] = client[s]
      /\ CloseConnection(c).clients \in Clients
  BY <1>1, ClosedObject, CloseConnectionTypes DEF ListsKept, ServerInv
<1>3. /\ client' = [CloseConnection(c).clients EXCEPT ![c] = NoClient]
      /\ sent' = CloseConnection(c).sent
  BY DEF onSocketClosed, Become
<1>4. client'[c] = NoClient /\ \A s \in Slot \ {c} : client'[s] = client[s]
  BY <1>2, <1>3 DEF Clients
<1>5. \A m \in sent' : Fits(m)
  <2>1. CASE ~client[c].listed \/ ~client[c].isConnected
    BY <1>3, <2>1 DEF CloseConnection
  <2>2. CASE client[c].listed /\ client[c].isConnected
    <3>1. sent' = notifyMyFriendsOfModificationAboutMe(left, c)
      BY <1>3, <2>2 DEF CloseConnection
    <3>2. left = [client EXCEPT ![c] = Disconnected(@)] /\ SameImages(client, client)
      BY DEF SameImages, SameImagesBut, SameImage
    <3>3. \A s \in Slot \ {c} : client'[s] = left[s]
      BY <1>1, <1>4 DEF Clients
    <3> HIDE DEF left
    <3>4. QED
      BY <1>1, <2>2, <3>1, <3>2, <3>3, LeavingShows
  <2>3. QED
    BY <2>1, <2>2
<1>6. \A d \in Slot \ {c} : Follows(c, command, d)
  BY <1>4, SameFollows
<1>7. Follows(c, command, c)
  BY <1>4 DEF Follows, NoClient
<1>8. QED
  BY <1>5, <1>6, <1>7 DEF Informed

\* Both are shown their new contact.
LEMMA AcceptAddInformed ==
    ASSUME ListsKept, NEW c \in Slot, NEW a \in Account, NEW accept \in BOOLEAN, NEW command,
           onAcceptAdd(c, a, accept)
    PROVE  Informed(c, command)
<1> DEFINE me == client[c].account
           t == findOnlineClient(client, a)
           added == [client EXCEPT ![t].contact = @ \cup {me}]
           clients == [added EXCEPT ![c].contact = @ \cup {a}]
           files == StoreBoth(file, clients[c], clients[t])
           code == AcceptAddError(c, a)
<1>1. client \in Clients /\ unwritable = {}
  BY DEF ListsKept, ServerInv, TypeOK, Clients, LoginInv
<1>2. CASE code # "OK" \/ ~accept
  <2>1. UNCHANGED client /\ \E x : sent' = {Err(c, "ACCEPT_ADD", x)}
    BY <1>2 DEF onAcceptAdd, Send, memory
  <2>2. QED
    BY <2>1, UnchangedInformed DEF Instruction
<1>3. CASE Die(Store(file, clients[c]), accountsFile)
  BY <1>3, DeadInformed
<1>4. CASE /\ code = "OK" /\ client' = clients /\ file' = files
           /\ sent' = {Err(c, "ACCEPT_ADD", "OK")} \cup ShowReply(clients, files, t, me)
                        \cup ShowReply(clients, files, c, a)
  <2>1. /\ t \in Slot /\ client[t].isConnected /\ client[t].account = a /\ client[c].isConnected
    BY <1>4, FindOnline DEF AcceptAddError
  <2> HIDE DEF t
  <2>2. \A d \in Slot :
           /\ clients[d].isConnected = client[d].isConnected
           /\ clients[d].account = client[d].account /\ clients[d].listed = client[d].listed
           /\ clients[d].contact = client[d].contact \cup (IF d = t THEN {me} ELSE {})
                                                    \cup (IF d = c THEN {a} ELSE {})
    <3>1. added \in [Slot -> [alive : BOOLEAN, listed : BOOLEAN, handshaked : BOOLEAN,
                        isConnected : BOOLEAN, account : Account \cup {Null},
                        pseudo : Pseudo \cup {Null}, status : Status, statusCall : StatusCall,
                        contact : SUBSET (Account \cup {me}), comm : Slot \cup {Null}]]
      BY <1>1, <2>1 DEF Clients, ClientRec
    <3>2. QED
      BY <1>1, <2>1, <3>1 DEF Clients, ClientRec
  <2>3. client[c].listed /\ client[t].listed /\ me \in Account
    BY <2>1, SessionsListed DEF ListsKept, ServerInv, ServerLists
  <2> HIDE DEF me, added, clients, files
  <2>4. ~NoOfflineClient(files, me) /\ ~NoOfflineClient(files, a)
    <3>1. file'[me] = Image(client'[c]) /\ file'[a] = Image(client'[t])
      BY <1>4, <2>1, <2>2, <2>3 DEF ListsKept, ServerLists, Mirrored, MirroredBut, me
    <3>2. QED
      BY <1>4, <3>1 DEF NoOfflineClient, Image
  <2>5. IsTold(t, "SHOW", me) /\ IsTold(c, "SHOW", a)
    BY <1>4, <2>4, ReplyShows DEF IsTold
  <2>6. \A m \in ShowReply(clients, files, t, me) : Fits(m)
    <3>1. SUFFICES ASSUME NEW m \in ShowReply(clients, files, t, me), m.to = t, m.cmd = "SHOW", m.who = me
                   PROVE  Fits(m)
      BY ReplyShows, IdleFits
    <3>2. QED
      BY <1>4, <2>1, <2>2, <3>1 DEF Fits, Farewell
  <2>7. \A m \in ShowReply(clients, files, c, a) : Fits(m)
    <3>1. SUFFICES ASSUME NEW m \in ShowReply(clients, files, c, a), m.to = c, m.cmd = "SHOW", m.who = a
                   PROVE  Fits(m)
      BY ReplyShows, IdleFits
    <3>2. QED
      BY <1>4, <2>1, <2>2, <3>1 DEF Fits, Farewell
  <2>8. Fits(Err(c, "ACCEPT_ADD", "OK"))
    BY DEF Err, Fits, Farewell
  <2>9. ASSUME NEW d \in Slot
        PROVE  Follows(c, command, d)
    <3>1. /\ client'[d].isConnected = client[d].isConnected
          /\ client'[d].account = client[d].account
      BY <1>4, <2>2
    <3>2. \A x \in client'[d].contact : x \in client[d].contact \/ IsTold(d, "SHOW", x)
      BY <1>4, <2>2, <2>5
    <3>3. client[d].contact \subseteq client'[d].contact
      BY <1>4, <2>2
    <3>4. QED
      BY <3>1, <3>2, <3>3 DEF Follows
  <2>10. QED
    BY <1>4, <2>6, <2>7, <2>8, <2>9 DEF Informed
<1>5. QED
  BY <1>1, <1>2, <1>3, <1>4 DEF onAcceptAdd, Become, BothStored

\* Both are told, if the one that is deleted is online.
LEMMA DelInformed ==
    ASSUME ListsKept, NEW c \in Slot, NEW a \in Account, NEW command, onDel(c, a)
    PROVE  Informed(c, command)
<1> DEFINE me == client[c].account
           t == findOnlineClient(client, a)
           mine == [client EXCEPT ![c].contact = @ \ {a}]
           both == [mine EXCEPT ![t].contact = @ \ {me}]
           fileBoth == Store(Store(file, mine[c]), both[t])
           closed == CloseCall(both, fileBoth, c, a)
           told == {Err(c, "DEL", "OK"), Tell(c, "DEL", a), Tell(t, "DEL", me)}
<1>1. client \in Clients /\ unwritable = {}
  BY DEF ListsKept, ServerInv, TypeOK, Clients, LoginInv
<1>2. CASE DelError(c, a) # "OK"
  <2>1. UNCHANGED client /\ \E x : sent' = {Err(c, "DEL", x)}
    BY <1>2 DEF onDel, Send, memory
  <2>2. QED
    BY <2>1, UnchangedInformed DEF Instruction
<1>3. CASE \E files : Die(files, accountsFile)
  BY <1>3, DeadInformed
<1>4. DelError(c, a) = "OK" => client[c].isConnected = TRUE
  BY <1>1 DEF DelError, Clients, ClientRec
<1>5. /\ mine \in Clients
      /\ \A d \in Slot : /\ mine[d].isConnected = client[d].isConnected
                         /\ mine[d].account = client[d].account
                         /\ mine[d].contact = client[d].contact \ (IF d = c THEN {a} ELSE {})
  BY <1>1 DEF Clients, ClientRec
<1>6. CASE DelError(c, a) = "OK" /\ client' = mine /\ sent' = {Err(c, "DEL", "OK")}
  <2> HIDE DEF mine
  <2>1. Fits(Err(c, "DEL", "OK")) /\ Err(c, "DEL", "OK").cmd # "DEL"
    BY DEF Err, Fits, Farewell
  <2>2. ASSUME NEW x \in client[c].contact \ client'[c].contact
        PROVE  Unnoticed(c)
    BY <1>4, <1>5, <1>6, <2>1, <2>2 DEF Unnoticed
  <2>3. Follows(c, command, c)
    BY <1>4, <1>5, <1>6, <2>2 DEF Follows
  <2>4. \A d \in Slot \ {c} : Follows(c, command, d)
    BY <1>5, <1>6, SameFollows
  <2>5. QED
    BY <1>6, <2>1, <2>3, <2>4 DEF Informed
<1>7. CASE /\ DelError(c, a) = "OK" /\ t # Null /\ told \subseteq sent'
           /\ \/ client' = both /\ sent' = told
              \/ client' = closed.clients /\ sent' = told \cup closed.sent
  <2>1. t \in Slot
    BY <1>7, FindOnline
  <2> HIDE DEF t, mine
  <2>2. /\ both \in Clients
        /\ \A d \in Slot :
              /\ both[d].isConnected = client[d].isConnected
              /\ both[d].account = client[d].account
              /\ both[d].contact = client[d].contact \ ((IF d = c THEN {a} ELSE {})
                                                          \cup (IF d = t THEN {me} ELSE {}))
    <3> HIDE DEF me
    <3>1. QED
      BY <1>5, <2>1 DEF Clients, ClientRec
  <2> HIDE DEF both, me, fileBoth
  <2>3. \A m \in closed.sent : Idle(m)
    BY CloseCallIdle
  <2>4. SameImages(both, closed.clients)
    BY <2>2, CloseCallImages
  <2> HIDE DEF closed
  <2>5. \A d \in Slot :
           /\ closed.clients[d].isConnected = both[d].isConnected
           /\ closed.clients[d].account = both[d].account
           /\ closed.clients[d].contact = both[d].contact
    BY <2>4, SameImagesLists DEF SameImages, SameImagesBut, SameImage, SameLists
  <2>6. \A d \in Slot :
           /\ client'[d].isConnected = client[d].isConnected
           /\ client'[d].account = client[d].account
           /\ client'[d].contact = client[d].contact \ ((IF d = c THEN {a} ELSE {})
                                                          \cup (IF d = t THEN {me} ELSE {}))
    BY <1>7, <2>2, <2>5
  <2>7. Fits(Err(c, "DEL", "OK"))
    BY DEF Err, Fits, Farewell
  <2>8. /\ Tell(c, "DEL", a).to = c /\ Tell(c, "DEL", a).cmd = "DEL" /\ Tell(c, "DEL", a).who = a
        /\ Tell(t, "DEL", me).to = t /\ Tell(t, "DEL", me).cmd = "DEL" /\ Tell(t, "DEL", me).who = me
    BY DEF Tell
  <2>9. Fits(Tell(c, "DEL", a)) /\ Fits(Tell(t, "DEL", me))
    BY <2>1, <2>6, <2>8 DEF Fits, Farewell
  <2>10. \A m \in sent' : Fits(m)
    BY <1>7, <2>3, <2>7, <2>9, IdleFits
  <2>11. IsTold(c, "DEL", a) /\ IsTold(t, "DEL", me)
    BY <1>7, <2>8 DEF IsTold
  <2>12. ASSUME NEW d \in Slot
         PROVE  Follows(c, command, d)
    BY <2>6, <2>11 DEF Follows
  <2>13. QED
    BY <2>10, <2>12 DEF Informed
<1>8. QED
  BY <1>1, <1>2, <1>3, <1>6, <1>7 DEF onDel, Become

LEMMA TreatInformed ==
    ASSUME ListsKept, NEW c \in Slot, NEW command \in Treatable, Treat(c, command),
           (client[c].isConnected /\ command.cmd = "SHOW") => command.who = client[c].account
    PROVE  Informed(c, command)
<1> DEFINE a == command.who
           own == command.cmd
<1>1. command.accept \in BOOLEAN /\ (own \notin {"HANDSHAKE", "EXIT"} => a \in Account)
  BY DEF Treatable
<1>2. CASE own = "HANDSHAKE"
  BY <1>2, HandshakeInformed DEF Treat
<1>3. CASE own = "EXIT"
  BY <1>3, ExitInformed DEF Treat
<1>4. CASE own \in {"REG", "LOG", "UPDATE"}
  <2>1. \/ own = "REG" /\ \E pseudo, password : onReg(c, a, pseudo, password)
        \/ own = "LOG" /\ \E password \in Password : onLog(c, a, password)
        \/ own = "UPDATE" /\ \E pseudo, password, status : onUpdate(c, a, pseudo, password, status)
    BY <1>4 DEF Treat
  <2>2. \A password \in Password : password # Null
    BY NullAssumption
  <2>3. QED
    BY <1>1, <1>4, <2>1, <2>2, RegInformed, LogInformed, UpdateInformed
<1>5. CASE own \in {"SHOW", "ADD", "SEND", "CALL", "ACCEPT_CALL", "CLOSE_CALL"}
  <2>1. \/ onShow(c, a) /\ (client[c].isConnected => a = client[c].account)
        \/ onAdd(c, a) \/ onSend(c, a)
        \/ onCall(c, a) \/ onAcceptCall(c, a, command.accept) \/ onCloseCall(c, a)
    BY <1>5 DEF Treat
  <2>2. QED
    BY <1>1, <1>5, <2>1, TalkInformed
<1>6. CASE own = "ACCEPT_ADD"
  BY <1>1, <1>6, AcceptAddInformed DEF Treat
<1>7. CASE own = "DEL"
  BY <1>1, <1>7, DelInformed DEF Treat
<1>8. own # "LIST"
  BY DEF Treat
<1>9. QED
  BY <1>2, <1>3, <1>4, <1>5, <1>6, <1>7, <1>8 DEF Treatable, Instruction

\* What is told in a step is what was read of Told, for a client of user own.
LEMMA InformedTold ==
    ASSUME NEW c, NEW command, Informed(c, command), NEW d \in Slot,
           NEW x \in Seq(MessagesFor(d, sent')),
           \A m \in MessagesFor(d, sent') : \E i \in 1..Len(x) : x[i] = m,
           NEW own, client[d].isConnected => client[d].account = own,
           client'[d].isConnected => /\ client'[d].account = own /\ client'[d].alive
                                     /\ own \notin client'[d].contact,
           client'[d].alive => client[d].alive,
           NEW untold, (d = c /\ Unnoticed(c)) => untold
    PROVE  Told(x, client[d], client'[d], own, untold)
<1> DEFINE old == client[d]
           new == client'[d]
<1>1. ASSUME NEW i \in 1..Len(x)
      PROVE  \E m \in sent' : /\ m.to = d /\ Effective(m) /\ Fits(m)
                              /\ x[i].cmd = m.cmd /\ (m.cmd # "ERR" => x[i].who = m.who)
                              /\ (m.cmd = "ERR" => x[i] = m)
  <2>1. x[i] \in MessagesFor(d, sent')
    OBVIOUS
  <2>2. PICK m \in sent' : m.to = d /\ Effective(m) /\ x[i] = Reduced(m)
    BY <2>1 DEF MessagesFor
  <2>3. x[i].cmd = m.cmd /\ (m.cmd # "ERR" => x[i].who = m.who) /\ (m.cmd = "ERR" => x[i] = m)
    BY <2>2 DEF Reduced, Tell
  <2>4. QED
    BY <2>2, <2>3 DEF Informed
<1>2. ASSUME NEW m \in sent', m.to = d, Effective(m)
      PROVE  \E i \in 1..Len(x) : /\ x[i].cmd = m.cmd /\ (m.cmd # "ERR" => x[i].who = m.who)
                                  /\ (m.cmd = "ERR" => x[i] = m)
  <2>1. Reduced(m) \in MessagesFor(d, sent')
    BY <1>2 DEF MessagesFor
  <2>2. PICK i \in 1..Len(x) : x[i] = Reduced(m)
    BY <2>1
  <2>3. QED
    BY <2>2 DEF Reduced, Tell
<1>3. \A cmd \in {"SHOW", "DEL"} : \A a :
         IsTold(d, cmd, a) => \E i \in 1..Len(x) : x[i].cmd = cmd /\ x[i].who = a
  BY <1>2 DEF IsTold, Effective
<1>4. Follows(c, command, d)
  BY DEF Informed
<1> HIDE DEF old, new
<1>5. \A i \in 1..Len(x) :
          /\ x[i].cmd = "SHOW" => new.isConnected /\ x[i].who \in new.contact \cup {own}
          /\ x[i].cmd = "SEND" =>
                /\ old.isConnected /\ new.isConnected
                /\ x[i].who \in old.contact /\ x[i].who \in new.contact
          /\ x[i].cmd = "ADD" => x[i].who # own
          /\ x[i].cmd = "DEL" => x[i].who \notin new.contact
          /\ Farewell(x[i]) => old.isConnected /\ ~new.isConnected
  <2> TAKE i \in 1..Len(x)
  <2>1. PICK m \in sent' : /\ m.to = d /\ Effective(m) /\ Fits(m)
                           /\ x[i].cmd = m.cmd /\ (m.cmd # "ERR" => x[i].who = m.who)
                           /\ (m.cmd = "ERR" => x[i] = m)
    BY <1>1
  <2>2. Farewell(x[i]) => Farewell(m) /\ m.code = "OK"
    BY <2>1 DEF Farewell, Effective
  <2>3. QED
    BY <2>1, <2>2 DEF Fits, old, new
<1>6. (old.isConnected /\ new.isConnected /\ ~untold) =>
          \A a \in old.contact \ new.contact :
             \E i \in 1..Len(x) : x[i].cmd = "DEL" /\ x[i].who = a
  BY <1>3, <1>4 DEF Follows, old, new
<1>7. new.isConnected =>
          \A a \in new.contact :
             /\ a # own
             /\ \/ old.isConnected /\ a \in old.contact
                \/ \E i \in 1..Len(x) : x[i].cmd = "SHOW" /\ x[i].who = a
  BY <1>3, <1>4 DEF Follows, old, new
<1>8. (old.isConnected /\ ~new.isConnected /\ new.alive) => \E i \in 1..Len(x) : Farewell(x[i])
  <2>1. SUFFICES ASSUME Err(d, "EXIT", "OK") \in sent'
                 PROVE  \E i \in 1..Len(x) : Farewell(x[i])
    BY <1>4 DEF Follows, old, new
  <2> DEFINE m == Err(d, "EXIT", "OK")
  <2>2. m.to = d /\ Effective(m) /\ m.cmd = "ERR" /\ Farewell(m)
    BY DEF Err, Effective, Farewell
  <2> HIDE DEF m
  <2>3. QED
    BY <1>2, <2>1, <2>2 DEF m
<1>9. (new.isConnected => new.alive) /\ (new.alive => old.alive)
  BY DEF old, new
<1>10. Told(x, old, new, own, untold)
  BY <1>5, <1>6, <1>7, <1>8, <1>9 DEF Told
<1>11. QED
  BY <1>10 DEF old, new

-----------------------------------------------------------------------------
(* The lists of the clients *)

\* The list of client r, with session s and the messages q still to be read.
ListFits(r, s, q, untold) ==
    /\ r.question.kind = "ADD" => r.question.who # r.mLoggedUser
    /\ r.conn = Null => r.mContacts = {}
    /\ r.conn # Null => ListAgrees(r.mLoggedUser, r.mContacts, s, q, untold)

\* The commands of a connection are those of one user, of whoever reads it if
\* somebody does.
CommandsNamed ==
    \A c \in Slot : \E own \in Account \cup {Null} :
        /\ \A p \in User : app[p].conn = c => app[p].mLoggedUser = own
        /\ NamedBy(own, client[c], toServer[c])

ListsFit ==
    \A p \in User : ListFits(app[p], client[app[p].conn], toClient[app[p].conn], unnoticed)

ListInv ==
    /\ ServerLists
    /\ unnoticed \in BOOLEAN
    /\ ~misnamed => NoOwnContact /\ CommandsNamed /\ ListsFit

\* What a user does: its list stays, and its commands name it; but the invitation
\* it accepts names another.
Utters(p, q, commands) ==
    LET r == app[p]
    IN  /\ q.conn = r.conn /\ Turn(p, q, commands) /\ toClient' = toClient
        /\ q.mContacts = IF r.conn = Null THEN {} ELSE r.mContacts
        /\ q.question \in {r.question, NoQuestion}
        /\ \E T : commands \in Seq(T)
        /\ \A i \in 1..Len(commands) :
              /\ commands[i].cmd \in {"LOG", "SHOW"} => commands[i].who = q.mLoggedUser
              /\ commands[i].cmd = "ACCEPT_ADD" =>
                    r.question.kind = "ADD" /\ commands[i].who = r.question.who
        /\ q.mLoggedUser # r.mLoggedUser =>
              /\ q.question = NoQuestion
              /\ q.conn # Null => Len(commands) = 1 /\ commands[1].cmd = "LOG"

LEMMA CommandUttered ==
    ASSUME NEW p \in User, NEW r \in AppRec, r.conn = app[p].conn, r.mContacts = app[p].mContacts,
           r.question \in {app[p].question, NoQuestion},
           NEW command, sendCommand(p, r, command), toClient' = toClient,
           command.cmd # "SHOW", command.cmd = "LOG" => command.who = r.mLoggedUser,
           command.cmd = "ACCEPT_ADD" =>
              app[p].question.kind = "ADD" /\ command.who = app[p].question.who,
           r.mLoggedUser # app[p].mLoggedUser => r.question = NoQuestion /\ command.cmd = "LOG"
    PROVE  \E q, commands : Utters(p, q, commands)
<1>1. CASE r.conn = Null
  <2> DEFINE q == onDisconnection(r)
  <2>1. /\ q.conn = Null /\ q.mContacts = {} /\ q.question = r.question
        /\ q.mLoggedUser = r.mLoggedUser
    BY DEF onDisconnection, disconnectedFromServer, AppRec
  <2>2. Turn(p, q, <<>>)
    BY <1>1 DEF sendCommand
  <2>3. <<>> \in Seq({}) /\ Len(<<>>) = 0
    OBVIOUS
  <2> HIDE DEF q
  <2>4. Utters(p, q, <<>>)
    BY <1>1, <2>1, <2>2, <2>3 DEF Utters
  <2>5. QED
    BY <2>4
<1>2. CASE r.conn # Null
  <2> DEFINE commands == <<command>>
  <2>1. Turn(p, r, commands)
    BY <1>2 DEF sendCommand
  <2>2. commands \in Seq({command}) /\ Len(commands) = 1 /\ \A i \in 1..1 : commands[i] = command
    OBVIOUS
  <2> HIDE DEF commands
  <2>3. Utters(p, r, commands)
    BY <1>2, <2>1, <2>2 DEF Utters
  <2>4. QED
    BY <2>3
<1>3. QED
  BY <1>1, <1>2

LEMMA Uttered ==
    ASSUME NEW p \in User, app[p] \in AppRec, Use(p)
    PROVE  \E q, commands : Utters(p, q, commands)
<1> DEFINE me == app[p]
<1>1. ASSUME NEW command, sendCommand(p, app[p], command), toClient' = toClient,
             command.cmd \notin {"SHOW", "LOG", "ACCEPT_ADD"}
      PROVE  \E q, commands : Utters(p, q, commands)
  BY <1>1, CommandUttered
<1>2. CASE \E a \in Login[p] : askForAuthentication(p, a)
  <2>1. PICK a \in Login[p] : askForAuthentication(p, a)
    BY <1>2
  <2> DEFINE r == [app[p] EXCEPT !.mLoggedUser = a]
  <2>2. /\ r \in AppRec /\ r.conn = me.conn /\ r.mContacts = me.mContacts
        /\ r.question = me.question /\ r.mLoggedUser = a
    BY SystemAssumption DEF AppRec
  <2>3. sendCommand(p, r, authenticate(a)) /\ toClient' = toClient /\ me.question = NoQuestion
    BY <2>1 DEF askForAuthentication, Asks, Input
  <2>4. authenticate(a).cmd = "LOG" /\ authenticate(a).who = a
    BY DEF authenticate, Command
  <2> HIDE DEF r
  <2>5. QED
    BY <2>2, <2>3, <2>4, CommandUttered
<1>3. CASE \/ \E a \in Login[p] : submitInscription(p, a)
           \/ \E a \in Account : \/ onAddContactButtonClicked(p, a) \/ onDeleteButtonClicked(p, a)
                                 \/ onSendButtonClicked(p, a) \/ onCallButtonClicked(p, a)
           \/ submitUpdate(p)
  <2>1. \A a : /\ createAccount(a).cmd = "REG" /\ addContact(a).cmd = "ADD"
               /\ deleteContact(a).cmd = "DEL" /\ sendMessage(a).cmd = "SEND"
               /\ terminateCall(a).cmd = "CLOSE_CALL" /\ call(a).cmd = "CALL"
               /\ updateInfo(a).cmd = "UPDATE"
    BY DEF createAccount, addContact, deleteContact, sendMessage, terminateCall, call, updateInfo,
           Command
  <2>2. toClient' = toClient
    BY <1>3 DEF submitInscription, onAddContactButtonClicked, onDeleteButtonClicked,
                onSendButtonClicked, onCallButtonClicked, submitUpdate, Asks
  <2>3. \E a : \E command \in {createAccount(a), addContact(a), deleteContact(a), sendMessage(a),
                               terminateCall(a), call(a), updateInfo(a)} :
           sendCommand(p, app[p], command)
    <3>1. ASSUME NEW a \in Login[p], submitInscription(p, a)
          PROVE  sendCommand(p, app[p], createAccount(a))
      BY <3>1 DEF submitInscription, Asks
    <3>2. ASSUME NEW a, \/ onAddContactButtonClicked(p, a) \/ onDeleteButtonClicked(p, a)
                        \/ onSendButtonClicked(p, a)
          PROVE  \/ sendCommand(p, app[p], addContact(a)) \/ sendCommand(p, app[p], deleteContact(a))
                 \/ sendCommand(p, app[p], sendMessage(a))
      BY <3>2 DEF onAddContactButtonClicked, onDeleteButtonClicked, onSendButtonClicked, Asks
    <3>3. ASSUME NEW a, onCallButtonClicked(p, a)
          PROVE  \/ sendCommand(p, app[p], terminateCall(me.mContactInCall))
                 \/ sendCommand(p, app[p], call(a))
      BY <3>3 DEF onCallButtonClicked, Asks
    <3>4. submitUpdate(p) => sendCommand(p, app[p], updateInfo(me.mLoggedUser))
      BY DEF submitUpdate, Asks, updateContactInfo
    <3>5. QED
      BY <1>3, <3>1, <3>2, <3>3, <3>4
  <2>4. QED
    BY <1>1, <2>1, <2>2, <2>3
<1>4. CASE onLogoutButtonClicked(p)
  <2> DEFINE r == [app[p] EXCEPT !.page = "flyer"]
  <2>1. /\ r \in AppRec /\ r.conn = me.conn /\ r.mContacts = me.mContacts
        /\ r.question = me.question /\ r.mLoggedUser = me.mLoggedUser
    BY DEF AppRec, Page
  <2>2. sendCommand(p, r, disconnect) /\ toClient' = toClient
    BY <1>4 DEF onLogoutButtonClicked, Asks
  <2>3. disconnect.cmd = "EXIT"
    BY DEF disconnect, Command
  <2> HIDE DEF r
  <2>4. QED
    BY <2>1, <2>2, <2>3, CommandUttered
<1>5. CASE \E accept \in BOOLEAN : newContactInvitation(p, accept) \/ newCallInvitation(p, accept)
  <2> DEFINE r == [app[p] EXCEPT !.question = NoQuestion]
             who == me.question.who
  <2>1. PICK accept \in BOOLEAN : newContactInvitation(p, accept) \/ newCallInvitation(p, accept)
    BY <1>5
  <2>2. /\ r \in AppRec /\ r.conn = me.conn /\ r.mContacts = me.mContacts
        /\ r.question = NoQuestion /\ r.mLoggedUser = me.mLoggedUser
    BY DEF AppRec, NoQuestion
  <2>3. /\ toClient' = toClient
        /\ \/ me.question.kind = "ADD" /\ sendCommand(p, r, acceptContactInvitation(who, accept))
           \/ sendCommand(p, r, acceptCallInvitation(who, accept))
    BY <2>1 DEF newContactInvitation, newCallInvitation, Replies
  <2>4. /\ acceptContactInvitation(who, accept).cmd = "ACCEPT_ADD"
        /\ acceptContactInvitation(who, accept).who = who
        /\ acceptCallInvitation(who, accept).cmd = "ACCEPT_CALL"
    BY DEF acceptContactInvitation, acceptCallInvitation, Command
  <2> HIDE DEF r
  <2>5. QED
    BY <2>2, <2>3, <2>4, CommandUttered
<1>6. QED
  BY <1>2, <1>3, <1>4, <1>5 DEF Use

\* What a client does with the next message: the list is as it says, an invitation
\* is asked about, and the own account is asked for.
Takes(p, q, commands) ==
    LET r == app[p]
        c == r.conn
        m == Head(toClient[c])
    IN  /\ c # Null /\ toClient[c] # <<>>
        /\ q.conn = c /\ q.mLoggedUser = r.mLoggedUser
        /\ Turn(p, q, commands) /\ toClient' = [toClient EXCEPT ![c] = Tail(@)]
        /\ \A a : a \in q.mContacts <=>
                     Shows(m, r.mLoggedUser, a) \/ (a \in r.mContacts /\ ~Ends(m, a))
        /\ q.question.kind = "ADD" => m.cmd = "ADD" /\ q.question.who = m.who
        /\ \E T : commands \in Seq(T)
        /\ \A i \in 1..Len(commands) :
              /\ commands[i].cmd \notin {"LOG", "ACCEPT_ADD"}
              /\ commands[i].cmd = "SHOW" => commands[i].who = q.mLoggedUser

LEMMA Taken ==
    ASSUME NEW p \in User, app[p] \in AppRec, Handle(p)
    PROVE  \E q, commands : Takes(p, q, commands)
<1> DEFINE me == app[p]
           c == me.conn
           m == Head(toClient[c])
<1>1. PICK cmd \in {"HANDSHAKE", "SHOW", "DEL", "SEND", "ADD", "CALL", "ACCEPT_CALL", "CLOSE_CALL", "ERR"} :
          Receives(p, cmd)
  BY DEF Handle, handleHandshakeCommand, handleShowCommand, handleDelCommand, handleSendCommand,
         handleAddCommand, handleCallCommand, handleAcceptCallCommand, handleCloseCallCommand,
         handleErrCommand
<1>2. /\ c # Null /\ toClient[c] # <<>> /\ me.question.kind # "ADD"
      /\ toClient' = [toClient EXCEPT ![c] = Tail(@)] /\ m.cmd = cmd
  BY <1>1 DEF Receives, NoQuestion
<1>3. Received(p) = m
  BY DEF Received
<1>4. (\E T : <<>> \in Seq(T)) /\ \A i \in 1..Len(<<>>) : FALSE
  <2>1. <<>> \in Seq({}) /\ Len(<<>>) = 0
    OBVIOUS
  <2>2. QED
    BY <2>1
<1> HIDE DEF m
<1>5. ASSUME NEW q, NEW commands, NEW T, commands \in Seq(T), Turn(p, q, commands),
             q.conn = c, q.mLoggedUser = me.mLoggedUser, q.question = me.question,
             \A a : a \in q.mContacts <=>
                       Shows(m, me.mLoggedUser, a) \/ (a \in me.mContacts /\ ~Ends(m, a)),
             \A i \in 1..Len(commands) :
                /\ commands[i].cmd \notin {"LOG", "ACCEPT_ADD"}
                /\ commands[i].cmd = "SHOW" => commands[i].who = q.mLoggedUser
      PROVE  Takes(p, q, commands)
  BY <1>2, <1>5 DEF Takes, m
<1>6. ASSUME NEW q, Turn(p, q, <<>>),
             q.conn = c, q.mLoggedUser = me.mLoggedUser, q.question = me.question,
             \A a : a \in q.mContacts <=>
                       Shows(m, me.mLoggedUser, a) \/ (a \in me.mContacts /\ ~Ends(m, a))
      PROVE  Takes(p, q, <<>>)
  <2> DEFINE none == <<>>
  <2>1. (\E T : none \in Seq(T)) /\ \A i \in 1..Len(none) : FALSE
    BY <1>4
  <2>2. Turn(p, q, none)
    BY <1>6
  <2> HIDE DEF none
  <2>3. Takes(p, q, none)
    BY <1>2, <1>6, <2>1, <2>2 DEF Takes, m
  <2>4. QED
    BY <2>3 DEF none
<1>7. m.cmd \notin {"SHOW", "DEL", "ERR"} => \A a : ~Shows(m, me.mLoggedUser, a) /\ ~Ends(m, a)
  BY DEF Shows, Ends, Farewell
<1>8. CASE handleHandshakeCommand(p)
  <2> DEFINE q == [app[p] EXCEPT !.mHasHandshaked = TRUE]
  <2>1. Turn(p, q, <<>>) /\ m.cmd = "HANDSHAKE"
    BY <1>8 DEF handleHandshakeCommand, Receives, m
  <2>2. /\ q.conn = c /\ q.mLoggedUser = me.mLoggedUser /\ q.question = me.question
        /\ q.mContacts = me.mContacts
    BY DEF AppRec
  <2> HIDE DEF q
  <2>3. Takes(p, q, <<>>)
    BY <1>6, <1>7, <2>1, <2>2
  <2>4. QED
    BY <2>3
<1>9. CASE handleShowCommand(p)
  <2> DEFINE q == receiveContactInfo(me, m.who)
  <2>1. Turn(p, q, <<>>) /\ m.cmd = "SHOW"
    BY <1>9, <1>3 DEF handleShowCommand, Receives, m
  <2>2. /\ q.conn = c /\ q.mLoggedUser = me.mLoggedUser /\ q.question = me.question
        /\ q.mContacts = IF m.who = me.mLoggedUser THEN me.mContacts ELSE me.mContacts \cup {m.who}
    BY DEF AppRec, receiveContactInfo
  <2> HIDE DEF q
  <2>3. \A a : a \in q.mContacts <=>
                  Shows(m, me.mLoggedUser, a) \/ (a \in me.mContacts /\ ~Ends(m, a))
    BY <2>1, <2>2 DEF Shows, Ends, Farewell
  <2>4. Takes(p, q, <<>>)
    BY <1>6, <2>1, <2>2, <2>3
  <2>5. QED
    BY <2>4
<1>10. CASE handleDelCommand(p)
  <2> DEFINE q == receiveContactDeletion(me, m.who)
  <2>1. Turn(p, q, <<>>) /\ m.cmd = "DEL"
    BY <1>10, <1>3 DEF handleDelCommand, Receives, m
  <2>2. /\ q.conn = c /\ q.mLoggedUser = me.mLoggedUser /\ q.question = me.question
        /\ q.mContacts = me.mContacts \ {m.who}
    BY DEF AppRec, receiveContactDeletion
  <2> HIDE DEF q
  <2>3. \A a : a \in q.mContacts <=>
                  Shows(m, me.mLoggedUser, a) \/ (a \in me.mContacts /\ ~Ends(m, a))
    BY <2>1, <2>2 DEF Shows, Ends, Farewell
  <2>4. Takes(p, q, <<>>)
    BY <1>6, <2>1, <2>2, <2>3
  <2>5. QED
    BY <2>4
<1>11. CASE handleSendCommand(p)
  <2>1. m.cmd = "SEND" /\ Turn(p, me, <<>>)
    BY <1>11 DEF handleSendCommand, Receives, m
  <2>2. Takes(p, me, <<>>)
    BY <1>6, <1>7, <2>1
  <2>3. QED
    BY <2>2
<1>12. CASE handleAddCommand(p) \/ handleCallCommand(p)
  <2> DEFINE q(kind) == [app[p] EXCEPT !.question = [kind |-> kind, who |-> m.who]]
  <2>1. PICK kind : m.cmd = kind /\ kind \in {"ADD", "CALL"} /\ Turn(p, q(kind), <<>>)
    BY <1>12, <1>3 DEF handleAddCommand, handleCallCommand, Receives, m
  <2>2. /\ q(kind).conn = c /\ q(kind).mLoggedUser = me.mLoggedUser
        /\ q(kind).question = [kind |-> kind, who |-> m.who]
        /\ q(kind).mContacts = me.mContacts
    BY DEF AppRec
  <2> HIDE DEF q
  <2>3. Takes(p, q(kind), <<>>)
    BY <1>2, <1>4, <1>7, <2>1, <2>2 DEF Takes, m
  <2>4. QED
    BY <2>3
<1>13. CASE handleAcceptCallCommand(p)
  <2> DEFINE q(devices) == startCommunication(receiveCallAnswer(me, m.who, m.accept, devices),
                                              m.who, m.accept)
             commands(devices) == criticalErrorHappenedInCallManager(m.who, devices)
  <2>1. PICK devices : Turn(p, q(devices), commands(devices)) /\ m.cmd = "ACCEPT_CALL"
    BY <1>13, <1>3 DEF handleAcceptCallCommand, Receives, m
  <2>2. /\ q(devices).conn = c /\ q(devices).mLoggedUser = me.mLoggedUser
        /\ q(devices).question = me.question /\ q(devices).mContacts = me.mContacts
    BY DEF AppRec, startCommunication, receiveCallAnswer, startCall
  <2>3. /\ commands(devices) \in Seq({terminateCall(m.who)})
        /\ terminateCall(m.who).cmd = "CLOSE_CALL"
    <3>1. /\ <<>> \in Seq({terminateCall(m.who)})
          /\ <<terminateCall(m.who)>> \in Seq({terminateCall(m.who)})
      OBVIOUS
    <3>2. QED
      BY <3>1 DEF criticalErrorHappenedInCallManager, terminateCall, Command
  <2>4. \A i \in 1..Len(commands(devices)) : commands(devices)[i].cmd = "CLOSE_CALL"
    BY <2>3
  <2> HIDE DEF q, commands
  <2>5. Takes(p, q(devices), commands(devices))
    BY <1>5, <1>7, <2>1, <2>2, <2>3, <2>4
  <2>6. QED
    BY <2>5
<1>14. CASE handleCloseCallCommand(p)
  <2> DEFINE q == terminateCommunication(receiveCallClose(me, m.who))
  <2>1. m.cmd = "CLOSE_CALL" /\ Turn(p, q, <<>>)
    BY <1>14, <1>3 DEF handleCloseCallCommand, Receives, m
  <2>2. /\ q.conn = c /\ q.mLoggedUser = me.mLoggedUser /\ q.question = me.question
        /\ q.mContacts = me.mContacts
    BY DEF AppRec, terminateCommunication, receiveCallClose, stopCall
  <2> HIDE DEF q
  <2>3. Takes(p, q, <<>>)
    BY <1>6, <1>7, <2>1, <2>2
  <2>4. QED
    BY <2>3
<1>15. CASE handleErrCommand(p) /\ m.instruction = "LOG"
  <2> DEFINE q == authenticateSuccess(me)
             commands == <<getContactInfo(me.mLoggedUser)>>
  <2>1. m.cmd = "ERR" /\ Turn(p, q, commands)
    BY <1>15, <1>3 DEF handleErrCommand, Receives, m
  <2>2. /\ q.conn = c /\ q.mLoggedUser = me.mLoggedUser /\ q.question = me.question
        /\ q.mContacts = me.mContacts
    BY DEF AppRec, authenticateSuccess
  <2>3. /\ commands \in Seq({getContactInfo(me.mLoggedUser)})
        /\ \A i \in 1..Len(commands) : commands[i] = getContactInfo(me.mLoggedUser)
    OBVIOUS
  <2>4. \A i \in 1..Len(commands) : commands[i].cmd = "SHOW" /\ commands[i].who = me.mLoggedUser
    BY <2>3 DEF getContactInfo, Command
  <2>5. \A a : ~Shows(m, me.mLoggedUser, a) /\ ~Ends(m, a)
    BY <1>15, <2>1 DEF Shows, Ends, Farewell
  <2> HIDE DEF q, commands
  <2>6. Takes(p, q, commands)
    BY <1>5, <2>1, <2>2, <2>3, <2>4, <2>5
  <2>7. QED
    BY <2>6
<1>16. CASE handleErrCommand(p) /\ m.instruction # "LOG"
  <2> DEFINE q == disconnectSuccess(receiveServerAnswerForDisconnecting(me))
  <2>1. m.cmd = "ERR" /\ m.instruction = "EXIT" /\ Turn(p, q, <<>>)
    BY <1>16, <1>3 DEF handleErrCommand, Receives, m
  <2>2. /\ q.conn = c /\ q.mLoggedUser = me.mLoggedUser /\ q.question = me.question
        /\ q.mContacts = {}
    BY DEF AppRec, disconnectSuccess, receiveServerAnswerForDisconnecting, stopCall
  <2>3. \A a : ~Shows(m, me.mLoggedUser, a) /\ Ends(m, a)
    BY <2>1 DEF Shows, Ends, Farewell
  <2> HIDE DEF q
  <2>4. Takes(p, q, <<>>)
    BY <1>6, <2>1, <2>2, <2>3
  <2>5. QED
    BY <2>4
<1>17. QED
  BY <1>8, <1>9, <1>10, <1>11, <1>12, <1>13, <1>14, <1>15, <1>16 DEF Handle

\* A step of a client leaves the server's lists as they are.
LEMMA SameServerLists ==
    ASSUME UNCHANGED vars
    PROVE  (ServerLists => ServerLists') /\ (NoOwnContact => NoOwnContact')
<1>1. UNCHANGED <<client, file, up, mAccounts, accountsFile>>
  BY DEF vars, memory, disk
<1>2. QED
  BY <1>1 DEF ServerLists, Mirrored, MirroredBut, UnknownAlone, ContactsSymmetric,
              RegisteredHasFile, NoOwnContact

\* What a client does to its connection.
LEMMA TurnedQueues ==
    ASSUME QueueTypes, OwnConnections, NEW p \in User, NEW q, NEW commands, NEW T,
           Turn(p, q, commands), q.conn # Null => q.conn = app[p].conn, commands \in Seq(T),
           \/ toClient' = toClient
           \/ app[p].conn # Null /\ toClient' = [toClient EXCEPT ![app[p].conn] = Tail(@)]
           \/ app[p].conn # Null /\ toClient' = [toClient EXCEPT ![app[p].conn] = <<>>]
    PROVE  /\ app'[p] = q /\ \A u \in User : u # p => app'[u] = app[u]
           /\ \A u \in User : (u # p /\ app[u].conn # Null) =>
                 toClient'[app[u].conn] = toClient[app[u].conn]
           /\ \A c \in Slot : c # q.conn => toServer'[c] = toServer[c]
           /\ q.conn # Null => toServer'[q.conn] = toServer[q.conn] \o commands
<1>1. /\ app \in [User -> AppRec] /\ toServer \in [Slot -> Seq(Treatable)]
      /\ toClient \in [Slot -> Seq(Notice)]
  BY DEF QueueTypes
<1>2. \A u \in User : app[u].conn \in Slot \cup {Null}
  BY <1>1 DEF AppRec
<1>3. app' = [app EXCEPT ![p] = q]
  BY DEF Turn
<1>4. ASSUME NEW u \in User, u # p, app[u].conn # Null
      PROVE  toClient'[app[u].conn] = toClient[app[u].conn]
  <2>1. app[u].conn # app[p].conn
    BY <1>4 DEF OwnConnections
  <2>2. QED
    BY <1>1, <1>2, <1>4, <2>1
<1>5. /\ \A c \in Slot : c # q.conn => toServer'[c] = toServer[c]
      /\ q.conn # Null => toServer'[q.conn] = toServer[q.conn] \o commands
  <2>1. CASE q.conn = Null
    BY <2>1 DEF Turn
  <2>2. CASE q.conn # Null
    <3>1. q.conn \in Slot /\ toServer' = [toServer EXCEPT ![q.conn] = @ \o commands]
      BY <1>2, <2>2 DEF Turn
    <3>2. QED
      BY <1>1, <2>2, <3>1
  <2>3. QED
    BY <2>1, <2>2
<1>6. QED
  BY <1>1, <1>3, <1>4, <1>5

\* Commands that are those of the client's user keep the commands named.
LEMMA TurnedNames ==
    ASSUME SystemInv, SystemInv', CommandsNamed, client' = client, NEW p \in User, NEW q,
           app'[p] = q, \A u \in User : u # p => app'[u] = app[u],
           q.conn # Null => q.conn = app[p].conn,
           \A c \in Slot : c # q.conn => toServer'[c] = toServer[c],
           q.conn # Null => NamedBy(q.mLoggedUser, client[q.conn], toServer'[q.conn])
    PROVE  CommandsNamed'
<1>1. ASSUME NEW c \in Slot
      PROVE  \E own \in Account \cup {Null} :
                /\ \A u \in User : app'[u].conn = c => app'[u].mLoggedUser = own
                /\ NamedBy(own, client'[c], toServer'[c])
  <2>1. c # Null
    BY NullAssumption
  <2>2. CASE c = q.conn
    <3>1. \A u \in User : app'[u].conn = c => u = p
      BY <2>1, <2>2 DEF SystemInv, OwnConnections
    <3>2. q.mLoggedUser \in Account \cup {Null}
      BY DEF SystemInv, QueueTypes, AppRec
    <3>3. QED
      BY <2>1, <2>2, <3>1, <3>2
  <2>3. CASE c # q.conn
    <3>1. PICK own \in Account \cup {Null} :
              /\ \A u \in User : app[u].conn = c => app[u].mLoggedUser = own
              /\ NamedBy(own, client[c], toServer[c])
      BY DEF CommandsNamed
    <3>2. \A u \in User : app'[u].conn = c => u # p
      BY <2>3
    <3>3. QED
      BY <2>3, <3>1, <3>2
  <2>4. QED
    BY <2>2, <2>3
<1>2. QED
  BY <1>1 DEF CommandsNamed

\* The other clients' lists are not touched.
LEMMA OthersFit ==
    ASSUME SystemInv, ListsFit, client' = client, unnoticed' = unnoticed,
           NEW p \in User, \A u \in User : u # p => app'[u] = app[u],
           \A u \in User : (u # p /\ app[u].conn # Null) =>
              toClient'[app[u].conn] = toClient[app[u].conn],
           ListFits(app'[p], client[app'[p].conn], toClient'[app'[p].conn], unnoticed)
    PROVE  ListsFit'
<1>1. ASSUME NEW u \in User
      PROVE  ListFits(app'[u], client'[app'[u].conn], toClient'[app'[u].conn], unnoticed')
  <2>1. CASE u # p
    BY <2>1 DEF ListsFit, ListFits
  <2>2. QED
    BY <2>1
<1>2. QED
  BY <1>1 DEF ListsFit

\* A user gives a command.
LEMMA UtterLists ==
    ASSUME SystemInv, SystemInv', ListInv, NEW p \in User, UNCHANGED vars, unnoticed' = unnoticed,
           misnamed' = (misnamed \/ Misnames(p)), NEW q, NEW commands, Utters(p, q, commands)
    PROVE  ListInv'
<1> DEFINE r == app[p]
           c == r.conn
           own == r.mLoggedUser
           other == q.mLoggedUser
<1>1. PICK T : commands \in Seq(T)
  BY DEF Utters
<1>2. /\ toClient' = toClient /\ client' = client
      /\ Turn(p, q, commands) /\ q.conn = c
      /\ q.mContacts = IF c = Null THEN {} ELSE r.mContacts
      /\ q.question \in {r.question, NoQuestion}
  BY DEF Utters, vars, memory
<1>3. /\ app'[p] = q /\ \A u \in User : u # p => app'[u] = app[u]
      /\ \A u \in User : (u # p /\ app[u].conn # Null) =>
            toClient'[app[u].conn] = toClient[app[u].conn]
      /\ \A s \in Slot : s # q.conn => toServer'[s] = toServer[s]
      /\ q.conn # Null => toServer'[q.conn] = toServer[q.conn] \o commands
  <2>1. QueueTypes /\ OwnConnections
    BY DEF SystemInv
  <2>2. q.conn # Null => q.conn = app[p].conn
    BY <1>2
  <2>3. \/ toClient' = toClient
        \/ app[p].conn # Null /\ toClient' = [toClient EXCEPT ![app[p].conn] = Tail(@)]
    BY <1>2
  <2>4. Turn(p, q, commands)
    BY <1>2
  <2> HIDE DEF r, c
  <2>5. QED
    BY <1>1, <2>1, <2>2, <2>3, <2>4, TurnedQueues
<1>4. ServerLists' /\ unnoticed' \in BOOLEAN
  BY SameServerLists DEF ListInv
<1>5. SUFFICES ASSUME ~misnamed, ~Misnames(p)
               PROVE  NoOwnContact' /\ CommandsNamed' /\ ListsFit'
  BY <1>4 DEF ListInv
<1>6. NoOwnContact' /\ CommandsNamed /\ ListsFit /\ unnoticed \in BOOLEAN
  BY <1>5, SameServerLists DEF ListInv
<1>7. ListFits(r, client[c], toClient[c], unnoticed)
  BY <1>6 DEF ListsFit
<1>8. c # Null => /\ c \in Slot /\ toServer[c] \in Seq(Treatable) /\ toClient[c] \in Seq(Notice)
                  /\ NamedBy(own, client[c], toServer[c])
                  /\ ListAgrees(own, r.mContacts, client[c], toClient[c], unnoticed)
  BY <1>6, <1>7 DEF SystemInv, QueueTypes, AppRec, CommandsNamed, ListFits
<1>9. ASSUME c # Null, other # own
      PROVE  /\ ~client[c].isConnected
             /\ \A i \in 1..Len(toServer[c]) : toServer[c][i].cmd # "LOG"
             /\ \A i \in 1..Len(toClient[c]) :
                   toClient[c][i].cmd \in {"SHOW", "ADD"} => toClient[c][i].who # other
  <2>1. /\ DOMAIN toServer[c] = 1..Len(toServer[c])
        /\ DOMAIN toClient[c] = 1..Len(toClient[c])
    BY <1>8, <1>9
  <2>2. QED
    BY <1>3, <1>5, <1>9, <2>1 DEF Misnames
<1>10. c # Null => NamedBy(other, client[c], toServer[c] \o commands)
  <2>1. SUFFICES ASSUME c # Null
                 PROVE  NamedBy(other, client[c], toServer[c] \o commands)
    OBVIOUS
  <2> DEFINE S == Treatable \cup T
             t == toServer[c]
  <2>2. t \in Seq(S) /\ commands \in Seq(S)
    BY <1>1, <1>8, <2>1
  <2> HIDE DEF S, t
  <2>3. CASE other = own
    <3>1. NamedBy(other, client[c], t)
      BY <1>8, <2>1, <2>3 DEF t
    <3>2. \A i \in 1..Len(commands) :
             /\ commands[i].cmd \in {"LOG", "SHOW"} => commands[i].who = other
             /\ commands[i].cmd = "ACCEPT_ADD" => commands[i].who # other
      BY <1>7, <2>3 DEF Utters, ListFits
    <3> HIDE DEF other
    <3>3. NamedBy(other, client[c], t \o commands)
      BY <2>2, <3>1, <3>2, NamedMore
    <3>4. QED
      BY <3>3 DEF t
  <2>4. CASE other # own
    <3>1. Len(commands) = 1 /\ commands[1].cmd = "LOG" /\ commands[1].who = other
      <4>1. Len(commands) = 1 /\ commands[1].cmd = "LOG"
        BY <1>2, <2>1, <2>4 DEF Utters
      <4>2. 1 \in 1..Len(commands)
        BY <4>1
      <4>3. QED
        BY <4>1, <4>2 DEF Utters
    <3>2. ~client[c].isConnected /\ \A i \in 1..Len(t) : t[i].cmd # "LOG"
      BY <1>9, <2>1, <2>4 DEF t
    <3> HIDE DEF other
    <3>3. NamedBy(other, client[c], t \o commands)
      BY <2>2, <3>1, <3>2, NamedAnew
    <3>4. QED
      BY <3>3 DEF t
  <2>5. QED
    BY <2>3, <2>4
<1>11. CommandsNamed'
  <2>1. q.conn # Null => NamedBy(q.mLoggedUser, client[q.conn], toServer'[q.conn])
    BY <1>2, <1>3, <1>10
  <2>2. QED
    BY <1>2, <1>3, <1>6, <2>1, TurnedNames
<1>12. ListFits(q, client[q.conn], toClient'[q.conn], unnoticed)
  <2>1. q.question.kind = "ADD" => q.question.who # q.mLoggedUser
    <3>1. CASE other = own
      BY <1>2, <1>7, <3>1 DEF ListFits, NoQuestion
    <3>2. CASE other # own
      BY <3>2 DEF Utters, NoQuestion
    <3>3. QED
      BY <3>1, <3>2
  <2>2. ASSUME c # Null
        PROVE  ListAgrees(other, r.mContacts, client[c], toClient[c], unnoticed)
    <3>1. CASE other = own
      BY <1>8, <2>2, <3>1
    <3>2. CASE other # own
      <4> DEFINE t == toClient[c]
      <4>1. /\ t \in Seq(Notice) /\ ~client[c].isConnected
            /\ ListAgrees(own, r.mContacts, client[c], t, unnoticed)
            /\ \A i \in 1..Len(t) : t[i].cmd \in {"SHOW", "ADD"} => t[i].who # other
        BY <1>8, <1>9, <2>2, <3>2
      <4> HIDE DEF t, own, other
      <4>2. ListAgrees(other, r.mContacts, client[c], t, unnoticed)
        BY <1>6, <4>1, RenamedLists
      <4>3. QED
        BY <4>2 DEF t
    <3>3. QED
      BY <3>1, <3>2
  <2>3. QED
    BY <1>2, <2>1, <2>2 DEF ListFits
<1>13. ListsFit'
  BY <1>2, <1>3, <1>6, <1>12, OthersFit
<1>14. QED
  BY <1>6, <1>11, <1>13

\* A client reads a message.
LEMMA TakeLists ==
    ASSUME SystemInv, SystemInv', ListInv, NEW p \in User, UNCHANGED vars, unnoticed' = unnoticed,
           misnamed' = (misnamed \/ Misnames(p)), NEW q, NEW commands, Takes(p, q, commands)
    PROVE  ListInv'
<1> DEFINE r == app[p]
           c == r.conn
           own == r.mLoggedUser
           m == Head(toClient[c])
<1>1. PICK T : commands \in Seq(T)
  BY DEF Takes
<1>2. /\ toClient' = [toClient EXCEPT ![c] = Tail(@)] /\ client' = client
      /\ c # Null /\ toClient[c] # <<>>
      /\ Turn(p, q, commands) /\ q.conn = c /\ q.mLoggedUser = own
  BY DEF Takes, vars, memory
<1>3. /\ app'[p] = q /\ \A u \in User : u # p => app'[u] = app[u]
      /\ \A u \in User : (u # p /\ app[u].conn # Null) =>
            toClient'[app[u].conn] = toClient[app[u].conn]
      /\ \A s \in Slot : s # q.conn => toServer'[s] = toServer[s]
      /\ q.conn # Null => toServer'[q.conn] = toServer[q.conn] \o commands
  <2>1. QueueTypes /\ OwnConnections
    BY DEF SystemInv
  <2>2. q.conn # Null => q.conn = app[p].conn
    BY <1>2
  <2>3. \/ toClient' = toClient
        \/ app[p].conn # Null /\ toClient' = [toClient EXCEPT ![app[p].conn] = Tail(@)]
    BY <1>2
  <2>4. Turn(p, q, commands)
    BY <1>2
  <2> HIDE DEF r, c
  <2>5. QED
    BY <1>1, <2>1, <2>2, <2>3, <2>4, TurnedQueues
<1>4. ServerLists' /\ unnoticed' \in BOOLEAN
  BY SameServerLists DEF ListInv
<1>5. SUFFICES ASSUME ~misnamed
               PROVE  NoOwnContact' /\ CommandsNamed' /\ ListsFit'
  BY <1>4 DEF ListInv
<1>6. NoOwnContact' /\ CommandsNamed /\ ListsFit /\ unnoticed \in BOOLEAN
  BY <1>5, SameServerLists DEF ListInv
<1>7. /\ c \in Slot /\ toServer[c] \in Seq(Treatable)
      /\ toClient \in [Slot -> Seq(Notice)] /\ toClient[c] \in Seq(Notice)
      /\ NamedBy(own, client[c], toServer[c])
      /\ ListAgrees(own, r.mContacts, client[c], toClient[c], unnoticed)
  BY <1>2, <1>6 DEF SystemInv, QueueTypes, AppRec, CommandsNamed, ListFits, ListsFit
<1>8. CommandsNamed'
  <2> DEFINE S == Treatable \cup T
             t == toServer[c]
  <2>1. t \in Seq(S) /\ commands \in Seq(S) /\ NamedBy(own, client[c], t)
    BY <1>1, <1>7
  <2>2. \A i \in 1..Len(commands) :
           /\ commands[i].cmd \in {"LOG", "SHOW"} => commands[i].who = own
           /\ commands[i].cmd = "ACCEPT_ADD" => commands[i].who # own
    BY <1>2 DEF Takes
  <2> HIDE DEF S, t, own
  <2>3. NamedBy(own, client[c], t \o commands)
    BY <2>1, <2>2, NamedMore
  <2>4. NamedBy(q.mLoggedUser, client[q.conn], toServer'[q.conn])
    BY <1>2, <1>3, <2>3 DEF t
  <2>5. QED
    BY <1>2, <1>3, <1>6, <2>4, TurnedNames
<1>9. ListFits(q, client[q.conn], toClient'[q.conn], unnoticed)
  <2> DEFINE t == toClient[c]
  <2>1. /\ t \in Seq(Notice) /\ t # <<>> /\ toClient'[c] = Tail(t)
        /\ ListAgrees(own, r.mContacts, client[c], t, unnoticed)
    BY <1>2, <1>7
  <2>2. \A a : a \in q.mContacts <=> Shows(Head(t), own, a) \/ (a \in r.mContacts /\ ~Ends(Head(t), a))
    BY DEF Takes
  <2>3. q.question.kind = "ADD" => q.question.who # own
    <3>1. 1 \in 1..Len(t) /\ Head(t) = t[1]
      BY <2>1
    <3>2. q.question.kind = "ADD" => Head(t).cmd = "ADD" /\ q.question.who = Head(t).who
      BY DEF Takes
    <3> HIDE DEF t
    <3>3. QED
      BY <2>1, <3>1, <3>2 DEF ListAgrees
  <2> HIDE DEF t, own
  <2>4. ListAgrees(own, q.mContacts, client[c], Tail(t), unnoticed)
    BY <1>6, <2>1, <2>2, ReadLists
  <2>5. QED
    BY <1>2, <2>1, <2>3, <2>4 DEF ListFits
<1>10. ListsFit'
  BY <1>2, <1>3, <1>6, <1>9, OthersFit
<1>11. QED
  BY <1>6, <1>8, <1>10

LEMMA ClientLists ==
    ASSUME SystemInv, SystemInv', ListInv, NEW p \in User, ClientStep(p)
    PROVE  ListInv'
<1>1. app[p] \in AppRec
  BY DEF SystemInv, QueueTypes
<1>2. UNCHANGED vars /\ unnoticed' = unnoticed /\ misnamed' = (misnamed \/ Misnames(p))
  BY DEF ClientStep
<1>3. \E q, commands : Utters(p, q, commands) \/ Takes(p, q, commands)
  BY <1>1, Uttered, Taken DEF ClientStep
<1>4. QED
  BY <1>2, <1>3, UtterLists, TakeLists

\* A client finds its connection closed.
LEMMA LossLists ==
    ASSUME SystemInv, SystemInv', ListInv, NEW p \in User, NoticeLoss(p)
    PROVE  ListInv'
<1> DEFINE r == app[p]
           q == onDisconnection(r)
<1>1. /\ UNCHANGED vars /\ client' = client /\ unnoticed' = unnoticed /\ misnamed' = misnamed
      /\ r.conn # Null /\ Turn(p, q, <<>>) /\ toClient' = [toClient EXCEPT ![r.conn] = <<>>]
  BY DEF NoticeLoss, onSocketClosedByServer, vars, memory
<1>2. /\ QueueTypes /\ OwnConnections /\ r \in AppRec
  BY DEF SystemInv, QueueTypes
<1>3. /\ q.conn = Null /\ q.mContacts = {} /\ q.mLoggedUser = r.mLoggedUser
      /\ q.question = r.question
  BY <1>2 DEF onDisconnection, disconnectedFromServer, AppRec
<1>4. <<>> \in Seq({})
  OBVIOUS
<1> HIDE DEF q
<1>5. /\ app'[p] = q /\ \A u \in User : u # p => app'[u] = app[u]
      /\ \A u \in User : (u # p /\ app[u].conn # Null) =>
            toClient'[app[u].conn] = toClient[app[u].conn]
      /\ \A s \in Slot : s # q.conn => toServer'[s] = toServer[s]
  BY <1>1, <1>2, <1>3, <1>4, TurnedQueues
<1>6. ServerLists' /\ unnoticed' \in BOOLEAN
  BY <1>1, SameServerLists DEF ListInv
<1>7. ASSUME ~misnamed
      PROVE  NoOwnContact' /\ CommandsNamed' /\ ListsFit'
  <2>1. NoOwnContact' /\ CommandsNamed /\ ListsFit
    BY <1>1, <1>7, SameServerLists DEF ListInv
  <2>2. CommandsNamed'
    BY <1>1, <1>3, <1>5, <2>1, TurnedNames
  <2>3. ListFits(r, client[r.conn], toClient[r.conn], unnoticed)
    BY <2>1 DEF ListsFit
  <2>4. ListFits(q, client[q.conn], toClient'[q.conn], unnoticed)
    BY <1>3, <2>3 DEF ListFits
  <2>5. ListsFit'
    BY <1>1, <1>5, <2>1, <2>4, OthersFit
  <2>6. QED
    BY <2>1, <2>2, <2>5
<1>8. QED
  BY <1>1, <1>6, <1>7 DEF ListInv

\* A client makes a connection, with an empty list.
LEMMA ConnectLists ==
    ASSUME SystemInv, SystemInv', LoginInv, ListInv, NEW p \in User, NEW c \in Slot, Connect(p, c)
    PROVE  ListInv'
<1> DEFINE r == app[p]
           q == [(IF r.conn = Null THEN r ELSE onDisconnection(r)) EXCEPT !.conn = c]
<1>1. /\ app \in [User -> AppRec] /\ client \in [Slot -> ClientRec] /\ OwnConnections
      /\ toServer \in [Slot -> Seq(Treatable)] /\ toClient \in [Slot -> Seq(Notice)]
  BY DEF SystemInv, QueueTypes, ServerInv, TypeOK
<1>2. /\ ~Attached(c) /\ app' = [app EXCEPT ![p] = q] /\ r.question = NoQuestion
      /\ toServer' = [toServer EXCEPT ![c] = <<sendHandshake>>]
      /\ toClient' = [d \in Slot |-> IF d \in {c, r.conn} THEN <<>> ELSE toClient[d]]
      /\ onNewConnection(c) /\ client' = [client EXCEPT ![c] = NewClient]
      /\ file' = file /\ up' = up /\ unnoticed' = unnoticed /\ misnamed' = misnamed
  BY DEF Connect, connectToServer, Input, onNewConnection, Become
<1>3. /\ q.conn = c /\ q.mLoggedUser = r.mLoggedUser /\ q.question = NoQuestion
      /\ q.mContacts = IF r.conn = Null THEN r.mContacts ELSE {}
  BY <1>1, <1>2 DEF onDisconnection, disconnectedFromServer, AppRec
<1> HIDE DEF q
<1>4. ServerLists' /\ unnoticed' \in BOOLEAN
  BY <1>2, StepKeepsLists DEF ListInv, ListsKept, SystemInv
<1>5. /\ app'[p] = q /\ client'[c] = NewClient /\ toClient'[c] = <<>>
      /\ toServer'[c] = <<sendHandshake>> /\ c # Null
  BY <1>1, <1>2, NullAssumption
<1>6. \A s \in Slot \ {c} : client'[s] = client[s] /\ toServer'[s] = toServer[s]
  BY <1>1, <1>2
<1>7. ASSUME NEW u \in User, u # p
      PROVE  /\ app'[u] = app[u] /\ app[u].conn # c
             /\ app[u].conn # Null => /\ toClient'[app[u].conn] = toClient[app[u].conn]
                                      /\ client'[app[u].conn] = client[app[u].conn]
  <2>1. app'[u] = app[u] /\ app[u].conn \in Slot \cup {Null} /\ app[u].conn # c
    BY <1>1, <1>2, <1>7 DEF AppRec, Attached
  <2>2. app[u].conn # Null => app[u].conn # r.conn
    BY <1>1, <1>7 DEF OwnConnections
  <2>3. QED
    BY <1>2, <1>6, <2>1, <2>2
<1>8. ASSUME ~misnamed
      PROVE  NoOwnContact' /\ CommandsNamed' /\ ListsFit'
  <2>1. NoOwnContact /\ CommandsNamed /\ ListsFit
    BY <1>8 DEF ListInv
  <2>2. NoOwnContact'
    BY <1>2, <2>1 DEF NoOwnContact
  <2>3. ASSUME NEW s \in Slot
        PROVE  \E own \in Account \cup {Null} :
                  /\ \A u \in User : app'[u].conn = s => app'[u].mLoggedUser = own
                  /\ NamedBy(own, client'[s], toServer'[s])
    <3>1. CASE s = c
      <4>1. \A u \in User : app'[u].conn = c => u = p
        BY <1>7
      <4>2. q.mLoggedUser \in Account \cup {Null}
        BY <1>1, <1>3 DEF AppRec
      <4>3. ~NewClient.isConnected
        BY DEF NewClient, NoClient
      <4>4. NamedBy(q.mLoggedUser, NewClient, <<sendHandshake>>)
        <5> DEFINE t == <<sendHandshake>>
        <5>1. \A i \in 1..Len(t) : t[i] = sendHandshake
          OBVIOUS
        <5>2. \A i \in 1..Len(t) : t[i].cmd = "HANDSHAKE"
          BY <5>1 DEF sendHandshake, Command
        <5> HIDE DEF t
        <5>3. NamedBy(q.mLoggedUser, NewClient, t)
          BY <4>3, <5>2 DEF NamedBy
        <5>4. QED
          BY <5>3 DEF t
      <4>5. QED
        BY <1>5, <3>1, <4>1, <4>2, <4>4
    <3>2. CASE s # c
      <4>1. PICK own \in Account \cup {Null} :
                /\ \A u \in User : app[u].conn = s => app[u].mLoggedUser = own
                /\ NamedBy(own, client[s], toServer[s])
        BY <2>1 DEF CommandsNamed
      <4>2. \A u \in User : app'[u].conn = s => app'[u] = app[u]
        BY <1>3, <1>5, <1>7, <3>2
      <4>3. QED
        BY <1>6, <3>2, <4>1, <4>2
    <3>3. QED
      BY <3>1, <3>2
  <2>4. CommandsNamed'
    BY <2>3 DEF CommandsNamed
  <2>5. ASSUME NEW u \in User
        PROVE  ListFits(app'[u], client'[app'[u].conn], toClient'[app'[u].conn], unnoticed')
    <3>1. CASE u = p
      <4>1. q.mContacts = {}
        BY <1>3, <2>1 DEF ListsFit, ListFits
      <4>2. ListAgrees(q.mLoggedUser, q.mContacts, NewClient, <<>>, unnoticed)
        BY <4>1 DEF ListAgrees, NewClient, NoClient
      <4>3. ListFits(q, NewClient, <<>>, unnoticed)
        <5>1. q.question.kind # "ADD"
          BY <1>3 DEF NoQuestion
        <5>2. QED
          BY <4>1, <4>2, <5>1 DEF ListFits
      <4>4. QED
        BY <1>2, <1>3, <1>5, <3>1, <4>3
    <3>2. CASE u # p
      <4>1. ListFits(app[u], client[app[u].conn], toClient[app[u].conn], unnoticed)
        BY <2>1 DEF ListsFit
      <4>2. QED
        BY <1>2, <1>7, <3>2, <4>1 DEF ListFits
    <3>3. QED
      BY <3>1, <3>2
  <2>6. ListsFit'
    BY <2>5 DEF ListsFit
  <2>7. QED
    BY <2>2, <2>4, <2>6
<1>9. QED
  BY <1>2, <1>4, <1>8 DEF ListInv

\* The lists still fit once the messages of a step of the server are sent.
LEMMA InformedFits ==
    ASSUME SystemInv, SystemInv', ListsKept, CommandsNamed, CommandsNamed', ListsFit, NoOwnContact',
           NEW d \in Slot, NEW command, Informed(d, command),
           sent' \in SUBSET Message, WellMeant(sent'), Deliver(sent'), app' = app,
           \A s \in Slot : client'[s].alive => client[s].alive,
           unnoticed \in BOOLEAN, unnoticed' \in BOOLEAN,
           unnoticed => unnoticed', Unnoticed(d) => unnoticed'
    PROVE  ListsFit'
<1>1. /\ app \in [User -> AppRec] /\ toClient \in [Slot -> Seq(Notice)]
      /\ client \in [Slot -> ClientRec] /\ client' \in [Slot -> ClientRec]
  BY DEF SystemInv, QueueTypes, ServerInv, TypeOK
<1>2. ASSUME NEW u \in User
      PROVE  ListFits(app'[u], client'[app'[u].conn], toClient'[app'[u].conn], unnoticed')
  <2> DEFINE r == app[u]
             c == r.conn
             own == r.mLoggedUser
             q == toClient[c]
  <2>1. ListFits(r, client[c], q, unnoticed)
    BY DEF ListsFit
  <2>2. CASE c = Null
    BY <2>1, <2>2 DEF ListFits
  <2>3. CASE c # Null
    <3>1. c \in Slot /\ Attached(c) /\ q \in Seq(Notice)
      BY <1>1, <2>3 DEF AppRec, Attached
    <3>2. ListAgrees(own, r.mContacts, client[c], q, unnoticed)
      BY <2>1, <2>3 DEF ListFits
    <3>3. client[c].isConnected => client[c].account = own
      BY <3>1 DEF CommandsNamed, NamedBy
    <3>4. client'[c].isConnected => client'[c].account = own
      BY <3>1 DEF CommandsNamed, NamedBy
    <3>5. ASSUME client'[c].isConnected
          PROVE  client'[c].alive /\ own \notin client'[c].contact
      <4>1. client'[c].alive
        BY <3>1, <3>5 DEF SystemInv, ServerInv, ObjectInv, NoClient
      <4>2. up'
        BY <3>1, <3>5 DEF ListsKept, LoginInv, Session
      <4>3. /\ client'[c].account \in Account
            /\ file'[client'[c].account].contact = client'[c].contact
        BY <3>1, <3>5 DEF ListsKept, Agree
      <4>4. QED
        BY <3>4, <3>5, <4>1, <4>2, <4>3 DEF NoOwnContact
    <3> HIDE DEF own, c
    <3>6. PICK x \in Seq(NoticesTo(c)) :
              /\ x \in Seq(MessagesFor(c, sent'))
              /\ MessagesFor(c, sent') # {} => x # <<>>
              /\ \A m \in MessagesFor(c, sent') : \E i \in 1..Len(x) : x[i] = m
              /\ \A i, j \in 1..Len(x) : i # j => x[i] # x[j]
              /\ toClient'[c] = IF Attached(c) THEN toClient[c] \o x ELSE <<>>
      BY <3>1, Delivered
    <3>7. x \in Seq(Notice) /\ toClient'[c] = q \o x
      BY <3>1, <3>6 DEF NoticesTo
    <3>8. Told(x, client[c], client'[c], own, unnoticed')
      <4>1. /\ x \in Seq(MessagesFor(c, sent'))
            /\ \A m \in MessagesFor(c, sent') : \E i \in 1..Len(x) : x[i] = m
        BY <3>6
      <4>2. (c = d /\ Unnoticed(d)) => unnoticed'
        OBVIOUS
      <4>3. client'[c].alive => client[c].alive
        BY <3>1
      <4>4. client'[c].isConnected => /\ client'[c].account = own /\ client'[c].alive
                                      /\ own \notin client'[c].contact
        BY <3>4, <3>5
      <4>5. QED
        BY <3>1, <3>3, <4>1, <4>2, <4>3, <4>4, InformedTold
    <3>9. ListAgrees(own, r.mContacts, client'[c], q \o x, unnoticed')
      <4>1. /\ client[c].contact \in SUBSET Account /\ client'[c].contact \in SUBSET Account
            /\ client[c].isConnected \in BOOLEAN /\ client'[c].isConnected \in BOOLEAN
        BY <1>1, <3>1 DEF ClientRec
      <4> HIDE DEF q, r
      <4>2. QED
        BY <3>1, <3>2, <3>7, <3>8, <4>1, ToldLists
    <3>10. QED
      BY <2>1, <3>7, <3>9 DEF ListFits, own, c
  <2>4. QED
    BY <2>2, <2>3
<1>3. QED
  BY <1>2 DEF ListsFit

\* The commands are still named when one of them has been treated, or when the
\* connection is closed.
LEMMA ServedNames ==
    ASSUME SystemInv, SystemInv', CommandsNamed, NEW d \in Slot, NEW command,
           Informed(d, command), app' = app,
           \A s \in Slot \ {d} : toServer'[s] = toServer[s],
           \/ /\ toServer[d] # <<>> /\ command = Head(toServer[d])
              /\ toServer'[d] = Tail(toServer[d])
           \/ toServer'[d] = <<>> /\ ~client'[d].isConnected
    PROVE  CommandsNamed'
<1>1. /\ toServer \in [Slot -> Seq(Treatable)]
      /\ client \in [Slot -> ClientRec] /\ client' \in [Slot -> ClientRec]
  BY DEF SystemInv, QueueTypes, ServerInv, TypeOK
<1>2. ASSUME NEW s \in Slot, NEW own, NamedBy(own, client[s], toServer[s])
      PROVE  NamedBy(own, client'[s], toServer'[s])
  <2> DEFINE t == toServer[s]
             old == client[s]
             new == client'[s]
  <2>1. t \in Seq(Treatable) /\ old.isConnected \in BOOLEAN /\ new.isConnected \in BOOLEAN
    BY <1>1 DEF ClientRec
  <2>2. Follows(d, command, s)
    BY DEF Informed
  <2>3. /\ (old.isConnected /\ new.isConnected) => new.account = old.account
        /\ (~old.isConnected /\ new.isConnected) =>
              s = d /\ command.cmd = "LOG" /\ new.account = command.who
    BY <2>2 DEF Follows
  <2>4. NamedBy(own, old, t)
    BY <1>2
  <2> HIDE DEF t, old, new
  <2>5. CASE s # d
    <3>1. NamedBy(own, new, t)
      BY <2>1, <2>3, <2>4, <2>5, NamedLess
    <3>2. QED
      BY <2>5, <3>1 DEF t, new
  <2>6. CASE s = d /\ t # <<>> /\ command = Head(t) /\ toServer'[d] = Tail(t)
    <3>1. NamedBy(own, new, Tail(t))
      BY <2>1, <2>3, <2>4, <2>6, NamedLess
    <3>2. QED
      BY <2>6, <3>1 DEF new
  <2>7. CASE s = d /\ toServer'[d] = <<>> /\ ~client'[d].isConnected
    BY <2>7 DEF NamedBy
  <2>8. QED
    BY <2>5, <2>6, <2>7 DEF t
<1>3. QED
  BY <1>2 DEF CommandsNamed

LEMMA ServeLists ==
    ASSUME SystemInv, SystemInv', LoginInv, ListInv, NEW d \in Slot, Serve(d)
    PROVE  ListInv'
<1> DEFINE command == Head(toServer[d])
<1>1. /\ ServerInv /\ ServerLists /\ unnoticed \in BOOLEAN /\ QueueTypes
      /\ toServer \in [Slot -> Seq(Treatable)] /\ client \in [Slot -> ClientRec]
  BY DEF SystemInv, ListInv, QueueTypes, ServerInv, TypeOK
<1>2. /\ toServer[d] # <<>> /\ Treat(d, command) /\ command \in Treatable /\ app' = app
      /\ toServer' = [toServer EXCEPT ![d] = Tail(@)]
      /\ unnoticed' = (unnoticed \/ Unnoticed(d)) /\ misnamed' = misnamed
  BY <1>1 DEF Serve
<1>3. Request(d)
  BY <1>1, <1>2, Treated
<1>4. ListsKept /\ ServerLists' /\ unnoticed' \in BOOLEAN
  BY <1>1, <1>2, <1>3, StepKeepsLists DEF ListsKept
<1>5. sent' \in SUBSET Message /\ WellMeant(sent') /\ Deliver(sent')
  BY <1>1, ServerSends
<1>6. \A s \in Slot : client'[s].alive => client[s].alive
  <2>1. SamePlaces(client, client') \/ onHandshake(d) \/ \E files : Die(files, accountsFile)
    BY <1>1, <1>3, RequestPlaces DEF ServerInv
  <2>2. CASE onHandshake(d)
    BY <1>1, <2>2 DEF onHandshake, Become, ClientRec
  <2>3. QED
    BY <2>1, <2>2 DEF SamePlaces, Die, NoClient
<1>7. ASSUME ~misnamed
      PROVE  NoOwnContact' /\ CommandsNamed' /\ ListsFit'
  <2>1. NoOwnContact /\ CommandsNamed /\ ListsFit
    BY <1>7 DEF ListInv
  <2>2. client[d].isConnected =>
           /\ command.cmd = "SHOW" => command.who = client[d].account
           /\ command.cmd = "ACCEPT_ADD" => command.who # client[d].account
    <3>1. PICK own : NamedBy(own, client[d], toServer[d])
      BY <2>1 DEF CommandsNamed
    <3>2. 1 \in 1..Len(toServer[d]) /\ command = toServer[d][1]
      BY <1>1, <1>2
    <3> HIDE DEF command
    <3>3. QED
      BY <3>1, <3>2 DEF NamedBy, Void
  <2> HIDE DEF command
  <2>3. NoOwnContact'
    BY <1>1, <1>2, <2>1, <2>2, StaysDistinct DEF ListsKept, ListInv
  <2>4. Informed(d, command)
    BY <1>2, <1>4, <2>2, TreatInformed
  <2>5. CommandsNamed'
    <3>1. /\ \A s \in Slot \ {d} : toServer'[s] = toServer[s]
          /\ toServer'[d] = Tail(toServer[d])
      BY <1>1, <1>2
    <3>2. command = Head(toServer[d])
      BY DEF command
    <3>3. QED
      BY <1>2, <2>1, <2>4, <3>1, <3>2, ServedNames
  <2>6. ListsFit'
    BY <1>1, <1>2, <1>4, <1>5, <1>6, <2>1, <2>3, <2>4, <2>5, InformedFits
  <2>7. QED
    BY <2>3, <2>5, <2>6
<1>8. QED
  BY <1>2, <1>4, <1>7 DEF ListInv

LEMMA CloseLists ==
    ASSUME SystemInv, SystemInv', LoginInv, ListInv, NEW d \in Slot, Close(d)
    PROVE  ListInv'
<1>1. /\ ServerInv /\ ServerLists /\ unnoticed \in BOOLEAN /\ QueueTypes
      /\ toServer \in [Slot -> Seq(Treatable)] /\ client \in [Slot -> ClientRec]
  BY DEF SystemInv, ListInv, QueueTypes, ServerInv, TypeOK
<1>2. /\ onSocketClosed(d) /\ app' = app /\ toServer' = [toServer EXCEPT ![d] = <<>>]
      /\ unnoticed' = unnoticed /\ misnamed' = misnamed
  BY DEF Close
<1>3. ListsKept /\ ServerLists'
  BY <1>1, <1>2, StepKeepsLists DEF ListsKept
<1>4. sent' \in SUBSET Message /\ WellMeant(sent') /\ Deliver(sent')
  BY <1>1, ServerSends
<1>5. client'[d] = NoClient /\ \A s \in Slot \ {d} : client'[s] = client[s]
  <2>1. client' = [CloseConnection(d).clients EXCEPT ![d] = NoClient]
    BY <1>2 DEF onSocketClosed, Become
  <2>2. CloseConnection(d).clients \in Clients
    BY <1>1, CloseConnectionTypes DEF ServerInv
  <2>3. QED
    BY <1>1, <2>1, <2>2, ClosedObject DEF ServerInv, Clients
<1>6. ~client'[d].isConnected /\ ~client'[d].alive /\ ~Unnoticed(d)
  BY <1>5 DEF NoClient, Unnoticed
<1>7. ASSUME ~misnamed
      PROVE  NoOwnContact' /\ CommandsNamed' /\ ListsFit'
  <2>1. NoOwnContact /\ CommandsNamed /\ ListsFit
    BY <1>7 DEF ListInv
  <2>2. NoOwnContact'
    <3>1. Connection(d)
      BY <1>2 DEF Connection
    <3>2. ContactStep(FALSE)
      BY <1>1, <1>3, <3>1, ConnectionContacts DEF ListsKept, ServerInv
    <3>3. QED
      BY <1>1, <2>1, <3>2, ContactsKept DEF ServerLists
  <2>3. Informed(d, disconnect)
    BY <1>2, <1>3, ClosedInformed
  <2>4. CommandsNamed'
    <3>1. (\A s \in Slot \ {d} : toServer'[s] = toServer[s]) /\ toServer'[d] = <<>>
      BY <1>1, <1>2
    <3>2. QED
      BY <1>2, <1>6, <2>1, <2>3, <3>1, ServedNames
  <2>5. \A s \in Slot : client'[s].alive => client[s].alive
    BY <1>5, <1>6
  <2>6. ListsFit'
    BY <1>1, <1>2, <1>3, <1>4, <1>6, <2>1, <2>2, <2>3, <2>4, <2>5, InformedFits
  <2>7. QED
    BY <2>2, <2>4, <2>6
<1>8. QED
  BY <1>1, <1>2, <1>3, <1>7 DEF ListInv

LEMMA ListsStart == SystemInit => ListInv
<1> SUFFICES ASSUME SystemInit
             PROVE  ListInv
  OBVIOUS
<1>1. /\ client = [s \in Slot |-> NoClient] /\ app = [p \in User |-> NewApp]
      /\ toServer = [c \in Slot |-> <<>>] /\ mAccounts \in [Account -> Password]
  BY DEF SystemInit, ClientInit
<1>2. /\ \A a \in Account : file[a].state = "good"
      /\ \A a \in Account : a \notin file[a].contact
      /\ \A a, b \in Account : b \in file[a].contact => a \in file[b].contact
  <2>1. PICK befriended \in Befriended, pseudo \in Pseudo :
            file = [a \in Account |->
                      [NoFile EXCEPT !.state = "good", !.pseudo = pseudo,
                                     !.contact = IF befriended THEN Account \ {a} ELSE {}]]
    BY DEF SystemInit
  <2>2. \A a \in Account : /\ file[a].state = "good"
                           /\ file[a].contact = IF befriended THEN Account \ {a} ELSE {}
    BY <2>1 DEF NoFile
  <2>3. QED
    BY <2>2
<1>3. ~NoClient.alive /\ ~NoClient.isConnected /\ NewApp.conn = Null /\ NewApp.mContacts = {}
      /\ NewApp.question.kind # "ADD"
  BY DEF NoClient, NewApp, NoQuestion
<1>4. ServerLists
  <2>1. \A a \in Account : mAccounts[a] # Null
    BY <1>1, NullAssumption
  <2>2. QED
    BY <1>1, <1>2, <1>3, <2>1 DEF ServerLists, Mirrored, MirroredBut, UnknownAlone,
                                  ContactsSymmetric, RegisteredHasFile
<1>5. NoOwnContact
  BY <1>2 DEF NoOwnContact
<1>6. CommandsNamed
  <2>1. ASSUME NEW c \in Slot
        PROVE  /\ \A p \in User : app[p].conn = c => app[p].mLoggedUser = Null
               /\ NamedBy(Null, client[c], toServer[c])
    <3>1. \A p \in User : app[p].conn # c
      BY <1>1, <1>3, NullAssumption
    <3>2. toServer[c] = <<>> /\ ~client[c].isConnected
      BY <1>1, <1>3
    <3>3. NamedBy(Null, client[c], toServer[c])
      BY <3>2 DEF NamedBy
    <3>4. QED
      BY <3>1, <3>3
  <2>2. QED
    BY <2>1 DEF CommandsNamed
<1>7. ListsFit
  BY <1>1, <1>3 DEF ListsFit, ListFits
<1>8. unnoticed \in BOOLEAN
  BY DEF SystemInit
<1>9. QED
  BY <1>4, <1>5, <1>6, <1>7, <1>8 DEF ListInv

LEMMA ListInvariant == SystemSpec => []ListInv
<1>1. SystemInv /\ SystemInv' /\ LoginInv /\ ListInv /\ [SystemNext]_systemVars => ListInv'
  <2> SUFFICES ASSUME SystemInv, SystemInv', LoginInv, ListInv, [SystemNext]_systemVars
               PROVE  ListInv'
    OBVIOUS
  <2>1. CASE \E d \in Slot : Serve(d) \/ Close(d)
    BY <2>1, ServeLists, CloseLists
  <2>2. CASE \E p \in User : ClientStep(p) \/ NoticeLoss(p)
    BY <2>2, ClientLists, LossLists
  <2>3. CASE \E p \in User, c \in Slot : Connect(p, c)
    BY <2>3, ConnectLists
  <2>4. CASE UNCHANGED systemVars
    <3>1. /\ UNCHANGED vars /\ client' = client /\ app' = app /\ toServer' = toServer
          /\ toClient' = toClient /\ unnoticed' = unnoticed /\ misnamed' = misnamed
      BY <2>4 DEF systemVars, clientVars, history, vars, memory
    <3>2. (CommandsNamed => CommandsNamed') /\ (ListsFit => ListsFit')
      BY <3>1 DEF CommandsNamed, ListsFit
    <3>3. QED
      BY <3>1, <3>2, SameServerLists DEF ListInv
  <2>5. QED
    BY <2>1, <2>2, <2>3, <2>4 DEF SystemNext
<1>2. QED
  BY <1>1, ListsStart, SystemInvariant, SystemLogins, PTL DEF SystemSpec

\* Whoever writes to a client is in its list when the message is read, where alone
\* it can be shown: what onSend checks of the sender's contacts on the server has
\* reached the receiver's list by then, through any order of invitations, deletions,
\* logins and losses, if the client misnames no user.
THEOREM MessageFindsContactHolds == SystemSpec => []MessageFindsContact
<1>1. SystemInv /\ ListInv => MessageFindsContact
  <2> SUFFICES ASSUME SystemInv, ListInv, ~misnamed, NEW p \in User, app[p].conn # Null,
                      toClient[app[p].conn] # <<>>, Head(toClient[app[p].conn]).cmd = "SEND"
               PROVE  Head(toClient[app[p].conn]).who \in app[p].mContacts
    BY DEF MessageFindsContact
  <2> DEFINE c == app[p].conn
             q == toClient[c]
             who == Head(q).who
  <2>1. c \in Slot /\ q \in Seq(Notice)
    BY DEF SystemInv, QueueTypes, AppRec
  <2>2. 1 \in 1..Len(q) /\ Head(q) = q[1] /\ 1 - 1 = 0
    BY <2>1
  <2>3. ListAgrees(app[p].mLoggedUser, app[p].mContacts, client[c], q, unnoticed)
    BY DEF ListInv, ListsFit, ListFits
  <2> HIDE DEF q
  <2>4. Listed(app[p].mContacts, app[p].mLoggedUser, q, 1 - 1, q[1].who)
    BY <2>2, <2>3 DEF ListAgrees, q
  <2>5. Listed(app[p].mContacts, app[p].mLoggedUser, q, 0, who)
    BY <2>2, <2>4
  <2>6. QED
    BY <2>5 DEF Listed, q
<1>2. QED
  BY <1>1, SystemInvariant, ListInvariant, PTL

\* When nothing is under way a logged in client lists exactly its contacts on the
\* server, or more if somebody was deleted while offline: however invitations and
\* deletions of both sides crossed, and whoever was logged in on the connection
\* before, if the client misnames no user.
THEOREM ContactsShownHolds == SystemSpec => []ContactsShown
<1>1. SystemInv /\ ListInv => ContactsShown
  <2> SUFFICES ASSUME SystemInv, ListInv, Settled, ~misnamed, NEW p \in User, Online(p)
               PROVE  /\ client[app[p].conn].contact \subseteq app[p].mContacts
                      /\ ~unnoticed => app[p].mContacts = client[app[p].conn].contact
    BY DEF ContactsShown
  <2> DEFINE c == app[p].conn
             list == app[p].mContacts
             own == app[p].mLoggedUser
  <2>1. /\ c # Null /\ client[c].isConnected
        /\ c \in Slot /\ list \subseteq Account
    BY DEF Online, SystemInv, QueueTypes, AppRec
  <2>2. toClient[c] = <<>> /\ Len(toClient[c]) = 0
    BY <2>1 DEF Settled
  <2>3. ListAgrees(own, list, client[c], toClient[c], unnoticed)
    BY <2>1 DEF ListInv, ListsFit, ListFits
  <2> HIDE DEF c, list, own
  <2>4. \A a : Listed(list, own, toClient[c], Len(toClient[c]), a) <=> a \in list
    BY <2>2 DEF Listed, Spared
  <2>5. /\ client[c].contact \subseteq list
        /\ ~unnoticed => list \subseteq client[c].contact
    BY <2>1, <2>3, <2>4 DEF ListAgrees
  <2>6. QED
    BY <2>5 DEF c, list
<1>2. QED
  BY <1>1, SystemInvariant, ListInvariant, PTL

-----------------------------------------------------------------------------
(* The call of a client, once it has read what is under way *)

Begins(m, a) == m.cmd = "ACCEPT_CALL" /\ m.accept /\ m.who = a
Ceases(m, a) == m.cmd = "CLOSE_CALL" /\ m.who = a

\* No call starts or ends between messages i and n of q.
Quiet(q, i, n) == \A j \in 1..n : j > i => ~Loud(q[j])

\* Having read n messages of q, the client r will be in a call with a.
TalksTo(r, q, n, a) ==
    \/ r.mIsCall /\ r.mContactInCall = a /\ Quiet(q, 0, n)
    \/ \E i \in 1..n : Begins(q[i], a) /\ Quiet(q, i, n)

\* A call starts when there is none, and ends when it is that one; and before the
\* end of a session is read, or after it, its call is ended.
Alternates(r, q) ==
    \A i \in 1..Len(q) :
        /\ \A a \in Account : Begins(q[i], a) => \A b \in Account : ~TalksTo(r, q, i - 1, b)
        /\ \A a \in Account : Ceases(q[i], a) => TalksTo(r, q, i - 1, a)
        /\ Farewell(q[i]) => \A b \in Account : TalksTo(r, q, i - 1, b) => ~Quiet(q, i, Len(q))

LEMMA Appended ==
    ASSUME NEW S, NEW q \in Seq(S), NEW t \in Seq(S)
    PROVE  /\ q \o t \in Seq(S) /\ Len(q \o t) = Len(q) + Len(t)
           /\ \A j \in 1..Len(q) : (q \o t)[j] = q[j]
           /\ \A j \in 1..Len(t) : (q \o t)[Len(q) + j] = t[j]
           /\ \A j \in 1..Len(q \o t) : j > Len(q) => /\ j - Len(q) \in 1..Len(t)
                                                       /\ (q \o t)[j] = t[j - Len(q)]
           /\ Len(q) \in Nat /\ Len(t) \in Nat
OBVIOUS

LEMMA TalkFurther ==
    ASSUME NEW r, NEW S, NEW q \in Seq(S), NEW t \in Seq(S), NEW n \in 0..Len(q), NEW a
    PROVE  TalksTo(r, q \o t, n, a) <=> TalksTo(r, q, n, a)
<1> DEFINE u == q \o t
<1>1. Len(q) \in Nat /\ \A j \in 1..n : u[j] = q[j]
  BY Appended
<1> HIDE DEF u
<1>2. \A i : Quiet(u, i, n) <=> Quiet(q, i, n)
  BY <1>1 DEF Quiet
<1>3. QED
  BY <1>1, <1>2 DEF TalksTo, u

LEMMA TalkLasts ==
    ASSUME NEW r, NEW S, NEW q \in Seq(S), NEW n \in 0..Len(q), NEW l \in 0..Len(q), n <= l,
           Quiet(q, n, l), NEW a
    PROVE  TalksTo(r, q, l, a) <=> TalksTo(r, q, n, a)
<1>1. \A i \in 0..n : Quiet(q, i, l) <=> Quiet(q, i, n)
  BY DEF Quiet
<1>2. \A i \in 1..l : Begins(q[i], a) => i \in 1..n
  BY DEF Quiet, Begins, Loud
<1>3. 1..n \subseteq 1..l /\ 1..n \subseteq 0..n /\ 0 \in 0..n
  OBVIOUS
<1>4. QED
  BY <1>1, <1>2, <1>3 DEF TalksTo

LEMMA TalkSet ==
    ASSUME NEW r, NEW S, NEW q \in Seq(S), NEW n \in 0..Len(q), NEW k \in 1..n, Quiet(q, k, n),
           NEW b, Begins(q[k], b) \/ Ceases(q[k], b), NEW a
    PROVE  TalksTo(r, q, n, a) <=> Begins(q[k], a)
<1>1. Loud(q[k])
  BY DEF Begins, Ceases, Loud
<1>2. \A i \in 0..n : Quiet(q, i, n) => i >= k
  BY <1>1 DEF Quiet
<1>3. \A i \in 1..n : Begins(q[i], a) /\ Quiet(q, i, n) => i = k
  <2>1. \A i \in 1..n : Begins(q[i], a) => Loud(q[i])
    BY DEF Begins, Loud
  <2>2. QED
    BY <1>2, <2>1 DEF Quiet
<1>4. QED
  BY <1>2, <1>3 DEF TalksTo

\* What a client will do after new messages t, of which at most one is about a call.
LEMMA TalkAfter ==
    ASSUME NEW r, NEW S, NEW q \in Seq(S), NEW t \in Seq(S), NEW a
    PROVE  /\ (\A i \in 1..Len(t) : ~Loud(t[i])) =>
                 (TalksTo(r, q \o t, Len(q \o t), a) <=> TalksTo(r, q, Len(q), a))
           /\ \A k \in 1..Len(t) :
                 (/\ \A i \in 1..Len(t) : Loud(t[i]) => i = k
                  /\ \E b : Begins(t[k], b) \/ Ceases(t[k], b)) =>
                       (TalksTo(r, q \o t, Len(q \o t), a) <=> Begins(t[k], a))
<1> DEFINE u == q \o t
<1>1. /\ u \in Seq(S) /\ Len(u) = Len(q) + Len(t) /\ Len(q) \in Nat /\ Len(t) \in Nat
      /\ \A j \in 1..Len(q) : u[j] = q[j]
      /\ \A j \in 1..Len(t) : u[Len(q) + j] = t[j]
      /\ \A j \in 1..Len(u) : j > Len(q) => j - Len(q) \in 1..Len(t) /\ u[j] = t[j - Len(q)]
  BY Appended
<1>2. TalksTo(r, u, Len(q), a) <=> TalksTo(r, q, Len(q), a)
  <2>1. Len(q) \in 0..Len(q)
    BY <1>1
  <2>2. QED
    BY <2>1, TalkFurther
<1> HIDE DEF u
<1>3. ASSUME \A i \in 1..Len(t) : ~Loud(t[i])
      PROVE  TalksTo(r, u, Len(u), a) <=> TalksTo(r, q, Len(q), a)
  <2>1. Quiet(u, Len(q), Len(u))
    BY <1>1, <1>3 DEF Quiet
  <2>2. Len(q) \in 0..Len(u) /\ Len(u) \in 0..Len(u) /\ Len(q) <= Len(u)
    BY <1>1
  <2>3. TalksTo(r, u, Len(u), a) <=> TalksTo(r, u, Len(q), a)
    BY <1>1, <2>1, <2>2, TalkLasts
  <2>4. QED
    BY <1>2, <2>3
<1>4. ASSUME NEW k \in 1..Len(t), \A i \in 1..Len(t) : Loud(t[i]) => i = k,
             NEW b, Begins(t[k], b) \/ Ceases(t[k], b)
      PROVE  TalksTo(r, u, Len(u), a) <=> Begins(t[k], a)
  <2>1. Len(q) + k \in 1..Len(u) /\ u[Len(q) + k] = t[k] /\ Len(u) \in 0..Len(u)
    BY <1>1
  <2>2. ASSUME NEW j \in 1..Len(u), j > Len(q) + k PROVE ~Loud(u[j])
    <3>1. j - Len(q) \in 1..Len(t) /\ u[j] = t[j - Len(q)] /\ j - Len(q) # k
      BY <1>1, <2>2
    <3>2. QED
      BY <1>4, <3>1
  <2>3. Quiet(u, Len(q) + k, Len(u))
    BY <2>2 DEF Quiet
  <2>4. QED
    BY <1>1, <1>4, <2>1, <2>3, TalkSet
<1>5. QED
  BY <1>3, <1>4 DEF u

LEMMA TalkAppended ==
    ASSUME NEW r, NEW S, NEW q \in Seq(S), NEW t \in Seq(S), Alternates(r, q),
           \A i, j \in 1..Len(t) : Loud(t[i]) /\ Loud(t[j]) => i = j,
           \A i \in 1..Len(t), a \in Account :
              /\ Begins(t[i], a) => \A b \in Account : ~TalksTo(r, q, Len(q), b)
              /\ Ceases(t[i], a) => TalksTo(r, q, Len(q), a)
              /\ Farewell(t[i]) => ~TalksTo(r, q \o t, Len(q \o t), a)
    PROVE  Alternates(r, q \o t)
<1> DEFINE u == q \o t
<1>1. /\ u \in Seq(S) /\ Len(u) = Len(q) + Len(t) /\ Len(q) \in Nat /\ Len(t) \in Nat
      /\ \A j \in 1..Len(q) : u[j] = q[j]
      /\ \A j \in 1..Len(t) : u[Len(q) + j] = t[j]
      /\ \A j \in 1..Len(u) : j > Len(q) => j - Len(q) \in 1..Len(t) /\ u[j] = t[j - Len(q)]
  BY Appended
<1>2. \A n \in 0..Len(q), a \in Account : TalksTo(r, u, n, a) <=> TalksTo(r, q, n, a)
  BY TalkFurther
<1>3. \A i \in 1..Len(t), a \in Account : Farewell(t[i]) => ~TalksTo(r, u, Len(u), a)
  OBVIOUS
<1> HIDE DEF u
<1>4. ASSUME NEW i \in 1..Len(q)
      PROVE  /\ u[i] = q[i] /\ i - 1 \in 0..Len(q)
             /\ ~Quiet(q, i, Len(q)) => ~Quiet(u, i, Len(u))
  <2>1. 1..Len(q) \subseteq 1..Len(u) /\ \A j \in 1..Len(q) : u[j] = q[j]
    BY <1>1
  <2>2. ~Quiet(q, i, Len(q)) => ~Quiet(u, i, Len(u))
    BY <2>1 DEF Quiet
  <2>3. QED
    BY <1>1, <2>2
<1>5. ASSUME NEW k \in 1..Len(t), NEW i, i = Len(q) + k, Loud(t[k])
      PROVE  \A a \in Account : TalksTo(r, u, i - 1, a) <=> TalksTo(r, q, Len(q), a)
  <2>1. Len(q) \in 0..Len(u) /\ i - 1 \in 0..Len(u) /\ Len(q) <= i - 1 /\ Len(q) \in 0..Len(q)
    BY <1>1, <1>5
  <2>2. Quiet(u, Len(q), i - 1)
    <3>1. ASSUME NEW j \in 1..(i - 1), j > Len(q) PROVE ~Loud(u[j])
      <4>1. j - Len(q) \in 1..Len(t) /\ u[j] = t[j - Len(q)] /\ j - Len(q) # k
        BY <1>1, <1>5, <3>1
      <4>2. QED
        BY <1>5, <4>1
    <3>2. QED
      BY <3>1 DEF Quiet
  <2>3. \A a \in Account : TalksTo(r, u, i - 1, a) <=> TalksTo(r, u, Len(q), a)
    BY <1>1, <2>1, <2>2, TalkLasts
  <2>4. QED
    BY <1>2, <2>1, <2>3
<1>6. ASSUME NEW k \in 1..Len(t), NEW i, i = Len(q) + k, Farewell(t[k])
      PROVE  \A b \in Account : TalksTo(r, u, i - 1, b) => ~Quiet(u, i, Len(u))
  <2>1. i - 1 \in 0..Len(u) /\ Len(u) \in 0..Len(u) /\ i - 1 <= Len(u) /\ i \in 1..Len(u)
    BY <1>1, <1>6
  <2>2. u[i] = t[k] /\ ~Loud(u[i])
    BY <1>1, <1>6 DEF Farewell, Loud
  <2>3. Quiet(u, i, Len(u)) => Quiet(u, i - 1, Len(u))
    BY <2>1, <2>2 DEF Quiet
  <2>4. ASSUME NEW b \in Account, TalksTo(r, u, i - 1, b), Quiet(u, i, Len(u)) PROVE FALSE
    <3>1. TalksTo(r, u, Len(u), b)
      BY <1>1, <2>1, <2>3, <2>4, TalkLasts
    <3>2. QED
      BY <1>3, <1>6, <3>1
  <2>5. QED
    BY <2>4
<1>7. ASSUME NEW i \in 1..Len(u)
      PROVE  /\ \A a \in Account : Begins(u[i], a) => \A b \in Account : ~TalksTo(r, u, i - 1, b)
             /\ \A a \in Account : Ceases(u[i], a) => TalksTo(r, u, i - 1, a)
             /\ Farewell(u[i]) => \A b \in Account : TalksTo(r, u, i - 1, b) => ~Quiet(u, i, Len(u))
  <2>1. CASE i <= Len(q)
    <3>1. i \in 1..Len(q)
      BY <2>1, <1>1
    <3>2. QED
      BY <1>2, <1>4, <3>1 DEF Alternates
  <2>2. CASE i > Len(q)
    <3> DEFINE k == i - Len(q)
    <3>1. k \in 1..Len(t) /\ u[i] = t[k] /\ i = Len(q) + k
      BY <1>1, <2>2
    <3> HIDE DEF k
    <3>2. \A a : Begins(t[k], a) \/ Ceases(t[k], a) => Loud(t[k])
      BY DEF Begins, Ceases, Loud
    <3>3. QED
      BY <1>5, <1>6, <3>1, <3>2
  <2>3. QED
    BY <1>1, <2>1, <2>2
<1>8. QED
  BY <1>7 DEF Alternates, u

\* What a client does with the next message of q to the call it takes itself to be in.
TalkRead(r, s, m) ==
    /\ \A a \in Account : Begins(m, a) => s.mIsCall /\ s.mContactInCall = a
    /\ \A a \in Account : Ceases(m, a) => ~s.mIsCall
    /\ ~Loud(m) => s.mIsCall = r.mIsCall /\ s.mContactInCall = r.mContactInCall

LEMMA TalkShorter ==
    ASSUME NEW r, NEW s, NEW q \in Seq(Notice), q # <<>>, TalkRead(r, s, Head(q)), Alternates(r, q)
    PROVE  /\ \A n \in 0..Len(Tail(q)), a \in Account : TalksTo(s, Tail(q), n, a) <=> TalksTo(r, q, n + 1, a)
           /\ Alternates(s, Tail(q))
<1> DEFINE t == Tail(q)
<1>1. /\ t \in Seq(Notice) /\ Len(q) = Len(t) + 1 /\ Len(t) \in Nat /\ Head(q) = q[1]
      /\ \A j \in 1..Len(t) : t[j] = q[j + 1]
      /\ q[1] \in Notice
  OBVIOUS
<1> HIDE DEF t
<1>2. \A i \in Nat, n \in 0..Len(t) : Quiet(t, i, n) <=> Quiet(q, i + 1, n + 1)
  <2>1. ASSUME NEW i \in Nat, NEW n \in 0..Len(t), Quiet(t, i, n) PROVE Quiet(q, i + 1, n + 1)
    <3>1. ASSUME NEW j \in 1..(n + 1), j > i + 1 PROVE ~Loud(q[j])
      <4>1. j - 1 \in 1..n /\ j - 1 > i /\ t[j - 1] = q[j]
        BY <1>1, <3>1
      <4>2. QED
        BY <2>1, <4>1 DEF Quiet
    <3>2. QED
      BY <3>1 DEF Quiet
  <2>2. ASSUME NEW i \in Nat, NEW n \in 0..Len(t), Quiet(q, i + 1, n + 1) PROVE Quiet(t, i, n)
    <3>1. ASSUME NEW j \in 1..n, j > i PROVE ~Loud(t[j])
      <4>1. j + 1 \in 1..(n + 1) /\ j + 1 > i + 1 /\ t[j] = q[j + 1]
        BY <1>1, <3>1
      <4>2. QED
        BY <2>2, <4>1 DEF Quiet
    <3>2. QED
      BY <3>1 DEF Quiet
  <2>3. QED
    BY <2>1, <2>2
<1>3. \A n \in 0..Len(t) : Quiet(q, 0, n + 1) <=> ~Loud(q[1]) /\ Quiet(q, 1, n + 1)
  BY <1>1 DEF Quiet
<1>4. ASSUME NEW n \in 0..Len(t), NEW a \in Account
      PROVE  TalksTo(s, t, n, a) <=> TalksTo(r, q, n + 1, a)
  <2>1. ASSUME NEW i \in 1..n
        PROVE  Begins(t[i], a) /\ Quiet(t, i, n) <=> Begins(q[i + 1], a) /\ Quiet(q, i + 1, n + 1)
    <3>1. i \in Nat /\ t[i] = q[i + 1]
      BY <1>1
    <3>2. QED
      BY <1>2, <3>1
  <2>2. Quiet(t, 0, n) <=> Quiet(q, 1, n + 1)
    BY <1>2
  <2>3. TalksTo(r, q, n + 1, a) <=>
           \/ r.mIsCall /\ r.mContactInCall = a /\ ~Loud(q[1]) /\ Quiet(q, 1, n + 1)
           \/ Begins(q[1], a) /\ Quiet(q, 1, n + 1)
           \/ \E i \in 1..n : Begins(q[i + 1], a) /\ Quiet(q, i + 1, n + 1)
    <3>1. 1..(n + 1) = {1} \cup {i + 1 : i \in 1..n}
      OBVIOUS
    <3>2. QED
      BY <1>3, <3>1 DEF TalksTo
  <2>4. s.mIsCall /\ s.mContactInCall = a <=>
           \/ r.mIsCall /\ r.mContactInCall = a /\ ~Loud(q[1])
           \/ Begins(q[1], a)
    <3>1. CASE Loud(q[1])
      <4>1. PICK b \in Account : Begins(q[1], b) \/ Ceases(q[1], b)
        BY <1>1, <3>1 DEF Loud, Begins, Ceases, Notice, News, Answer, Greeting
      <4>2. CASE Begins(q[1], b)
        BY <1>1, <3>1, <4>2 DEF TalkRead, Begins
      <4>3. CASE Ceases(q[1], b)
        BY <1>1, <3>1, <4>3 DEF TalkRead, Ceases, Begins
      <4>4. QED
        BY <4>1, <4>2, <4>3
    <3>2. CASE ~Loud(q[1])
      BY <1>1, <3>2 DEF TalkRead, Begins, Loud
    <3>3. QED
      BY <3>1, <3>2
  <2>5. TalksTo(s, t, n, a) <=>
           \/ s.mIsCall /\ s.mContactInCall = a /\ Quiet(q, 1, n + 1)
           \/ \E i \in 1..n : Begins(q[i + 1], a) /\ Quiet(q, i + 1, n + 1)
    BY <2>1, <2>2 DEF TalksTo
  <2>6. QED
    BY <2>3, <2>4, <2>5
<1>5. ASSUME NEW i \in 1..Len(t)
      PROVE  /\ \A a \in Account : Begins(t[i], a) => \A b \in Account : ~TalksTo(s, t, i - 1, b)
             /\ \A a \in Account : Ceases(t[i], a) => TalksTo(s, t, i - 1, a)
             /\ Farewell(t[i]) => \A b \in Account : TalksTo(s, t, i - 1, b) => ~Quiet(t, i, Len(t))
  <2>1. /\ i + 1 \in 1..Len(q) /\ t[i] = q[i + 1] /\ i - 1 \in 0..Len(t) /\ (i + 1) - 1 = i
        /\ (i - 1) + 1 = i /\ i \in Nat /\ Len(t) \in 0..Len(t)
    BY <1>1
  <2>2. /\ \A a \in Account : Begins(q[i + 1], a) => \A b \in Account : ~TalksTo(r, q, i, b)
        /\ \A a \in Account : Ceases(q[i + 1], a) => TalksTo(r, q, i, a)
        /\ Farewell(q[i + 1]) => \A b \in Account : TalksTo(r, q, i, b) => ~Quiet(q, i + 1, Len(q))
    BY <2>1 DEF Alternates
  <2>3. \A b \in Account : TalksTo(s, t, i - 1, b) <=> TalksTo(r, q, i, b)
    BY <1>4, <2>1
  <2>4. Quiet(t, i, Len(t)) <=> Quiet(q, i + 1, Len(q))
    BY <1>1, <1>2, <2>1
  <2>5. QED
    BY <2>1, <2>2, <2>3, <2>4
<1>6. QED
  BY <1>4, <1>5 DEF Alternates, t

-----------------------------------------------------------------------------
(* The calls that the server holds, as long as no connection is lost *)

\* Nobody leaves during a call, or there is nobody else who could cut in.
NoThird == ~LeaveDuringCall \/ \A p, q, r \in User : p = q \/ q = r \/ r = p

\* A call has two ends, which are there, and each is the other's partner.
CallJoined(s) ==
    /\ client[s].comm # Null => client[client[s].comm].alive
    /\ client[s].statusCall = "ISCALLING" =>
          /\ client[s].comm # Null
          /\ client[client[s].comm].comm = s
          /\ client[client[s].comm].statusCall = "ISCALLING"

CallsJoined == \A s \in Slot : CallJoined(s)

ServerCalls ==
    /\ \A s \in Slot : client[s].alive <=> Attached(s)
    /\ CallsJoined /\ CallStateFits /\ NoOwnPartner
    /\ ~LeaveDuringCall => CallsPaired

LEMMA CallFacts ==
    ASSUME SystemInv, ServerCalls, NEW s \in Slot
    PROVE  /\ client[s].comm \in Slot \cup {Null} /\ Null \notin Slot /\ client[s].comm # s
           /\ client[s].isConnected => client[s].alive /\ client[s].account \in Account
           /\ client[s].statusCall # "NONE" => client[s].isConnected
           /\ client[s].comm # Null => client[s].statusCall # "NONE"
           /\ client[s].alive => \E p \in User : app[p].conn = s
           /\ CallJoined(s)
<1>1. client[s].comm \in Slot \cup {Null} /\ Null \notin Slot
  BY NullAssumption DEF SystemInv, ServerInv, TypeOK, ClientRec
<1>2. client[s].isConnected => client[s].alive /\ client[s].account \in Account
  BY DEF SystemInv, ServerInv, ObjectInv, NoClient, SessionsAreNamed, Session
<1>3. QED
  BY <1>1, <1>2 DEF ServerCalls, CallStateFits, Session, NoOwnPartner, Attached, CallsJoined

\* Who is not in a call has no partner in one: there would be three clients.
LEMMA Apart ==
    ASSUME SystemInv, NoThird, ServerCalls, NEW c \in Slot, NEW t \in Slot, client[c].comm = t,
           client[c].statusCall # "ISCALLING"
    PROVE  client[t].statusCall # "ISCALLING"
<1>1. CASE ~LeaveDuringCall
  BY <1>1, CallFacts DEF ServerCalls, CallsPaired
<1>2. CASE LeaveDuringCall
  <2> SUFFICES ASSUME client[t].statusCall = "ISCALLING"
               PROVE  FALSE
    OBVIOUS
  <2> DEFINE u == client[t].comm
  <2>1. u \in Slot /\ u # t /\ client[u].comm = t /\ client[u].statusCall = "ISCALLING"
    BY CallFacts DEF CallJoined
  <2>2. u # c /\ t # c
    BY <2>1, CallFacts
  <2>3. client[c].alive /\ client[t].alive /\ client[u].alive
    BY <2>1, CallFacts
  <2>4. \E p, q, r \in User : app[p].conn = c /\ app[q].conn = t /\ app[r].conn = u
    BY <2>1, <2>3, CallFacts
  <2>5. QED
    BY <1>2, <2>1, <2>2, <2>4 DEF NoThird
<1>3. QED
  BY <1>1, <1>2

\* As long as the server is not killed, it only dies of a partner that is gone.
LEMMA RequestRuns ==
    ASSUME ~ServerMayStop, NEW d \in Slot, Request(d), up,
           client[d].comm # Null => client[client[d].comm].alive
    PROVE  up'
<1>1. onHandshake(d) => up'
  BY DEF onHandshake, Become
<1>2. ASSUME UNCHANGED memory PROVE up'
  BY <1>2 DEF memory
<1>3. ASSUME NEW clients, NEW files, NEW messages, Become(clients, files, messages) PROVE up'
  BY <1>3 DEF Become
<1>4. ASSUME NEW messages, Send(messages) PROVE up'
  BY <1>4 DEF Send, memory
<1>5. onExit(d) => up'
  BY <1>3, <1>4 DEF onExit
<1>6. onList(d) => up'
  BY <1>4 DEF onList
<1>7. ASSUME NEW a, NEW pseudo, NEW password, NEW status,
             \/ onReg(d, a, pseudo, password) \/ onLog(d, a, password)
             \/ onUpdate(d, a, pseudo, password, status)
      PROVE  up'
  <2>1. CASE onReg(d, a, pseudo, password)
    BY <1>2, <2>1 DEF onReg
  <2>2. CASE onLog(d, a, password)
    BY <1>3, <1>4, <2>2 DEF onLog
  <2>3. CASE onUpdate(d, a, pseudo, password, status)
    BY <1>3, <1>4, <2>3 DEF onUpdate
  <2>4. QED
    BY <1>7, <2>1, <2>2, <2>3
<1>8. ASSUME NEW a, onShow(d, a) \/ onAdd(d, a) \/ onSend(d, a) \/ onCall(d, a) \/ onCloseCall(d, a)
      PROVE  up'
  BY <1>3, <1>4, <1>8 DEF onShow, onAdd, onSend, onCall, onCloseCall
<1>9. ASSUME NEW a, onDel(d, a) PROVE up'
  BY <1>3, <1>4, <1>9 DEF onDel
<1>10. ASSUME NEW a, NEW accept, onAcceptAdd(d, a, accept) \/ onAcceptCall(d, a, accept) PROVE up'
  BY <1>3, <1>4, <1>10 DEF onAcceptAdd, onAcceptCall
<1>11. QED
  BY <1>1, <1>5, <1>6, <1>7, <1>8, <1>9, <1>10 DEF Request

\* Who is in a call can hang up: the partner is found by its account.
LEMMA CallCloses ==
    ASSUME SystemInv, LoginInv, ServerLists, ServerCalls, NEW c \in Slot,
           client[c].statusCall = "ISCALLING", NEW files
    PROVE  LET closed == CloseCall(client, files, c, client[client[c].comm].account)
           IN  \E t \in Slot : HangsUp(client, closed.clients, c, t, closed.sent)
<1> DEFINE t == client[c].comm
           a == client[t].account
           closed == CloseCall(client, files, c, a)
<1>1. /\ t \in Slot /\ t # Null /\ client[t].isConnected /\ client[t].listed
      /\ client[c].isConnected
  BY CallFacts DEF CallJoined, ServerLists
<1>2. findOnlineClient(client, a) = t
  <2>1. t \in OnlineAs(client, a)
    BY <1>1 DEF OnlineAs
  <2>2. findOnlineClient(client, a) \in OnlineAs(client, a)
    BY <2>1 DEF findOnlineClient
  <2>3. \A s \in OnlineAs(client, a) : s = t
    BY <1>1 DEF OnlineAs, LoginInv, NoDoubleLogin, Session
  <2>4. QED
    BY <2>2, <2>3
<1>3. CloseCallError(client, c, a) = "OK"
  BY <1>1, <1>2 DEF CloseCallError, BothStored, LoginInv
<1>4. client \in Clients
  BY DEF SystemInv, ServerInv, TypeOK, Clients
<1>5. closed.clients[c].statusCall # "ISCALLING"
  <2> DEFINE idle == [client EXCEPT ![c].statusCall = "NONE", ![t].statusCall = "NONE"]
  <2>1. closed.clients = [idle EXCEPT ![c].comm = Null, ![t].comm = Null]
    BY <1>2, <1>3 DEF CloseCall
  <2>2. idle \in Clients /\ idle[c].statusCall = "NONE"
    <3>1. "NONE" \in StatusCall
      BY DEF StatusCall
    <3> HIDE DEF t
    <3>2. idle \in Clients /\ SetsState(client, idle, c, t, "NONE")
      BY <1>1, <1>4, <3>1, StateSet
    <3> HIDE DEF idle
    <3>3. QED
      BY <3>2 DEF SetsState
  <2> HIDE DEF idle
  <2>3. QED
    BY <1>1, <2>1, <2>2 DEF Clients, ClientRec
<1> HIDE DEF closed
<1>6. \/ closed.clients = client /\ Silent(closed.sent)
      \/ \E s \in Slot : HangsUp(client, closed.clients, c, s, closed.sent)
  BY <1>4, CloseCallCalls DEF closed, SameLogins
<1>7. QED
  BY <1>5, <1>6 DEF closed

\* The steps of the server of the system, which can write all files: nobody leaves
\* a call without hanging up.
HangsUpOrLeaves(c, t) ==
    \/ HangsUp(client, client', c, t, sent')
    \/ \E between : HangsUp(client, between, c, t, sent') /\ Frees(between, client', c)

CallMoves ==
    \/ KeepsCalls(client, client') /\ Silent(sent')
    \/ \E c \in Slot :
          /\ Frees(client, client', c) \/ Forgets(client, client', c)
          /\ Silent(sent') /\ client[c].statusCall # "ISCALLING"
    \/ \E c, t \in Slot :
          \/ Rings(client, client', c, t) /\ Silent(sent')
          \/ Answers(client, client', c, t, sent')
          \/ Refuses(client, client', c, t) /\ Silent(sent')
          \/ HangsUpOrLeaves(c, t)

LEMMA ExitHangsUp ==
    ASSUME SystemInv, LoginInv, ServerLists, ServerCalls, NEW d \in Slot, onExit(d), up',
           client[d].statusCall = "ISCALLING"
    PROVE  \E t \in Slot : HangsUpOrLeaves(d, t)
<1>1. /\ client[d].comm # Null /\ client[client[d].comm].alive /\ client[d].isConnected
      /\ TypeOK
  BY CallFacts DEF CallJoined, SystemInv, ServerInv
<1>2. PICK a \in AccountsReadAt(client, client[d].comm) :
         LET closed == CloseCall(client, file, d, a)
         IN  /\ closed.clients \in Clients /\ Frees(closed.clients, client', d)
             /\ \A told : Says(closed.sent, told) => Says(sent', told)
  BY <1>1, ExitCloses DEF Die
<1> DEFINE closed == CloseCall(client, file, d, a)
<1>3. a = client[client[d].comm].account
  BY <1>1, <1>2 DEF AccountsReadAt
<1>4. PICK t \in Slot : HangsUp(client, closed.clients, d, t, closed.sent)
  BY <1>3, CallCloses
<1> HIDE DEF closed
<1>5. HangsUp(client, closed.clients, d, t, sent')
  BY <1>2, <1>4 DEF HangsUp, Silent, closed
<1>6. QED
  BY <1>2, <1>5 DEF HangsUpOrLeaves, closed

LEMMA ServeMoves ==
    ASSUME SystemInv, LoginInv, ServerLists, ServerCalls, ~ServerMayStop, NEW d \in Slot, Serve(d)
    PROVE  /\ CallMoves /\ CallStep
           /\ \A s \in Slot : client'[s].alive = client[s].alive
<1> DEFINE command == Head(toServer[d])
<1>1. /\ ServerInv /\ TypeOK /\ SessionsAreNamed /\ ObjectInv /\ unwritable = {}
      /\ toServer \in [Slot -> Seq(Treatable)] /\ client \in [Slot -> ClientRec]
  BY DEF SystemInv, QueueTypes, ServerInv, TypeOK, LoginInv
<1>2. /\ toServer[d] # <<>> /\ Treat(d, command) /\ command \in Treatable
  BY <1>1 DEF Serve
<1> HIDE DEF command
<1>3. Request(d) /\ up /\ client[d].alive
  BY <1>1, <1>2, Treated, RequestServes
<1>4. up' /\ \A files, accounts : ~Die(files, accounts)
  <2>1. client[d].comm # Null => client[client[d].comm].alive
    BY CallFacts DEF CallJoined
  <2>2. up'
    BY <1>3, <2>1, RequestRuns
  <2>3. QED
    BY <2>2 DEF Die
<1>5. CallStep
  BY <1>1, <1>3, NextCalls DEF Next
<1>6. \A s \in Slot : client'[s].alive = client[s].alive
  <2>1. SamePlaces(client, client') \/ onHandshake(d)
    BY <1>1, <1>3, <1>4, RequestPlaces
  <2>2. CASE onHandshake(d)
    BY <1>1, <2>2 DEF onHandshake, Become, ClientRec
  <2>3. QED
    BY <2>1, <2>2 DEF SamePlaces
<1>7. Turns(d, command.cmd)
  BY <1>1, <1>2, <1>4, TreatedTurns
<1>8. ASSUME NEW c \in Slot, Frees(client, client', c), client[c].statusCall = "ISCALLING"
      PROVE  CallMoves
  <2>1. client[c].isConnected /\ ~client'[c].isConnected
    BY <1>8, CallFacts DEF Frees
  <2>2. c = d /\ command.cmd = "EXIT"
    BY <1>7, <2>1 DEF Turns
  <2>3. onExit(d)
    BY <1>2, <2>2 DEF Treat
  <2>4. \E t \in Slot : HangsUpOrLeaves(d, t)
    BY <1>4, <1>8, <2>2, <2>3, ExitHangsUp
  <2>5. QED
    BY <2>4 DEF CallMoves
<1>9. ASSUME NEW c \in Slot, Forgets(client, client', c)
      PROVE  client[c].statusCall # "ISCALLING"
  BY <1>9, CallFacts DEF Forgets
<1>10. ~NobodyCalls
  BY <1>3, <1>6 DEF NobodyCalls, NoClient
<1>11. CallMoves
  BY <1>5, <1>8, <1>9, <1>10 DEF CallStep, CallMoves, HangsUpOrLeaves
<1>12. QED
  BY <1>5, <1>6, <1>11

\* Such steps keep the calls joined.
LEMMA MovesJoin ==
    ASSUME SystemInv, SystemInv', unwritable = {}, NoThird, ServerCalls, CallMoves,
           \A s \in Slot : client'[s].alive = client[s].alive
    PROVE  CallsJoined'
<1>1. \A s \in Slot : CallJoined(s)
  BY DEF ServerCalls, CallsJoined
<1>2. \A s \in Slot : client[s].comm \in Slot \cup {Null} /\ client[s].comm # s
  BY CallFacts
<1>3. Null \notin Slot
  BY NullAssumption
<1>4. \A s \in Slot : client'[s].isConnected => client'[s].alive
  BY DEF SystemInv, ServerInv, ObjectInv, NoClient
<1>5. ASSUME SameCallsBut(client, client', {}) PROVE CallsJoined'
  BY <1>1, <1>2, <1>3, <1>5 DEF CallsJoined, CallJoined, SameCallsBut, SameCall
<1>6. ASSUME NEW c \in Slot, Frees(client, client', c) \/ Forgets(client, client', c),
             client[c].statusCall # "ISCALLING"
      PROVE  CallsJoined'
  BY <1>1, <1>2, <1>3, <1>6 DEF CallsJoined, CallJoined, Frees, Forgets, SameCallsBut, SameCall
<1>7. ASSUME NEW c \in Slot, NEW t \in Slot, SameCallsBut(client, client', {c, t}), c # t,
             client[c].statusCall # "ISCALLING", client[t].statusCall # "ISCALLING",
             \/ client'[c].comm = t /\ client'[t].comm = c
             \/ client'[c].comm = Null /\ client'[t].comm = Null,
             client'[c].isConnected /\ client'[t].isConnected,
             client'[c].statusCall = "ISCALLING" => client'[c].comm = t,
             client'[c].statusCall = "ISCALLING" <=> client'[t].statusCall = "ISCALLING"
      PROVE  CallsJoined'
  <2>1. \A s \in {c, t} : CallJoined(s)'
    BY <1>3, <1>4, <1>7 DEF CallJoined
  <2>2. ASSUME NEW s \in Slot \ {c, t} PROVE CallJoined(s)'
    BY <1>1, <1>2, <1>3, <1>7 DEF CallJoined, SameCallsBut, SameCall
  <2>3. QED
    BY <2>1, <2>2 DEF CallsJoined
<1>8. ASSUME NEW c \in Slot, NEW t \in Slot, SameCallsBut(client, client', {c, t}), c # t,
             client[c].comm = t, client[t].comm = c,
             client'[c].comm = Null, client'[t].comm = Null,
             client'[c].statusCall = "NONE" /\ client'[t].statusCall = "NONE"
      PROVE  CallsJoined'
  <2>1. ASSUME NEW s \in Slot \ {c, t} PROVE CallJoined(s)'
    BY <1>1, <1>2, <1>3, <1>8 DEF CallJoined, SameCallsBut, SameCall
  <2>2. \A s \in {c, t} : CallJoined(s)'
    BY <1>3, <1>8 DEF CallJoined
  <2>3. QED
    BY <2>1, <2>2 DEF CallsJoined
<1>9. ASSUME NEW c \in Slot, NEW t \in Slot, Rings(client, client', c, t)
      PROVE  CallsJoined'
  BY <1>7, <1>9 DEF Rings, OfTwo, Partners
<1>10. ASSUME NEW c \in Slot, NEW t \in Slot,
              \/ Answers(client, client', c, t, sent') \/ Refuses(client, client', c, t)
       PROVE  CallsJoined'
  <2>1. client[c].comm = t /\ client[c].statusCall # "ISCALLING" /\ c # t
    BY <1>2, <1>10 DEF Answers, Refuses
  <2>2. client[t].statusCall # "ISCALLING"
    BY <2>1, Apart
  <2>3. QED
    BY <1>7, <1>10, <2>1, <2>2 DEF Answers, Refuses, OfTwo, Partners
<1>11. ASSUME NEW c \in Slot, NEW t \in Slot, HangsUpOrLeaves(c, t)
       PROVE  CallsJoined'
  <2>1. client[c].comm = t /\ client[c].statusCall = "ISCALLING"
    BY <1>11 DEF HangsUpOrLeaves, HangsUp
  <2>2. client[t].comm = c /\ c # t
    BY <1>1, <1>2, <1>3, <2>1 DEF CallJoined
  <2>3. /\ SameCallsBut(client, client', {c, t})
        /\ client'[c].comm = Null /\ client'[t].comm = Null
        /\ client'[c].statusCall = "NONE" /\ client'[t].statusCall = "NONE"
    BY <1>11, <2>2 DEF HangsUpOrLeaves, HangsUp, OfTwo, Partners, Frees, SameCallsBut, SameCall
  <2>4. QED
    BY <1>8, <2>1, <2>2, <2>3
<1>12. QED
  BY <1>5, <1>6, <1>9, <1>10, <1>11 DEF CallMoves, KeepsCalls

LEMMA ServerCallsKept ==
    ASSUME SystemInv, SystemInv', LoginInv, ServerLists, NoThird, ServerCalls, ~ServerMayStop,
           NEW d \in Slot, Serve(d)
    PROVE  ServerCalls'
<1>1. CallMoves /\ CallStep /\ (\A s \in Slot : client'[s].alive = client[s].alive)
  BY ServeMoves
<1>2. app' = app
  BY DEF Serve
<1>3. TypeOK /\ unwritable = {} /\ CallStateFits /\ NoOwnPartner
  BY DEF SystemInv, ServerInv, LoginInv, ServerCalls
<1>4. CallsJoined'
  BY <1>1, <1>3, MovesJoin
<1>5. CallStateFits' /\ NoOwnPartner'
  BY <1>1, <1>3, StepFits, StepNoOwnPartner
<1>6. ~LeaveDuringCall => CallsPaired'
  BY <1>1, <1>3, StepPaired DEF ServerCalls
<1>7. \A s \in Slot : client'[s].alive <=> Attached(s)'
  BY <1>1, <1>2 DEF ServerCalls, Attached
<1>8. QED
  BY <1>4, <1>5, <1>6, <1>7 DEF ServerCalls

\* A session keeps its account.
LEMMA AccountStays ==
    ASSUME ServerInv, [Next]_vars, NEW s \in Slot, client[s].isConnected, client'[s].isConnected
    PROVE  client'[s].account = client[s].account
<1>1. TypeOK /\ SessionsAreNamed /\ client \in [Slot -> ClientRec]
  BY DEF ServerInv, TypeOK
<1>2. CASE \A c \in Slot, a \in Account, password \in Password : ~onLog(c, a, password)
  BY <1>1, <1>2, OnlyLogLogsIn DEF NobodyLogsIn
<1>3. ASSUME NEW c \in Slot, NEW a \in Account, NEW password \in Password, onLog(c, a, password)
      PROVE  client'[s].account = client[s].account
  <2>1. \/ client' = client
        \/ ~client[c].isConnected /\ \E r : client' = [client EXCEPT ![c] = r]
    BY <1>3 DEF onLog, LogError, Become, Send, memory
  <2>2. QED
    BY <1>1, <2>1
<1>4. QED
  BY <1>2, <1>3

-----------------------------------------------------------------------------
(* What a client is told of its call *)

\* Session s is in a call with account a.
Calling(s, a) ==
    /\ client[s].statusCall = "ISCALLING" /\ client[s].comm # Null
    /\ client[client[s].comm].account = a

\* The server sends one message to the session at c that is about calls, m.
OneLoud(c, m) == m \in sent' /\ \A n \in sent' : (n.to = c /\ Loud(n)) => n = m

\* What the session at c is told of its call: nothing if it stays, its start or
\* its end.
CallTold(c) ==
    \/ /\ \A m \in sent' : m.to = c => ~Loud(m)
       /\ \A a \in Account : Calling(c, a)' <=> Calling(c, a)
    \/ \E b \in Account :
          /\ OneLoud(c, Answered(c, b, TRUE))
          /\ \A a \in Account : ~Calling(c, a) /\ (Calling(c, a)' <=> a = b)
    \/ \E b \in Account :
          /\ OneLoud(c, Tell(c, "CLOSE_CALL", b))
          /\ \A a \in Account : (Calling(c, a) <=> a = b) /\ ~Calling(c, a)'

\* Of two messages that are all the server says about calls, each receiver gets its own.
LEMMA PairSaid ==
    ASSUME NEW m, NEW n, Says(sent', {m, n}), m.to # n.to, NEW c
    PROVE  /\ m.to = c => OneLoud(c, m)
           /\ n.to = c => OneLoud(c, n)
           /\ c \notin {m.to, n.to} => \A l \in sent' : l.to = c => ~Loud(l)
BY DEF Says, OneLoud

LEMMA MovesTell ==
    ASSUME SystemInv, unwritable = {}, NoThird, ServerCalls, ServerCalls', CallMoves,
           \A s \in Slot : (client[s].isConnected /\ client'[s].isConnected) =>
                              client'[s].account = client[s].account,
           NEW c \in Slot
    PROVE  CallTold(c)
<1>1. \A s \in Slot : client[s].comm \in Slot \cup {Null} /\ client[s].comm # s
  BY CallFacts
<1>2. /\ \A s \in Slot : CallJoined(s) /\ CallJoined(s)'
      /\ Null \notin Slot
      /\ \A s \in Slot : client[s].statusCall # "NONE" =>
                            client[s].isConnected /\ client[s].account \in Account
      /\ \A s \in Slot : client'[s].statusCall # "NONE" => client'[s].isConnected
  BY CallFacts, NullAssumption DEF ServerCalls, CallsJoined, CallStateFits, Session
<1>3. ASSUME client'[c].statusCall = client[c].statusCall /\ client'[c].comm = client[c].comm
      PROVE  \A a : Calling(c, a)' <=> Calling(c, a)
  <2>1. CASE client[c].statusCall = "ISCALLING"
    <3> DEFINE t == client[c].comm
    <3>1. t \in Slot /\ t = client'[c].comm
      BY <1>1, <1>2, <1>3, <2>1 DEF CallJoined
    <3>2. client[t].statusCall = "ISCALLING" /\ client'[t].statusCall = "ISCALLING"
      BY <1>2, <1>3, <2>1, <3>1 DEF CallJoined
    <3>3. client'[t].account = client[t].account
      BY <1>2, <3>1, <3>2
    <3>4. QED
      BY <1>3, <3>1, <3>3 DEF Calling
  <2>2. CASE client[c].statusCall # "ISCALLING"
    BY <1>3, <2>2 DEF Calling
  <2>3. QED
    BY <2>1, <2>2
<1>4. ASSUME \A m \in sent' : m.to = c => ~Loud(m),
             \/ client'[c].statusCall = client[c].statusCall /\ client'[c].comm = client[c].comm
             \/ client'[c].statusCall # "ISCALLING" /\ client[c].statusCall # "ISCALLING"
      PROVE  CallTold(c)
  <2>1. \A a : Calling(c, a)' <=> Calling(c, a)
    BY <1>3, <1>4 DEF Calling
  <2>2. QED
    BY <1>4, <2>1 DEF CallTold
<1>5. Silent(sent') => \A m \in sent' : m.to = c => ~Loud(m)
  BY DEF Silent, Says
<1>6. CASE KeepsCalls(client, client') /\ Silent(sent')
  BY <1>4, <1>5, <1>6 DEF KeepsCalls, SameCallsBut, SameCall
<1>7. ASSUME NEW s \in Slot, Frees(client, client', s) \/ Forgets(client, client', s),
             Silent(sent'), client[s].statusCall # "ISCALLING"
      PROVE  CallTold(c)
  BY <1>4, <1>5, <1>7 DEF Frees, Forgets, SameCallsBut, SameCall
<1>8. ASSUME NEW s \in Slot, NEW t \in Slot, Rings(client, client', s, t), Silent(sent')
      PROVE  CallTold(c)
  BY <1>4, <1>5, <1>8 DEF Rings, OfTwo, SameCallsBut, SameCall
<1>9. ASSUME NEW s \in Slot, NEW t \in Slot, Refuses(client, client', s, t), Silent(sent')
      PROVE  CallTold(c)
  <2>1. client[s].comm = t /\ client[s].statusCall # "ISCALLING" /\ s # t
    BY <1>1, <1>9 DEF Refuses
  <2>2. client[t].statusCall # "ISCALLING"
    BY <2>1, Apart
  <2>3. QED
    BY <1>4, <1>5, <1>9, <2>1, <2>2 DEF Refuses, OfTwo, SameCallsBut, SameCall
<1>10. ASSUME NEW s \in Slot, NEW t \in Slot, Answers(client, client', s, t, sent')
       PROVE  CallTold(c)
  <2>1. /\ client[s].comm = t /\ client[s].statusCall # "ISCALLING" /\ s # t
        /\ Says(sent', Accepted(s, t)) /\ SameCallsBut(client, client', {s, t})
        /\ client[s].isConnected /\ client[t].isConnected
        /\ client'[s].isConnected /\ client'[t].isConnected
        /\ client'[s].comm = t /\ client'[t].comm = s
        /\ client'[s].statusCall = "ISCALLING" /\ client'[t].statusCall = "ISCALLING"
    BY <1>1, <1>10 DEF Answers, OfTwo, Partners
  <2>2. client[t].statusCall # "ISCALLING"
    BY <2>1, Apart
  <2>3. client[s].account \in Account /\ client[t].account \in Account
    BY <2>1, CallFacts
  <2>4. /\ \A x \in Slot : x = s => OneLoud(x, Answered(x, client[t].account, TRUE))
        /\ \A x \in Slot : x = t => OneLoud(x, Answered(x, client[s].account, TRUE))
        /\ c \notin {s, t} => \A l \in sent' : l.to = c => ~Loud(l)
    <3> DEFINE m == Answered(t, client[s].account, TRUE)
               n == Answered(s, client[t].account, TRUE)
    <3>1. m.to = t /\ n.to = s
      BY DEF Answered
    <3>2. Says(sent', {m, n})
      BY <2>1 DEF Accepted
    <3> HIDE DEF m, n
    <3>3. OneLoud(t, m) /\ OneLoud(s, n) /\ (c \notin {s, t} => \A l \in sent' : l.to = c => ~Loud(l))
      BY <2>1, <3>1, <3>2, PairSaid
    <3>4. QED
      BY <3>3 DEF m, n
  <2>5. ASSUME NEW x \in Slot, NEW y \in Slot, c = x, (x = s /\ y = t) \/ (x = t /\ y = s)
        PROVE  CallTold(c)
    <3> DEFINE b == client[y].account
    <3>1. OneLoud(c, Answered(c, b, TRUE))
      BY <2>4, <2>5
    <3>2. \A a : ~Calling(c, a) /\ (Calling(c, a)' <=> a = b)
      <4>1. client'[c].comm = y /\ client'[c].statusCall = "ISCALLING" /\ y # Null
        BY <1>2, <2>1, <2>5
      <4>2. client'[y].account = b
        BY <2>1, <2>5
      <4>3. client[c].statusCall # "ISCALLING"
        BY <2>1, <2>2, <2>5
      <4> HIDE DEF b
      <4>4. QED
        BY <4>1, <4>2, <4>3 DEF Calling
    <3>3. b \in Account
      BY <2>3, <2>5
    <3>4. QED
      BY <3>1, <3>2, <3>3 DEF CallTold
  <2>6. CASE c \notin {s, t}
    <3>1. \A m \in sent' : m.to = c => ~Loud(m)
      BY <2>4, <2>6
    <3>2. QED
      BY <1>4, <2>1, <2>6, <3>1 DEF SameCallsBut, SameCall
  <2>7. QED
    BY <2>1, <2>5, <2>6
<1>11. ASSUME NEW s \in Slot, NEW t \in Slot, HangsUpOrLeaves(s, t)
       PROVE  CallTold(c)
  <2>1. client[s].comm = t /\ client[s].statusCall = "ISCALLING" /\ s # t
    BY <1>1, <1>11 DEF HangsUpOrLeaves, HangsUp
  <2>2. client[t].comm = s /\ client[t].statusCall = "ISCALLING"
    BY <1>2, <2>1 DEF CallJoined
  <2>3. /\ SameCallsBut(client, client', {s, t}) /\ Says(sent', Closed(s, t))
        /\ client'[s].statusCall = "NONE" /\ client'[t].statusCall = "NONE"
    BY <1>11, <2>1 DEF HangsUpOrLeaves, HangsUp, OfTwo, Frees, SameCallsBut, SameCall
  <2>4. \A x, b : Tell(x, "CLOSE_CALL", b).to = x
    BY DEF Tell
  <2>5. ASSUME NEW x \in Slot, NEW y \in Slot, c = x, {x, y} = {s, t}, x # y
        PROVE  CallTold(c)
    <3> DEFINE b == client[y].account
    <3>1. Tell(x, "CLOSE_CALL", b) \in Closed(s, t)
          /\ \A n \in Closed(s, t) : n.to = x => n = Tell(x, "CLOSE_CALL", b)
      BY <2>4, <2>5 DEF Closed
    <3>2. OneLoud(c, Tell(c, "CLOSE_CALL", b))
      BY <2>3, <2>5, <3>1 DEF OneLoud, Says
    <3>3. client[c].comm = y /\ client[c].statusCall = "ISCALLING" /\ y # Null
          /\ client'[c].statusCall # "ISCALLING"
      BY <1>2, <2>1, <2>2, <2>3, <2>5
    <3>4. b \in Account
      BY <1>2, <2>1, <2>2, <2>5
    <3>5. \A a : (Calling(c, a) <=> a = b) /\ ~Calling(c, a)'
      <4>1. client[y].account = b
        OBVIOUS
      <4> HIDE DEF b
      <4>2. QED
        BY <3>3, <4>1 DEF Calling
    <3>6. QED
      BY <3>2, <3>4, <3>5 DEF CallTold
  <2>6. CASE c \notin {s, t}
    <3>1. \A m \in sent' : m.to = c => ~Loud(m)
      BY <2>3, <2>4, <2>6 DEF Says, Closed
    <3>2. QED
      BY <1>4, <2>3, <2>6, <3>1 DEF SameCallsBut, SameCall
  <2>7. QED
    BY <2>1, <2>5, <2>6
<1>12. QED
  BY <1>6, <1>7, <1>8, <1>9, <1>10, <1>11 DEF CallMoves

\* Who is told that it has logged out is in no call any more.
LEMMA FarewellEnds ==
    ASSUME SystemInv, ServerCalls', NEW d \in Slot, Serve(d), NEW m \in sent',
           m.cmd = "ERR", m.instruction = "EXIT", m.code = "OK"
    PROVE  \A a : ~Calling(m.to, a)'
<1> DEFINE command == Head(toServer[d])
<1>1. /\ ServerInv /\ toServer \in [Slot -> Seq(Treatable)]
  BY DEF SystemInv, QueueTypes
<1>2. /\ Treat(d, command) /\ command \in Treatable
  BY <1>1 DEF Serve
<1> HIDE DEF command
<1>3. command.cmd # "HANDSHAKE"
  <2>1. onHandshake(d) => \A n \in sent' : n.cmd # "ERR"
    BY DEF onHandshake, Become, Tell
  <2>2. QED
    BY <1>1, <1>2, <2>1, Treated
<1>4. m.to = d /\ command.cmd = "EXIT"
  BY <1>1, <1>2, <1>3, Treated DEF Tells, Plain
<1>5. onExit(d)
  BY <1>2, <1>4 DEF Treat
<1>6. ~client'[d].isConnected
  <2>1. CASE ~client[d].isConnected
    BY <1>5, <2>1 DEF onExit, Send, memory
  <2>2. CASE client[d].isConnected
    BY <1>1, <1>5, <2>2, ExitTurns DEF Turns, Die, NoClient
  <2>3. QED
    BY <2>1, <2>2
<1>7. QED
  BY <1>4, <1>6 DEF ServerCalls, CallStateFits, Session, Calling

\* Having read q the client r takes itself to be in the call of the session at c.
CallMatches(r, c, q) ==
    /\ Alternates(r, q)
    /\ \A a \in Account : TalksTo(r, q, Len(q), a) <=> Calling(c, a)

\* What of the messages t of a step is about calls is what the server says to c.
LEMMA LoudDelivered ==
    ASSUME NEW c, NEW t \in Seq(MessagesFor(c, sent')),
           \A m \in MessagesFor(c, sent') : \E i \in 1..Len(t) : t[i] = m
    PROVE  /\ \A i \in 1..Len(t) : Loud(t[i]) => t[i] \in sent' /\ t[i].to = c
           /\ \A m \in sent' : (m.to = c /\ Loud(m)) => \E i \in 1..Len(t) : t[i] = m
           /\ \A i \in 1..Len(t) : Farewell(t[i]) =>
                 t[i] \in sent' /\ t[i].to = c /\ t[i].code = "OK"
<1>1. ASSUME NEW i \in 1..Len(t)
      PROVE  \E m \in sent' : m.to = c /\ Effective(m) /\ t[i] = Reduced(m)
  <2>1. t[i] \in MessagesFor(c, sent')
    OBVIOUS
  <2>2. QED
    BY <2>1 DEF MessagesFor
<1>2. \A m : Reduced(m) = m \/ Reduced(m).cmd = "SHOW"
  BY DEF Reduced, Tell
<1>3. \A i \in 1..Len(t) : (Loud(t[i]) \/ Farewell(t[i])) =>
         t[i] \in sent' /\ t[i].to = c /\ Effective(t[i])
  <2> TAKE i \in 1..Len(t)
  <2>1. PICK m \in sent' : m.to = c /\ Effective(m) /\ t[i] = Reduced(m)
    BY <1>1
  <2>2. QED
    BY <1>2, <2>1 DEF Loud, Farewell
<1>4. ASSUME NEW m \in sent', m.to = c, Loud(m)
      PROVE  \E i \in 1..Len(t) : t[i] = m
  <2>1. Effective(m) /\ Reduced(m) = m
    BY <1>4 DEF Loud, Effective, Reduced
  <2>2. m \in MessagesFor(c, sent')
    BY <1>4, <2>1 DEF MessagesFor
  <2>3. QED
    BY <2>2
<1>5. QED
  BY <1>3, <1>4 DEF Farewell, Effective

\* The messages of a step of the server keep the clients' calls matching.
LEMMA ToldMatches ==
    ASSUME NEW c, CallTold(c), NEW r, NEW q \in Seq(Notice), CallMatches(r, c, q),
           NEW t \in Seq(Notice), t \in Seq(MessagesFor(c, sent')),
           \A m \in MessagesFor(c, sent') : \E i \in 1..Len(t) : t[i] = m,
           \A i, j \in 1..Len(t) : i # j => t[i] # t[j],
           \A m \in sent' : (m.cmd = "ERR" /\ m.instruction = "EXIT" /\ m.code = "OK") =>
                               \A a : ~Calling(m.to, a)'
    PROVE  /\ Alternates(r, q \o t)
           /\ \A a \in Account : TalksTo(r, q \o t, Len(q \o t), a) <=> Calling(c, a)'
<1>1. /\ \A i \in 1..Len(t) : Loud(t[i]) => t[i] \in sent' /\ t[i].to = c
      /\ \A m \in sent' : (m.to = c /\ Loud(m)) => \E i \in 1..Len(t) : t[i] = m
      /\ \A i \in 1..Len(t) : Farewell(t[i]) =>
            t[i] \in sent' /\ t[i].to = c /\ t[i].code = "OK"
  BY LoudDelivered
<1>2. \A i \in 1..Len(t) : Farewell(t[i]) => \A a : ~Calling(c, a)'
  <2> SUFFICES ASSUME NEW i \in 1..Len(t), Farewell(t[i])
               PROVE  \A a : ~Calling(c, a)'
    OBVIOUS
  <2> DEFINE m == t[i]
  <2>1. m \in sent' /\ m.to = c /\ m.cmd = "ERR" /\ m.instruction = "EXIT" /\ m.code = "OK"
    BY <1>1 DEF Farewell
  <2> HIDE DEF m
  <2>2. QED
    BY <2>1
<1>3. \A m, a : Begins(m, a) \/ Ceases(m, a) => Loud(m)
  BY DEF Begins, Ceases, Loud
<1> DEFINE u == q \o t
           Later(a) == Calling(c, a)'
<1>4. ASSUME \A i, j \in 1..Len(t) : Loud(t[i]) /\ Loud(t[j]) => i = j,
             \A i \in 1..Len(t), a \in Account :
                /\ Begins(t[i], a) => \A b \in Account : ~Calling(c, b)
                /\ Ceases(t[i], a) => Calling(c, a),
             \A a \in Account : TalksTo(r, u, Len(u), a) <=> Later(a)
      PROVE  /\ Alternates(r, u)
             /\ \A a \in Account : TalksTo(r, u, Len(u), a) <=> Later(a)
  <2>1. \A i \in 1..Len(t), a \in Account :
           /\ Begins(t[i], a) => \A b \in Account : ~TalksTo(r, q, Len(q), b)
           /\ Ceases(t[i], a) => TalksTo(r, q, Len(q), a)
           /\ Farewell(t[i]) => ~TalksTo(r, u, Len(u), a)
    BY <1>2, <1>4 DEF CallMatches
  <2>2. Alternates(r, q)
    BY DEF CallMatches
  <2>3. Alternates(r, u)
    BY <1>4, <2>1, <2>2, TalkAppended
  <2>4. QED
    BY <1>4, <2>3
<1>5. CASE /\ \A m \in sent' : m.to = c => ~Loud(m)
           /\ \A a \in Account : Later(a) <=> Calling(c, a)
  <2>1. \A i \in 1..Len(t) : ~Loud(t[i])
    BY <1>1, <1>5
  <2>2. \A a : TalksTo(r, u, Len(u), a) <=> TalksTo(r, q, Len(q), a)
    BY <2>1, TalkAfter
  <2>3. \A a \in Account : TalksTo(r, u, Len(u), a) <=> Later(a)
    BY <1>5, <2>2 DEF CallMatches
  <2>4. QED
    BY <1>3, <1>4, <2>1, <2>3
<1>6. ASSUME NEW m, NEW b \in Account, OneLoud(c, m), m.to = c, Begins(m, b) \/ Ceases(m, b)
      PROVE  /\ \A i, j \in 1..Len(t) : Loud(t[i]) /\ Loud(t[j]) => i = j
             /\ \A i \in 1..Len(t) : Loud(t[i]) => t[i] = m
             /\ \A a : TalksTo(r, u, Len(u), a) <=> Begins(m, a)
  <2>1. PICK k \in 1..Len(t) : t[k] = m
    BY <1>1, <1>3, <1>6 DEF OneLoud
  <2>2. \A i \in 1..Len(t) : Loud(t[i]) => t[i] = m /\ i = k
    BY <1>1, <1>6, <2>1 DEF OneLoud
  <2>3. \A a : TalksTo(r, u, Len(u), a) <=> Begins(t[k], a)
    <3>1. \E x : Begins(t[k], x) \/ Ceases(t[k], x)
      BY <1>6, <2>1
    <3>2. QED
      BY <2>2, <3>1, TalkAfter
  <2>4. QED
    BY <2>1, <2>2, <2>3
<1>7. CASE \E b \in Account :
              /\ OneLoud(c, Answered(c, b, TRUE))
              /\ \A a \in Account : ~Calling(c, a) /\ (Later(a) <=> a = b)
  <2>1. PICK b \in Account : /\ OneLoud(c, Answered(c, b, TRUE))
                             /\ \A a \in Account : ~Calling(c, a) /\ (Later(a) <=> a = b)
    BY <1>7
  <2> DEFINE m == Answered(c, b, TRUE)
  <2>2. m.to = c /\ \A a : (Begins(m, a) <=> a = b) /\ ~Ceases(m, a)
    BY DEF Answered, Begins, Ceases
  <2> HIDE DEF m
  <2>3. /\ \A i, j \in 1..Len(t) : Loud(t[i]) /\ Loud(t[j]) => i = j
        /\ \A i \in 1..Len(t) : Loud(t[i]) => t[i] = m
        /\ \A a : TalksTo(r, u, Len(u), a) <=> Begins(m, a)
    BY <1>6, <2>1, <2>2 DEF m
  <2>4. \A a \in Account : TalksTo(r, u, Len(u), a) <=> Later(a)
    BY <2>1, <2>2, <2>3
  <2> HIDE DEF u, Later
  <2>5. \A i \in 1..Len(t), a \in Account :
           /\ Begins(t[i], a) => \A x \in Account : ~Calling(c, x)
           /\ Ceases(t[i], a) => Calling(c, a)
    BY <1>3, <2>1, <2>2, <2>3
  <2>6. QED
    BY <1>4, <2>3, <2>4, <2>5 DEF u, Later
<1>8. CASE \E b \in Account :
              /\ OneLoud(c, Tell(c, "CLOSE_CALL", b))
              /\ \A a \in Account : (Calling(c, a) <=> a = b) /\ ~Later(a)
  <2>1. PICK b \in Account : /\ OneLoud(c, Tell(c, "CLOSE_CALL", b))
                             /\ \A a \in Account : (Calling(c, a) <=> a = b) /\ ~Later(a)
    BY <1>8
  <2> DEFINE m == Tell(c, "CLOSE_CALL", b)
  <2>2. m.to = c /\ \A a : (Ceases(m, a) <=> a = b) /\ ~Begins(m, a)
    BY DEF Tell, Begins, Ceases
  <2> HIDE DEF m
  <2>3. /\ \A i, j \in 1..Len(t) : Loud(t[i]) /\ Loud(t[j]) => i = j
        /\ \A i \in 1..Len(t) : Loud(t[i]) => t[i] = m
        /\ \A a : TalksTo(r, u, Len(u), a) <=> Begins(m, a)
    BY <1>6, <2>1, <2>2 DEF m
  <2>4. \A a \in Account : TalksTo(r, u, Len(u), a) <=> Later(a)
    BY <2>1, <2>2, <2>3
  <2> HIDE DEF u, Later
  <2>5. \A i \in 1..Len(t), a \in Account :
           /\ Begins(t[i], a) => \A x \in Account : ~Calling(c, x)
           /\ Ceases(t[i], a) => Calling(c, a)
    BY <1>3, <2>1, <2>2, <2>3
  <2>6. QED
    BY <1>4, <2>3, <2>4, <2>5 DEF u, Later
<1>9. QED
  BY <1>5, <1>7, <1>8 DEF CallTold

-----------------------------------------------------------------------------
(* What a client does about its call *)

\* What the client r does about its call, with the messages q still to be read and
\* the commands w still to be treated.  The window and the sound agree, but for a
\* call that ends, or a device that failed, which is on its way.
AudioFits(r, q, w) ==
    /\ r.mInCommunication => r.mIsCall /\ r.mCurrentCalledContact = r.mContactInCall
    /\ r.mIsCall => r.mInCommunication \/ ~Quiet(q, 0, Len(q))
    /\ ~r.mInCommunication => ~r.recording /\ ~r.playing
    /\ (r.mInCommunication /\ ~(r.recording /\ r.playing)) =>
          \/ ~Quiet(q, 0, Len(q))
          \/ \E i \in 1..Len(w) : Ceases(w[i], r.mContactInCall)

CallFits(p) ==
    LET r == app[p]
        c == r.conn
    IN  IF c = Null
        THEN ~r.mIsCall /\ ~r.mInCommunication /\ ~r.recording /\ ~r.playing
        ELSE CallMatches(r, c, toClient[c]) /\ AudioFits(r, toClient[c], toServer[c])

\* A command that closes the call of its session ends it.
LEMMA HangUpTreated ==
    ASSUME SystemInv, LoginInv, ServerLists, ServerCalls, NEW d \in Slot, NEW a, Calling(d, a),
           NEW command \in Treatable, Treat(d, command), Ceases(command, a)
    PROVE  \A b : ~Calling(d, b)'
<1>1. client[d].statusCall = "ISCALLING" /\ a = client[client[d].comm].account
  BY DEF Calling
<1>2. onCloseCall(d, a)
  BY DEF Treat, Ceases
<1> DEFINE closed == CloseCall(client, file, d, a)
<1>3. client' = closed.clients
  BY <1>2 DEF onCloseCall, Become
<1>4. \E t \in Slot : HangsUp(client, closed.clients, d, t, closed.sent)
  BY <1>1, CallCloses
<1> HIDE DEF closed
<1>5. client'[d].statusCall = "NONE"
  BY <1>3, <1>4 DEF HangsUp
<1>6. QED
  BY <1>5 DEF Calling

\* More messages to read.
LEMMA QuietLess ==
    ASSUME NEW S, NEW q \in Seq(S), NEW t \in Seq(S), Quiet(q \o t, 0, Len(q \o t))
    PROVE  Quiet(q, 0, Len(q))
BY Appended DEF Quiet

\* The server treats a command: its messages keep the call of a client.
LEMMA ServeMatches ==
    ASSUME SystemInv, SystemInv', LoginInv, ServerLists, NoThird, ServerCalls, ~ServerMayStop,
           NEW d \in Slot, Serve(d), NEW c \in Slot, Attached(c), NEW r, WellNamed(r),
           CallMatches(r, c, toClient[c]), AudioFits(r, toClient[c], toServer[c])
    PROVE  CallMatches(r, c, toClient[c])' /\ AudioFits(r, toClient[c], toServer[c])'
<1> DEFINE q == toClient[c]
           command == Head(toServer[d])
<1>1. /\ ServerInv /\ QueueTypes /\ unwritable = {} /\ q \in Seq(Notice)
      /\ toServer \in [Slot -> Seq(Treatable)]
  BY DEF SystemInv, QueueTypes, LoginInv
<1>2. ServerCalls'
  BY ServerCallsKept
<1>3. \A s \in Slot : (client[s].isConnected /\ client'[s].isConnected) =>
                         client'[s].account = client[s].account
  <2>1. [Next]_vars
    BY <1>1, SystemSteps DEF SystemNext
  <2>2. QED
    BY <1>1, <2>1, AccountStays
<1>4. CallTold(c)
  BY <1>1, <1>2, <1>3, ServeMoves, MovesTell
<1>5. sent' \in SUBSET Message /\ WellMeant(sent') /\ Deliver(sent')
  BY <1>1, ServerSends
<1>6. PICK t \in Seq(NoticesTo(c)) :
          /\ t \in Seq(MessagesFor(c, sent'))
          /\ MessagesFor(c, sent') # {} => t # <<>>
          /\ \A m \in MessagesFor(c, sent') : \E i \in 1..Len(t) : t[i] = m
          /\ \A i, j \in 1..Len(t) : i # j => t[i] # t[j]
          /\ toClient'[c] = IF Attached(c) THEN toClient[c] \o t ELSE <<>>
  BY <1>5, Delivered
<1>7. t \in Seq(Notice) /\ toClient'[c] = q \o t
  <2>1. t \in Seq(Notice)
    BY <1>6 DEF NoticesTo
  <2>2. QED
    BY <1>6, <2>1
<1>8. /\ Alternates(r, q \o t)
      /\ \A a \in Account : TalksTo(r, q \o t, Len(q \o t), a) <=> Calling(c, a)'
  <2>1. \A m \in sent' : (m.cmd = "ERR" /\ m.instruction = "EXIT" /\ m.code = "OK") =>
                            \A a : ~Calling(m.to, a)'
    BY <1>2, FarewellEnds
  <2> HIDE DEF q
  <2>2. CallMatches(r, c, q)
    BY DEF q
  <2>3. QED
    BY <1>1, <1>4, <1>6, <1>7, <2>1, <2>2, ToldMatches
<1>9. Quiet(q \o t, 0, Len(q \o t)) => Quiet(q, 0, Len(q))
  BY <1>1, <1>7, QuietLess
<1> HIDE DEF q
<1>10. CallMatches(r, c, q) /\ AudioFits(r, q, toServer[c])
  BY DEF q
<1>11. AudioFits(r, q \o t, toServer'[c])
  <2>1. CASE c # d
    <3>1. toServer'[c] = toServer[c]
      BY <1>1, <2>1 DEF Serve
    <3>2. QED
      BY <1>9, <1>10, <3>1 DEF AudioFits
  <2>2. CASE c = d
    <3>1. /\ toServer[c] # <<>> /\ Treat(c, command) /\ toServer'[c] = Tail(toServer[c])
          /\ command \in Treatable /\ toServer[c] \in Seq(Treatable)
      BY <1>1, <2>2 DEF Serve
    <3>2. command = Head(toServer[c])
      BY <2>2
    <3> DEFINE w == toServer[c]
               a == r.mContactInCall
    <3> HIDE DEF command
    <3>3. ASSUME r.mInCommunication, Quiet(q \o t, 0, Len(q \o t)), Ceases(command, a)
          PROVE  FALSE
      <4>1. r.mIsCall /\ Quiet(q, 0, Len(q))
        BY <1>9, <1>10, <3>3 DEF AudioFits
      <4>2. a \in Account
        BY <4>1 DEF WellNamed
      <4>3. TalksTo(r, q, Len(q), a) /\ TalksTo(r, q \o t, Len(q \o t), a)
        BY <3>3, <4>1 DEF TalksTo
      <4>4. Calling(c, a) /\ Calling(c, a)'
        BY <1>8, <1>10, <4>2, <4>3 DEF CallMatches
      <4>5. QED
        BY <3>1, <3>3, <4>4, HangUpTreated
    <3>4. ASSUME NEW i \in 1..Len(w), Ceases(w[i], a), ~Ceases(command, a)
          PROVE  \E j \in 1..Len(Tail(w)) : Ceases(Tail(w)[j], a)
      <4>1. i # 1 /\ w \in Seq(Treatable) /\ w # <<>>
        BY <3>1, <3>2, <3>4
      <4> HIDE DEF w
      <4>2. i - 1 \in 1..Len(Tail(w)) /\ Tail(w)[i - 1] = w[i]
        BY <3>4, <4>1
      <4>3. QED
        BY <3>4, <4>2
    <3>5. QED
      BY <1>9, <1>10, <3>1, <3>3, <3>4 DEF AudioFits
  <2>3. QED
    BY <2>1, <2>2
<1>12. QED
  BY <1>7, <1>8, <1>11 DEF CallMatches

LEMMA ServeFits ==
    ASSUME SystemInv, SystemInv', LoginInv, ServerLists, NoThird, ServerCalls, ~ServerMayStop,
           NEW d \in Slot, Serve(d), NEW p \in User, CallFits(p)
    PROVE  CallFits(p)'
<1>1. app' = app /\ app \in [User -> AppRec] /\ WellNamed(app[p])
  BY DEF SystemInv, QueueTypes, NamesKnown, Serve
<1>2. CASE app[p].conn = Null
  BY <1>1, <1>2 DEF CallFits
<1>3. ASSUME NEW r, r = app[p], NEW c, c = r.conn, c # Null
      PROVE  CallFits(p)'
  <2>1. c \in Slot /\ Attached(c) /\ WellNamed(r)
    BY <1>1, <1>3 DEF AppRec, Attached
  <2>2. CallMatches(r, c, toClient[c]) /\ AudioFits(r, toClient[c], toServer[c])
    BY <1>3 DEF CallFits
  <2>3. CallMatches(r, c, toClient[c])' /\ AudioFits(r, toClient[c], toServer[c])'
    BY <2>1, <2>2, ServeMatches
  <2>4. QED
    BY <1>1, <1>3, <2>3 DEF CallFits, CallMatches, AudioFits
<1>4. QED
  BY <1>2, <1>3

\* What is left to read.
LEMMA QuietTail ==
    ASSUME NEW S, NEW q \in Seq(S), q # <<>>
    PROVE  /\ Quiet(Tail(q), 0, Len(Tail(q))) <=> Quiet(q, 1, Len(q))
           /\ Quiet(q, 0, Len(q)) <=> (~Loud(Head(q)) /\ Quiet(q, 1, Len(q)))
<1> DEFINE t == Tail(q)
           n == Len(q)
<1>1. /\ n \in Nat /\ n >= 1 /\ Len(t) = n - 1 /\ Head(q) = q[1]
      /\ \A j \in 1..(n - 1) : t[j] = q[j + 1]
  OBVIOUS
<1> HIDE DEF t, n
<1>2. Quiet(t, 0, n - 1) <=> Quiet(q, 1, n)
  <2>1. ASSUME Quiet(t, 0, n - 1)
        PROVE  Quiet(q, 1, n)
    <3>1. SUFFICES ASSUME NEW j \in 1..n, j > 1
                   PROVE  ~Loud(q[j])
      BY DEF Quiet
    <3>2. j - 1 \in 1..(n - 1) /\ j - 1 > 0 /\ (j - 1) + 1 = j
      BY <1>1, <3>1
    <3>3. ~Loud(t[j - 1]) /\ t[j - 1] = q[j]
      BY <1>1, <2>1, <3>2 DEF Quiet
    <3>4. QED
      BY <3>3
  <2>2. ASSUME Quiet(q, 1, n)
        PROVE  Quiet(t, 0, n - 1)
    <3>1. SUFFICES ASSUME NEW j \in 1..(n - 1)
                   PROVE  ~Loud(t[j])
      BY DEF Quiet
    <3>2. j + 1 \in 1..n /\ j + 1 > 1
      BY <1>1
    <3>3. QED
      BY <1>1, <2>2, <3>2 DEF Quiet
  <2>3. QED
    BY <2>1, <2>2
<1>3. Quiet(q, 0, n) <=> (~Loud(q[1]) /\ Quiet(q, 1, n))
  BY <1>1 DEF Quiet
<1>4. QED
  BY <1>1, <1>2, <1>3 DEF t, n

\* The part of a client that its call is about.
SameAudio(r, q) ==
    /\ q.mIsCall = r.mIsCall /\ q.mContactInCall = r.mContactInCall
    /\ q.mInCommunication = r.mInCommunication
    /\ q.mCurrentCalledContact = r.mCurrentCalledContact
    /\ q.recording = r.recording /\ q.playing = r.playing

\* What a user does leaves the call to the server.
LEMMA UseKeepsAudio ==
    ASSUME NEW p \in User, app[p] \in AppRec, Use(p)
    PROVE  \E q, commands : /\ q.conn = app[p].conn /\ SameAudio(app[p], q)
                            /\ Turn(p, q, commands) /\ toClient' = toClient
                            /\ \E T : commands \in Seq(T)
<1> DEFINE me == app[p]
           logging(a) == [app[p] EXCEPT !.mLoggedUser = a]
           leaving == [app[p] EXCEPT !.page = "flyer"]
           answering == [app[p] EXCEPT !.question = NoQuestion]
<1>1. \A r \in {me, leaving, answering} \cup {logging(a) : a \in Account} :
         r \in AppRec /\ r.conn = me.conn /\ SameAudio(me, r)
  BY DEF SameAudio, AppRec, NoQuestion, Page
<1> HIDE DEF logging, leaving, answering
<1>2. toClient' = toClient
  BY DEF Use, askForAuthentication, submitInscription, onAddContactButtonClicked,
         onDeleteButtonClicked, onSendButtonClicked, onCallButtonClicked, submitUpdate,
         onLogoutButtonClicked, newContactInvitation, newCallInvitation, Asks, Replies
<1>3. \E r, command : r \in AppRec /\ r.conn = me.conn /\ SameAudio(me, r) /\ sendCommand(p, r, command)
  <2>1. ASSUME NEW a \in Login[p], askForAuthentication(p, a)
        PROVE  sendCommand(p, logging(a), authenticate(a)) /\ a \in Account
    BY <2>1, SystemAssumption DEF askForAuthentication, Asks, logging
  <2>2. onLogoutButtonClicked(p) => sendCommand(p, leaving, disconnect)
    BY DEF onLogoutButtonClicked, Asks, leaving
  <2>3. (\E accept \in BOOLEAN : newContactInvitation(p, accept) \/ newCallInvitation(p, accept)) =>
           \E command : sendCommand(p, answering, command)
    BY DEF newContactInvitation, newCallInvitation, Replies, answering
  <2>4. ASSUME \/ \E a \in Login[p] : submitInscription(p, a)
               \/ \E a \in Account : \/ onAddContactButtonClicked(p, a)
                                     \/ onDeleteButtonClicked(p, a)
                                     \/ onSendButtonClicked(p, a) \/ onCallButtonClicked(p, a)
               \/ submitUpdate(p)
        PROVE  \E command : sendCommand(p, me, command)
    BY <2>4 DEF submitInscription, onAddContactButtonClicked, onDeleteButtonClicked,
                onSendButtonClicked, onCallButtonClicked, submitUpdate, Asks
  <2>5. QED
    BY <1>1, <2>1, <2>2, <2>3, <2>4 DEF Use
<1>4. PICK r, command : r \in AppRec /\ r.conn = me.conn /\ SameAudio(me, r) /\ sendCommand(p, r, command)
  BY <1>3
<1>5. CASE r.conn = Null
  <2> DEFINE q == onDisconnection(r)
             none == <<>>
  <2>1. q.conn = me.conn /\ SameAudio(me, q)
    BY <1>4, <1>5 DEF onDisconnection, disconnectedFromServer, SameAudio, AppRec
  <2>2. Turn(p, q, none) /\ none \in Seq({})
    BY <1>4, <1>5 DEF sendCommand
  <2> HIDE DEF q, none
  <2>3. QED
    BY <1>2, <2>1, <2>2
<1>6. CASE r.conn # Null
  <2> DEFINE commands == <<command>>
  <2>1. Turn(p, r, commands) /\ commands \in Seq({command})
    BY <1>4, <1>6 DEF sendCommand
  <2> HIDE DEF commands
  <2>2. QED
    BY <1>2, <1>4, <2>1
<1>7. QED
  BY <1>5, <1>6

\* The call of a client that another one's step does not touch.
LEMMA OthersCall ==
    ASSUME SystemInv, NEW p \in User, NEW u \in User, u # p, NEW q, NEW commands, NEW T,
           Turn(p, q, commands), q.conn # Null => q.conn = app[p].conn, commands \in Seq(T),
           \/ toClient' = toClient
           \/ app[p].conn # Null /\ toClient' = [toClient EXCEPT ![app[p].conn] = Tail(@)],
           client' = client, CallFits(u)
    PROVE  CallFits(u)'
<1>1. /\ app'[u] = app[u]
      /\ app[u].conn # Null => /\ toClient'[app[u].conn] = toClient[app[u].conn]
                               /\ toServer'[app[u].conn] = toServer[app[u].conn]
  <2>1. QueueTypes /\ OwnConnections /\ app[u] \in AppRec
    BY DEF SystemInv, QueueTypes
  <2>2. /\ \A x \in User : x # p => app'[x] = app[x]
        /\ \A x \in User : (x # p /\ app[x].conn # Null) =>
              toClient'[app[x].conn] = toClient[app[x].conn]
        /\ \A c \in Slot : c # q.conn => toServer'[c] = toServer[c]
    BY <2>1, TurnedQueues
  <2>3. app[u].conn # Null => app[u].conn \in Slot /\ app[u].conn # q.conn
    BY <2>1 DEF AppRec, OwnConnections
  <2>4. QED
    BY <2>2, <2>3
<1>2. QED
  BY <1>1 DEF CallFits, CallMatches, Calling

\* A user gives a command.
LEMMA UseFits ==
    ASSUME SystemInv, NEW p \in User, Use(p), client' = client, NEW u \in User, CallFits(u)
    PROVE  CallFits(u)'
<1>1. QueueTypes /\ OwnConnections /\ app[p] \in AppRec
  BY DEF SystemInv, QueueTypes
<1>2. PICK q, commands : /\ q.conn = app[p].conn /\ SameAudio(app[p], q)
                         /\ Turn(p, q, commands) /\ toClient' = toClient
                         /\ \E T : commands \in Seq(T)
  BY <1>1, UseKeepsAudio
<1>3. PICK T : commands \in Seq(T)
  BY <1>2
<1>4. CASE u # p
  BY <1>2, <1>3, <1>4, OthersCall
<1>5. CASE u = p
  <2> DEFINE r == app[p]
             c == q.conn
  <2>1. /\ app'[p] = q
        /\ c # Null => toServer'[c] = toServer[c] \o commands
    <3>1. toClient' = toClient /\ Turn(p, q, commands) /\ (q.conn # Null => q.conn = app[p].conn)
      BY <1>2
    <3> HIDE <1>2
    <3>2. QED
      BY <1>1, <1>3, <3>1, TurnedQueues
  <2>2. CASE c = Null
    BY <1>2, <1>5, <2>1, <2>2 DEF CallFits, SameAudio
  <2>3. CASE c # Null
    <3>1. c \in Slot /\ toServer[c] \in Seq(Treatable)
      BY <1>1, <1>2, <2>3 DEF QueueTypes, AppRec
    <3>2. CallMatches(r, c, toClient[c]) /\ AudioFits(r, toClient[c], toServer[c])
      BY <1>2, <1>5, <2>3 DEF CallFits
    <3> DEFINE w == toServer[c]
    <3>3. \A i \in 1..Len(w) : i \in 1..Len(w \o commands) /\ (w \o commands)[i] = w[i]
      BY <1>3, <3>1
    <3> HIDE DEF w, r, c
    <3>4. \A x, n, a : TalksTo(q, x, n, a) <=> TalksTo(r, x, n, a)
      BY <1>2 DEF TalksTo, SameAudio, r
    <3>5. Alternates(q, toClient[c]) /\ \A a \in Account :
             TalksTo(q, toClient[c], Len(toClient[c]), a) <=> Calling(c, a)
      BY <3>2, <3>4 DEF Alternates, CallMatches
    <3>6. AudioFits(q, toClient[c], w \o commands)
      BY <1>2, <3>2, <3>3 DEF AudioFits, SameAudio, r, w
    <3>7. toServer'[c] = w \o commands /\ c = q.conn /\ c # Null
      BY <2>1, <2>3 DEF w, c
    <3>8. QED
      BY <1>2, <1>5, <2>1, <3>5, <3>6, <3>7 DEF CallFits, CallMatches, Calling
  <2>4. QED
    BY <2>2, <2>3
<1>6. QED
  BY <1>4, <1>5

\* The sound is stopped.
Stopped(q) == ~q.mInCommunication /\ ~q.recording /\ ~q.playing

\* What a client does about its call on the message m, and the commands it sends.
CallRead(r, q, m, commands) ==
    /\ Loud(m) \/ Farewell(m) \/ SameAudio(r, q)
    /\ (Loud(m) /\ m.cmd = "ACCEPT_CALL") =>
          /\ q.mIsCall /\ q.mContactInCall = m.who
          /\ q.mInCommunication /\ q.mCurrentCalledContact = m.who
          /\ (q.recording /\ q.playing) \/ \E i \in 1..Len(commands) : Ceases(commands[i], m.who)
    /\ m.cmd = "CLOSE_CALL" =>
          /\ ~q.mIsCall
          /\ \/ Stopped(q)
             \/ r.mCurrentCalledContact # m.who /\ SameAudio([r EXCEPT !.mIsCall = FALSE], q)
    /\ Farewell(m) =>
          /\ q.mIsCall = r.mIsCall /\ q.mContactInCall = r.mContactInCall
          /\ Stopped(q) \/ (~r.mInCommunication /\ SameAudio(r, q))

LEMMA HandleReadsCall ==
    ASSUME NEW p \in User, QueueTypes, Handle(p)
    PROVE  \E q, commands :
              /\ app[p].conn # Null /\ toClient[app[p].conn] # <<>> /\ q.conn = app[p].conn
              /\ Turn(p, q, commands) /\ toClient' = [toClient EXCEPT ![app[p].conn] = Tail(@)]
              /\ \E T : commands \in Seq(T)
              /\ CallRead(app[p], q, Head(toClient[app[p].conn]), commands)
<1> DEFINE me == app[p]
           c == me.conn
           m == Head(toClient[c])
           Goal(q, commands) ==
              /\ app[p].conn # Null /\ toClient[app[p].conn] # <<>> /\ q.conn = app[p].conn
              /\ Turn(p, q, commands) /\ toClient' = [toClient EXCEPT ![app[p].conn] = Tail(@)]
              /\ \E T : commands \in Seq(T)
              /\ CallRead(app[p], q, Head(toClient[app[p].conn]), commands)
<1>1. PICK cmd \in {"HANDSHAKE", "SHOW", "DEL", "SEND", "ADD", "CALL", "ACCEPT_CALL", "CLOSE_CALL", "ERR"} :
          Receives(p, cmd)
  BY DEF Handle, handleHandshakeCommand, handleShowCommand, handleDelCommand, handleSendCommand,
         handleAddCommand, handleCallCommand, handleAcceptCallCommand, handleCloseCallCommand,
         handleErrCommand
<1>2. /\ c # Null /\ toClient[c] # <<>>
      /\ toClient' = [toClient EXCEPT ![c] = Tail(@)] /\ m.cmd = cmd
  BY <1>1 DEF Receives
<1>3. Received(p) = m /\ me \in AppRec
  BY DEF Received, QueueTypes
<1>4. m \in Notice
  BY <1>2, <1>3 DEF QueueTypes, AppRec
<1>5. m.cmd = "ACCEPT_CALL" => m.accept \in BOOLEAN
  BY <1>4 DEF Notice, Answer, Greeting, News
<1> HIDE DEF m
<1>6. ASSUME NEW q, NEW commands, NEW T, commands \in Seq(T), Turn(p, q, commands), q.conn = c,
             CallRead(me, q, m, commands)
      PROVE  Goal(q, commands)
  BY <1>2, <1>6 DEF m
<1> HIDE DEF Goal
<1>7. <<>> \in Seq({})
  OBVIOUS
<1>8. CASE ~Loud(m) /\ ~Farewell(m) /\ m.cmd # "ACCEPT_CALL"
  <2> DEFINE Quietly(q) == q.conn = c /\ SameAudio(me, q)
             hearing == [app[p] EXCEPT !.mHasHandshaked = TRUE]
             asking(kind) == [app[p] EXCEPT !.question = [kind |-> kind, who |-> m.who]]
  <2>1. \A q : Quietly(q) => \A commands : CallRead(me, q, m, commands)
    BY <1>8 DEF CallRead, Loud
  <2>2. /\ Quietly(me) /\ Quietly(hearing) /\ \A kind : Quietly(asking(kind))
        /\ \A a : Quietly(receiveContactInfo(me, a)) /\ Quietly(receiveContactDeletion(me, a))
        /\ Quietly(authenticateSuccess(me))
    BY <1>3 DEF AppRec, SameAudio, receiveContactInfo, receiveContactDeletion, authenticateSuccess
  <2> HIDE DEF Quietly
  <2>3. handleHandshakeCommand(p) => Turn(p, hearing, <<>>)
    BY DEF handleHandshakeCommand
  <2>4. (handleAddCommand(p) \/ handleCallCommand(p)) => \E kind : Turn(p, asking(kind), <<>>)
    BY <1>3 DEF handleAddCommand, handleCallCommand
  <2> HIDE DEF hearing, asking
  <2>5. /\ handleShowCommand(p) => Turn(p, receiveContactInfo(me, m.who), <<>>)
        /\ handleDelCommand(p) => Turn(p, receiveContactDeletion(me, m.who), <<>>)
        /\ handleSendCommand(p) => Turn(p, me, <<>>)
    BY <1>3 DEF handleShowCommand, handleDelCommand, handleSendCommand
  <2>6. /\ handleErrCommand(p) => Turn(p, authenticateSuccess(me), <<getContactInfo(me.mLoggedUser)>>)
        /\ ~handleAcceptCallCommand(p) /\ ~handleCloseCallCommand(p)
    BY <1>3, <1>8 DEF handleErrCommand, handleAcceptCallCommand, handleCloseCallCommand, Receives,
                      Farewell, Loud, m
  <2>7. \E q, commands, T : commands \in Seq(T) /\ Turn(p, q, commands) /\ Quietly(q)
    <3>1. CASE handleErrCommand(p)
      <4> DEFINE commands == <<getContactInfo(me.mLoggedUser)>>
      <4>1. commands \in Seq({getContactInfo(me.mLoggedUser)})
        OBVIOUS
      <4>2. Turn(p, authenticateSuccess(me), commands)
        BY <2>6, <3>1
      <4> HIDE DEF commands
      <4>3. QED
        BY <2>2, <4>1, <4>2
    <3>2. CASE ~handleErrCommand(p)
      <4>1. \E q : Turn(p, q, <<>>) /\ Quietly(q)
        BY <2>2, <2>3, <2>4, <2>5, <2>6, <3>2 DEF Handle
      <4>2. QED
        BY <1>7, <4>1
    <3>3. QED
      BY <3>1, <3>2
  <2>8. QED
    BY <1>6, <2>1, <2>7 DEF Quietly, Goal
<1>9. CASE handleAcceptCallCommand(p)
  <2> DEFINE q(devices) == startCommunication(receiveCallAnswer(me, m.who, m.accept, devices),
                                              m.who, m.accept)
             commands(devices) == criticalErrorHappenedInCallManager(m.who, devices)
  <2>1. PICK devices : Turn(p, q(devices), commands(devices)) /\ m.cmd = "ACCEPT_CALL"
    BY <1>9, <1>3 DEF handleAcceptCallCommand, Receives, m
  <2>2. commands(devices) \in Seq({terminateCall(m.who)})
        /\ (devices # "both" => Len(commands(devices)) = 1
                                /\ commands(devices)[1] = terminateCall(m.who))
    <3>1. /\ <<>> \in Seq({terminateCall(m.who)})
          /\ <<terminateCall(m.who)>> \in Seq({terminateCall(m.who)})
          /\ Len(<<terminateCall(m.who)>>) = 1
      OBVIOUS
    <3>2. QED
      BY <3>1 DEF criticalErrorHappenedInCallManager
  <2>3. Ceases(terminateCall(m.who), m.who)
    BY DEF Ceases, terminateCall, Command
  <2>4. devices # "both" => \E i \in 1..Len(commands(devices)) : Ceases(commands(devices)[i], m.who)
    BY <2>2, <2>3
  <2>5. CASE m.accept
    <3>1. /\ q(devices).conn = c
          /\ q(devices).mIsCall /\ q(devices).mContactInCall = m.who
          /\ q(devices).mInCommunication /\ q(devices).mCurrentCalledContact = m.who
          /\ devices = "both" => q(devices).recording /\ q(devices).playing
      BY <1>3, <2>5 DEF startCommunication, receiveCallAnswer, startCall, AppRec
    <3> HIDE DEF q, commands
    <3>2. CallRead(me, q(devices), m, commands(devices))
      BY <2>1, <2>4, <2>5, <3>1 DEF CallRead, Loud, Farewell
    <3>3. QED
      BY <1>6, <2>1, <2>2, <3>1, <3>2 DEF Goal
  <2>6. CASE ~m.accept
    <3>1. q(devices) = me
      BY <2>6 DEF startCommunication, receiveCallAnswer
    <3>2. CallRead(me, me, m, commands(devices))
      BY <2>1, <2>6 DEF CallRead, Loud, Farewell, SameAudio
    <3> HIDE DEF q, commands
    <3>3. QED
      BY <1>6, <2>1, <2>2, <3>1, <3>2 DEF Goal
  <2>7. QED
    BY <2>5, <2>6
<1>10. CASE handleCloseCallCommand(p)
  <2> DEFINE q == terminateCommunication(receiveCallClose(me, m.who))
             none == <<>>
  <2>1. m.cmd = "CLOSE_CALL" /\ Turn(p, q, none)
    BY <1>10, <1>3 DEF handleCloseCallCommand, Receives, m
  <2>2. /\ q.conn = c /\ ~q.mIsCall
        /\ \/ Stopped(q)
           \/ me.mCurrentCalledContact # m.who /\ SameAudio([me EXCEPT !.mIsCall = FALSE], q)
    BY <1>3 DEF AppRec, terminateCommunication, receiveCallClose, stopCall, Stopped, SameAudio
  <2> HIDE DEF q
  <2>3. CallRead(me, q, m, none)
    BY <2>1, <2>2 DEF CallRead, Loud, Farewell
  <2> HIDE DEF none
  <2>4. none \in Seq({})
    BY <1>7 DEF none
  <2>5. QED
    BY <1>6, <2>1, <2>2, <2>3, <2>4 DEF Goal
<1>11. CASE Farewell(m)
  <2> DEFINE q == disconnectSuccess(receiveServerAnswerForDisconnecting(me))
             none == <<>>
  <2>1. handleErrCommand(p)
    BY <1>11 DEF Farewell, Handle, Receives, handleHandshakeCommand, handleShowCommand,
                 handleDelCommand, handleSendCommand, handleAddCommand, handleCallCommand,
                 handleAcceptCallCommand, handleCloseCallCommand, m
  <2>2. Turn(p, q, none)
    BY <1>3, <1>11, <2>1 DEF handleErrCommand, Farewell
  <2>3. /\ q.conn = c /\ q.mIsCall = me.mIsCall /\ q.mContactInCall = me.mContactInCall
        /\ Stopped(q) \/ (~me.mInCommunication /\ SameAudio(me, q))
    <3> DEFINE left == IF me.mInCommunication THEN stopCall(me) ELSE me
    <3>1. /\ left.conn = c /\ left.mIsCall = me.mIsCall /\ left.mContactInCall = me.mContactInCall
          /\ Stopped(left) \/ (~me.mInCommunication /\ left = me)
          /\ left \in AppRec
      <4>1. LET s == stopCall(me)
            IN  /\ s.conn = c /\ s.mIsCall = me.mIsCall /\ s.mContactInCall = me.mContactInCall
                /\ Stopped(s) /\ s \in AppRec
        BY <1>3 DEF AppRec, stopCall, Stopped
      <4>2. CASE me.mInCommunication
        <5>1. left = stopCall(me)
          BY <4>2
        <5> HIDE DEF left
        <5>2. QED
          BY <4>1, <5>1
      <4>3. CASE ~me.mInCommunication
        <5>1. left = me
          BY <4>3
        <5> HIDE DEF left
        <5>2. QED
          BY <1>3, <4>3, <5>1
      <4>4. QED
        BY <4>2, <4>3
    <3>2. q = [left EXCEPT !.mContacts = {}, !.page = "flyer"]
      <4>1. q = [[left EXCEPT !.mContacts = {}] EXCEPT !.page = "flyer"]
        BY DEF disconnectSuccess, receiveServerAnswerForDisconnecting
      <4> HIDE DEF q, left
      <4>2. QED
        BY <3>1, <4>1 DEF AppRec
    <3> HIDE DEF q, left
    <3>3. /\ q.conn = left.conn /\ q.mIsCall = left.mIsCall /\ q.mContactInCall = left.mContactInCall
          /\ SameAudio(left, q)
      BY <3>1, <3>2 DEF SameAudio, AppRec
    <3>4. QED
      BY <3>1, <3>3 DEF Stopped, SameAudio
  <2> HIDE DEF q
  <2>4. CallRead(me, q, m, none)
    BY <1>11, <2>3 DEF CallRead, Loud, Farewell
  <2> HIDE DEF none
  <2>5. none \in Seq({})
    BY <1>7 DEF none
  <2>6. QED
    BY <1>6, <2>2, <2>3, <2>4, <2>5 DEF Goal
<1>12. m.cmd = "ACCEPT_CALL" => handleAcceptCallCommand(p)
  BY DEF Handle, Receives, handleHandshakeCommand, handleShowCommand, handleDelCommand,
         handleSendCommand, handleAddCommand, handleCallCommand, handleErrCommand,
         handleCloseCallCommand, m
<1>13. m.cmd = "CLOSE_CALL" => handleCloseCallCommand(p)
  BY DEF Handle, Receives, handleHandshakeCommand, handleShowCommand, handleDelCommand,
         handleSendCommand, handleAddCommand, handleCallCommand, handleErrCommand,
         handleAcceptCallCommand, m
<1>14. QED
  BY <1>8, <1>9, <1>10, <1>11, <1>12, <1>13 DEF Loud, Goal

\* A client reads its next message.
LEMMA ReadKeepsCall ==
    ASSUME NEW r, NEW s, NEW q \in Seq(Notice), q # <<>>, NEW w, NEW S, w \in Seq(S),
           NEW commands, NEW T, commands \in Seq(T), CallRead(r, s, Head(q), commands),
           r.mIsCall => r.mContactInCall \in Account, r \in AppRec,
           Alternates(r, q), AudioFits(r, q, w)
    PROVE  /\ TalkRead(r, s, Head(q))
           /\ AudioFits(s, Tail(q), w \o commands)
<1> DEFINE m == Head(q)
           t == Tail(q)
           own == r.mContactInCall
<1>1. /\ Quiet(t, 0, Len(t)) <=> Quiet(q, 1, Len(q))
      /\ Quiet(q, 0, Len(q)) <=> (~Loud(m) /\ Quiet(q, 1, Len(q)))
  BY QuietTail
<1>2. 1 \in 1..Len(q) /\ m = q[1] /\ m \in Notice /\ 1 - 1 = 0
  OBVIOUS
<1> HIDE DEF m
<1>3. \A a : TalksTo(r, q, 0, a) <=> (r.mIsCall /\ own = a)
  BY DEF TalksTo, Quiet
<1>4. /\ m.cmd = "CLOSE_CALL" => m.who \in Account
      /\ m.cmd = "ACCEPT_CALL" => m.accept \in BOOLEAN
  BY <1>2 DEF Notice, Answer, Greeting, News
<1>5. m.cmd = "CLOSE_CALL" => r.mIsCall /\ own = m.who
  <2>1. \A a \in Account : Ceases(m, a) => TalksTo(r, q, 0, a)
    BY <1>2 DEF Alternates
  <2>2. QED
    BY <1>3, <1>4, <2>1 DEF Ceases
<1>6. (Farewell(m) /\ r.mIsCall) => ~Quiet(q, 1, Len(q))
  <2>1. Farewell(m) => \A b \in Account : TalksTo(r, q, 0, b) => ~Quiet(q, 1, Len(q))
    BY <1>2 DEF Alternates
  <2>2. QED
    BY <1>3, <2>1
<1>7. CallRead(r, s, m, commands)
  BY DEF m
<1>8. TalkRead(r, s, m)
  BY <1>7 DEF TalkRead, CallRead, SameAudio, Begins, Ceases, Loud, Farewell
<1>9. /\ \A i \in 1..Len(w) : i \in 1..Len(w \o commands) /\ (w \o commands)[i] = w[i]
      /\ \A i \in 1..Len(commands) :
            Len(w) + i \in 1..Len(w \o commands) /\ (w \o commands)[Len(w) + i] = commands[i]
  OBVIOUS
<1> HIDE DEF t
<1>10. /\ r.mInCommunication => r.mIsCall /\ r.mCurrentCalledContact = own
       /\ r.mIsCall => r.mInCommunication \/ ~Quiet(q, 0, Len(q))
       /\ ~r.mInCommunication => ~r.recording /\ ~r.playing
       /\ (r.mInCommunication /\ ~(r.recording /\ r.playing)) =>
             ~Quiet(q, 0, Len(q)) \/ \E i \in 1..Len(w) : Ceases(w[i], own)
  BY DEF AudioFits
<1>11. CASE Loud(m) /\ m.cmd = "ACCEPT_CALL"
  <2>1. /\ s.mIsCall /\ s.mContactInCall = m.who
        /\ s.mInCommunication /\ s.mCurrentCalledContact = m.who
        /\ (s.recording /\ s.playing) \/ \E i \in 1..Len(commands) : Ceases(commands[i], m.who)
    BY <1>7, <1>11 DEF CallRead
  <2>2. AudioFits(s, t, w \o commands)
    BY <1>9, <2>1 DEF AudioFits
  <2>3. QED
    BY <1>8, <2>2 DEF m, t
<1>12. CASE m.cmd = "CLOSE_CALL"
  <2>1. ~s.mIsCall
    BY <1>7, <1>12 DEF CallRead
  <2>2. Stopped(s)
    <3>1. CASE r.mInCommunication
      BY <1>5, <1>7, <1>10, <1>12, <3>1 DEF CallRead
    <3>2. CASE ~r.mInCommunication
      <4> DEFINE idle == [r EXCEPT !.mIsCall = FALSE]
      <4>1. Stopped(idle)
        BY <1>10, <3>2 DEF Stopped, AppRec
      <4>2. Stopped(s) \/ SameAudio(idle, s)
        BY <1>7, <1>12 DEF CallRead
      <4> HIDE DEF idle
      <4>3. QED
        BY <4>1, <4>2 DEF Stopped, SameAudio
    <3>3. QED
      BY <3>1, <3>2
  <2>3. AudioFits(s, t, w \o commands)
    BY <2>1, <2>2 DEF AudioFits, Stopped
  <2>4. QED
    BY <1>8, <2>3 DEF m, t
<1>13. CASE Farewell(m)
  <2>1. s.mIsCall = r.mIsCall /\ Stopped(s)
    <3>1. /\ s.mIsCall = r.mIsCall
          /\ Stopped(s) \/ (~r.mInCommunication /\ SameAudio(r, s))
      BY <1>7, <1>13 DEF CallRead
    <3>2. QED
      BY <1>10, <3>1 DEF Stopped, SameAudio
  <2>2. AudioFits(s, t, w \o commands)
    BY <1>1, <1>6, <1>13, <2>1 DEF AudioFits, Stopped
  <2>3. QED
    BY <1>8, <2>2 DEF m, t
<1>14. CASE ~Loud(m) /\ ~Farewell(m)
  <2>1. SameAudio(r, s)
    BY <1>7, <1>14 DEF CallRead
  <2>2. Quiet(t, 0, Len(t)) => Quiet(q, 0, Len(q))
    BY <1>1, <1>14
  <2>3. AudioFits(s, t, w \o commands)
    BY <1>9, <1>10, <2>1, <2>2 DEF AudioFits, SameAudio
  <2>4. QED
    BY <1>8, <2>3 DEF m, t
<1>15. QED
  BY <1>11, <1>12, <1>13, <1>14 DEF Loud

LEMMA HandleFits ==
    ASSUME SystemInv, NEW p \in User, Handle(p), client' = client, NEW u \in User, CallFits(u)
    PROVE  CallFits(u)'
<1>1. QueueTypes /\ OwnConnections /\ app[p] \in AppRec /\ WellNamed(app[p])
  BY DEF SystemInv, QueueTypes, NamesKnown
<1>2. PICK q, commands :
          /\ app[p].conn # Null /\ toClient[app[p].conn] # <<>> /\ q.conn = app[p].conn
          /\ Turn(p, q, commands) /\ toClient' = [toClient EXCEPT ![app[p].conn] = Tail(@)]
          /\ \E T : commands \in Seq(T)
          /\ CallRead(app[p], q, Head(toClient[app[p].conn]), commands)
  BY <1>1, HandleReadsCall
<1>3. PICK T : commands \in Seq(T)
  BY <1>2
<1>4. CASE u # p
  BY <1>2, <1>3, <1>4, OthersCall
<1>5. CASE u = p
  <2>1. PICK r, c, x, w : r = app[p] /\ c = r.conn /\ x = toClient[c] /\ w = toServer[c]
    OBVIOUS
  <2>2. /\ app'[p] = q
        /\ toServer'[c] = w \o commands
    <3>1. /\ app[p].conn # Null /\ toClient' = [toClient EXCEPT ![app[p].conn] = Tail(@)]
          /\ Turn(p, q, commands) /\ q.conn = app[p].conn
      BY <1>2
    <3>2. /\ app'[p] = q
          /\ q.conn # Null => toServer'[q.conn] = toServer[q.conn] \o commands
      <4>1. /\ QueueTypes /\ OwnConnections /\ (q.conn # Null => q.conn = app[p].conn)
            /\ Turn(p, q, commands)
            /\ \/ toClient' = toClient
               \/ app[p].conn # Null /\ toClient' = [toClient EXCEPT ![app[p].conn] = Tail(@)]
               \/ app[p].conn # Null /\ toClient' = [toClient EXCEPT ![app[p].conn] = <<>>]
        BY <1>1, <3>1
      <4> HIDE <1>2, <2>1
      <4>2. QED
        BY <1>3, <4>1, TurnedQueues
    <3>3. QED
      BY <2>1, <3>1, <3>2
  <2>3. /\ c \in Slot /\ c # Null /\ w \in Seq(Treatable) /\ x \in Seq(Notice) /\ x # <<>>
        /\ r \in AppRec /\ WellNamed(r) /\ q.conn = c
    BY <1>1, <1>2, <2>1 DEF QueueTypes, AppRec
  <2>4. toClient'[c] = Tail(x)
    BY <1>1, <1>2, <2>1, <2>3 DEF QueueTypes
  <2>5. CallMatches(r, c, x) /\ AudioFits(r, x, w)
    BY <1>5, <2>1, <2>3 DEF CallFits
  <2>6. CallRead(r, q, Head(x), commands)
    BY <1>2, <2>1
  <2>7. TalkRead(r, q, Head(x)) /\ AudioFits(q, Tail(x), w \o commands)
    <3>1. (r.mIsCall => r.mContactInCall \in Account) /\ Alternates(r, x)
      BY <2>3, <2>5 DEF WellNamed, CallMatches
    <3>2. QED
      BY <1>3, <2>3, <2>5, <2>6, <3>1, ReadKeepsCall
  <2>8. Alternates(q, Tail(x)) /\ \A a \in Account :
           TalksTo(q, Tail(x), Len(Tail(x)), a) <=> Calling(c, a)
    <3>1. /\ \A n \in 0..Len(Tail(x)), a \in Account :
                TalksTo(q, Tail(x), n, a) <=> TalksTo(r, x, n + 1, a)
          /\ Alternates(q, Tail(x))
      BY <2>3, <2>5, <2>7, TalkShorter DEF CallMatches
    <3>2. Len(Tail(x)) \in 0..Len(Tail(x)) /\ Len(Tail(x)) + 1 = Len(x)
      BY <2>3
    <3>3. QED
      BY <2>5, <3>1, <3>2 DEF CallMatches
  <2>9. QED
    BY <1>5, <2>2, <2>3, <2>4, <2>7, <2>8 DEF CallFits, CallMatches, Calling
<1>6. QED
  BY <1>4, <1>5

-----------------------------------------------------------------------------
(* The calls of the system *)

\* The calls of the server and of the clients, as long as no connection is lost.
CallInv ==
    /\ losses \in Nat
    /\ losses = 0 => ServerCalls /\ \A p \in User : CallFits(p)

\* A client stays on its connection when it takes a step.
LEMMA ClientKeepsConn ==
    ASSUME SystemInv, NEW p \in User, Handle(p) \/ Use(p)
    PROVE  \A u \in User : app'[u].conn = app[u].conn
<1>1. QueueTypes /\ app \in [User -> AppRec]
  BY DEF SystemInv, QueueTypes
<1>2. \E q, commands : q.conn = app[p].conn /\ Turn(p, q, commands)
  <2>1. CASE Handle(p)
    BY <1>1, <2>1, HandleReadsCall
  <2>2. CASE Use(p)
    BY <1>1, <2>2, UseKeepsAudio
  <2>3. QED
    BY <2>1, <2>2
<1>3. QED
  BY <1>1, <1>2 DEF Turn

LEMMA SameServerCalls ==
    ASSUME ServerCalls, client' = client, \A u \in User : app'[u].conn = app[u].conn
    PROVE  ServerCalls'
BY DEF ServerCalls, CallsJoined, CallJoined, CallStateFits, Session, NoOwnPartner, CallsPaired,
       Attached

LEMMA ClientCalls ==
    ASSUME SystemInv, CallInv, NEW p \in User, ClientStep(p)
    PROVE  CallInv'
<1>1. losses' = losses /\ client' = client /\ (Handle(p) \/ Use(p))
  BY DEF ClientStep, vars, memory
<1>2. \A u \in User : app'[u].conn = app[u].conn
  BY <1>1, ClientKeepsConn
<1>3. ASSUME losses = 0
      PROVE  ServerCalls' /\ \A u \in User : CallFits(u)'
  <2>1. ServerCalls /\ \A u \in User : CallFits(u)
    BY <1>3 DEF CallInv
  <2>2. ServerCalls'
    BY <1>1, <1>2, <2>1, SameServerCalls
  <2>3. \A u \in User : CallFits(u)'
    BY <1>1, <2>1, UseFits, HandleFits
  <2>4. QED
    BY <2>2, <2>3
<1>4. QED
  BY <1>1, <1>3 DEF CallInv

\* A client that had no connection makes one.
LEMMA ConnectCalls ==
    ASSUME SystemInv, CallInv, NEW p \in User, NEW c \in Slot, Connect(p, c)
    PROVE  CallInv'
<1>1. /\ app \in [User -> AppRec] /\ client \in [Slot -> ClientRec]
      /\ toServer \in [Slot -> Seq(Treatable)] /\ toClient \in [Slot -> Seq(Notice)]
      /\ Null \notin Slot
  BY NullAssumption DEF SystemInv, QueueTypes, ServerInv, TypeOK
<1>2. losses \in Nat /\ Loses(app[p].conn = Null)
  BY DEF CallInv, Connect
<1>3. losses' \in Nat /\ (losses' = 0 => losses = 0 /\ app[p].conn = Null)
  BY <1>2 DEF Loses
<1>4. ASSUME losses = 0, app[p].conn = Null
      PROVE  ServerCalls' /\ \A u \in User : CallFits(u)'
  <2> DEFINE q == [app[p] EXCEPT !.conn = c]
  <2>1. ServerCalls /\ \A u \in User : CallFits(u)
    BY <1>4 DEF CallInv
  <2>2. /\ ~Attached(c) /\ app' = [app EXCEPT ![p] = q]
        /\ toServer' = [toServer EXCEPT ![c] = <<sendHandshake>>]
        /\ toClient' = [d \in Slot |-> IF d \in {c, Null} THEN <<>> ELSE toClient[d]]
        /\ client' = [client EXCEPT ![c] = NewClient]
    BY <1>4 DEF Connect, connectToServer, onNewConnection, Become
  <2>3. q.conn = c /\ SameAudio(app[p], q)
    BY <1>1 DEF AppRec, SameAudio
  <2> HIDE DEF q
  <2>4. /\ app'[p] = q /\ client'[c] = NewClient /\ toClient'[c] = <<>>
        /\ \A u \in User \ {p} : app'[u] = app[u]
        /\ \A s \in Slot \ {c} : /\ client'[s] = client[s] /\ toClient'[s] = toClient[s]
                                 /\ toServer'[s] = toServer[s]
    BY <1>1, <2>2
  <2>5. \A s \in Slot \ {c} : Attached(s)' <=> Attached(s)
    <3>1. ASSUME NEW s \in Slot \ {c}
          PROVE  \A u \in User : app'[u].conn = s <=> app[u].conn = s
      BY <1>1, <1>4, <2>3, <2>4
    <3>2. QED
      BY <3>1 DEF Attached
  <2>6. /\ NewClient.alive /\ NewClient.comm = Null /\ NewClient.statusCall = "NONE"
        /\ ~NewClient.isConnected
    BY DEF NewClient, NoClient
  <2>7. ~client[c].alive /\ \A s \in Slot : client[s].comm \in Slot \cup {Null} /\ client[s].comm # c
    <3>1. ~client[c].alive
      BY <2>1, <2>2 DEF ServerCalls
    <3>2. QED
      BY <1>1, <2>1, <3>1 DEF ServerCalls, CallsJoined, CallJoined, ClientRec
  <2>8. ServerCalls'
    <3>1. \A s \in Slot : client'[s].alive <=> Attached(s)'
      BY <2>1, <2>3, <2>4, <2>5, <2>6 DEF ServerCalls, Attached
    <3>2. CallsJoined'
      <4>1. ASSUME NEW s \in Slot, s # c
            PROVE  CallJoined(s)'
        <5>1. CallJoined(s) /\ client'[s] = client[s] /\ client[s].comm \in Slot \cup {Null}
          BY <2>1, <2>4, <2>7, <4>1 DEF ServerCalls, CallsJoined
        <5>2. client[s].comm # Null => client'[client[s].comm] = client[client[s].comm]
          BY <2>4, <2>7, <5>1
        <5>3. QED
          BY <5>1, <5>2 DEF CallJoined
      <4>2. CallJoined(c)'
        BY <2>4, <2>6 DEF CallJoined
      <4>3. QED
        BY <4>1, <4>2 DEF CallsJoined
    <3>3. CallStateFits' /\ NoOwnPartner'
      <4>1. /\ \A s \in Slot : client[s].statusCall # "NONE" => client[s].isConnected
            /\ \A s \in Slot : client[s].comm # Null => client[s].statusCall # "NONE"
            /\ \A s \in Slot : client[s].comm # s
        BY <2>1 DEF ServerCalls, CallStateFits, NoOwnPartner, Session
      <4>2. ASSUME NEW s \in Slot
            PROVE  /\ client'[s].statusCall # "NONE" => client'[s].isConnected
                   /\ client'[s].comm # Null => client'[s].statusCall # "NONE"
                   /\ client'[s].comm # s
        <5>1. CASE s = c
          BY <1>1, <2>4, <2>6, <5>1
        <5>2. CASE s # c
          BY <2>4, <4>1, <5>2
        <5>3. QED
          BY <5>1, <5>2
      <4>3. QED
        BY <4>2 DEF CallStateFits, NoOwnPartner, Session
    <3>4. ~LeaveDuringCall => CallsPaired'
      <4>1. ASSUME ~LeaveDuringCall, NEW s \in Slot
            PROVE  /\ client'[s].statusCall = "ISCALLING" => client'[s].comm # Null
                   /\ client'[s].comm # Null =>
                         /\ client'[client'[s].comm].comm = s
                         /\ client'[client'[s].comm].statusCall = client'[s].statusCall
        <5>1. CASE s = c
          BY <2>4, <2>6, <5>1
        <5>2. CASE s # c
          <6>1. /\ client[s].statusCall = "ISCALLING" => client[s].comm # Null
                /\ client[s].comm # Null =>
                      /\ client[client[s].comm].comm = s
                      /\ client[client[s].comm].statusCall = client[s].statusCall
            BY <2>1, <4>1 DEF ServerCalls, CallsPaired
          <6>2. /\ client'[s] = client[s]
                /\ client[s].comm # Null => client'[client[s].comm] = client[client[s].comm]
            BY <2>4, <2>7, <5>2
          <6>3. QED
            BY <6>1, <6>2
        <5>3. QED
          BY <5>1, <5>2
      <4>2. QED
        BY <4>1 DEF CallsPaired
    <3>5. QED
      BY <3>1, <3>2, <3>3, <3>4 DEF ServerCalls
  <2>9. CallFits(p)'
    <3>1. ~q.mIsCall /\ ~q.mInCommunication /\ ~q.recording /\ ~q.playing
      BY <1>4, <2>1, <2>3 DEF CallFits, SameAudio
    <3>2. \A a : ~Calling(c, a)'
      BY <2>4, <2>6 DEF Calling
    <3> DEFINE none == <<>>
    <3>3. Len(none) = 0
      OBVIOUS
    <3> HIDE DEF none
    <3>4. Alternates(q, none) /\ \A a : ~TalksTo(q, none, Len(none), a)
      BY <3>1, <3>3 DEF Alternates, TalksTo
    <3>5. \A w : AudioFits(q, none, w)
      BY <3>1 DEF AudioFits
    <3>6. toClient'[c] = none /\ app'[p] = q
      BY <2>4 DEF none
    <3>7. QED
      BY <1>1, <2>3, <3>2, <3>4, <3>5, <3>6 DEF CallFits, CallMatches
  <2>10. ASSUME NEW u \in User, u # p
         PROVE  CallFits(u)'
    <3>1. app'[u] = app[u] /\ app[u].conn \in Slot \cup {Null} /\ app[u].conn # c
      BY <1>1, <2>2, <2>4, <2>10 DEF AppRec, Attached
    <3>2. \A s \in Slot : \A a : s # c => (Calling(s, a)' <=> Calling(s, a))
      BY <2>4, <2>7 DEF Calling
    <3>3. CASE app[u].conn = Null
      BY <2>1, <3>1, <3>3 DEF CallFits
    <3>4. ASSUME NEW s \in Slot, s = app[u].conn
          PROVE  CallFits(u)'
      <4>1. /\ toClient'[s] = toClient[s] /\ toServer'[s] = toServer[s]
            /\ \A a : Calling(s, a)' <=> Calling(s, a)
        BY <2>4, <3>1, <3>2, <3>4
      <4>2. CallMatches(app[u], s, toClient[s]) /\ AudioFits(app[u], toClient[s], toServer[s])
        BY <1>1, <2>1, <3>4 DEF CallFits
      <4>3. QED
        BY <1>1, <3>1, <3>4, <4>1, <4>2 DEF CallFits, CallMatches
    <3>5. QED
      BY <3>1, <3>3, <3>4
  <2>11. QED
    BY <2>8, <2>9, <2>10
<1>5. QED
  BY <1>3, <1>4 DEF CallInv

\* Losing a connection is counted.
LEMMA LossCalls ==
    ASSUME SystemInv, CallInv,
           (\E p \in User : NoticeLoss(p)) \/ (\E d \in Slot : Close(d))
    PROVE  CallInv'
<1>1. losses \in Nat /\ (losses = 0 => ServerCalls)
  BY DEF CallInv
<1>2. losses' \in Nat /\ losses' # 0
  <2>1. CASE losses = 0
    <3>1. \A s \in Slot : client[s].alive <=> Attached(s)
      BY <1>1, <2>1 DEF ServerCalls
    <3>2. CASE \E p \in User : NoticeLoss(p)
      <4>1. PICK p \in User : /\ app[p].conn # Null /\ Loses(~client[app[p].conn].alive)
        BY <3>2 DEF NoticeLoss, onSocketClosedByServer
      <4>2. app[p].conn \in Slot
        BY <4>1 DEF SystemInv, QueueTypes, AppRec
      <4>3. client[app[p].conn].alive
        BY <3>1, <4>2 DEF Attached
      <4>4. QED
        BY <2>1, <4>1, <4>3 DEF Loses
    <3>3. CASE \E d \in Slot : Close(d)
      <4>1. PICK d \in Slot : client[d].alive /\ Loses(~Attached(d))
        BY <3>3 DEF Close, onSocketClosed
      <4>2. QED
        BY <2>1, <3>1, <4>1 DEF Loses
    <3>4. QED
      BY <3>2, <3>3
  <2>2. CASE losses # 0
    BY <1>1, <2>2 DEF NoticeLoss, Close, Loses
  <2>3. QED
    BY <2>1, <2>2
<1>3. QED
  BY <1>2 DEF CallInv

LEMMA ServeCalls ==
    ASSUME SystemInv, SystemInv', LoginInv, ServerLists, NoThird, ~ServerMayStop, CallInv,
           NEW d \in Slot, Serve(d)
    PROVE  CallInv'
<1>1. losses' = losses
  BY DEF Serve
<1>2. ASSUME losses = 0
      PROVE  ServerCalls' /\ \A u \in User : CallFits(u)'
  <2>1. ServerCalls /\ \A u \in User : CallFits(u)
    BY <1>2 DEF CallInv
  <2>2. QED
    BY <2>1, ServerCallsKept, ServeFits
<1>3. QED
  BY <1>1, <1>2 DEF CallInv

LEMMA CallsStart == SystemInit => CallInv
<1> SUFFICES ASSUME SystemInit
             PROVE  CallInv
  OBVIOUS
<1>1. /\ client = [s \in Slot |-> NoClient] /\ app = [p \in User |-> NewApp]
      /\ losses = 0 /\ Null \notin Slot
  BY NullAssumption DEF SystemInit, ClientInit
<1>2. /\ ~NoClient.alive /\ NoClient.comm = Null /\ NoClient.statusCall = "NONE"
      /\ NewApp.conn = Null
      /\ ~NewApp.mIsCall /\ ~NewApp.mInCommunication /\ ~NewApp.recording /\ ~NewApp.playing
  BY DEF NoClient, NewApp
<1>3. ServerCalls
  BY <1>1, <1>2 DEF ServerCalls, Attached, CallsJoined, CallJoined, CallStateFits, NoOwnPartner,
                    CallsPaired
<1>4. \A p \in User : CallFits(p)
  BY <1>1, <1>2 DEF CallFits
<1>5. QED
  BY <1>1, <1>3, <1>4 DEF CallInv

LEMMA CallInvariant ==
    ASSUME ~ServerMayStop, NoThird
    PROVE  SystemSpec => []CallInv
<1>1. SystemInv /\ SystemInv' /\ LoginInv /\ ListInv /\ CallInv /\ [SystemNext]_systemVars => CallInv'
  <2> SUFFICES ASSUME SystemInv, SystemInv', LoginInv, ListInv, CallInv, [SystemNext]_systemVars
               PROVE  CallInv'
    OBVIOUS
  <2>1. CASE \E d \in Slot : Serve(d)
    BY <2>1, ServeCalls DEF ListInv
  <2>2. CASE \E p \in User : ClientStep(p)
    BY <2>2, ClientCalls
  <2>3. CASE \E p \in User, c \in Slot : Connect(p, c)
    BY <2>3, ConnectCalls
  <2>4. CASE (\E p \in User : NoticeLoss(p)) \/ (\E d \in Slot : Close(d))
    BY <2>4, LossCalls
  <2>5. CASE UNCHANGED systemVars
    <3>1. /\ client' = client /\ app' = app /\ toServer' = toServer /\ toClient' = toClient
          /\ losses' = losses
      BY <2>5 DEF systemVars, clientVars, history, vars, memory
    <3>2. ServerCalls => ServerCalls'
      BY <3>1, SameServerCalls
    <3>3. (\A p \in User : CallFits(p)) => \A p \in User : CallFits(p)'
      BY <3>1 DEF CallFits, CallMatches, Calling
    <3>4. QED
      BY <3>1, <3>2, <3>3 DEF CallInv
  <2>6. QED
    BY <2>1, <2>2, <2>3, <2>4, <2>5 DEF SystemNext
<1>2. QED
  BY <1>1, CallsStart, SystemInvariant, SystemLogins, ListInvariant, PTL DEF SystemSpec

\* A client with nothing to read, and nothing to be treated, is in the call of its
\* session or in none.
LEMMA CallSettled ==
    ASSUME SystemInv, CallInv, Settled, losses = 0, NEW p \in User
    PROVE  /\ app[p].mInCommunication = Talking(p)
           /\ app[p].recording = Talking(p)
           /\ app[p].playing = Talking(p)
           /\ app[p].mIsCall = app[p].mInCommunication
           /\ Talking(p) => /\ client[app[p].conn].comm # Null
                            /\ app[p].mCurrentCalledContact
                                  = client[client[app[p].conn].comm].account
           /\ app[p].mIsCall => app[p].mContactInCall = app[p].mCurrentCalledContact
<1>1. app[p] \in AppRec /\ WellNamed(app[p]) /\ ServerCalls /\ CallFits(p)
  BY DEF SystemInv, QueueTypes, NamesKnown, CallInv
<1>2. /\ app[p].mIsCall \in BOOLEAN /\ app[p].mInCommunication \in BOOLEAN
      /\ app[p].recording \in BOOLEAN /\ app[p].playing \in BOOLEAN
      /\ app[p].conn \in Slot \cup {Null}
  BY <1>1 DEF AppRec
<1>3. CASE app[p].conn = Null
  BY <1>1, <1>2, <1>3 DEF CallFits, Talking
<1>4. CASE app[p].conn # Null
  <2> DEFINE r == app[p]
             c == r.conn
             q == toClient[c]
             w == toServer[c]
             t == client[c].comm
  <2>1. c \in Slot
    BY <1>2, <1>4
  <2>2. CallMatches(r, c, q) /\ AudioFits(r, q, w)
    BY <1>1, <1>4 DEF CallFits
  <2>3. Len(q) = 0 /\ Len(w) = 0
    BY <2>1 DEF Settled
  <2>4. client[c].statusCall = "ISCALLING" =>
           t # Null /\ Calling(c, client[t].account) /\ client[t].account \in Account
    <3>1. ASSUME client[c].statusCall = "ISCALLING"
          PROVE  t \in Slot /\ t # Null /\ client[t].statusCall = "ISCALLING"
      BY <1>1, <2>1, <3>1, CallFacts DEF CallJoined
    <3>2. QED
      BY <1>1, <3>1, CallFacts DEF Calling
  <2>5. Talking(p) <=> client[c].statusCall = "ISCALLING"
    BY <1>4 DEF Talking
  <2>6. \A a : Calling(c, a) => client[c].statusCall = "ISCALLING"
    BY DEF Calling
  <2>7. r.mIsCall => r.mContactInCall \in Account
    BY <1>1 DEF WellNamed
  <2> HIDE DEF q, w, r, c
  <2>8. \A a : TalksTo(r, q, Len(q), a) <=> (r.mIsCall /\ r.mContactInCall = a)
    BY <2>3 DEF TalksTo, Quiet
  <2>9. \A a \in Account : Calling(c, a) <=> (r.mIsCall /\ r.mContactInCall = a)
    BY <2>2, <2>8 DEF CallMatches
  <2>10. r.mIsCall <=> client[c].statusCall = "ISCALLING"
    BY <2>4, <2>6, <2>7, <2>9
  <2>11. /\ r.mInCommunication <=> r.mIsCall
         /\ r.mInCommunication => r.mCurrentCalledContact = r.mContactInCall
         /\ r.recording <=> r.mInCommunication
         /\ r.playing <=> r.mInCommunication
    BY <2>2, <2>3 DEF AudioFits, Quiet
  <2>12. client[c].statusCall = "ISCALLING" => r.mContactInCall = client[t].account
    BY <2>4, <2>9
  <2>13. Talking(p) \in BOOLEAN
    BY DEF Talking
  <2>14. /\ r.mIsCall \in BOOLEAN /\ r.mInCommunication \in BOOLEAN
         /\ r.recording \in BOOLEAN /\ r.playing \in BOOLEAN
    BY <1>2 DEF r
  <2>15. /\ r.mInCommunication = Talking(p) /\ r.recording = Talking(p) /\ r.playing = Talking(p)
         /\ r.mIsCall = r.mInCommunication
         /\ Talking(p) => t # Null /\ r.mCurrentCalledContact = client[t].account
         /\ r.mIsCall => r.mContactInCall = r.mCurrentCalledContact
    <3> HIDE DEF t
    <3>1. QED
      BY <2>4, <2>5, <2>10, <2>11, <2>12, <2>13, <2>14
  <2>16. QED
    BY <2>15 DEF r, c
<1>5. QED
  BY <1>3, <1>4

\* When nothing is under way, and no connection was lost, sound is recorded and
\* played by exactly those who are in a call, with the partner that the server has
\* for them: for any number of users if nobody leaves during a call, and for two
\* users if they may.  The server is not killed: that takes the connections too.
THEOREM AudioFollowsCallHolds ==
    ASSUME ~ServerMayStop, NoThird
    PROVE  SystemSpec => []AudioFollowsCall
<1>1. SystemInv /\ CallInv => AudioFollowsCall
  BY CallSettled DEF AudioFollowsCall
<1>2. QED
  BY <1>1, SystemInvariant, CallInvariant, PTL

\* The window shows "hang up" for exactly the call that sound is recorded and
\* played for: startingCommunication and terminatingCommunication reach it as often
\* as startCall and stopCall reach the sound, under the same assumptions.
THEOREM ButtonFollowsCallHolds ==
    ASSUME ~ServerMayStop, NoThird
    PROVE  SystemSpec => []ButtonFollowsCall
<1>1. SystemInv /\ CallInv => ButtonFollowsCall
  BY CallSettled DEF ButtonFollowsCall
<1>2. QED
  BY <1>1, SystemInvariant, CallInvariant, PTL
=============================================================================
