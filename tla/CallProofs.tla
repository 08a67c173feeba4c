------------------------------- MODULE CallProofs -------------------------------
(***************************************************************************)
(* The signalling of calls, for every number of clients, accounts, pseudos,*)
(* passwords and status bytes.                                             *)
(*                                                                         *)
(* What a handler does to the calls is one of a few kinds of steps: a call *)
(* is kept, proposed, answered, refused or hung up, or a Client object     *)
(* leaves it or starts without one.  Each handler is shown once to be such *)
(* a step, with the messages that start and stop the audio; the invariants *)
(* and the properties of steps follow from the kinds of steps alone.       *)
(***************************************************************************)
EXTENDS LoginProofs

\* What a handler does to the part of a Client object that calls are about.
SameCall(before, after, s) ==
    /\ after[s].statusCall = before[s].statusCall
    /\ after[s].comm = before[s].comm
    /\ after[s].isConnected = before[s].isConnected

SameCallsBut(before, after, slots) == \A s \in Slot \ slots : SameCall(before, after, s)

KeepsCalls(before, after) == SameCallsBut(before, after, {})

\* The object at c is in no call afterwards.
Frees(before, after, c) ==
    /\ SameCallsBut(before, after, {c})
    /\ after[c].statusCall = "NONE" /\ after[c].comm = Null
    /\ after[c].isConnected => ~before[c].isConnected

\* A registration clears the call state, and not the partner.
Forgets(before, after, c) ==
    /\ SameCallsBut(before, after, {c})
    /\ after[c].statusCall = "NONE" /\ after[c].comm = before[c].comm
    /\ ~before[c].isConnected /\ ~after[c].isConnected

\* Two sessions, whose objects are otherwise changed in their call state only.
OfTwo(before, after, c, t) ==
    /\ SameCallsBut(before, after, {c, t})
    /\ \A s \in {c, t} : before[s].isConnected /\ after[s].isConnected

\* The partners of c and t become x and y, or stay as a save failed.
Partners(before, after, c, x, t, y) ==
    \/ after[c].comm = x /\ after[t].comm = y
    \/ /\ unwritable # {}
       /\ after[c].comm = before[c].comm /\ after[t].comm = before[t].comm

Rings(before, after, c, t) ==
    /\ OfTwo(before, after, c, t) /\ c # t
    /\ \A s \in {c, t} : before[s].statusCall = "NONE" /\ after[s].statusCall = "ISWAITING"
    /\ Partners(before, after, c, t, t, c)

\* The messages that start and stop the audio are those in told, no others.
Loud(m) == m.cmd = "CLOSE_CALL" \/ (m.cmd = "ACCEPT_CALL" /\ m.accept)
Says(messages, told) == told \subseteq messages /\ \A m \in messages : Loud(m) => m \in told
Silent(messages) == Says(messages, {})

Accepted(c, t) ==
    {Answered(t, client[c].account, TRUE), Answered(c, client[t].account, TRUE)}
Closed(c, t) ==
    {Tell(t, "CLOSE_CALL", client[c].account), Tell(c, "CLOSE_CALL", client[t].account)}

Answers(before, after, c, t, messages) ==
    /\ OfTwo(before, after, c, t)
    /\ before[c].statusCall = "ISWAITING" /\ before[c].comm = t
    /\ \A s \in {c, t} : after[s].statusCall = "ISCALLING"
    /\ Partners(before, after, c, t, t, c)
    /\ \/ Says(messages, Accepted(c, t))
       \/ unwritable # {} /\ Silent(messages)

Refuses(before, after, c, t) ==
    /\ OfTwo(before, after, c, t)
    /\ before[c].statusCall = "ISWAITING" /\ before[c].comm = t
    /\ after[c].statusCall = "NONE"
    /\ t # c => after[t].statusCall = before[t].statusCall
    /\ Partners(before, after, c, Null, t, Null)

HangsUp(before, after, c, t, messages) ==
    /\ OfTwo(before, after, c, t)
    /\ before[c].statusCall = "ISCALLING" /\ before[c].comm = t
    /\ \A s \in {c, t} : after[s].statusCall = "NONE"
    /\ Partners(before, after, c, Null, t, Null)
    /\ \/ Says(messages, Closed(c, t))
       \/ unwritable # {} /\ Silent(messages)

NobodyCalls == \A s \in Slot : client'[s] = NoClient

CallStep ==
    \/ KeepsCalls(client, client') /\ Silent(sent')
    \/ \E c \in Slot :
          /\ Frees(client, client', c) /\ Silent(sent')
          /\ LeaveDuringCall \/ client[c].comm = Null \/ ~client[c].isConnected
    \/ \E c \in Slot : Forgets(client, client', c) /\ Silent(sent')
    \/ \E c, t \in Slot :
          \/ Rings(client, client', c, t) /\ Silent(sent')
          \/ Answers(client, client', c, t, sent')
          \/ Refuses(client, client', c, t) /\ Silent(sent')
          \/ HangsUp(client, client', c, t, sent')
          \/ \E between \in Clients :
                /\ LeaveDuringCall
                /\ HangsUp(client, between, c, t, sent')
                /\ Frees(between, client', c)
    \/ NobodyCalls /\ sent' = {}

-----------------------------------------------------------------------------
(* Messages *)

LEMMA SilentErr ==
    ASSUME NEW c, NEW instruction, NEW code
    PROVE  Silent({Err(c, instruction, code)}) /\ Silent({})
BY DEF Silent, Says, Loud, Err

LEMMA SilentReplies ==
    ASSUME NEW clients, NEW files, NEW c, NEW a
    PROVE  /\ Silent(notifyMyFriendsOfModificationAboutMe(clients, c))
           /\ Silent(ShowReply(clients, files, c, a))
           /\ Silent(ListReply(clients, files, c))
<1>1. \A b : Silent(ShowReply(clients, files, c, b))
  BY DEF Silent, Says, Loud, Err, Show, ShowReply
<1>2. Silent(ListReply(clients, files, c))
  BY <1>1 DEF Silent, Says, ListReply
<1>3. Silent(notifyMyFriendsOfModificationAboutMe(clients, c))
  <2>1. ASSUME NEW m \in notifyMyFriendsOfModificationAboutMe(clients, c)
        PROVE  m.cmd = "SHOW"
    BY DEF notifyMyFriendsOfModificationAboutMe, Show
  <2>2. QED
    BY <2>1 DEF Silent, Says, Loud
<1>4. QED
  BY <1>1, <1>2, <1>3

LEMMA SilentUnion ==
    ASSUME NEW told, NEW first, NEW second, Says(first, told), Silent(second)
    PROVE  Says(first \cup second, told) /\ Says(second \cup first, told)
BY DEF Says, Silent

LEMMA SilentBoth ==
    ASSUME NEW first, NEW second, Silent(first), Silent(second)
    PROVE  Silent(first \cup second)
BY DEF Says, Silent

-----------------------------------------------------------------------------
(* Changes of the call fields *)

\* Only the call state of c and t is set to k, or their partners to x and y.
SetsState(before, after, c, t, k) ==
    /\ SameCallsBut(before, after, {c, t})
    /\ \A s \in {c, t} : /\ after[s].statusCall = k
                         /\ after[s].comm = before[s].comm
                         /\ after[s].isConnected = before[s].isConnected

SetsPartners(before, after, c, x, t, y) ==
    /\ SameCallsBut(before, after, {c, t})
    /\ after[t].comm = y
    /\ c # t => after[c].comm = x
    /\ \A s \in {c, t} : /\ after[s].statusCall = before[s].statusCall
                         /\ after[s].isConnected = before[s].isConnected

LEMMA StateSet ==
    ASSUME NEW clients \in Clients, NEW c \in Slot, NEW t \in Slot, NEW k \in StatusCall
    PROVE  /\ [clients EXCEPT ![c].statusCall = k, ![t].statusCall = k] \in Clients
           /\ SetsState(clients, [clients EXCEPT ![c].statusCall = k, ![t].statusCall = k], c, t, k)
<1> DEFINE set == [clients EXCEPT ![c].statusCall = k, ![t].statusCall = k]
<1>1. set \in Clients
  BY DEF Clients, ClientRec
<1>2. SetsState(clients, set, c, t, k)
  BY DEF SetsState, SameCallsBut, SameCall, Clients, ClientRec
<1>3. QED
  BY <1>1, <1>2

LEMMA PartnersSet ==
    ASSUME NEW clients \in Clients, NEW c \in Slot, NEW t \in Slot,
           NEW x \in Slot \cup {Null}, NEW y \in Slot \cup {Null}
    PROVE  SetsPartners(clients, [clients EXCEPT ![c].comm = x, ![t].comm = y], c, x, t, y)
BY DEF SetsPartners, SameCallsBut, SameCall, Clients, ClientRec

LEMMA CloseCallCalls ==
    ASSUME NEW clients \in Clients, SameLogins(client, clients), NEW files, NEW c \in Slot,
           NEW a
    PROVE  LET closed == CloseCall(clients, files, c, a)
           IN  \/ closed.clients = clients /\ Silent(closed.sent)
               \/ \E t \in Slot : HangsUp(clients, closed.clients, c, t, closed.sent)
<1> DEFINE t == findOnlineClient(clients, a)
           code == CloseCallError(clients, c, a)
           idle == [clients EXCEPT ![c].statusCall = "NONE", ![t].statusCall = "NONE"]
           free == [idle EXCEPT ![c].comm = Null, ![t].comm = Null]
           closed == CloseCall(clients, files, c, a)
<1>1. CASE code \notin {"OK", "CANNOT_SAVE_DATA"}
  BY <1>1, SilentErr DEF CloseCall
<1>2. CASE code \in {"OK", "CANNOT_SAVE_DATA"}
  <2>1. /\ t \in Slot /\ clients[t].isConnected /\ clients[c].isConnected
        /\ clients[c].statusCall = "ISCALLING" /\ clients[c].comm = t
    BY <1>2, FindOnline DEF CloseCallError
  <2>2. code # "OK" => unwritable # {}
    BY <1>2 DEF CloseCallError, BothStored
  <2>3. /\ code = "OK" => /\ closed.clients = free
                          /\ closed.sent = {Err(c, "CLOSE_CALL", "OK")}
                                \cup {Tell(t, "CLOSE_CALL", clients[c].account),
                                      Tell(c, "CLOSE_CALL", clients[t].account)}
        /\ code # "OK" => /\ closed.clients = idle
                          /\ closed.sent = {Err(c, "CLOSE_CALL", code)}
    BY <1>2 DEF CloseCall
  <2>4. {Tell(t, "CLOSE_CALL", clients[c].account), Tell(c, "CLOSE_CALL", clients[t].account)}
           = Closed(c, t)
    BY <2>1 DEF Closed, SameLogins
  <2>5. Says(Closed(c, t), Closed(c, t))
    BY DEF Says
  <2>6. idle \in Clients /\ SetsState(clients, idle, c, t, "NONE")
    BY <2>1, StateSet DEF StatusCall
  <2> HIDE DEF idle, t, closed, code
  <2>7. SetsPartners(idle, free, c, Null, t, Null)
    BY <2>1, <2>6, PartnersSet
  <2> HIDE DEF free
  <2>8. OfTwo(clients, idle, c, t) /\ OfTwo(clients, free, c, t)
    BY <2>1, <2>6, <2>7 DEF OfTwo, SetsState, SetsPartners, SameCallsBut, SameCall
  <2>9. CASE code = "OK"
    <3>1. Says(closed.sent, Closed(c, t))
      BY <2>3, <2>4, <2>5, <2>9, SilentErr, SilentUnion
    <3>2. HangsUp(clients, free, c, t, closed.sent)
      BY <2>1, <2>6, <2>7, <2>8, <3>1 DEF HangsUp, Partners, SetsState, SetsPartners
    <3>3. QED
      BY <2>1, <2>3, <2>9, <3>2 DEF closed
  <2>10. CASE code # "OK"
    <3>1. Silent(closed.sent)
      BY <2>3, <2>10, SilentErr
    <3>2. HangsUp(clients, idle, c, t, closed.sent)
      BY <2>1, <2>2, <2>6, <2>8, <2>10, <3>1 DEF HangsUp, Partners, SetsState
    <3>3. QED
      BY <2>1, <2>3, <2>10, <3>2 DEF closed
  <2>11. QED
    BY <2>9, <2>10
<1>3. QED
  BY <1>1, <1>2
-----------------------------------------------------------------------------
(* The handlers *)

LEMMA RecordCalls ==
    ASSUME NEW r \in ClientRec, NEW a
    PROVE  /\ Disconnected(r).statusCall = "NONE" /\ Disconnected(r).comm = Null
           /\ ~Disconnected(r).isConnected
           /\ Connected(r).statusCall = "NONE" /\ Connected(r).comm = Null
           /\ ResetAttributes(r).statusCall = r.statusCall
           /\ ResetAttributes(r).comm = r.comm
           /\ ResetAttributes(r).isConnected = r.isConnected
<1>1. /\ Disconnected(r).statusCall = "NONE" /\ Disconnected(r).comm = Null
      /\ ~Disconnected(r).isConnected
  BY DEF Disconnected, ClientRec
<1>2. Connected(r).statusCall = "NONE" /\ Connected(r).comm = Null
  BY DEF Connected, ClientRec
<1>3. /\ ResetAttributes(r).statusCall = r.statusCall
      /\ ResetAttributes(r).comm = r.comm
      /\ ResetAttributes(r).isConnected = r.isConnected
  BY DEF ResetAttributes, ClientRec
<1>4. QED
  BY <1>1, <1>2, <1>3

LEMMA CallsCompose ==
    ASSUME NEW first, NEW second, NEW third, KeepsCalls(first, second), KeepsCalls(second, third)
    PROVE  KeepsCalls(first, third)
BY DEF KeepsCalls, SameCallsBut, SameCall

\* Fields that are not about calls.
LEMMA FieldKeepsCalls ==
    ASSUME NEW clients \in Clients, NEW c \in Slot
    PROVE  /\ KeepsCalls(clients, clients)
           /\ KeepsCalls(clients, [clients EXCEPT ![c].handshaked = TRUE])
           /\ KeepsCalls(clients, [clients EXCEPT ![c].handshaked = FALSE, ![c].listed = FALSE])
<1>1. KeepsCalls(clients, [clients EXCEPT ![c].handshaked = TRUE]) /\ KeepsCalls(clients, clients)
  BY DEF KeepsCalls, SameCallsBut, SameCall, Clients, ClientRec
<1>2. KeepsCalls(clients, [clients EXCEPT ![c].handshaked = FALSE, ![c].listed = FALSE])
  BY DEF KeepsCalls, SameCallsBut, SameCall, Clients, ClientRec
<1>3. QED
  BY <1>1, <1>2

LEMMA ProfileKeepsCalls ==
    ASSUME NEW clients \in Clients, NEW c \in Slot, NEW pseudo, NEW status
    PROVE  KeepsCalls(clients, [clients EXCEPT ![c].pseudo = pseudo, ![c].status = status])
BY DEF KeepsCalls, SameCallsBut, SameCall, Clients, ClientRec

LEMMA ContactKeepsCalls ==
    ASSUME NEW clients \in Clients, NEW c \in Slot, NEW contact
    PROVE  KeepsCalls(clients, [clients EXCEPT ![c].contact = contact])
BY DEF KeepsCalls, SameCallsBut, SameCall, Clients, ClientRec

LEMMA CloseConnectionCalls ==
    ASSUME TypeOK, NEW c \in Slot
    PROVE  LET closed == CloseConnection(c)
           IN  /\ Silent(closed.sent)
               /\ SameCallsBut(client, closed.clients, {c})
               /\ \/ KeepsCalls(client, closed.clients)
                  \/ Frees(client, closed.clients, c)
               /\ ~client[c].isConnected => KeepsCalls(client, closed.clients)
<1> DEFINE left == [client EXCEPT ![c] = Disconnected(@)]
           off(clients) == [clients EXCEPT ![c].handshaked = FALSE, ![c].listed = FALSE]
           closed == CloseConnection(c)
<1>1. client \in Clients
  BY DEF TypeOK, Clients
<1>2. left \in Clients /\ Frees(client, left, c)
  <2>1. left[c] = Disconnected(client[c]) /\ \A s \in Slot \ {c} : left[s] = client[s]
    BY <1>1 DEF Clients
  <2>2. QED
    BY <1>1, <2>1, RecordCalls, RecordTypes DEF Frees, SameCallsBut, SameCall, Clients
<1>3. \A clients \in Clients : KeepsCalls(clients, off(clients))
  BY FieldKeepsCalls
<1>4. /\ ~client[c].listed => closed.clients = client /\ closed.sent = {}
      /\ client[c].listed /\ ~client[c].isConnected =>
            closed.clients = off(client) /\ closed.sent = {}
      /\ client[c].listed /\ client[c].isConnected =>
            /\ closed.clients = off(left)
            /\ closed.sent = notifyMyFriendsOfModificationAboutMe(left, c)
  BY DEF CloseConnection
<1> HIDE DEF off, left, closed
<1>5. Silent(closed.sent)
  BY <1>4, SilentReplies, SilentErr
<1>6. Frees(client, off(left), c)
  BY <1>2, <1>3 DEF Frees, KeepsCalls, SameCallsBut, SameCall
<1>7. KeepsCalls(client, client)
  BY <1>1, FieldKeepsCalls
<1>8. /\ KeepsCalls(client, closed.clients) \/ Frees(client, closed.clients, c)
      /\ ~client[c].isConnected => KeepsCalls(client, closed.clients)
  BY <1>1, <1>3, <1>4, <1>6, <1>7
<1>9. QED
  BY <1>5, <1>8 DEF Frees, KeepsCalls, SameCallsBut, closed

LEMMA ConnectionCalls ==
    ASSUME TypeOK, ObjectInv, NEW c \in Slot, Connection(c) \/ onHandshake(c)
    PROVE  CallStep
<1> DEFINE closed == CloseConnection(c)
<1>1. client \in Clients
  BY DEF TypeOK, Clients
<1>2. CASE onNewConnection(c)
  <2>1. client' = [client EXCEPT ![c] = NewClient] /\ sent' = {} /\ client[c] = NoClient
    BY <1>2 DEF onNewConnection, Accepts, Become, ObjectInv
  <2>2. /\ NewClient.statusCall = "NONE" /\ NewClient.comm = Null /\ ~NewClient.isConnected
        /\ NoClient.comm = Null
    BY DEF NewClient, NoClient
  <2> HIDE DEF NewClient, NoClient
  <2>3. Frees(client, client', c)
    BY <1>1, <2>1, <2>2 DEF Frees, SameCallsBut, SameCall, Clients
  <2>4. QED
    BY <2>1, <2>2, <2>3, SilentErr DEF CallStep
<1>3. CASE onSocketClosed(c)
  <2>1. /\ client' = [closed.clients EXCEPT ![c] = NoClient] /\ sent' = closed.sent
        /\ closed.clients \in Clients
        /\ MayLeave(c)
    BY <1>3, CloseConnectionTypes DEF onSocketClosed, Become
  <2>2. NoClient.statusCall = "NONE" /\ NoClient.comm = Null /\ ~NoClient.isConnected
    BY DEF NoClient
  <2>3. SameCallsBut(client, closed.clients, {c}) /\ Silent(closed.sent)
    BY CloseConnectionCalls
  <2> HIDE DEF closed
  <2>4. Frees(client, client', c)
    BY <2>1, <2>2, <2>3 DEF Frees, SameCallsBut, SameCall, Clients
  <2>5. QED
    BY <2>1, <2>3, <2>4 DEF CallStep, MayLeave
<1>4. CASE StrayCommand(c)
  <2>1. client' = closed.clients /\ sent' = closed.sent /\ ~client[c].handshaked
    BY <1>4 DEF StrayCommand, Become
  <2>2. ~client[c].isConnected
    BY <2>1 DEF ObjectInv
  <2>3. KeepsCalls(client, closed.clients) /\ Silent(closed.sent)
    BY <2>2, CloseConnectionCalls
  <2>4. QED
    BY <2>1, <2>3 DEF CallStep
<1>5. CASE onHandshake(c)
  <2>1. /\ client' = [client EXCEPT ![c].handshaked = TRUE]
        /\ sent' = {Tell(c, "HANDSHAKE", Null)}
    BY <1>5 DEF onHandshake, Become
  <2>2. Silent(sent')
    BY <2>1 DEF Silent, Says, Loud, Tell
  <2>3. QED
    BY <1>1, <2>1, <2>2, FieldKeepsCalls DEF CallStep
<1>6. QED
  BY <1>2, <1>3, <1>4, <1>5 DEF Connection

LEMMA AccountCalls ==
    ASSUME TypeOK, NEW c \in Slot, NEW a \in Account, NEW pseudo \in Pseudo,
           NEW password \in Password, NEW status,
           onReg(c, a, pseudo, password) \/ onUpdate(c, a, pseudo, password, status)
    PROVE  CallStep
<1>1. client \in Clients /\ file \in Files /\ KeepsCalls(client, client)
  BY FieldKeepsCalls DEF TypeOK, Clients, Files
<1>2. CASE onReg(c, a, pseudo, password)
  <2> DEFINE fresh == [client[c] EXCEPT !.account = a, !.pseudo = pseudo,
                                      !.status = DISCONNECTED, !.statusCall = "NONE",
                                      !.contact = {}, !.isConnected = FALSE]
  <2>1. Silent(sent')
    BY <1>2, SilentErr DEF onReg
  <2>2. \/ client' = client
        \/ client' = [client EXCEPT ![c] = fresh] /\ ~client[c].isConnected
    BY <1>2 DEF onReg, RegError, memory
  <2>3. fresh.statusCall = "NONE" /\ fresh.comm = client[c].comm /\ ~fresh.isConnected
    BY <1>1 DEF Clients, ClientRec
  <2> HIDE DEF fresh
  <2>4. client' = client \/ Forgets(client, client', c)
    BY <1>1, <2>2, <2>3 DEF Forgets, SameCallsBut, SameCall, Clients
  <2>5. QED
    BY <1>1, <2>1, <2>4 DEF CallStep
<1>3. CASE onUpdate(c, a, pseudo, password, status)
  <2>1. \/ client' = client
        \/ client' = [client EXCEPT ![c].pseudo = pseudo, ![c].status = status]
    BY <1>3 DEF onUpdate, Become, Send, memory
  <2>2. \/ \E code : sent' = {Err(c, "UPDATE", code)}
        \/ \E clients, files : sent' = {Err(c, "UPDATE", "OK")}
                                 \cup notifyMyFriendsOfModificationAboutMe(clients, c)
                                 \cup ShowReply(clients, files, c, a)
    BY <1>3 DEF onUpdate, Become, Send
  <2>3. Silent(sent')
    <3>1. ASSUME NEW clients, NEW files
          PROVE  Silent({Err(c, "UPDATE", "OK")}
                           \cup notifyMyFriendsOfModificationAboutMe(clients, c)
                           \cup ShowReply(clients, files, c, a))
      BY SilentErr, SilentReplies, SilentBoth
    <3>2. QED
      BY <2>2, <3>1, SilentErr
  <2>4. KeepsCalls(client, client')
    BY <1>1, <2>1, ProfileKeepsCalls
  <2>5. QED
    BY <2>3, <2>4 DEF CallStep
<1>4. QED
  BY <1>2, <1>3
LEMMA LogCalls ==
    ASSUME TypeOK, NEW c \in Slot, NEW a \in Account, NEW password \in Password,
           onLog(c, a, password)
    PROVE  CallStep
<1> DEFINE loaded == Loaded(client[c], a)
           in == Connected(loaded)
<1>0. client \in Clients /\ file \in Files /\ KeepsCalls(client, client)
  BY FieldKeepsCalls DEF TypeOK, Clients, Files
<1>1. \/ client' = client
      \/ client' = [client EXCEPT ![c] = in] /\ ~client[c].isConnected
  BY DEF onLog, LogError, Become, Send, memory
<1>2. loaded \in ClientRec
  BY <1>0 DEF Loaded, Clients, Files, ClientRec, FileRec
<1>3. in.statusCall = "NONE" /\ in.comm = Null
  BY <1>2, RecordCalls
<1>4. \/ \E code : sent' = {Err(c, "LOG", code)}
      \/ \E clients, files : sent' = {Err(c, "LOG", "OK")}
                               \cup ListReply(clients, files, c)
                               \cup notifyMyFriendsOfModificationAboutMe(clients, c)
  BY DEF onLog, Become, Send
<1>5. Silent(sent')
  <2>1. ASSUME NEW clients, NEW files
        PROVE  Silent({Err(c, "LOG", "OK")}
                         \cup ListReply(clients, files, c)
                         \cup notifyMyFriendsOfModificationAboutMe(clients, c))
    BY SilentErr, SilentReplies, SilentBoth
  <2>2. QED
    BY <1>4, <2>1, SilentErr
<1> HIDE DEF in, loaded
<1>6. \/ client' = client
      \/ Frees(client, client', c) /\ ~client[c].isConnected
  BY <1>0, <1>1, <1>3 DEF Frees, SameCallsBut, SameCall, Clients
<1>7. QED
  BY <1>0, <1>5, <1>6 DEF CallStep

LEMMA DieCalls ==
    ASSUME NEW files, NEW accounts, Die(files, accounts)
    PROVE  CallStep
BY DEF Die, CallStep, NobodyCalls

\* A logout frees the object, after its call was closed if it has a partner.
LEMMA ExitCloses ==
    ASSUME TypeOK, NEW c \in Slot, onExit(c)
    PROVE  \/ /\ ~client[c].isConnected /\ client' = client
              /\ \E code : sent' = {Err(c, "EXIT", code)}
           \/ \E files : Die(files, accountsFile)
           \/ client[c].comm = Null /\ Frees(client, client', c) /\ Silent(sent')
           \/ \E a \in AccountsReadAt(client, client[c].comm) :
                 LET closed == CloseCall(client, file, c, a)
                 IN  /\ LeaveDuringCall /\ client[c].comm # Null
                     /\ closed.clients \in Clients /\ Frees(closed.clients, client', c)
                     /\ \A told : Says(closed.sent, told) => Says(sent', told)
<1> DEFINE left(clients) == [clients EXCEPT ![c] = Disconnected(@)]
           reset(clients) == [left(clients) EXCEPT ![c] = ResetAttributes(@)]
           says(messages, clients) ==
               {Err(c, "EXIT", "OK")} \cup messages
                 \cup notifyMyFriendsOfModificationAboutMe(left(clients), c)
           leaves(clients, messages) ==
               client' = reset(clients) /\ sent' = says(messages, clients)
<1>1. client \in Clients /\ file \in Files
  BY DEF TypeOK, Clients, Files
<1>2. ASSUME NEW clients \in Clients
      PROVE  Frees(clients, reset(clients), c)
  <2>1. left(clients)[c] = Disconnected(clients[c]) /\ left(clients) \in Clients
    BY RecordTypes DEF Clients
  <2>2. reset(clients)[c] = ResetAttributes(Disconnected(clients[c]))
    BY <2>1 DEF Clients
  <2>3. \A s \in Slot \ {c} : reset(clients)[s] = clients[s]
    BY DEF Clients
  <2>4. clients[c] \in ClientRec /\ Disconnected(clients[c]) \in ClientRec
    BY RecordTypes DEF Clients
  <2> HIDE DEF reset
  <2>5. /\ reset(clients)[c].statusCall = "NONE" /\ reset(clients)[c].comm = Null
        /\ ~reset(clients)[c].isConnected
    BY <2>2, <2>4, RecordCalls
  <2>6. QED
    BY <2>3, <2>5 DEF Frees, SameCallsBut, SameCall
<1>3. ASSUME NEW messages, NEW told, NEW clients, Says(messages, told)
      PROVE  Says(says(messages, clients), told)
  BY <1>3, SilentErr, SilentReplies, SilentUnion
<1> HIDE DEF left, reset, says
<1>4. CASE leaves(client, {}) /\ client[c].comm = Null
  BY <1>1, <1>2, <1>3, <1>4, SilentErr DEF Silent
<1>5. ASSUME NEW a \in AccountsReadAt(client, client[c].comm), client[c].comm # Null, MayLeave(c),
             leaves(CloseCall(client, file, c, a).clients, CloseCall(client, file, c, a).sent)
      PROVE  LET closed == CloseCall(client, file, c, a)
             IN  /\ LeaveDuringCall /\ client[c].comm # Null
                 /\ closed.clients \in Clients /\ Frees(closed.clients, client', c)
                 /\ \A told : Says(closed.sent, told) => Says(sent', told)
  BY <1>1, <1>2, <1>3, <1>5, CloseCallTypes DEF MayLeave
<1>6. QED
  BY <1>4, <1>5 DEF onExit, Become, Send, memory, left, reset, says

LEMMA ExitCalls ==
    ASSUME TypeOK, NEW c \in Slot, onExit(c)
    PROVE  CallStep
<1>1. client \in Clients /\ KeepsCalls(client, client)
  BY FieldKeepsCalls DEF TypeOK, Clients
<1>2. CASE client' = client /\ \E code : sent' = {Err(c, "EXIT", code)}
  BY <1>1, <1>2, SilentErr DEF CallStep
<1>3. CASE client[c].comm = Null /\ Frees(client, client', c) /\ Silent(sent')
  BY <1>3 DEF CallStep
<1>4. ASSUME NEW a, NEW closed, closed = CloseCall(client, file, c, a), LeaveDuringCall,
             closed.clients \in Clients, Frees(closed.clients, client', c),
             \A told : Says(closed.sent, told) => Says(sent', told)
      PROVE  CallStep
  <2>1. \/ closed.clients = client /\ Silent(closed.sent)
        \/ \E t \in Slot : HangsUp(client, closed.clients, c, t, closed.sent)
    BY <1>1, <1>4, CloseCallCalls DEF SameLogins
  <2>2. CASE closed.clients = client /\ Silent(closed.sent)
    BY <1>4, <2>2 DEF CallStep, Silent
  <2>3. ASSUME NEW t \in Slot, HangsUp(client, closed.clients, c, t, closed.sent)
        PROVE  CallStep
    <3>1. HangsUp(client, closed.clients, c, t, sent')
      BY <1>4, <2>3 DEF HangsUp, Silent
    <3>2. QED
      BY <1>4, <3>1 DEF CallStep
  <2>4. QED
    BY <2>1, <2>2, <2>3
<1>5. QED
  BY <1>2, <1>3, <1>4, ExitCloses, DieCalls

LEMMA SignalCalls ==
    ASSUME TypeOK, SessionsAreNamed, NEW c \in Slot, NEW a \in Account, NEW accept \in BOOLEAN,
           onCall(c, a) \/ onAcceptCall(c, a, accept) \/ onCloseCall(c, a)
    PROVE  CallStep
<1> DEFINE t == findOnlineClient(client, a)
           ringing == [client EXCEPT ![c].statusCall = "ISWAITING",
                                     ![t].statusCall = "ISWAITING"]
           talking == [client EXCEPT ![t].statusCall = "ISCALLING",
                                     ![c].statusCall = "ISCALLING"]
           refused == [client EXCEPT ![c].statusCall = "NONE"]
           tied(clients, x, y) == [clients EXCEPT ![c].comm = x, ![t].comm = y]
<1>1. client \in Clients /\ KeepsCalls(client, client)
  BY FieldKeepsCalls DEF TypeOK, Clients
<1>2. CASE client' = client /\ \E instruction, code : sent' = {Err(c, instruction, code)}
  BY <1>1, <1>2, SilentErr DEF CallStep
<1>3. CASE onCloseCall(c, a)
  <2>1. \/ client' = client /\ Silent(sent')
        \/ \E s \in Slot : HangsUp(client, client', c, s, sent')
    BY <1>1, <1>3, CloseCallCalls DEF onCloseCall, Become, SameLogins
  <2>2. QED
    BY <1>1, <2>1 DEF CallStep
<1>4. CASE onCall(c, a) /\ CallError(c, a) = "OK"
  <2>1. /\ c # t /\ t \in Slot /\ client[c].isConnected /\ client[t].isConnected
        /\ client[c].statusCall = "NONE" /\ client[t].statusCall = "NONE"
    BY <1>4, FindOnline DEF CallError
  <2>2. ringing \in Clients /\ SetsState(client, ringing, c, t, "ISWAITING")
    BY <1>1, <2>1, StateSet DEF StatusCall
  <2>3. \/ /\ client' = tied(ringing, t, c)
           /\ sent' = {Err(c, "CALL", "OK"), Tell(t, "CALL", client[c].account)}
        \/ /\ client' = ringing /\ unwritable # {}
           /\ sent' = {Err(c, "CALL", "CANNOT_SAVE_DATA")}
    BY <1>4 DEF onCall, Become, BothStored
  <2>4. Silent(sent')
    BY <2>3, SilentErr DEF Silent, Says, Loud, Err, Tell
  <2> HIDE DEF ringing, t
  <2>5. SetsPartners(ringing, tied(ringing, t, c), c, t, t, c)
    BY <2>1, <2>2, PartnersSet
  <2> HIDE DEF tied
  <2>6. Rings(client, client', c, t)
    BY <2>1, <2>2, <2>3, <2>5
    DEF Rings, OfTwo, Partners, SetsState, SetsPartners, SameCallsBut, SameCall
  <2>7. QED
    BY <2>1, <2>4, <2>6 DEF CallStep
<1>5. CASE onAcceptCall(c, a, accept) /\ AcceptCallError(c, a) = "OK"
  <2>1. /\ t \in Slot /\ client[c].isConnected /\ client[t].isConnected
        /\ client[c].statusCall = "ISWAITING" /\ client[c].comm = t
        /\ client[t].account = a
    BY <1>5, FindOnline DEF AcceptCallError
  <2>2. talking \in Clients /\ SetsState(client, talking, c, t, "ISCALLING")
    <3>1. talking \in Clients /\ SetsState(client, talking, t, c, "ISCALLING")
      BY <1>1, <2>1, StateSet DEF StatusCall
    <3> HIDE DEF talking
    <3>2. QED
      BY <3>1 DEF SetsState, SameCallsBut
  <2>3. /\ refused \in Clients /\ SameCallsBut(client, refused, {c})
        /\ refused[c].statusCall = "NONE" /\ refused[c].comm = client[c].comm
        /\ refused[c].isConnected = client[c].isConnected
    <3>1. refused \in Clients
      BY <1>1 DEF Clients, ClientRec, StatusCall
    <3>2. /\ refused[c].statusCall = "NONE" /\ refused[c].comm = client[c].comm
          /\ refused[c].isConnected = client[c].isConnected
          /\ \A s \in Slot \ {c} : refused[s] = client[s]
      BY <1>1 DEF Clients, ClientRec
    <3>3. QED
      BY <3>1, <3>2 DEF SameCallsBut, SameCall
  <2>4. CASE accept
    <3>1. \/ /\ client' = tied(talking, t, c)
             /\ sent' = Accepted(c, t) \cup {Err(c, "ACCEPT_CALL", "OK")}
          \/ /\ client' = talking /\ unwritable # {}
             /\ sent' = {Err(c, "ACCEPT_CALL", "CANNOT_SAVE_DATA")}
      <4>1. Accepted(c, t) \cup {Err(c, "ACCEPT_CALL", "OK")}
              = {Answered(t, client[c].account, accept)}
                  \cup {Err(c, "ACCEPT_CALL", "OK"), Answered(c, a, accept)}
        BY <2>1, <2>4 DEF Accepted
      <4>2. QED
        BY <1>5, <2>4, <4>1 DEF onAcceptCall, Become, BothStored
    <3>2. Says(sent', Accepted(c, t)) \/ (unwritable # {} /\ Silent(sent'))
      <4>1. Says(Accepted(c, t), Accepted(c, t))
        BY DEF Says
      <4>2. /\ Silent({Err(c, "ACCEPT_CALL", "OK")})
            /\ Silent({Err(c, "ACCEPT_CALL", "CANNOT_SAVE_DATA")})
        BY SilentErr
      <4>3. Says(Accepted(c, t) \cup {Err(c, "ACCEPT_CALL", "OK")}, Accepted(c, t))
        BY <4>1, <4>2, SilentUnion
      <4>4. QED
        BY <3>1, <4>2, <4>3
    <3> HIDE DEF talking, t
    <3>3. SetsPartners(talking, tied(talking, t, c), c, t, t, c)
      BY <2>1, <2>2, PartnersSet
    <3> HIDE DEF tied
    <3>4. Answers(client, client', c, t, sent')
      BY <2>1, <2>2, <3>1, <3>2, <3>3
      DEF Answers, OfTwo, Partners, SetsState, SetsPartners, SameCallsBut, SameCall
    <3>5. QED
      BY <2>1, <3>4 DEF CallStep
  <2>5. CASE ~accept
    <3>1. \/ /\ client' = tied(refused, Null, Null)
             /\ sent' = {Answered(t, client[c].account, accept)}
                          \cup {Err(c, "ACCEPT_CALL", "OK")}
          \/ /\ client' = refused /\ unwritable # {}
             /\ sent' = {Err(c, "ACCEPT_CALL", "CANNOT_SAVE_DATA")}
      BY <1>5, <2>5 DEF onAcceptCall, Become
    <3>2. Silent(sent')
      <4>1. Silent({Answered(t, client[c].account, accept)})
        BY <2>5 DEF Silent, Says, Loud, Answered
      <4>2. /\ Silent({Err(c, "ACCEPT_CALL", "OK")})
            /\ Silent({Err(c, "ACCEPT_CALL", "CANNOT_SAVE_DATA")})
        BY SilentErr
      <4>3. Silent({Answered(t, client[c].account, accept)} \cup {Err(c, "ACCEPT_CALL", "OK")})
        BY <4>1, <4>2, SilentBoth
      <4>4. QED
        BY <3>1, <4>2, <4>3
    <3> HIDE DEF refused, t
    <3>3. SetsPartners(refused, tied(refused, Null, Null), c, Null, t, Null)
      BY <2>1, <2>3, PartnersSet
    <3> HIDE DEF tied
    <3>4. CASE client' = tied(refused, Null, Null)
      <4>1. SameCallsBut(client, client', {c, t})
        BY <2>3, <3>3, <3>4 DEF SetsPartners, SameCallsBut, SameCall
      <4>2. /\ client'[c].statusCall = "NONE" /\ client'[c].comm = Null /\ client'[t].comm = Null
            /\ client'[c].isConnected /\ client'[t].isConnected
            /\ t # c => client'[t].statusCall = client[t].statusCall
        BY <2>1, <2>3, <3>3, <3>4 DEF SetsPartners, SameCallsBut, SameCall
      <4>3. Refuses(client, client', c, t)
        BY <2>1, <4>1, <4>2 DEF Refuses, OfTwo, Partners
      <4>4. QED
        BY <2>1, <3>2, <4>3 DEF CallStep
    <3>5. CASE client' = refused /\ unwritable # {}
      <4>1. Refuses(client, refused, c, t)
        BY <2>1, <2>3, <3>5 DEF Refuses, OfTwo, Partners, SameCallsBut, SameCall
      <4>2. QED
        BY <2>1, <3>2, <3>5, <4>1 DEF CallStep
    <3>6. QED
      BY <3>1, <3>4, <3>5
  <2>6. QED
    BY <2>4, <2>5
<1>6. QED
  BY <1>2, <1>3, <1>4, <1>5 DEF onCall, onAcceptCall, Send, memory
LEMMA ContactCalls ==
    ASSUME TypeOK, SessionsAreNamed, NEW c \in Slot, NEW a \in Account, NEW accept \in BOOLEAN,
           onAcceptAdd(c, a, accept) \/ onDel(c, a)
    PROVE  CallStep
<1> DEFINE me == client[c].account
           t == findOnlineClient(client, a)
           added == [client EXCEPT ![t].contact = @ \cup {me}]
           clients == [added EXCEPT ![c].contact = @ \cup {a}]
           mine == [client EXCEPT ![c].contact = @ \ {a}]
           both == [mine EXCEPT ![t].contact = @ \ {me}]
           told == {Err(c, "DEL", "OK"), Tell(c, "DEL", a), Tell(t, "DEL", me)}
           closed(files) == CloseCall(both, files, c, a)
<1>1. client \in Clients /\ KeepsCalls(client, client)
  BY FieldKeepsCalls DEF TypeOK, Clients
<1>2. CASE KeepsCalls(client, client') /\ Silent(sent')
  BY <1>2 DEF CallStep
<1>3. CASE client' = client /\ \E instruction, code : sent' = {Err(c, instruction, code)}
  BY <1>1, <1>2, <1>3, SilentErr
<1>4. ASSUME t # Null, client[c].isConnected
      PROVE  t \in Slot /\ t \in Session /\ c \in Session /\ me \in Account
  BY <1>4, FindOnline DEF Session, SessionsAreNamed
<1>5. CASE onAcceptAdd(c, a, accept) /\ AcceptAddError(c, a) = "OK" /\ accept
  <2>1. t # Null /\ client[c].isConnected
    BY <1>5 DEF AcceptAddError
  <2>2. added \in Clients /\ KeepsCalls(client, added)
    <3>1. t \in Slot /\ me \in Account
      BY <1>4, <2>1
    <3>2. client[t].contact \cup {me} \in SUBSET Account
      BY <1>1, <3>1 DEF Clients, ClientRec
    <3> HIDE DEF t, me
    <3>3. QED
      BY <1>1, <3>1, <3>2, ContactSet, ContactKeepsCalls
  <2> HIDE DEF added
  <2>3. KeepsCalls(client, clients)
    BY <2>2, ContactKeepsCalls, CallsCompose
  <2> HIDE DEF clients
  <2>4. CASE \E files : Die(files, accountsFile)
    BY <2>4, DieCalls
  <2>5. CASE \E files : \/ Become(clients, files, {Err(c, "ACCEPT_ADD", "CANNOT_SAVE_DATA")})
                        \/ Become(clients, files,
                                  {Err(c, "ACCEPT_ADD", "OK")}
                                    \cup ShowReply(clients, files, t, me)
                                    \cup ShowReply(clients, files, c, a))
    <3>1. ASSUME NEW files
          PROVE  /\ Silent({Err(c, "ACCEPT_ADD", "CANNOT_SAVE_DATA")})
                 /\ Silent({Err(c, "ACCEPT_ADD", "OK")}
                             \cup ShowReply(clients, files, t, me)
                             \cup ShowReply(clients, files, c, a))
      BY SilentErr, SilentReplies, SilentBoth
    <3>2. QED
      BY <1>2, <2>3, <2>5, <3>1 DEF Become
  <2>6. QED
    BY <1>5, <2>4, <2>5 DEF onAcceptAdd, t, me, added, clients
<1>6. CASE onDel(c, a) /\ DelError(c, a) = "OK"
  <2>1. client[c].isConnected
    BY <1>6 DEF DelError
  <2>2. mine \in Clients /\ SameLogins(client, mine) /\ KeepsCalls(client, mine)
    <3>1. client[c].contact \ {a} \in SUBSET Account
      BY <1>1 DEF Clients, ClientRec
    <3>2. QED
      BY <1>1, <3>1, ContactSet, ContactKeepsCalls
  <2> HIDE DEF mine
  <2>3. ASSUME t # Null
        PROVE  both \in Clients /\ SameLogins(client, both) /\ KeepsCalls(client, both)
    <3>1. t \in Slot
      BY <1>4, <2>1, <2>3
    <3>2. mine[t].contact \ {me} \in SUBSET Account
      BY <2>2, <3>1 DEF Clients, ClientRec
    <3> HIDE DEF t, me
    <3>3. both \in Clients /\ SameLogins(mine, both) /\ KeepsCalls(mine, both)
      BY <2>2, <3>1, <3>2, ContactSet, ContactKeepsCalls
    <3> HIDE DEF both
    <3>4. SameLogins(client, both)
      BY <2>2, <3>3 DEF SameLogins
    <3>5. QED
      BY <2>2, <3>3, <3>4, CallsCompose
  <2>4. Silent(told)
    BY DEF Silent, Says, Loud, Err, Tell
  <2>5. /\ Silent({Err(c, "DEL", "CANNOT_SAVE_DATA")})
        /\ Silent({Err(c, "DEL", "OK")})
    BY SilentErr
  <2> HIDE DEF both, told
  <2>6. ASSUME NEW files, t # Null, Become(closed(files).clients, closed(files).files,
                                          told \cup closed(files).sent)
        PROVE  CallStep
    <3> DEFINE done == closed(files)
    <3>1. \/ done.clients = both /\ Silent(done.sent)
          \/ \E s \in Slot : HangsUp(both, done.clients, c, s, done.sent)
      BY <2>3, <2>6, CloseCallCalls
    <3>2. client' = done.clients /\ sent' = told \cup done.sent
      BY <2>6 DEF Become
    <3> HIDE DEF done
    <3>3. CASE done.clients = both /\ Silent(done.sent)
      BY <1>2, <2>3, <2>4, <2>6, <3>2, <3>3, SilentBoth
    <3>4. ASSUME NEW s \in Slot, HangsUp(both, done.clients, c, s, done.sent)
          PROVE  CallStep
      <4>1. Silent(done.sent) => Silent(sent')
        BY <2>4, <3>2, SilentBoth
      <4>2. Says(done.sent, Closed(c, s)) => Says(sent', Closed(c, s))
        BY <2>4, <3>2, SilentUnion
      <4>3. HangsUp(client, client', c, s, sent')
        BY <2>3, <2>6, <3>2, <3>4, <4>1, <4>2
        DEF HangsUp, OfTwo, Partners, KeepsCalls, SameCallsBut, SameCall
      <4>4. QED
        BY <4>3 DEF CallStep
    <3>5. QED
      BY <3>1, <3>3, <3>4
  <2> HIDE DEF closed
  <2>7. \/ \E files : Die(files, accountsFile)
        \/ client' = mine /\ \E code \in {"OK", "CANNOT_SAVE_DATA"} : sent' = {Err(c, "DEL", code)}
        \/ t # Null /\ client' = both /\ sent' \in {told, {Err(c, "DEL", "CANNOT_SAVE_DATA")}}
        \/ t # Null /\ \E files : Become(closed(files).clients, closed(files).files,
                                         told \cup closed(files).sent)
    BY <1>6 DEF onDel, Become, t, me, mine, both, told, closed
  <2>8. QED
    BY <1>2, <2>2, <2>3, <2>4, <2>5, <2>6, <2>7, DieCalls
<1>7. QED
  BY <1>3, <1>5, <1>6 DEF onAcceptAdd, onDel, Send, memory

LEMMA QueryCalls ==
    ASSUME TypeOK, NEW c \in Slot, NEW a \in Account,
           onList(c) \/ onShow(c, a) \/ onAdd(c, a) \/ onSend(c, a)
    PROVE  CallStep
<1>1. KeepsCalls(client, client')
  BY FieldKeepsCalls DEF onList, onShow, onAdd, onSend, Send, memory, TypeOK, Clients
<1>2. Silent(sent')
  <2>1. CASE onList(c) \/ onShow(c, a)
    BY <2>1, SilentErr, SilentReplies DEF onList, onShow, Send
  <2>2. CASE onAdd(c, a) \/ onSend(c, a)
    BY <2>2 DEF onAdd, onSend, Send, Silent, Says, Loud, Err, Tell
  <2>3. QED
    BY <2>1, <2>2
<1>3. QED
  BY <1>1, <1>2 DEF CallStep

LEMMA NextCalls ==
    ASSUME TypeOK, SessionsAreNamed, ObjectInv, Next
    PROVE  CallStep
<1>1. ASSUME NEW c \in Slot, Connection(c) \/ Request(c)
      PROVE  CallStep
  <2>1. CASE Connection(c) \/ onHandshake(c)
    BY <2>1, ConnectionCalls
  <2>2. CASE onExit(c)
    BY <2>2, ExitCalls
  <2>3. CASE onList(c)
    <3>1. KeepsCalls(client, client') /\ Silent(sent')
      BY <2>3, FieldKeepsCalls, SilentErr, SilentReplies DEF onList, Send, memory, TypeOK, Clients
    <3>2. QED
      BY <3>1 DEF CallStep
  <2>4. ASSUME NEW a \in Account, onShow(c, a) \/ onAdd(c, a) \/ onSend(c, a)
        PROVE  CallStep
    BY <2>4, QueryCalls
  <2>5. ASSUME NEW a \in Account, NEW accept \in BOOLEAN,
               \/ onDel(c, a) \/ onAcceptAdd(c, a, accept)
               \/ onCall(c, a) \/ onCloseCall(c, a) \/ onAcceptCall(c, a, accept)
        PROVE  CallStep
    BY <2>5, ContactCalls, SignalCalls
  <2>6. ASSUME NEW a \in Account, NEW pseudo \in Pseudo, NEW password \in Password, NEW status,
               \/ onReg(c, a, pseudo, password)
               \/ onUpdate(c, a, pseudo, password, status)
        PROVE  CallStep
    BY <2>6, AccountCalls
  <2>7. ASSUME NEW a \in Account, NEW password \in Password, onLog(c, a, password)
        PROVE  CallStep
    BY <2>7, LogCalls
  <2>8. ASSUME NEW a \in Account, NEW pseudo \in Pseudo, NEW password \in Password,
               onReg(c, a, pseudo, password)
        PROVE  CallStep
    BY <2>6, <2>8
  <2>9. QED
    BY <1>1, <2>1, <2>2, <2>3, <2>4, <2>5, <2>6, <2>7, <2>8 DEF Request
<1>2. CASE Shutdown \/ Crash
  BY <1>2, DieCalls DEF Shutdown, Crash
<1>3. CASE Start \/ DiskFault
  <2>1. KeepsCalls(client, client') /\ Silent(sent')
    BY <1>3, FieldKeepsCalls, SilentErr DEF Start, DiskFault, memory, KeepsCalls, SameCallsBut, SameCall
  <2>2. QED
    BY <2>1 DEF CallStep
<1>4. QED
  BY <1>1, <1>2, <1>3 DEF Next, Environment
-----------------------------------------------------------------------------
(* What follows from the kinds of steps *)

LEMMA StepFits ==
    ASSUME unwritable = {}, CallStateFits, CallStep
    PROVE  CallStateFits'
<1>1. ASSUME NEW before, NEW after, NEW c \in Slot, Frees(before, after, c),
             \A s \in Slot : /\ before[s].statusCall # "NONE" => before[s].isConnected
                             /\ before[s].comm # Null => before[s].statusCall # "NONE"
      PROVE  \A s \in Slot : /\ after[s].statusCall # "NONE" => after[s].isConnected
                             /\ after[s].comm # Null => after[s].statusCall # "NONE"
  BY <1>1 DEF Frees, SameCallsBut, SameCall
<1>2. ASSUME NEW c \in Slot, NEW t \in Slot, NEW after, HangsUp(client, after, c, t, sent')
      PROVE  \A s \in Slot : /\ after[s].statusCall # "NONE" => after[s].isConnected
                             /\ after[s].comm # Null => after[s].statusCall # "NONE"
  BY <1>2 DEF HangsUp, OfTwo, Partners, SameCallsBut, SameCall, CallStateFits, Session
<1>3. CASE KeepsCalls(client, client')
  BY <1>3 DEF KeepsCalls, SameCallsBut, SameCall, CallStateFits, Session
<1>4. ASSUME NEW c \in Slot, Frees(client, client', c) \/ Forgets(client, client', c)
      PROVE  CallStateFits'
  BY <1>4 DEF Frees, Forgets, SameCallsBut, SameCall, CallStateFits, Session
<1>5. ASSUME NEW c \in Slot, NEW t \in Slot,
             \/ Rings(client, client', c, t)
             \/ Answers(client, client', c, t, sent')
             \/ Refuses(client, client', c, t)
      PROVE  CallStateFits'
  BY <1>5 DEF Rings, Answers, Refuses, OfTwo, Partners, SameCallsBut, SameCall, CallStateFits,
              Session
<1>6. ASSUME NEW c \in Slot, NEW t \in Slot,
             \/ HangsUp(client, client', c, t, sent')
             \/ \E between \in Clients :
                   HangsUp(client, between, c, t, sent') /\ Frees(between, client', c)
      PROVE  CallStateFits'
  BY <1>1, <1>2, <1>6 DEF CallStateFits, Session
<1>7. CASE NobodyCalls
  BY <1>7 DEF NobodyCalls, NoClient, CallStateFits
<1>8. QED
  BY <1>3, <1>4, <1>5, <1>6, <1>7 DEF CallStep

LEMMA StepPaired ==
    ASSUME TypeOK, unwritable = {}, ~LeaveDuringCall, CallStateFits, CallsPaired, CallStep
    PROVE  CallsPaired'
<1>1. CASE KeepsCalls(client, client')
  BY <1>1 DEF KeepsCalls, SameCallsBut, SameCall, CallsPaired, TypeOK, ClientRec
<1>2. \A s \in Slot : client[s].comm \in Slot \cup {Null}
  BY DEF TypeOK, ClientRec
<1>3. \A s \in Slot : client[s].statusCall = "NONE" => client[s].comm = Null
  BY DEF CallStateFits
<1>4. \A s \in Slot : ~client[s].isConnected => client[s].statusCall = "NONE"
  BY DEF CallStateFits, Session
<1>5. ASSUME NEW c \in Slot, client[c].comm = Null,
             Frees(client, client', c) \/ Forgets(client, client', c)
      PROVE  CallsPaired'
  BY <1>2, <1>3, <1>5, NullAssumption
  DEF Frees, Forgets, SameCallsBut, SameCall, CallsPaired
<1>6. ASSUME NEW c \in Slot, NEW t \in Slot, Rings(client, client', c, t)
      PROVE  CallsPaired'
  BY <1>2, <1>3, <1>6, NullAssumption
  DEF Rings, OfTwo, Partners, SameCallsBut, SameCall, CallsPaired
<1>7. ASSUME NEW c \in Slot, NEW t \in Slot,
             client[c].comm = t, client[t].comm = c,
             client'[c].comm = t, client'[t].comm = c,
             client'[c].statusCall = client'[t].statusCall,
             SameCallsBut(client, client', {c, t})
      PROVE  CallsPaired'
  BY <1>2, <1>7, NullAssumption DEF SameCallsBut, SameCall, CallsPaired
<1>8. ASSUME NEW c \in Slot, NEW t \in Slot,
             client[c].comm = t, client[t].comm = c,
             client'[c].comm = Null, client'[t].comm = Null,
             \A s \in {c, t} : client'[s].statusCall # "ISCALLING",
             SameCallsBut(client, client', {c, t})
      PROVE  CallsPaired'
  BY <1>2, <1>8, NullAssumption DEF SameCallsBut, SameCall, CallsPaired
<1>9. ASSUME NEW c \in Slot, NEW t \in Slot, client[c].comm = t
      PROVE  client[t].comm = c /\ client[t].statusCall = client[c].statusCall
  BY <1>9, NullAssumption DEF CallsPaired
<1>10. ASSUME NEW c \in Slot, NEW t \in Slot, Answers(client, client', c, t, sent')
       PROVE  CallsPaired'
  BY <1>7, <1>9, <1>10 DEF Answers, OfTwo, Partners
<1>11. ASSUME NEW c \in Slot, NEW t \in Slot,
              Refuses(client, client', c, t) \/ HangsUp(client, client', c, t, sent')
       PROVE  CallsPaired'
  BY <1>8, <1>9, <1>11 DEF Refuses, HangsUp, OfTwo, Partners
<1>12. CASE NobodyCalls
  BY <1>12 DEF NobodyCalls, NoClient, CallsPaired
<1>13. ASSUME NEW c \in Slot, Forgets(client, client', c)
       PROVE  client[c].comm = Null
  BY <1>3, <1>4, <1>13 DEF Forgets
<1>14. QED
  BY <1>1, <1>3, <1>4, <1>5, <1>6, <1>10, <1>11, <1>12, <1>13 DEF CallStep

\* No session is its own partner: onCall refuses the caller's own account.
NoOwnPartner == \A s \in Slot : client[s].comm # s

LEMMA StepNoOwnPartner ==
    ASSUME NoOwnPartner, CallStep
    PROVE  NoOwnPartner'
<1>1. ASSUME NEW before, NEW after, NEW c \in Slot,
             KeepsCalls(before, after) \/ Frees(before, after, c) \/ Forgets(before, after, c),
             \A s \in Slot : before[s].comm # s
      PROVE  \A s \in Slot : after[s].comm # s
  BY <1>1, NullAssumption DEF KeepsCalls, Frees, Forgets, SameCallsBut, SameCall
<1>2. ASSUME NEW c \in Slot, NEW t \in Slot, NEW after,
             \/ Rings(client, after, c, t)
             \/ Answers(client, after, c, t, sent')
             \/ Refuses(client, after, c, t)
             \/ HangsUp(client, after, c, t, sent')
      PROVE  \A s \in Slot : after[s].comm # s
  BY <1>2, NullAssumption
  DEF Rings, Answers, Refuses, HangsUp, OfTwo, Partners, SameCallsBut, SameCall, NoOwnPartner
<1>3. CASE NobodyCalls
  BY <1>3, NullAssumption DEF NobodyCalls, NoClient, NoOwnPartner
<1>4. QED
  BY <1>1, <1>2, <1>3 DEF CallStep, NoOwnPartner, KeepsCalls, SameCallsBut
\* n tells the other end of the call what m tells one.
Echoes(n, m) ==
    /\ n.to # m.to /\ n.cmd = m.cmd
    /\ n.cmd = "ACCEPT_CALL" => n.accept
    /\ client[n.to].account = m.who /\ client[m.to].account = n.who
    /\ {client'[m.to].statusCall, client'[n.to].statusCall} =
          IF m.cmd = "CLOSE_CALL" THEN {"NONE"} ELSE {"ISCALLING"}

LEMMA StepSignals ==
    ASSUME NoOwnPartner, CallStep, NEW m \in sent', Loud(m)
    PROVE  \E n \in sent' : Echoes(n, m)
<1>1. ~Silent(sent')
  BY DEF Silent, Says
<1>2. ASSUME NEW c \in Slot, NEW t \in Slot, Answers(client, client', c, t, sent')
      PROVE  \E n \in sent' : Echoes(n, m)
  <2>1. Says(sent', Accepted(c, t)) /\ c # t
    BY <1>1, <1>2 DEF Answers, NoOwnPartner
  <2>2. client'[c].statusCall = "ISCALLING" /\ client'[t].statusCall = "ISCALLING"
    BY <1>2 DEF Answers
  <2> DEFINE toT == Answered(t, client[c].account, TRUE)
             toC == Answered(c, client[t].account, TRUE)
  <2>3. toT \in sent' /\ toC \in sent' /\ m \in {toT, toC}
    BY <2>1 DEF Says, Accepted
  <2>4. /\ toT.to = t /\ toT.cmd = "ACCEPT_CALL" /\ toT.who = client[c].account /\ toT.accept
        /\ toC.to = c /\ toC.cmd = "ACCEPT_CALL" /\ toC.who = client[t].account /\ toC.accept
    BY DEF Answered
  <2> HIDE DEF toT, toC
  <2>5. CASE m = toT
    <3>1. Echoes(toC, m)
      BY <2>1, <2>2, <2>4, <2>5 DEF Echoes
    <3>2. QED
      BY <3>1, <2>3
  <2>6. CASE m = toC
    <3>1. Echoes(toT, m)
      BY <2>1, <2>2, <2>4, <2>6 DEF Echoes
    <3>2. QED
      BY <3>1, <2>3
  <2>7. QED
    BY <2>3, <2>5, <2>6
<1>3. ASSUME NEW c \in Slot, NEW t \in Slot, c # t, Says(sent', Closed(c, t)),
             client'[c].statusCall = "NONE", client'[t].statusCall = "NONE"
      PROVE  \E n \in sent' : Echoes(n, m)
  <2> DEFINE toT == Tell(t, "CLOSE_CALL", client[c].account)
             toC == Tell(c, "CLOSE_CALL", client[t].account)
  <2>1. toT \in sent' /\ toC \in sent' /\ m \in {toT, toC}
    BY <1>3 DEF Says, Closed
  <2>2. /\ toT.to = t /\ toT.cmd = "CLOSE_CALL" /\ toT.who = client[c].account
        /\ toC.to = c /\ toC.cmd = "CLOSE_CALL" /\ toC.who = client[t].account
    BY DEF Tell
  <2> HIDE DEF toT, toC
  <2>3. CASE m = toT
    <3>1. Echoes(toC, m)
      BY <1>3, <2>2, <2>3 DEF Echoes
    <3>2. QED
      BY <3>1, <2>1
  <2>4. CASE m = toC
    <3>1. Echoes(toT, m)
      BY <1>3, <2>2, <2>4 DEF Echoes
    <3>2. QED
      BY <3>1, <2>1
  <2>5. QED
    BY <2>1, <2>3, <2>4
<1>4. ASSUME NEW c \in Slot, NEW t \in Slot, NEW after, HangsUp(client, after, c, t, sent'),
             after = client' \/ Frees(after, client', c)
      PROVE  \E n \in sent' : Echoes(n, m)
  <2>1. c # t /\ Says(sent', Closed(c, t)) /\ after[c].statusCall = "NONE" /\ after[t].statusCall = "NONE"
    BY <1>1, <1>4 DEF HangsUp, NoOwnPartner
  <2>2. client'[c].statusCall = "NONE" /\ client'[t].statusCall = "NONE"
    BY <1>4, <2>1 DEF Frees, SameCallsBut, SameCall
  <2>3. QED
    BY <1>3, <2>1, <2>2
<1>5. QED
  BY <1>1, <1>2, <1>4 DEF CallStep

LEMMA StepHangUps ==
    ASSUME unwritable = {}, CallStateFits, CallStep, NEW s \in Slot,
           client[s].statusCall = "ISCALLING", client'[s].statusCall # "ISCALLING",
           client'[s].isConnected
    PROVE  \E m \in sent' : m.to = s /\ m.cmd = "CLOSE_CALL"
<1>1. client[s].isConnected
  BY DEF CallStateFits, Session
<1>2. ASSUME NEW c \in Slot, NEW t \in Slot, s \in {c, t}, Says(sent', Closed(c, t))
      PROVE  \E m \in sent' : m.to = s /\ m.cmd = "CLOSE_CALL"
  BY <1>2 DEF Says, Closed, Tell
<1>3. ASSUME NEW c \in Slot, NEW t \in Slot, NEW after, HangsUp(client, after, c, t, sent'),
             after = client' \/ Frees(after, client', c)
      PROVE  s \in {c, t} /\ Says(sent', Closed(c, t))
  BY <1>1, <1>3 DEF HangsUp, OfTwo, Frees, SameCallsBut, SameCall
<1>4. ASSUME NEW c \in Slot, Frees(client, client', c) \/ Forgets(client, client', c) PROVE FALSE
  BY <1>1, <1>4 DEF Frees, Forgets, SameCallsBut, SameCall
<1>5. ASSUME NEW c \in Slot, NEW t \in Slot,
             \/ Rings(client, client', c, t)
             \/ Answers(client, client', c, t, sent')
             \/ Refuses(client, client', c, t)
      PROVE FALSE
  BY <1>5 DEF Rings, Answers, Refuses, OfTwo, SameCallsBut, SameCall
<1>6. ~KeepsCalls(client, client') /\ ~NobodyCalls
  BY DEF KeepsCalls, SameCallsBut, SameCall, NobodyCalls, NoClient
<1>7. QED
  BY <1>2, <1>3, <1>4, <1>5, <1>6 DEF CallStep

-----------------------------------------------------------------------------
(* The theorems *)

LEMMA FitsInvariant ==
    ASSUME ~SavesMayFail
    PROVE  Spec => [](CallStateFits /\ unwritable = {})
<1>1. Init => CallStateFits
  BY DEF Init, CallStateFits, NoClient
<1>2. TypeOK /\ LoginInv /\ SessionsAreNamed /\ ObjectInv /\ CallStateFits /\ [Next]_vars
        => CallStateFits'
  <2>1. ASSUME CallStateFits, UNCHANGED vars PROVE CallStateFits'
    BY <2>1 DEF CallStateFits, Session, vars, memory
  <2>2. LoginInv => unwritable = {}
    BY DEF LoginInv
  <2>3. QED
    BY <2>1, <2>2, NextCalls, StepFits
<1>3. LoginInv => unwritable = {}
  BY DEF LoginInv
<1>4. QED
  BY <1>1, <1>2, <1>3, LoginInvariant, ObjectInvariant, PTL DEF Spec

\* As long as user files can be saved, only a session takes part in a call, and
\* an object has a partner only with a call state, through refusals, hang-ups,
\* exits, lost connections and the reuse of their addresses.
THEOREM CallStateFitsHolds ==
    ASSUME ~SavesMayFail
    PROVE  Spec => []CallStateFits
BY FitsInvariant, PTL

\* As long as user files can be saved and nobody leaves during a call, partners
\* point to each other and agree on the state of their call: a handler changes
\* both ends in the same step.
THEOREM CallsPairedHolds ==
    ASSUME ~SavesMayFail, ~LeaveDuringCall
    PROVE  Spec => []CallsPaired
<1>1. Init => CallsPaired
  BY DEF Init, CallsPaired, NoClient
<1>2. TypeOK /\ SessionsAreNamed /\ ObjectInv /\ CallStateFits /\ unwritable = {}
        /\ CallsPaired /\ [Next]_vars => CallsPaired'
  <2>1. ASSUME CallsPaired, UNCHANGED vars PROVE CallsPaired'
    BY <2>1 DEF CallsPaired, vars, memory
  <2>2. QED
    BY <2>1, NextCalls, StepPaired
<1>3. QED
  BY <1>1, <1>2, FitsInvariant, ObjectInvariant, PTL DEF Spec

\* A session that stops talking and stays logged in is told so, as long as user
\* files can be saved: by a hang-up or an exit at the other end, a deleted
\* contact, or its own request.
THEOREM HangUpIsSignalledHolds ==
    ASSUME ~SavesMayFail
    PROVE  Spec => HangUpIsSignalled
<1>1. TypeOK /\ SessionsAreNamed /\ ObjectInv /\ CallStateFits /\ unwritable = {} /\ [Next]_vars
        => [\A s \in Slot :
               (/\ client[s].statusCall = "ISCALLING" /\ client'[s].statusCall # "ISCALLING"
                /\ client'[s].isConnected) =>
                   \E m \in sent' : m.to = s /\ m.cmd = "CLOSE_CALL"]_vars
  BY NextCalls, StepHangUps
<1>2. QED
  BY <1>1, FitsInvariant, ObjectInvariant, PTL DEF Spec, HangUpIsSignalled

\* Both ends of a call are told of its start and its end in the same step, each
\* with the other's account, whatever saves fail and whoever leaves.
THEOREM CallSignalledToBothEndsHolds == Spec => CallSignalledToBothEnds
<1>1. Init => NoOwnPartner
  BY NullAssumption DEF Init, NoOwnPartner, NoClient
<1>2. TypeOK /\ SessionsAreNamed /\ ObjectInv /\ NoOwnPartner /\ [Next]_vars => NoOwnPartner'
  <2>1. ASSUME NoOwnPartner, UNCHANGED vars PROVE NoOwnPartner'
    BY <2>1 DEF NoOwnPartner, vars, memory
  <2>2. QED
    BY <2>1, NextCalls, StepNoOwnPartner
<1>3. TypeOK /\ SessionsAreNamed /\ ObjectInv /\ NoOwnPartner /\ [Next]_vars
        => [\A m \in sent' :
              (m.cmd = "CLOSE_CALL" \/ (m.cmd = "ACCEPT_CALL" /\ m.accept)) =>
                  \E n \in sent' :
                      /\ n.to # m.to /\ n.cmd = m.cmd
                      /\ n.cmd = "ACCEPT_CALL" => n.accept
                      /\ client[n.to].account = m.who /\ client[m.to].account = n.who
                      /\ {client'[m.to].statusCall, client'[n.to].statusCall} =
                            IF m.cmd = "CLOSE_CALL" THEN {"NONE"} ELSE {"ISCALLING"}]_vars
  BY NextCalls, StepSignals DEF Loud, Echoes
<1>4. QED
  BY <1>1, <1>2, <1>3, ObjectInvariant, PTL DEF Spec, CallSignalledToBothEnds
=============================================================================
