------------------------------ MODULE FileProofs ------------------------------
(***************************************************************************)
(* User files, for every number of clients, accounts, pseudos, passwords   *)
(* and status bytes.                                                       *)
(*                                                                         *)
(* A registered account has a file and what is answered OK is in it, also  *)
(* when saves fail or are torn and the server is killed and started again. *)
(* As long as files can be saved, each is what its session has in memory,  *)
(* contacts are mutual, and whose contacts change is told.                 *)
(***************************************************************************)
EXTENDS LoginProofs

\* No user file is removed.  What a saved file holds does not matter here.
FilesStay(before, after) ==
    /\ after = [a \in Account |-> after[a]]
    /\ \A a \in Account : before[a].state # "absent" => after[a].state # "absent"

\* Saving, however often, removes no user file.
LEMMA StoreStays ==
    ASSUME NEW files, files = [a \in Account |-> files[a]], NEW r, NEW q
    PROVE  FilesStay(files, Store(files, r)) /\ FilesStay(files, StoreBoth(files, r, q))
<1>1. ASSUME NEW f, f = [a \in Account |-> f[a]], NEW s
      PROVE  FilesStay(f, Store(f, s))
  <2>1. Image(s).state = "good"
    BY DEF Image
  <2>2. QED
    BY <1>1, <2>1 DEF FilesStay, Store
<1>2. FilesStay(files, Store(files, r))
  BY <1>1
<1>3. FilesStay(Store(files, r), Store(Store(files, r), q))
  BY <1>1, <1>2 DEF FilesStay
<1>4. FilesStay(files, Store(Store(files, r), q)) /\ FilesStay(files, files)
  BY <1>2, <1>3 DEF FilesStay
<1>5. QED
  BY <1>2, <1>4 DEF StoreBoth

LEMMA CloseCallStays ==
    ASSUME NEW clients, NEW files, files = [a \in Account |-> files[a]], NEW c, NEW a
    PROVE  FilesStay(files, CloseCall(clients, files, c, a).files)
<1>1. \/ CloseCall(clients, files, c, a).files = files
      \/ \E r, q : CloseCall(clients, files, c, a).files = StoreBoth(files, r, q)
  BY DEF CloseCall
<1>2. QED
  BY <1>1, StoreStays DEF FilesStay

LEMMA RequestStays ==
    ASSUME file \in Files, NEW c \in Slot, Connection(c) \/ Request(c)
    PROVE  FilesStay(file, file')
<1>1. file = [a \in Account |-> file[a]] /\ FilesStay(file, file)
  BY DEF Files, FilesStay
<1>2. ASSUME \E r, q : file' \in {file, Store(file, r), StoreBoth(file, r, q)}
      PROVE  FilesStay(file, file')
  BY <1>1, <1>2, StoreStays
<1>3. CASE Connection(c)
  <2>1. \E r : CloseConnection(c).files \in {file, Store(file, r)}
    BY DEF CloseConnection
  <2>2. QED
    BY <1>2, <1>3, <2>1
    DEF Connection, onNewConnection, onSocketClosed, StrayCommand, Become
<1>4. CASE onHandshake(c) \/ onList(c)
  BY <1>1, <1>4 DEF onHandshake, onList, Become, Send, disk
<1>5. CASE onExit(c)
  <2>1. ASSUME NEW files, FilesStay(file, files), NEW r, file' = Store(files, r)
        PROVE  FilesStay(file, file')
    <3>1. FilesStay(files, Store(files, r))
      BY <2>1, StoreStays DEF FilesStay
    <3>2. QED
      BY <2>1, <3>1 DEF FilesStay
  <2>2. \A a : FilesStay(file, CloseCall(client, file, c, a).files)
    BY <1>1, CloseCallStays
  <2>3. \/ file' = file
        \/ \E r : file' = Store(file, r)
        \/ \E a, r : file' = Store(CloseCall(client, file, c, a).files, r)
    BY <1>5 DEF onExit, Become, Send, Die, disk
  <2>4. QED
    BY <1>1, <2>1, <2>2, <2>3
<1>6. ASSUME NEW a \in Account, onShow(c, a) \/ onAdd(c, a) \/ onSend(c, a) \/ onCloseCall(c, a)
      PROVE  FilesStay(file, file')
  BY <1>1, <1>6, CloseCallStays DEF onShow, onAdd, onSend, onCloseCall, Become, Send, disk
<1>7. ASSUME NEW a \in Account, NEW accept \in BOOLEAN,
             onCall(c, a) \/ onAcceptCall(c, a, accept) \/ onAcceptAdd(c, a, accept)
      PROVE  FilesStay(file, file')
  BY <1>2, <1>7 DEF onCall, onAcceptCall, onAcceptAdd, Become, Send, Die, disk
<1>8. ASSUME NEW a \in Account, NEW pseudo, NEW password, NEW status,
             \/ onReg(c, a, pseudo, password)
             \/ onLog(c, a, password)
             \/ onUpdate(c, a, pseudo, password, status)
      PROVE  FilesStay(file, file')
  BY <1>2, <1>8 DEF onReg, onLog, onUpdate, Become, Send, disk
<1>9. ASSUME NEW a \in Account, onDel(c, a)
      PROVE  FilesStay(file, file')
  <2> DEFINE me == client[c].account
             t == findOnlineClient(client, a)
             mine == [client EXCEPT ![c].contact = @ \ {a}]
             both == [mine EXCEPT ![t].contact = @ \ {me}]
             theirs == [file[a] EXCEPT !.contact = @ \ {me}]
             fileMine == Store(file, mine[c])
             fileBoth == Store(fileMine, both[t])
  <2>1. theirs.state = file[a].state
    BY DEF Files, FileRec
  <2> HIDE DEF me, t, mine, both, theirs
  <2>2. FilesStay(file, fileMine)
    BY <1>1, StoreStays
  <2>3. FilesStay(file, fileBoth)
    <3> HIDE DEF fileMine
    <3>0. fileMine = [b \in Account |-> fileMine[b]]
      BY <2>2 DEF FilesStay
    <3>1. FilesStay(fileMine, fileBoth)
      BY <3>0, StoreStays
    <3>2. QED
      BY <2>2, <3>1 DEF FilesStay
  <2>4. FilesStay(file, [fileMine EXCEPT ![a] = theirs])
    <3> HIDE DEF fileMine
    <3>1. QED
      BY <2>1, <2>2 DEF FilesStay
  <2>5. FilesStay(file, CloseCall(both, fileBoth, c, a).files)
    <3> HIDE DEF fileBoth
    <3>1. FilesStay(fileBoth, CloseCall(both, fileBoth, c, a).files)
      BY <2>3, CloseCallStays DEF FilesStay
    <3>2. QED
      BY <2>3, <3>1 DEF FilesStay
  <2> HIDE DEF fileMine, fileBoth
  <2>6. file' \in {file, fileMine, fileBoth, [fileMine EXCEPT ![a] = theirs],
                   CloseCall(both, fileBoth, c, a).files}
    BY <1>9 DEF onDel, Become, Send, Die, disk, me, t, mine, both, theirs, fileMine, fileBoth
  <2>7. QED
    BY <1>1, <2>2, <2>3, <2>4, <2>5, <2>6
<1>10. QED
  BY <1>3, <1>4, <1>5, <1>6, <1>7, <1>8, <1>9 DEF Request

\* Which accounts are known changes at a registration and with the process.
LEMMA AccountsKnown ==
    ASSUME TypeOK, NEW c \in Slot, Connection(c) \/ Request(c),
           NEW b \in Account, mAccounts'[b] # Null \/ accountsFile'[b] # Null
    PROVE  mAccounts[b] # Null \/ accountsFile[b] # Null \/ file'[b].state = "good"
<1>1. mAccounts \in [Account -> Password \cup {Null}]
  BY DEF TypeOK
<1>2. CASE /\ \A x \in Account : mAccounts'[x] # Null => mAccounts[x] # Null
           /\ accountsFile' = accountsFile
  BY <1>2
<1>3. CASE Connection(c) \/ onHandshake(c) \/ onExit(c) \/ onList(c)
  BY <1>2, <1>3
  DEF Connection, onNewConnection, onSocketClosed, StrayCommand, onHandshake, onExit, onList,
      Become, Send, Die, memory, disk
<1>4. ASSUME NEW a \in Account, NEW accept \in BOOLEAN,
             \/ onShow(c, a) \/ onAdd(c, a) \/ onSend(c, a) \/ onDel(c, a) \/ onCall(c, a)
             \/ onCloseCall(c, a) \/ onAcceptAdd(c, a, accept) \/ onAcceptCall(c, a, accept)
      PROVE  \/ UNCHANGED <<mAccounts, accountsFile>>
             \/ /\ mAccounts' = [x \in Account |-> Null]
                /\ accountsFile' = accountsFile
  BY <1>4
  DEF onShow, onAdd, onSend, onDel, onCall, onCloseCall, onAcceptAdd, onAcceptCall,
      Become, Send, Die, memory, disk
<1>5. ASSUME NEW a \in Account, NEW password \in Password, onLog(c, a, password)
      PROVE  UNCHANGED <<mAccounts, accountsFile>>
  BY <1>5 DEF onLog, Become, Send, memory, disk
<1>6. ASSUME NEW a \in Account, NEW pseudo \in Pseudo, NEW password \in Password,
             NEW status \in StatusByte, onUpdate(c, a, pseudo, password, status)
      PROVE  /\ \A x \in Account : mAccounts'[x] # Null => mAccounts[x] # Null
             /\ accountsFile' = accountsFile
  BY <1>1, <1>6 DEF onUpdate, UpdateError, Become, Send, memory, disk
<1>7. ASSUME NEW a \in Account, NEW pseudo \in Pseudo, NEW password \in Password,
             onReg(c, a, pseudo, password)
      PROVE  /\ accountsFile' = accountsFile
             /\ \/ mAccounts' = mAccounts
                \/ /\ mAccounts' = [mAccounts EXCEPT ![a] = password]
                   /\ file'[a].state = "good"
  <2> DEFINE fresh == [client[c] EXCEPT !.account = a, !.pseudo = pseudo,
                                      !.status = DISCONNECTED, !.statusCall = "NONE",
                                      !.contact = {}, !.isConnected = FALSE]
  <2>1. fresh.account = a /\ Image(fresh).state = "good"
    BY DEF TypeOK, ClientRec, Image
  <2> HIDE DEF fresh
  <2>2. CASE RegError(c, a) = "OK"
    <3>1. a \notin unwritable /\ file' = Store(file, fresh)
      BY <1>7, <2>2 DEF onReg, RegError, fresh
    <3>2. file'[a].state = "good"
      BY <2>1, <3>1 DEF Store, TypeOK
    <3>3. QED
      BY <1>7, <2>2, <3>2 DEF onReg
  <2>3. CASE RegError(c, a) # "OK"
    BY <1>7, <2>3 DEF onReg, memory, disk
  <2>4. QED
    BY <2>2, <2>3
<1>8. QED
  BY <1>1, <1>2, <1>3, <1>4, <1>5, <1>6, <1>7 DEF Request

LEMMA NextHasFile ==
    ASSUME TypeOK, RegisteredHasFile, [Next]_vars
    PROVE  RegisteredHasFile'
<1>1. file \in Files
  BY DEF TypeOK, Files
<1>2. ASSUME NEW c \in Slot, Connection(c) \/ Request(c)
      PROVE  RegisteredHasFile'
  BY <1>1, <1>2, RequestStays, AccountsKnown DEF FilesStay, RegisteredHasFile
<1>3. CASE Shutdown
  BY <1>3 DEF Shutdown, exportedAccounts, Die, RegisteredHasFile
<1>4. CASE Crash
  <2>1. TornFile.state # "absent"
    BY DEF TornFile, NoFile
  <2>2. QED
    BY <1>1, <1>4, <2>1 DEF Crash, Die, RegisteredHasFile, Files
<1>5. CASE Start
  <2>1. ASSUME NEW a \in Account, accountsFile[a] # Null, file[a].state # "absent"
        PROVE  CleanedFile(a).state # "absent"
    BY <1>1, <2>1 DEF CleanedFile, NoOfflineClient, Files, FileRec
  <2>2. QED
    BY <1>5, <2>1 DEF Start, importedAccounts, RegisteredHasFile
<1>6. CASE DiskFault
  BY <1>6 DEF DiskFault, RegisteredHasFile, memory
<1>7. CASE UNCHANGED vars
  BY <1>7 DEF vars, memory, disk, RegisteredHasFile
<1>8. QED
  BY <1>2, <1>3, <1>4, <1>5, <1>6, <1>7 DEF Next, Environment

\* A registered account has a user file, through failed and torn saves, stops
\* and clean-ups: onReg saves before it registers, and only the clean-up at a
\* start removes files.
THEOREM RegisteredHasFileHolds == Spec => []RegisteredHasFile
<1> DEFINE Inv == TypeOK /\ SessionsAreNamed /\ RegisteredHasFile
<1>1. Init => Inv
  <2>1. Init => RegisteredHasFile
    BY DEF Init, RegisteredHasFile
  <2>2. QED
    BY <2>1, InitTypes
<1>2. Inv /\ [Next]_vars => Inv'
  BY NextTypes, StepNames, NextHasFile
<1>3. QED
  BY <1>1, <1>2, PTL DEF Spec
-----------------------------------------------------------------------------
(* A session's object and its user file *)

\* The fields that are saved, and those that make the object a listed session.
SameImage(before, after, s) ==
    /\ after[s].isConnected = before[s].isConnected
    /\ after[s].listed = before[s].listed
    /\ after[s].account = before[s].account
    /\ Image(after[s]) = Image(before[s])

SameImagesBut(before, after, slots) == \A s \in Slot \ slots : SameImage(before, after, s)
SameImages(before, after) == SameImagesBut(before, after, {})

\* The listed sessions agree with their files, but perhaps those at slots.
MirroredBut(clients, files, slots) ==
    \A s \in Slot \ slots :
        clients[s].isConnected /\ clients[s].listed =>
            files[clients[s].account] = Image(clients[s])
Mirrored(clients, files) == MirroredBut(clients, files, {})

\* No two sessions have an account in common, and each has one.
Distinct(clients) ==
    \A s, t \in Slot :
        clients[s].isConnected =>
            /\ clients[s].account \in Account
            /\ clients[t].isConnected /\ clients[s].account = clients[t].account => s = t

LEMMA DistinctSessions ==
    ASSUME LoginInv, NEW clients, SameLogins(client, clients)
    PROVE  Distinct(clients)
BY LoginInvFacts
DEF LoginInv, NoDoubleLogin, SessionsAreNamed, Session, Distinct, SameLogins

LEMMA SameImagesMirror ==
    ASSUME NEW before, NEW after, NEW files, NEW slots,
           SameImagesBut(before, after, slots), MirroredBut(before, files, slots)
    PROVE  MirroredBut(after, files, slots)
BY DEF SameImagesBut, SameImage, MirroredBut

LEMMA ImagesCompose ==
    ASSUME NEW first, NEW second, NEW third, SameImages(first, second), SameImages(second, third)
    PROVE  SameImages(first, third)
BY DEF SameImages, SameImagesBut, SameImage

\* Saving a session's object mirrors it, and touches no other session's file.
LEMMA StoreMirrors ==
    ASSUME unwritable = {}, NEW clients, NEW files \in Files, NEW c \in Slot, NEW slots,
           clients[c].isConnected, Distinct(clients), MirroredBut(clients, files, slots \cup {c})
    PROVE  MirroredBut(clients, Store(files, clients[c]), slots)
<1>1. clients[c].account \in Account
  BY DEF Distinct
<1>2. Store(files, clients[c]) = [files EXCEPT ![clients[c].account] = Image(clients[c])]
  BY DEF Store
<1>3. SUFFICES ASSUME NEW s \in Slot \ slots, clients[s].isConnected, clients[s].listed
               PROVE  Store(files, clients[c])[clients[s].account] = Image(clients[s])
  BY DEF MirroredBut
<1>4. CASE s = c
  BY <1>1, <1>2, <1>4 DEF Files
<1>5. CASE s # c
  <2>1. clients[s].account # clients[c].account /\ clients[s].account \in Account
    BY <1>3, <1>5 DEF Distinct
  <2>2. files[clients[s].account] = Image(clients[s])
    BY <1>3, <1>5 DEF MirroredBut
  <2>3. QED
    BY <1>1, <1>2, <2>1, <2>2 DEF Files
<1>6. QED
  BY <1>4, <1>5

LEMMA StoreElsewhere ==
    ASSUME NEW clients, NEW files \in Files, NEW r, NEW slots, MirroredBut(clients, files, slots),
           Distinct(clients),
           \A s \in Slot \ slots : clients[s].isConnected => clients[s].account # r.account
    PROVE  MirroredBut(clients, Store(files, r), slots)
BY DEF MirroredBut, Store, Files, Distinct

LEMMA CallFieldImages ==
    ASSUME NEW clients \in Clients, NEW c \in Slot, NEW t \in Slot, NEW k, NEW x, NEW y
    PROVE  /\ SameImages(clients, [clients EXCEPT ![c].statusCall = k, ![t].statusCall = k])
           /\ SameImages(clients, [clients EXCEPT ![c].comm = x, ![t].comm = y])
           /\ SameImages(clients, [clients EXCEPT ![c].statusCall = k])
           /\ SameImages(clients, [clients EXCEPT ![c].handshaked = TRUE])
<1>1. SameImages(clients, [clients EXCEPT ![c].statusCall = k, ![t].statusCall = k])
  BY DEF SameImages, SameImagesBut, SameImage, Image, Clients, ClientRec
<1>2. SameImages(clients, [clients EXCEPT ![c].comm = x, ![t].comm = y])
  BY DEF SameImages, SameImagesBut, SameImage, Image, Clients, ClientRec
<1>3. SameImages(clients, [clients EXCEPT ![c].statusCall = k])
  BY DEF SameImages, SameImagesBut, SameImage, Image, Clients, ClientRec
<1>4. SameImages(clients, [clients EXCEPT ![c].handshaked = TRUE])
  BY DEF SameImages, SameImagesBut, SameImage, Image, Clients, ClientRec
<1>5. QED
  BY <1>1, <1>2, <1>3, <1>4

LEMMA CloseCallImages ==
    ASSUME NEW clients \in Clients, NEW files, NEW c \in Slot, NEW a
    PROVE  SameImages(clients, CloseCall(clients, files, c, a).clients)
<1> DEFINE t == findOnlineClient(clients, a)
           code == CloseCallError(clients, c, a)
           idle == [clients EXCEPT ![c].statusCall = "NONE", ![t].statusCall = "NONE"]
           free == [idle EXCEPT ![c].comm = Null, ![t].comm = Null]
<1>1. CASE code \notin {"OK", "CANNOT_SAVE_DATA"}
  BY <1>1 DEF CloseCall, SameImages, SameImagesBut, SameImage
<1>2. CASE code \in {"OK", "CANNOT_SAVE_DATA"}
  <2>1. t \in Slot
    BY <1>2, FindOnline DEF CloseCallError
  <2>2. idle \in Clients /\ SameImages(clients, idle)
    BY <2>1, CallFieldTypes, CallFieldImages DEF StatusCall
  <2>3. CloseCall(clients, files, c, a).clients \in {idle, free}
    BY <1>2 DEF CloseCall
  <2> HIDE DEF idle, t
  <2>4. SameImages(idle, free)
    BY <2>1, <2>2, CallFieldImages
  <2> HIDE DEF free
  <2>5. QED
    BY <2>2, <2>3, <2>4, ImagesCompose
<1>3. QED
  BY <1>1, <1>2

LEMMA StoreBothMirrors ==
    ASSUME unwritable = {}, NEW clients \in Clients, NEW files \in Files, NEW c \in Slot,
           NEW t \in Slot, clients[c].isConnected, clients[t].isConnected,
           Distinct(clients), MirroredBut(clients, files, {c, t})
    PROVE  Mirrored(clients, StoreBoth(files, clients[c], clients[t]))
<1>1. MirroredBut(clients, files, {t} \cup {c})
  BY DEF MirroredBut
<1>2. MirroredBut(clients, Store(files, clients[c]), {t})
  BY <1>1, StoreMirrors
<1>3. Store(files, clients[c]) \in Files /\ {} \cup {t} = {t}
  BY StoreTypes DEF Clients
<1>4. MirroredBut(clients, Store(Store(files, clients[c]), clients[t]), {})
  BY <1>2, <1>3, StoreMirrors
<1>5. QED
  BY <1>4 DEF Mirrored, StoreBoth

LEMMA CloseCallMirrors ==
    ASSUME unwritable = {}, NEW clients \in Clients, Distinct(clients), NEW files \in Files,
           Mirrored(clients, files), NEW c \in Slot, NEW a
    PROVE  Mirrored(CloseCall(clients, files, c, a).clients,
                    CloseCall(clients, files, c, a).files)
<1> DEFINE t == findOnlineClient(clients, a)
           code == CloseCallError(clients, c, a)
           idle == [clients EXCEPT ![c].statusCall = "NONE", ![t].statusCall = "NONE"]
           closed == CloseCall(clients, files, c, a)
<1>1. CASE code \notin {"OK", "CANNOT_SAVE_DATA"}
  BY <1>1 DEF CloseCall
<1>2. CASE code \in {"OK", "CANNOT_SAVE_DATA"}
  <2>1. t \in Slot /\ clients[t].isConnected /\ clients[c].isConnected
    BY <1>2, FindOnline DEF CloseCallError
  <2>2. idle \in Clients /\ SameImages(clients, idle)
    BY <2>1, CallFieldTypes, CallFieldImages DEF StatusCall
  <2>3. closed.files = StoreBoth(files, idle[c], idle[t])
    BY <1>2 DEF CloseCall
  <2> HIDE DEF idle, t
  <2>4. Distinct(idle) /\ idle[c].isConnected /\ idle[t].isConnected
    BY <2>1, <2>2 DEF SameImages, SameImagesBut, SameImage, Distinct
  <2>5. MirroredBut(idle, files, {c, t})
    BY <2>2, SameImagesMirror DEF SameImages, Mirrored, MirroredBut
  <2>6. Mirrored(idle, closed.files)
    BY <2>1, <2>2, <2>3, <2>4, <2>5, StoreBothMirrors
  <2>7. SameImages(clients, closed.clients)
    BY CloseCallImages
  <2> HIDE DEF closed
  <2>8. Mirrored(clients, closed.files)
    BY <2>2, <2>6 DEF SameImages, SameImagesBut, SameImage, Mirrored, MirroredBut
  <2>9. QED
    BY <2>7, <2>8, SameImagesMirror DEF SameImages, Mirrored, closed
<1>3. QED
  BY <1>1, <1>2

\* Setting the contacts of an object leaves the others alone.
LEMMA ContactImages ==
    ASSUME NEW clients \in Clients, NEW c \in Slot, NEW contact
    PROVE  SameImagesBut(clients, [clients EXCEPT ![c].contact = contact], {c})
BY DEF SameImagesBut, SameImage, Clients

LEMMA ConnectionMirrors ==
    ASSUME TypeOK, LoginInv, ObjectInv, Mirrored(client, file), NEW c \in Slot,
           Connection(c) \/ onHandshake(c)
    PROVE  Mirrored(client', file')
<1> DEFINE left == [client EXCEPT ![c] = Disconnected(@)]
           off(clients) == [clients EXCEPT ![c].handshaked = FALSE, ![c].listed = FALSE]
           closed == CloseConnection(c)
<1>1. client \in Clients /\ file \in Files
  BY DEF TypeOK, Clients, Files
<1>2. ASSUME NEW clients, NEW files, MirroredBut(client, files, {c}),
             \A s \in Slot \ {c} : clients[s] = client[s],
             clients[c].isConnected => ~clients[c].listed
      PROVE  Mirrored(clients, files)
  BY <1>2 DEF Mirrored, MirroredBut
<1>3. MirroredBut(client, file, {c})
  BY DEF Mirrored, MirroredBut
<1>4. /\ MirroredBut(client, closed.files, {c})
      /\ \A s \in Slot \ {c} : closed.clients[s] = client[s]
      /\ closed.clients[c].isConnected => ~closed.clients[c].listed
  <2>1. /\ \A s \in Slot \ {c} : closed.clients[s] = client[s]
        /\ closed.clients[c].isConnected => ~closed.clients[c].listed
    BY ClosedObject
  <2>2. CASE closed.files = file
    BY <1>3, <2>1, <2>2
  <2>3. CASE client[c].isConnected /\ closed.files = Store(file, left[c])
    <3>1. left[c].account = client[c].account
      BY <1>1, RecordLogins DEF Clients
    <3>2. Distinct(client)
      BY DistinctSessions DEF SameLogins
    <3> HIDE DEF left
    <3>3. \A s \in Slot \ {c} : client[s].isConnected => client[s].account # left[c].account
      BY <2>3, <3>1, <3>2 DEF Distinct
    <3>4. MirroredBut(client, Store(file, left[c]), {c})
      BY <1>1, <1>3, <3>2, <3>3, StoreElsewhere
    <3>5. QED
      BY <2>1, <2>3, <3>4
  <2>4. QED
    BY <2>2, <2>3 DEF CloseConnection
<1> HIDE DEF left, off, closed
<1>5. CASE onNewConnection(c)
  <2>1. client' = [client EXCEPT ![c] = NewClient] /\ file' = file
    BY <1>5 DEF onNewConnection, Become
  <2>2. ~NewClient.isConnected
    BY DEF NewClient, NoClient
  <2> HIDE DEF NewClient
  <2>3. QED
    BY <1>1, <1>2, <1>3, <2>1, <2>2 DEF Clients
<1>6. CASE onSocketClosed(c)
  <2>1. /\ client' = [closed.clients EXCEPT ![c] = NoClient] /\ file' = closed.files
        /\ closed.clients \in Clients
    BY <1>6, CloseConnectionTypes DEF onSocketClosed, Become, closed
  <2>2. ~NoClient.isConnected
    BY DEF NoClient
  <2> HIDE DEF NoClient
  <2>3. ~client'[c].isConnected /\ \A s \in Slot \ {c} : client'[s] = client[s]
    BY <1>4, <2>1, <2>2 DEF Clients
  <2>4. QED
    BY <1>2, <1>4, <2>1, <2>3
<1>7. CASE StrayCommand(c)
  BY <1>2, <1>4, <1>7 DEF StrayCommand, Become, closed
<1>8. CASE onHandshake(c)
  <2>1. client' = [client EXCEPT ![c].handshaked = TRUE] /\ file' = file
    BY <1>8 DEF onHandshake, Become
  <2>2. SameImages(client, client')
    BY <1>1, <2>1, CallFieldImages
  <2>3. QED
    BY <2>1, <2>2, SameImagesMirror DEF SameImages, Mirrored
<1>9. QED
  BY <1>5, <1>6, <1>7, <1>8 DEF Connection

LEMMA RegMirrors ==
    ASSUME TypeOK, LoginInv, Mirrored(client, file), NEW c \in Slot, NEW a \in Account,
           NEW pseudo \in Pseudo, NEW password \in Password, onReg(c, a, pseudo, password)
    PROVE  Mirrored(client', file')
<1> DEFINE fresh == [client[c] EXCEPT !.account = a, !.pseudo = pseudo,
                                      !.status = DISCONNECTED, !.statusCall = "NONE",
                                      !.contact = {}, !.isConnected = FALSE]
<1>1. client \in Clients /\ file \in Files
  BY DEF TypeOK, Clients, Files
<1>2. CASE UNCHANGED <<client, file>>
  BY <1>2
<1>3. CASE RegError(c, a) \in {"OK", "CANNOT_SAVE_DATA"}
  <2>1. client' = [client EXCEPT ![c] = fresh] /\ file' = Store(file, fresh)
    BY <1>3 DEF onReg
  <2>2. fresh.account = a /\ ~fresh.isConnected
    BY <1>1 DEF Clients, ClientRec
  <2>3. \A s \in Slot : client[s].isConnected => client[s].account # a
    BY <1>3 DEF RegError, LoginInv, SessionHoldsFile, Session
  <2> HIDE DEF fresh
  <2>4. Distinct(client)
    BY DistinctSessions DEF SameLogins
  <2>5. Mirrored(client, file')
    BY <1>1, <2>1, <2>2, <2>3, <2>4, StoreElsewhere DEF Mirrored
  <2>6. QED
    BY <1>1, <2>1, <2>2, <2>5 DEF Mirrored, MirroredBut, Clients
<1>4. QED
  BY <1>2, <1>3 DEF onReg, memory, disk

LEMMA LogMirrors ==
    ASSUME TypeOK, LoginInv, LoginInv', Mirrored(client, file), NEW c \in Slot, NEW a \in Account,
           NEW password \in Password, onLog(c, a, password)
    PROVE  Mirrored(client', file')
<1> DEFINE in == Connected(Loaded(client[c], a))
<1>1. client \in Clients /\ file \in Files
  BY DEF TypeOK, Clients, Files
<1>2. CASE UNCHANGED <<client, file>>
  BY <1>2
<1>3. CASE LogError(c, a, password) \in {"OK", "CANNOT_SAVE_DATA"}
  <2>1. client' = [client EXCEPT ![c] = in] /\ file' = Store(file, in) /\ unwritable = {}
    BY <1>3 DEF onLog, Become, LoginInv
  <2>2. in \in ClientRec /\ in.account = a /\ in.isConnected
    <3>1. Loaded(client[c], a) \in ClientRec /\ Loaded(client[c], a).account = a
      BY <1>1 DEF Loaded, Clients, Files, ClientRec, FileRec
    <3>2. QED
      BY <3>1, RecordTypes, RecordLogins
  <2> HIDE DEF in
  <2>3. client' \in Clients /\ client'[c] = in /\ \A s \in Slot \ {c} : client'[s] = client[s]
    BY <1>1, <2>1, <2>2 DEF Clients
  <2>4. Distinct(client')
    <3>1. \A s \in Slot : client'[s].isConnected => client'[s].account \in Account
      BY <2>2, <2>3, LoginInvFacts DEF SessionsAreNamed, Session
    <3>2. QED
      BY <3>1 DEF LoginInv, NoDoubleLogin, Session, Distinct
  <2>5. MirroredBut(client', file, {} \cup {c})
    BY <2>3 DEF Mirrored, MirroredBut
  <2>6. MirroredBut(client', Store(file, client'[c]), {})
    BY <1>1, <2>1, <2>2, <2>3, <2>4, <2>5, StoreMirrors
  <2>7. QED
    BY <2>1, <2>3, <2>6 DEF Mirrored
<1>4. QED
  BY <1>2, <1>3 DEF onLog, Send, memory, disk

LEMMA UpdateMirrors ==
    ASSUME TypeOK, LoginInv, Mirrored(client, file), NEW c \in Slot, NEW a \in Account,
           NEW pseudo \in Pseudo, NEW password \in Password, NEW status,
           onUpdate(c, a, pseudo, password, status)
    PROVE  Mirrored(client', file')
<1> DEFINE clients == [client EXCEPT ![c].pseudo = pseudo, ![c].status = status]
<1>1. client \in Clients /\ file \in Files /\ unwritable = {}
  BY DEF TypeOK, Clients, Files, LoginInv
<1>2. CASE UNCHANGED <<client, file>>
  BY <1>2
<1>3. CASE UpdateError(c, a, status) \in {"OK", "CANNOT_SAVE_DATA"}
  <2>1. client' = clients /\ file' = Store(file, clients[c]) /\ client[c].isConnected
    BY <1>1, <1>3 DEF onUpdate, UpdateError
  <2>2. SameLogins(client, clients) /\ \A s \in Slot \ {c} : clients[s] = client[s]
    BY <1>1, FieldLogins DEF Clients
  <2> HIDE DEF clients
  <2>3. Distinct(clients) /\ clients[c].isConnected
    BY <2>1, <2>2, DistinctSessions DEF SameLogins
  <2>4. MirroredBut(clients, file, {} \cup {c})
    BY <2>2 DEF Mirrored, MirroredBut
  <2>5. MirroredBut(clients, Store(file, clients[c]), {})
    BY <1>1, <2>3, <2>4, StoreMirrors
  <2>6. QED
    BY <2>1, <2>5 DEF Mirrored
<1>4. QED
  BY <1>2, <1>3 DEF onUpdate, Send, memory, disk

LEMMA DieMirrors ==
    ASSUME NEW files, NEW accounts, Die(files, accounts)
    PROVE  Mirrored(client', file')
BY DEF Die, Mirrored, MirroredBut, NoClient

LEMMA ExitMirrors ==
    ASSUME TypeOK, LoginInv, Mirrored(client, file), NEW c \in Slot, onExit(c)
    PROVE  Mirrored(client', file')
<1> DEFINE left(clients) == [clients EXCEPT ![c] = Disconnected(@)]
           reset(clients) == [left(clients) EXCEPT ![c] = ResetAttributes(@)]
           leaves(clients, files) == /\ client' = reset(clients)
                                     /\ file' = Store(files, left(clients)[c])
<1>1. client \in Clients /\ file \in Files /\ unwritable = {} /\ Distinct(client)
  BY DistinctSessions DEF TypeOK, Clients, Files, LoginInv, SameLogins
<1>2. ASSUME NEW clients \in Clients, NEW files \in Files, Mirrored(clients, files),
             Distinct(clients), clients[c].isConnected, leaves(clients, files)
      PROVE  Mirrored(client', file')
  <2> DEFINE gone == left(clients)
  <2>1. /\ gone[c].account = clients[c].account /\ ~gone[c].isConnected
        /\ gone \in Clients
        /\ \A s \in Slot \ {c} : gone[s] = clients[s]
    BY RecordTypes, RecordLogins DEF Clients
  <2>2. client' = [gone EXCEPT ![c] = ResetAttributes(@)] /\ file' = Store(files, gone[c])
    BY <1>2
  <2> HIDE DEF left, reset, gone
  <2>3. ~client'[c].isConnected /\ \A s \in Slot \ {c} : client'[s] = clients[s]
    BY <2>1, <2>2, RecordLogins DEF Clients
  <2>4. MirroredBut(clients, files, {c})
    BY <1>2 DEF Mirrored, MirroredBut
  <2>5. \A s \in Slot \ {c} : clients[s].isConnected => clients[s].account # gone[c].account
    BY <1>2, <2>1 DEF Distinct
  <2>6. MirroredBut(clients, file', {c})
    BY <1>2, <2>2, <2>4, <2>5, StoreElsewhere
  <2>7. QED
    BY <2>3, <2>6 DEF Mirrored, MirroredBut
<1>3. CASE UNCHANGED <<client, file>>
  BY <1>3
<1>4. CASE client[c].isConnected /\ leaves(client, file)
  BY <1>1, <1>2, <1>4
<1>5. ASSUME NEW a, client[c].isConnected,
             leaves(CloseCall(client, file, c, a).clients, CloseCall(client, file, c, a).files)
      PROVE  Mirrored(client', file')
  <2> DEFINE closed == CloseCall(client, file, c, a)
  <2>1. closed.clients \in Clients /\ closed.files \in Files
    BY <1>1, CloseCallTypes
  <2>2. Mirrored(closed.clients, closed.files) /\ SameLogins(client, closed.clients)
    BY <1>1, CloseCallMirrors, CloseCallLogins
  <2> HIDE DEF closed
  <2>3. Distinct(closed.clients) /\ closed.clients[c].isConnected
    BY <1>5, <2>2, DistinctSessions DEF SameLogins
  <2> HIDE DEF leaves
  <2>4. QED
    BY <1>2, <1>5, <2>1, <2>2, <2>3 DEF closed
<1>6. CASE Die(file, accountsFile)
  BY <1>6, DieMirrors
<1>7. QED
  BY <1>3, <1>4, <1>5, <1>6 DEF onExit, Become, Send, memory, disk

LEMMA CallMirrors ==
    ASSUME TypeOK, LoginInv, Mirrored(client, file), NEW c \in Slot, NEW a \in Account,
           NEW accept \in BOOLEAN,
           onCall(c, a) \/ onAcceptCall(c, a, accept) \/ onCloseCall(c, a)
    PROVE  Mirrored(client', file') /\ SameImages(client, client')
<1> DEFINE t == findOnlineClient(client, a)
           ringing == [client EXCEPT ![c].statusCall = "ISWAITING",
                                     ![t].statusCall = "ISWAITING"]
           talking == [client EXCEPT ![t].statusCall = "ISCALLING",
                                     ![c].statusCall = "ISCALLING"]
           refused == [client EXCEPT ![c].statusCall = "NONE"]
           tied(clients, x, y) == [clients EXCEPT ![c].comm = x, ![t].comm = y]
<1>1. client \in Clients /\ file \in Files /\ unwritable = {} /\ Distinct(client)
  BY DistinctSessions DEF TypeOK, Clients, Files, LoginInv, SameLogins
<1>2. CASE UNCHANGED <<client, file>>
  BY <1>2 DEF SameImages, SameImagesBut, SameImage
<1>3. CASE onCloseCall(c, a)
  BY <1>1, <1>3, CloseCallMirrors, CloseCallImages DEF onCloseCall, Become
<1>4. ASSUME NEW clients \in Clients, SameImages(client, clients), NEW s \in Slot,
             clients[c].isConnected, clients[s].isConnected,
             file' \in {Store(file, clients[c]), StoreBoth(file, clients[c], clients[s]),
                        StoreBoth(file, clients[s], clients[c])},
             SameImages(clients, client')
      PROVE  Mirrored(client', file') /\ SameImages(client, client')
  <2>1. Mirrored(clients, file)
    BY <1>4, SameImagesMirror DEF SameImages, Mirrored
  <2>2. Distinct(clients)
    BY <1>1, <1>4 DEF Distinct, SameImages, SameImagesBut, SameImage
  <2>3. /\ MirroredBut(clients, file, {} \cup {c})
        /\ MirroredBut(clients, file, {c, s}) /\ MirroredBut(clients, file, {s, c})
    BY <2>1 DEF Mirrored, MirroredBut
  <2>4. /\ Mirrored(clients, StoreBoth(file, clients[c], clients[s]))
        /\ Mirrored(clients, StoreBoth(file, clients[s], clients[c]))
    BY <1>1, <1>4, <2>2, <2>3, StoreBothMirrors
  <2>5. Mirrored(clients, Store(file, clients[c]))
    BY <1>1, <1>4, <2>2, <2>3, StoreMirrors DEF Mirrored
  <2>6. Mirrored(clients, file')
    BY <1>4, <2>4, <2>5
  <2>7. QED
    BY <1>4, <2>6, SameImagesMirror, ImagesCompose DEF SameImages, Mirrored
<1>5. CASE onCall(c, a) /\ CallError(c, a) = "OK"
  <2>1. t \in Slot /\ client[c].isConnected /\ client[t].isConnected
    BY <1>5, FindOnline DEF CallError
  <2>2. ringing \in Clients /\ SameImages(client, ringing)
    BY <1>1, <2>1, CallFieldTypes, CallFieldImages DEF StatusCall
  <2>3. /\ client' \in {ringing, tied(ringing, t, c)}
        /\ file' = StoreBoth(file, ringing[c], ringing[t])
    BY <1>5 DEF onCall, Become
  <2> HIDE DEF ringing, t
  <2>3a. SameImages(ringing, ringing)
    BY DEF SameImages, SameImagesBut, SameImage
  <2>4. SameImages(ringing, tied(ringing, t, c)) /\ SameImages(ringing, ringing)
    BY <2>1, <2>2, <2>3a, CallFieldImages
  <2>5. ringing[c].isConnected /\ ringing[t].isConnected
    BY <2>1, <2>2 DEF SameImages, SameImagesBut, SameImage
  <2> HIDE DEF tied
  <2>6. QED
    BY <1>4, <2>1, <2>2, <2>3, <2>4, <2>5
<1>6. CASE onAcceptCall(c, a, accept) /\ AcceptCallError(c, a) = "OK"
  <2>1. t \in Slot /\ client[c].isConnected /\ client[t].isConnected
    BY <1>6, FindOnline DEF AcceptCallError
  <2>2. talking \in Clients /\ SameImages(client, talking)
    BY <1>1, <2>1, CallFieldTypes, CallFieldImages DEF StatusCall
  <2>3. refused \in Clients /\ SameImages(client, refused)
    <3>1. refused \in Clients
      BY <1>1 DEF Clients, ClientRec, StatusCall
    <3>2. SameImages(client, refused)
      BY <1>1, CallFieldImages
    <3>3. QED
      BY <3>1, <3>2
  <2>4. \/ /\ client' \in {talking, tied(talking, t, c)}
           /\ file' = StoreBoth(file, talking[t], talking[c])
        \/ /\ client' = tied(refused, Null, Null)
           /\ file' = Store(file, refused[c])
    BY <1>1, <1>6 DEF onAcceptCall, Become
  <2> HIDE DEF talking, refused, t
  <2>4a. SameImages(talking, talking)
    BY DEF SameImages, SameImagesBut, SameImage
  <2>5. /\ SameImages(talking, talking) /\ SameImages(talking, tied(talking, t, c))
        /\ SameImages(refused, tied(refused, Null, Null))
    BY <2>1, <2>2, <2>3, <2>4a, CallFieldImages
  <2>6. /\ talking[c].isConnected /\ talking[t].isConnected
        /\ refused[c].isConnected /\ refused[t].isConnected
    BY <2>1, <2>2, <2>3 DEF SameImages, SameImagesBut, SameImage
  <2> HIDE DEF tied
  <2>7. QED
    BY <1>4, <2>1, <2>2, <2>3, <2>4, <2>5, <2>6
<1>7. QED
  BY <1>2, <1>3, <1>5, <1>6 DEF onCall, onAcceptCall, Send, memory, disk

\* The last session logged in as a, when findOnlineClient finds nobody, has
\* dropped out of mClients.
LEMMA FindNobody ==
    ASSUME NEW clients, NEW a, findOnlineClient(clients, a) = Null
    PROVE  \A s \in Slot :
              clients[s].isConnected /\ clients[s].listed => clients[s].account # a
<1>1. ASSUME NEW s \in OnlineAs(clients, a) PROVE FALSE
  <2>1. OnlineAs(clients, a) # {}
    BY <1>1
  <2>2. findOnlineClient(clients, a) \in OnlineAs(clients, a)
    BY <2>1 DEF findOnlineClient
  <2>3. QED
    BY <2>2, NullAssumption DEF OnlineAs
<1>2. QED
  BY <1>1 DEF OnlineAs

LEMMA AcceptAddMirrors ==
    ASSUME TypeOK, LoginInv, Mirrored(client, file), NEW c \in Slot, NEW a \in Account,
           NEW accept \in BOOLEAN, onAcceptAdd(c, a, accept)
    PROVE  Mirrored(client', file')
<1> DEFINE me == client[c].account
           t == findOnlineClient(client, a)
           added == [client EXCEPT ![t].contact = @ \cup {me}]
           clients == [added EXCEPT ![c].contact = @ \cup {a}]
<1>1. client \in Clients /\ file \in Files /\ unwritable = {}
  BY DEF TypeOK, Clients, Files, LoginInv
<1>2. CASE UNCHANGED <<client, file>>
  BY <1>2
<1>3. CASE AcceptAddError(c, a) = "OK" /\ accept
  <2>1. t \in Slot /\ client[t].isConnected /\ client[c].isConnected
    BY <1>3, FindOnline DEF AcceptAddError
  <2>2. me \in Account
    BY <2>1, LoginInvFacts DEF SessionsAreNamed, Session
  <2>3. /\ added \in Clients /\ SameLogins(client, added)
        /\ SameImagesBut(client, added, {t})
    <3>1. client[t].contact \cup {me} \in SUBSET Account
      BY <1>1, <2>1, <2>2 DEF Clients, ClientRec
    <3> HIDE DEF t, me
    <3>2. QED
      BY <1>1, <2>1, <3>1, ContactSet, ContactImages
  <2> HIDE DEF added
  <2>4. /\ clients \in Clients /\ SameLogins(added, clients)
        /\ SameImagesBut(added, clients, {c})
    <3>1. added[c].contact \cup {a} \in SUBSET Account
      BY <2>3 DEF Clients, ClientRec
    <3>2. QED
      BY <2>3, <3>1, ContactSet, ContactImages
  <2> HIDE DEF clients, t
  <2>5. SameImagesBut(client, clients, {c, t})
    BY <2>3, <2>4 DEF SameImagesBut, SameImage
  <2>6. MirroredBut(client, file, {c, t})
    BY DEF Mirrored, MirroredBut
  <2>7. MirroredBut(clients, file, {c, t})
    BY <2>5, <2>6, SameImagesMirror
  <2>8. SameLogins(client, clients)
    BY <2>3, <2>4 DEF SameLogins
  <2>9. Distinct(clients) /\ clients[c].isConnected /\ clients[t].isConnected
    BY <2>1, <2>8, DistinctSessions DEF SameLogins
  <2>10. Mirrored(clients, StoreBoth(file, clients[c], clients[t]))
    BY <1>1, <2>1, <2>4, <2>7, <2>9, StoreBothMirrors
  <2>11. \/ client' = clients /\ file' = StoreBoth(file, clients[c], clients[t])
         \/ Die(Store(file, clients[c]), accountsFile)
    BY <1>3 DEF onAcceptAdd, Become, clients, t, me, added
  <2>12. QED
    BY <2>10, <2>11, DieMirrors
<1>4. QED
  BY <1>2, <1>3 DEF onAcceptAdd, Send, memory, disk

\* onDel saves its own object, then the other one, or the file of an account
\* that has no listed session.
LEMMA DelMirrors ==
    ASSUME TypeOK, LoginInv, Mirrored(client, file), NEW c \in Slot, NEW a \in Account,
           onDel(c, a)
    PROVE  Mirrored(client', file')
<1> DEFINE me == client[c].account
           t == findOnlineClient(client, a)
           mine == [client EXCEPT ![c].contact = @ \ {a}]
           both == [mine EXCEPT ![t].contact = @ \ {me}]
           theirs == [file[a] EXCEPT !.contact = @ \ {me}]
           fileMine == Store(file, mine[c])
           fileBoth == Store(fileMine, both[t])
           closed == CloseCall(both, fileBoth, c, a)
<1>1. client \in Clients /\ file \in Files /\ unwritable = {}
  BY DEF TypeOK, Clients, Files, LoginInv
<1>2. CASE UNCHANGED <<client, file>>
  BY <1>2
<1>3. CASE DelError(c, a) = "OK"
  <2>1. client[c].isConnected
    BY <1>3 DEF DelError
  <2>2. /\ mine \in Clients /\ SameLogins(client, mine)
        /\ SameImagesBut(client, mine, {c})
    <3>1. client[c].contact \ {a} \in SUBSET Account
      BY <1>1 DEF Clients, ClientRec
    <3>2. QED
      BY <1>1, <3>1, ContactSet, ContactImages
  <2> HIDE DEF mine
  <2>3. Distinct(mine) /\ mine[c].isConnected /\ mine[c] \in ClientRec
    BY <2>1, <2>2, DistinctSessions DEF SameLogins, Clients
  <2>4. MirroredBut(mine, file, {} \cup {c})
    <3>1. MirroredBut(client, file, {} \cup {c})
      BY DEF Mirrored, MirroredBut
    <3>2. SameImagesBut(client, mine, {} \cup {c})
      BY <2>2 DEF SameImagesBut
    <3>3. QED
      BY <3>1, <3>2, SameImagesMirror
  <2>5. Mirrored(mine, fileMine) /\ fileMine \in Files
    BY <1>1, <2>3, <2>4, StoreMirrors, StoreTypes DEF Mirrored
  <2> HIDE DEF fileMine
  <2>6. CASE t = Null
    <3>1. \/ client' = mine /\ file' = [fileMine EXCEPT ![a] = theirs]
          \/ Die(fileMine, accountsFile)
      BY <1>1, <1>3, <2>6 DEF onDel, Become, t, me, mine, theirs, fileMine
    <3>2. \A s \in Slot : client[s].isConnected /\ client[s].listed => client[s].account # a
      BY <2>6, FindNobody
    <3>3. \A s \in Slot : mine[s].listed = client[s].listed
      BY <1>1 DEF mine, Clients, ClientRec
    <3>4. \A s \in Slot : mine[s].isConnected /\ mine[s].listed =>
                             mine[s].account # a /\ mine[s].account \in Account
      BY <2>2, <2>3, <3>2, <3>3 DEF SameLogins, Distinct
    <3> HIDE DEF theirs
    <3>5. Mirrored(mine, [fileMine EXCEPT ![a] = theirs])
      BY <2>5, <3>4 DEF Mirrored, MirroredBut, Files
    <3>6. QED
      BY <3>1, <3>5, DieMirrors
  <2>7. CASE t # Null
    <3>1. t \in Slot /\ client[t].isConnected /\ me \in Account
      BY <2>1, <2>7, FindOnline, LoginInvFacts DEF SessionsAreNamed, Session
    <3>2. /\ both \in Clients /\ SameLogins(mine, both)
          /\ SameImagesBut(mine, both, {t})
      <4>1. mine[t].contact \ {me} \in SUBSET Account
        BY <2>2, <3>1 DEF Clients, ClientRec
      <4> HIDE DEF t, me
      <4>2. QED
        BY <2>2, <3>1, <4>1, ContactSet, ContactImages
    <3> HIDE DEF both, t
    <3>3. SameLogins(client, both)
      BY <2>2, <3>2 DEF SameLogins
    <3>4. Distinct(both) /\ both[t].isConnected /\ both[t] \in ClientRec
      BY <3>1, <3>2, <3>3, DistinctSessions DEF SameLogins, Clients
    <3>5. MirroredBut(both, fileMine, {} \cup {t})
      <4>1. MirroredBut(mine, fileMine, {} \cup {t}) /\ {} \cup {t} = {t}
        BY <2>5 DEF Mirrored, MirroredBut
      <4>2. QED
        BY <3>2, <4>1, SameImagesMirror
    <3>6. Mirrored(both, fileBoth) /\ fileBoth \in Files
      BY <1>1, <2>5, <3>1, <3>4, <3>5, StoreMirrors, StoreTypes DEF Mirrored
    <3> HIDE DEF fileBoth
    <3>7. Mirrored(closed.clients, closed.files)
      BY <1>1, <3>2, <3>4, <3>6, CloseCallMirrors
    <3> HIDE DEF closed
    <3>8. \/ client' = both /\ file' = fileBoth
          \/ client' = closed.clients /\ file' = closed.files
          \/ \E files : Die(files, accountsFile)
      BY <1>1, <1>3, <2>7 DEF onDel, Become, t, me, mine, both, fileMine, fileBoth, closed
    <3>9. QED
      BY <3>6, <3>7, <3>8, DieMirrors
  <2>8. QED
    BY <2>6, <2>7
<1>4. QED
  BY <1>2, <1>3 DEF onDel, Send, memory, disk
LEMMA RequestMirrors ==
    ASSUME TypeOK, LoginInv, LoginInv', ObjectInv, Mirrored(client, file),
           NEW c \in Slot, Connection(c) \/ Request(c)
    PROVE  Mirrored(client', file')
<1>1. CASE Connection(c) \/ onHandshake(c)
  BY <1>1, ConnectionMirrors
<1>2. CASE onExit(c)
  BY <1>2, ExitMirrors
<1>3. CASE onList(c)
  BY <1>3 DEF onList, Send, memory, disk
<1>4. ASSUME NEW a \in Account, NEW pseudo \in Pseudo, NEW password \in Password,
             onReg(c, a, pseudo, password)
      PROVE  Mirrored(client', file')
  BY <1>4, RegMirrors
<1>5. ASSUME NEW a \in Account, NEW password \in Password, onLog(c, a, password)
      PROVE  Mirrored(client', file')
  BY <1>5, LogMirrors
<1>6. ASSUME NEW a \in Account, NEW pseudo \in Pseudo, NEW password \in Password,
             NEW status \in StatusByte, onUpdate(c, a, pseudo, password, status)
      PROVE  Mirrored(client', file')
  BY <1>6, UpdateMirrors
<1>7. ASSUME NEW a \in Account, onShow(c, a) \/ onAdd(c, a) \/ onSend(c, a)
      PROVE  Mirrored(client', file')
  BY <1>7 DEF onShow, onAdd, onSend, Send, memory, disk
<1>8. ASSUME NEW a \in Account, NEW accept \in BOOLEAN,
             onCall(c, a) \/ onAcceptCall(c, a, accept) \/ onCloseCall(c, a)
      PROVE  Mirrored(client', file')
  BY <1>8, CallMirrors
<1>9. ASSUME NEW a \in Account, NEW accept \in BOOLEAN, onAcceptAdd(c, a, accept)
      PROVE  Mirrored(client', file')
  BY <1>9, AcceptAddMirrors
<1>10. ASSUME NEW a \in Account, onDel(c, a)
       PROVE  Mirrored(client', file')
  BY <1>10, DelMirrors
<1>11. QED
  BY <1>1, <1>2, <1>3, <1>4, <1>5, <1>6, <1>7, <1>8, <1>9, <1>10 DEF Request

LEMMA NextMirrors ==
    ASSUME ~SavesMayFail, TypeOK, LoginInv, ObjectInv, Mirrored(client, file), [Next]_vars
    PROVE  Mirrored(client', file')
<1>0. LoginInv'
  BY NextHeld
<1>1. CASE UNCHANGED vars
  BY <1>1 DEF vars, memory, disk
<1>2. CASE \E c \in Slot : Connection(c) \/ Request(c)
  BY <1>0, <1>2, RequestMirrors
<1>3. CASE Shutdown \/ Crash
  BY <1>3, DieMirrors DEF Shutdown, Crash
<1>4. CASE Start
  BY <1>4 DEF Start, LoginInv, Session, Mirrored, MirroredBut
<1>5. CASE DiskFault
  BY <1>5 DEF DiskFault, memory
<1>6. QED
  BY <1>1, <1>2, <1>3, <1>4, <1>5 DEF Next, Environment

LEMMA MirrorInvariant ==
    ASSUME ~SavesMayFail
    PROVE  Spec => []Mirrored(client, file)
<1>1. Init => Mirrored(client, file)
  BY DEF Init, Mirrored, MirroredBut, NoClient
<1>2. TypeOK /\ LoginInv /\ ObjectInv /\ Mirrored(client, file) /\ [Next]_vars
        => Mirrored(client, file)'
  BY NextMirrors
<1>3. QED
  BY <1>1, <1>2, LoginInvariant, ObjectInvariant, PTL DEF Spec

\* The object of a session in mClients and its user file say the same, between
\* any two handlers and as long as user files can be saved: every handler that
\* changes a saved field of an object saves it before it returns, and none
\* writes the file of a session that another object mirrors.
THEOREM FileMirrorsSessionHolds ==
    ASSUME ~SavesMayFail
    PROVE  Spec => []FileMirrorsSession
<1>1. Mirrored(client, file) => FileMirrorsSession
  BY DEF Mirrored, MirroredBut, FileMirrorsSession, Session
<1>2. QED
  BY <1>1, MirrorInvariant, PTL
-----------------------------------------------------------------------------
(* Contacts *)

\* The contact lists in the user files are those of the sessions.
Agree(clients, files) ==
    \A s \in Slot :
        clients[s].isConnected =>
            /\ clients[s].account \in Account
            /\ files[clients[s].account].contact = clients[s].contact

KeepsContacts(before, after) == \A x \in Account : after[x].contact = before[x].contact

\* Accounts a and b become each other's contact, or stop being it.
Befriends(before, after, a, b) ==
    \A x \in Account :
        after[x].contact = before[x].contact \cup {y \in Account : {x, y} = {a, b}}
Parts(before, after, a, b) ==
    \A x \in Account :
        after[x].contact = before[x].contact \ {y \in Account : {x, y} = {a, b}}

LEMMA MirrorsAgree ==
    ASSUME NEW clients, NEW files, Mirrored(clients, files),
           \A s \in Slot : clients[s].isConnected =>
                              clients[s].listed /\ clients[s].account \in Account
    PROVE  Agree(clients, files)
<1>1. ASSUME NEW s \in Slot, clients[s].isConnected
      PROVE  files[clients[s].account].contact = clients[s].contact
  <2>1. files[clients[s].account] = Image(clients[s])
    BY <1>1 DEF Mirrored, MirroredBut
  <2>2. Image(clients[s]).contact = clients[s].contact
    BY DEF Image
  <2>3. QED
    BY <2>1, <2>2
<1>2. QED
  BY <1>1 DEF Agree

\* A logged in object is in memory, and a member of mClients if all of those are.
LEMMA SessionsListed ==
    ASSUME LoginInv, ObjectInv, \A s \in Slot : client[s].alive => client[s].listed
    PROVE  \A s \in Slot : client[s].isConnected =>
                              client[s].listed /\ client[s].account \in Account
<1>1. ~NoClient.isConnected
  BY DEF NoClient
<1>2. \A s \in Slot : client[s].isConnected => client[s].alive
  BY <1>1 DEF ObjectInv
<1>3. QED
  BY <1>2, LoginInvFacts DEF SessionsAreNamed, Session

\* The tables differ in nothing that is saved in contact lists.
SameLists(before, after) ==
    \A s \in Slot : /\ after[s].isConnected => before[s].isConnected
                    /\ after[s].account = before[s].account
                    /\ after[s].contact = before[s].contact

LEMMA SameImagesLists ==
    ASSUME NEW before, NEW after, SameImages(before, after)
    PROVE  SameLists(before, after)
<1>1. ASSUME NEW s \in Slot, SameImage(before, after, s)
      PROVE  after[s].contact = before[s].contact
  BY <1>1 DEF SameImage, Image
<1>2. QED
  BY <1>1 DEF SameImages, SameImagesBut, SameLists, SameImage

LEMMA StoreKeeps ==
    ASSUME unwritable = {}, NEW files \in Files, NEW r,
           r.account \in Account, r.contact = files[r.account].contact
    PROVE  KeepsContacts(files, Store(files, r))
BY DEF Files, Store, Image, KeepsContacts

\* Saving sessions whose lists are saved already.
LEMMA SessionStoreKeeps ==
    ASSUME unwritable = {}, NEW clients, NEW files \in Files, Agree(clients, files),
           NEW c \in Slot, NEW t \in Slot, clients[c].isConnected, clients[t].isConnected,
           clients[c] \in ClientRec
    PROVE  /\ KeepsContacts(files, Store(files, clients[c]))
           /\ KeepsContacts(files, StoreBoth(files, clients[c], clients[t]))
<1>1. KeepsContacts(files, Store(files, clients[c]))
  BY StoreKeeps DEF Agree
<1>2. Store(files, clients[c]) \in Files
  BY StoreTypes
<1>3. clients[t].account \in Account
      /\ clients[t].contact = Store(files, clients[c])[clients[t].account].contact
  BY <1>1 DEF KeepsContacts, Agree
<1>4. KeepsContacts(Store(files, clients[c]), Store(Store(files, clients[c]), clients[t]))
  BY <1>2, <1>3, StoreKeeps
<1>5. QED
  BY <1>1, <1>4 DEF StoreBoth, KeepsContacts

LEMMA ListsAgree ==
    ASSUME NEW before, NEW after, NEW files, SameLists(before, after), Agree(before, files)
    PROVE  Agree(after, files)
BY DEF SameLists, Agree

LEMMA CloseCallKeeps ==
    ASSUME unwritable = {}, NEW clients \in Clients, NEW files \in Files, Agree(clients, files),
           NEW c \in Slot, NEW a
    PROVE  KeepsContacts(files, CloseCall(clients, files, c, a).files)
<1> DEFINE t == findOnlineClient(clients, a)
           code == CloseCallError(clients, c, a)
           idle == [clients EXCEPT ![c].statusCall = "NONE", ![t].statusCall = "NONE"]
<1>1. CASE code \notin {"OK", "CANNOT_SAVE_DATA"}
  BY <1>1 DEF CloseCall, KeepsContacts
<1>2. CASE code \in {"OK", "CANNOT_SAVE_DATA"}
  <2>1. t \in Slot /\ clients[t].isConnected /\ clients[c].isConnected
    BY <1>2, FindOnline DEF CloseCallError
  <2>2. idle \in Clients /\ SameImages(clients, idle)
    BY <2>1, CallFieldTypes, CallFieldImages DEF StatusCall
  <2>3. CloseCall(clients, files, c, a).files = StoreBoth(files, idle[c], idle[t])
    BY <1>2 DEF CloseCall
  <2> HIDE DEF idle, t
  <2>4. Agree(idle, files) /\ idle[c].isConnected /\ idle[t].isConnected /\ idle[c] \in ClientRec
    BY <2>1, <2>2, SameImagesLists, ListsAgree DEF SameImages, SameImagesBut, SameImage, Clients
  <2>5. QED
    BY <2>1, <2>3, <2>4, SessionStoreKeeps
<1>3. QED
  BY <1>1, <1>2

\* No account becomes unknown.
KnownStays == \A x \in Account : mAccounts'[x] = Null => mAccounts[x] = Null

\* What a step of a running server does to the contacts in the user files.  An
\* account becomes its own contact only if itself: onAcceptAdd does not ask whose
\* invitation a client accepts.
ContactStep(itself) ==
    \/ ~up'
    \/ up /\ KnownStays /\ KeepsContacts(file, file')
    \/ up /\ mAccounts' = mAccounts
       /\ \E a, b \in Known : Befriends(file, file', a, b) /\ (a = b => itself)
    \/ up /\ mAccounts' = mAccounts /\ \E a, b \in Account : Parts(file, file', a, b)
LEMMA ConnectionContacts ==
    ASSUME TypeOK, LoginInv, Agree(client, file), NEW c \in Slot, Connection(c) \/ onHandshake(c)
    PROVE  ContactStep(FALSE)
<1> DEFINE left == [client EXCEPT ![c] = Disconnected(@)]
<1>1. client \in Clients /\ file \in Files /\ unwritable = {}
  BY DEF TypeOK, Clients, Files, LoginInv
<1>2. up /\ mAccounts' = mAccounts /\ file' \in {file, CloseConnection(c).files}
  BY DEF Connection, onNewConnection, Accepts, onSocketClosed, StrayCommand, onHandshake, Become
<1>3. \/ CloseConnection(c).files = file
      \/ client[c].isConnected /\ CloseConnection(c).files = Store(file, left[c])
  <2>1. CASE ~client[c].listed \/ ~client[c].isConnected
    BY <2>1 DEF CloseConnection
  <2>2. CASE client[c].listed /\ client[c].isConnected
    BY <2>2 DEF CloseConnection
  <2>3. QED
    BY <2>1, <2>2
<1>4. left[c].account = client[c].account /\ left[c].contact = client[c].contact
  BY <1>1 DEF Disconnected, Clients, ClientRec
<1> HIDE DEF left
<1>5. client[c].isConnected => KeepsContacts(file, Store(file, left[c]))
  BY <1>1, <1>4, StoreKeeps DEF Agree
<1>6. KeepsContacts(file, file')
  BY <1>2, <1>3, <1>5 DEF KeepsContacts
<1>7. QED
  BY <1>2, <1>6 DEF ContactStep, KnownStays

\* A registered account starts with no contacts, as it had none on disk.
LEMMA AccountContacts ==
    ASSUME TypeOK, LoginInv, Agree(client, file), NEW c \in Slot, NEW a \in Account,
           NEW password, password # Null,
           \A x \in Account : mAccounts[x] = Null => file[x].contact = {},
           \/ \E pseudo : onReg(c, a, pseudo, password)
           \/ onLog(c, a, password)
           \/ \E pseudo, status : onUpdate(c, a, pseudo, password, status)
    PROVE  ContactStep(FALSE)
<1>1. /\ client \in Clients /\ file \in Files /\ unwritable = {}
      /\ mAccounts \in [Account -> Password \cup {Null}]
  BY DEF TypeOK, Clients, Files, LoginInv
<1>2. ASSUME UNCHANGED <<memory, disk>>, up PROVE ContactStep(FALSE)
  BY <1>2 DEF memory, disk, ContactStep, KnownStays, KeepsContacts
<1>3. ASSUME up, mAccounts' \in {mAccounts, [mAccounts EXCEPT ![a] = password]}, NEW r,
             file' = Store(file, r), r.account \in Account, r.contact = file[r.account].contact
      PROVE  ContactStep(FALSE)
  BY <1>1, <1>3, StoreKeeps DEF ContactStep, KnownStays
<1>4. ASSUME NEW pseudo, onReg(c, a, pseudo, password) PROVE ContactStep(FALSE)
  <2> DEFINE fresh == [client[c] EXCEPT !.account = a, !.pseudo = pseudo,
                                        !.status = DISCONNECTED, !.statusCall = "NONE",
                                        !.contact = {}, !.isConnected = FALSE]
  <2>1. fresh.account = a /\ fresh.contact = {}
    BY <1>1 DEF Clients, ClientRec
  <2>2. CASE RegError(c, a) \in {"OK", "CANNOT_SAVE_DATA"}
    <3>1. file[a].contact = {}
      BY <2>2 DEF RegError
    <3>2. up /\ file' = Store(file, fresh)
              /\ mAccounts' \in {mAccounts, [mAccounts EXCEPT ![a] = password]}
      BY <1>4, <2>2 DEF onReg, Serves
    <3> HIDE DEF fresh
    <3>3. QED
      BY <1>3, <2>1, <3>1, <3>2
  <2>3. QED
    BY <1>2, <1>4, <2>2 DEF onReg, Serves
<1>5. CASE onLog(c, a, password)
  <2> DEFINE in == Connected(Loaded(client[c], a))
  <2>1. in.account = a /\ in.contact = file[a].contact
    BY <1>1 DEF Connected, Loaded, Clients, ClientRec
  <2>2. CASE LogError(c, a, password) \in {"OK", "CANNOT_SAVE_DATA"}
    <3>1. up /\ mAccounts' = mAccounts /\ file' = Store(file, in)
      BY <1>5, <2>2 DEF onLog, Become, Serves
    <3> HIDE DEF in
    <3>2. QED
      BY <1>3, <2>1, <3>1
  <2>3. QED
    BY <1>2, <1>5, <2>2 DEF onLog, Send, Serves
<1>6. ASSUME NEW pseudo, NEW status, onUpdate(c, a, pseudo, password, status) PROVE ContactStep(FALSE)
  <2> DEFINE clients == [client EXCEPT ![c].pseudo = pseudo, ![c].status = status]
  <2>1. clients[c].account = client[c].account /\ clients[c].contact = client[c].contact
    BY <1>1 DEF Clients, ClientRec
  <2>2. CASE UpdateError(c, a, status) = "OK"
    <3>1. up /\ client[c].isConnected /\ file' = Store(file, clients[c])
              /\ mAccounts' = [mAccounts EXCEPT ![a] = password]
      BY <1>6, <2>2 DEF onUpdate, UpdateError, Serves
    <3> HIDE DEF clients
    <3>2. QED
      BY <1>3, <2>1, <3>1 DEF Agree
  <2>3. CASE UpdateError(c, a, status) # "OK"
    <3>1. UpdateError(c, a, status) # "CANNOT_SAVE_DATA"
      BY <1>1 DEF UpdateError
    <3>2. QED
      BY <1>2, <1>6, <2>3, <3>1 DEF onUpdate, Send, Serves
  <2>4. QED
    BY <2>2, <2>3
<1>7. QED
  BY <1>4, <1>5, <1>6

LEMMA ExitContacts ==
    ASSUME TypeOK, LoginInv, Agree(client, file), NEW c \in Slot, onExit(c)
    PROVE  ContactStep(FALSE)
<1> DEFINE left(clients) == [clients EXCEPT ![c] = Disconnected(@)]
<1>1. client \in Clients /\ file \in Files /\ unwritable = {} /\ up
  BY DEF TypeOK, Clients, Files, LoginInv, onExit, Serves
<1>2. ASSUME NEW clients \in Clients, NEW files \in Files, Agree(clients, files),
             KeepsContacts(file, files), clients[c].isConnected,
             file' = Store(files, left(clients)[c]), mAccounts' = mAccounts
      PROVE  ContactStep(FALSE)
  <2>1. /\ left(clients)[c].account = clients[c].account
        /\ left(clients)[c].contact = clients[c].contact
    BY DEF Disconnected, Clients, ClientRec
  <2> DEFINE r == left(clients)[c]
  <2>2. file' = Store(files, r) /\ r.account = clients[c].account /\ r.contact = clients[c].contact
    BY <1>2, <2>1
  <2> HIDE DEF left, r
  <2>3. KeepsContacts(files, file')
    BY <1>1, <1>2, <2>2, StoreKeeps DEF Agree
  <2>4. KeepsContacts(file, file')
    BY <1>2, <2>3 DEF KeepsContacts
  <2>5. QED
    BY <1>1, <1>2, <2>4 DEF ContactStep, KnownStays
<1>3. CASE UNCHANGED <<mAccounts, file>>
  BY <1>1, <1>3 DEF ContactStep, KnownStays, KeepsContacts
<1>4. CASE /\ client[c].isConnected /\ mAccounts' = mAccounts
           /\ file' = Store(file, left(client)[c])
  BY <1>1, <1>2, <1>4 DEF KeepsContacts
<1>5. ASSUME NEW a, client[c].isConnected, mAccounts' = mAccounts,
             file' = Store(CloseCall(client, file, c, a).files,
                           left(CloseCall(client, file, c, a).clients)[c])
      PROVE  ContactStep(FALSE)
  <2> DEFINE closed == CloseCall(client, file, c, a)
  <2>1. closed.clients \in Clients /\ closed.files \in Files
    BY <1>1, CloseCallTypes
  <2>2. KeepsContacts(file, closed.files) /\ SameLists(client, closed.clients)
    BY <1>1, CloseCallKeeps, CloseCallImages, SameImagesLists
  <2>3. closed.clients[c].isConnected
    BY <1>1, <1>5, CloseCallLogins DEF SameLogins
  <2> HIDE DEF closed
  <2>4. Agree(closed.clients, closed.files)
    BY <2>2 DEF Agree, KeepsContacts, SameLists
  <2> HIDE DEF left
  <2>5. QED
    BY <1>2, <1>5, <2>1, <2>2, <2>3, <2>4 DEF closed
<1>6. CASE Die(file, accountsFile)
  BY <1>6 DEF Die, ContactStep
<1>7. QED
  BY <1>3, <1>4, <1>5, <1>6 DEF onExit, Become, Send, memory, disk

LEMMA CallContacts ==
    ASSUME TypeOK, LoginInv, Agree(client, file), NEW c \in Slot, NEW a \in Account,
           NEW accept \in BOOLEAN,
           onCall(c, a) \/ onAcceptCall(c, a, accept) \/ onCloseCall(c, a)
    PROVE  ContactStep(FALSE)
<1> DEFINE t == findOnlineClient(client, a)
           ringing == [client EXCEPT ![c].statusCall = "ISWAITING",
                                     ![t].statusCall = "ISWAITING"]
           talking == [client EXCEPT ![t].statusCall = "ISCALLING",
                                     ![c].statusCall = "ISCALLING"]
           refused == [client EXCEPT ![c].statusCall = "NONE"]
<1>1. client \in Clients /\ file \in Files /\ unwritable = {}
  BY DEF TypeOK, Clients, Files, LoginInv
<1>2. up /\ mAccounts' = mAccounts
  BY DEF onCall, onAcceptCall, onCloseCall, Serves, Become, Send, memory
<1>3. ASSUME KeepsContacts(file, file') PROVE ContactStep(FALSE)
  BY <1>2, <1>3 DEF ContactStep, KnownStays
<1>4. KeepsContacts(file, file)
  BY DEF KeepsContacts
<1>5. CASE onCloseCall(c, a)
  BY <1>1, <1>3, <1>5, CloseCallKeeps DEF onCloseCall, Become
<1>6. ASSUME NEW clients \in Clients, SameImages(client, clients), NEW s \in Slot,
             client[c].isConnected, client[s].isConnected,
             file' \in {Store(file, clients[c]), StoreBoth(file, clients[c], clients[s]),
                        StoreBoth(file, clients[s], clients[c])}
      PROVE  ContactStep(FALSE)
  <2>1. clients[c].isConnected /\ clients[s].isConnected
    BY <1>6 DEF SameImages, SameImagesBut, SameImage
  <2>2. Agree(clients, file)
    BY <1>6, SameImagesLists, ListsAgree
  <2>3. /\ KeepsContacts(file, Store(file, clients[c]))
        /\ KeepsContacts(file, StoreBoth(file, clients[c], clients[s]))
        /\ KeepsContacts(file, StoreBoth(file, clients[s], clients[c]))
    BY <1>1, <2>1, <2>2, SessionStoreKeeps DEF Clients
  <2>4. QED
    BY <1>3, <1>6, <2>3
<1>7. CASE onCall(c, a) /\ CallError(c, a) = "OK"
  <2>1. t \in Slot /\ client[c].isConnected /\ client[t].isConnected
    BY <1>7, FindOnline DEF CallError
  <2>2. ringing \in Clients /\ SameImages(client, ringing)
    BY <1>1, <2>1, CallFieldTypes, CallFieldImages DEF StatusCall
  <2>3. file' = StoreBoth(file, ringing[c], ringing[t])
    BY <1>7 DEF onCall, Become
  <2> HIDE DEF ringing, t
  <2>4. QED
    BY <1>6, <2>1, <2>2, <2>3
<1>8. CASE onAcceptCall(c, a, accept) /\ AcceptCallError(c, a) = "OK"
  <2>1. t \in Slot /\ client[c].isConnected /\ client[t].isConnected
    BY <1>8, FindOnline DEF AcceptCallError
  <2>2. talking \in Clients /\ SameImages(client, talking)
    BY <1>1, <2>1, CallFieldTypes, CallFieldImages DEF StatusCall
  <2>3. refused \in Clients
    BY <1>1 DEF Clients, ClientRec, StatusCall
  <2>4. SameImages(client, refused)
    BY <1>1, CallFieldImages
  <2>5. \/ file' = StoreBoth(file, talking[t], talking[c])
        \/ file' = Store(file, refused[c])
    BY <1>1, <1>8 DEF onAcceptCall, Become
  <2> HIDE DEF talking, refused, t
  <2>6. QED
    BY <1>6, <2>1, <2>2, <2>3, <2>4, <2>5
<1>9. CASE UNCHANGED file
  BY <1>3, <1>4, <1>9
<1>10. QED
  BY <1>5, <1>7, <1>8, <1>9 DEF onCall, onAcceptCall, Send, disk
\* Setting the contacts of one object.
LEMMA ContactField ==
    ASSUME NEW clients \in Clients, NEW c \in Slot, NEW contact
    PROVE  /\ [clients EXCEPT ![c].contact = contact][c].contact = contact
           /\ [clients EXCEPT ![c].contact = contact][c].account = clients[c].account
           /\ \A s \in Slot \ {c} : [clients EXCEPT ![c].contact = contact][s] = clients[s]
BY DEF Clients, ClientRec

\* Accepting an invitation writes both lists before it answers.
LEMMA AcceptAddContacts ==
    ASSUME TypeOK, LoginInv, Agree(client, file), NEW c \in Slot, NEW a \in Account,
           NEW accept \in BOOLEAN, onAcceptAdd(c, a, accept)
    PROVE  ContactStep(client[c].account = a)
<1> DEFINE me == client[c].account
           t == findOnlineClient(client, a)
           added == [client EXCEPT ![t].contact = @ \cup {me}]
           clients == [added EXCEPT ![c].contact = @ \cup {a}]
<1>1. client \in Clients /\ file \in Files /\ unwritable = {} /\ up
  BY DEF TypeOK, Clients, Files, LoginInv, onAcceptAdd, Serves
<1>2. CASE UNCHANGED <<mAccounts, file>>
  BY <1>1, <1>2 DEF ContactStep, KnownStays, KeepsContacts
<1>3. CASE AcceptAddError(c, a) = "OK" /\ accept
  <2>1. t \in Slot /\ client[t].isConnected /\ client[c].isConnected /\ client[t].account = a
    BY <1>3, FindOnline DEF AcceptAddError
  <2>2. me \in Known /\ a \in Known /\ (me = a => t = c)
    BY <2>1 DEF Known, LoginInv, SessionHoldsFile, NoDoubleLogin, Session
  <2>3. file[me].contact = client[c].contact /\ file[a].contact = client[t].contact
    BY <2>1 DEF Agree
  <2>4. \/ /\ file' = StoreBoth(file, clients[c], clients[t])
           /\ mAccounts' = mAccounts
        \/ ~up'
    BY <1>3 DEF onAcceptAdd, Become, Die, clients, t, me, added
  <2> HIDE DEF t, me
  <2>5. /\ added \in Clients
        /\ added[t].contact = client[t].contact \cup {me} /\ added[t].account = a
        /\ \A s \in Slot \ {t} : added[s] = client[s]
    <3>1. client[t].contact \cup {me} \in SUBSET Account
      BY <1>1, <2>1, <2>2 DEF Clients, ClientRec, Known
    <3>2. QED
      BY <1>1, <2>1, <3>1, ContactSet, ContactField
  <2> HIDE DEF added
  <2>6. /\ clients[c].contact = added[c].contact \cup {a} /\ clients[c].account = added[c].account
        /\ \A s \in Slot \ {c} : clients[s] = added[s]
    BY <2>5, ContactField
  <2> HIDE DEF clients
  <2>7. clients[c].account = me /\ clients[t].account = a
    BY <2>1, <2>5, <2>6 DEF me
  <2>8. /\ t # c => /\ clients[c].contact = file[me].contact \cup {a}
                    /\ clients[t].contact = file[a].contact \cup {me}
        /\ t = c => clients[c].contact = file[a].contact \cup {a} /\ me = a
    BY <2>1, <2>3, <2>5, <2>6, <2>7
  <2>9. StoreBoth(file, clients[c], clients[t])
          = [[file EXCEPT ![me] = Image(clients[c])] EXCEPT ![a] = Image(clients[t])]
    BY <1>1, <2>7 DEF StoreBoth, Store
  <2>10. Image(clients[c]).contact = clients[c].contact /\ Image(clients[t]).contact = clients[t].contact
    BY DEF Image
  <2> DEFINE files == StoreBoth(file, clients[c], clients[t])
  <2>11. /\ t # c => /\ files[me].contact = file[me].contact \cup {a}
                     /\ files[a].contact = file[a].contact \cup {me}
         /\ t = c => files[a].contact = file[a].contact \cup {a}
         /\ \A x \in Account \ {me, a} : files[x] = file[x]
    BY <1>1, <2>2, <2>8, <2>9, <2>10 DEF Files, Known
  <2> HIDE DEF files
  <2>12. me # a \/ t = c
    BY <2>2
  <2>13. Befriends(file, files, me, a)
    <3>1. SUFFICES ASSUME NEW x \in Account
                   PROVE  files[x].contact = file[x].contact \cup {y \in Account : {x, y} = {me, a}}
      BY DEF Befriends
    <3>2. CASE x \notin {me, a}
      BY <2>11, <3>2
    <3>3. CASE x = me /\ x # a
      <4>1. {y \in Account : {x, y} = {me, a}} = {a}
        BY <3>3
      <4>2. t # c
        BY <2>8, <3>3
      <4>3. QED
        BY <2>11, <3>3, <4>1, <4>2
    <3>4. CASE x = a /\ x # me
      <4>1. {y \in Account : {x, y} = {me, a}} = {me}
        BY <2>2, <3>4 DEF Known
      <4>2. t # c
        BY <2>8, <3>4
      <4>3. QED
        BY <2>11, <3>4, <4>1, <4>2
    <3>5. CASE x = a /\ x = me
      <4>1. {y \in Account : {x, y} = {me, a}} = {a}
        BY <3>5
      <4>2. t = c
        BY <2>12, <3>5
      <4>3. QED
        BY <2>11, <3>5, <4>1, <4>2
    <3>6. QED
      BY <3>2, <3>3, <3>4, <3>5
  <2>14. QED
    BY <1>1, <2>2, <2>4, <2>13 DEF ContactStep, files, me
<1>4. QED
  BY <1>2, <1>3 DEF onAcceptAdd, Send, memory, disk
\* A deletion takes each of the two out of the other's list, also when the other
\* is offline and only its file can be changed.
LEMMA DelContacts ==
    ASSUME TypeOK, LoginInv, Agree(client, file), NEW c \in Slot, NEW a \in Account, onDel(c, a)
    PROVE  ContactStep(FALSE)
<1> DEFINE me == client[c].account
           t == findOnlineClient(client, a)
           mine == [client EXCEPT ![c].contact = @ \ {a}]
           both == [mine EXCEPT ![t].contact = @ \ {me}]
           theirs == [file[a] EXCEPT !.contact = @ \ {me}]
           fileMine == Store(file, mine[c])
           fileBoth == Store(fileMine, both[t])
           closed == CloseCall(both, fileBoth, c, a)
<1>1. client \in Clients /\ file \in Files /\ unwritable = {} /\ up
  BY DEF TypeOK, Clients, Files, LoginInv, onDel, Serves
<1>2. CASE UNCHANGED <<mAccounts, file>>
  BY <1>1, <1>2 DEF ContactStep, KnownStays, KeepsContacts
<1>3. ASSUME NEW x \in Account, NEW y \in Account
      PROVE  /\ x # y => {z \in Account : {x, z} = {x, y}} = {y}
             /\ x # y => {z \in Account : {x, z} = {y, x}} = {y}
             /\ {z \in Account : {x, z} = {x, x}} = {x}
  OBVIOUS
<1>4. ASSUME NEW files, me \in Account,
             \A x \in Account \ {me, a} : files[x].contact = file[x].contact,
             files[me].contact = file[me].contact \ {a},
             files[a].contact = file[a].contact \ {me}
      PROVE  Parts(file, files, me, a)
  <2> HIDE DEF me
  <2>1. SUFFICES ASSUME NEW x \in Account
                 PROVE  files[x].contact = file[x].contact \ {y \in Account : {x, y} = {me, a}}
    BY DEF Parts
  <2>2. CASE x \notin {me, a}
    BY <1>4, <2>2
  <2>3. CASE x = me /\ x # a
    BY <1>3, <1>4, <2>3
  <2>4. CASE x = a /\ x # me
    BY <1>3, <1>4, <2>4
  <2>5. CASE x = a /\ x = me
    BY <1>3, <1>4, <2>5
  <2>6. QED
    BY <2>2, <2>3, <2>4, <2>5
<1>5. CASE DelError(c, a) = "OK"
  <2>1. client[c].isConnected
    BY <1>5 DEF DelError
  <2>2. me \in Account /\ file[me].contact = client[c].contact
    BY <2>1 DEF Agree
  <2>3. /\ mine \in Clients /\ SameLogins(client, mine)
        /\ mine[c].contact = client[c].contact \ {a} /\ mine[c].account = me
        /\ \A s \in Slot \ {c} : mine[s] = client[s]
    <3>1. client[c].contact \ {a} \in SUBSET Account
      BY <1>1 DEF Clients, ClientRec
    <3>2. QED
      BY <1>1, <3>1, ContactSet, ContactField
  <2> HIDE DEF mine
  <2>4. fileMine = [file EXCEPT ![me] = Image(mine[c])] /\ fileMine \in Files
    BY <1>1, <2>3, StoreTypes DEF Store, Clients
  <2>5. Image(mine[c]).contact = file[me].contact \ {a}
    BY <2>2, <2>3 DEF Image
  <2>6. /\ fileMine[me].contact = file[me].contact \ {a}
        /\ \A x \in Account \ {me} : fileMine[x] = file[x]
    BY <1>1, <2>2, <2>4, <2>5 DEF Files
  <2> HIDE DEF fileMine
  <2>7. CASE t = Null
    <3>1. \/ file' = [fileMine EXCEPT ![a] = theirs] /\ mAccounts' = mAccounts
          \/ ~up'
      BY <1>1, <1>5, <2>7 DEF onDel, Become, Die, t, me, mine, theirs, fileMine
    <3>2. theirs.contact = file[a].contact \ {me}
      BY <1>1 DEF Files, FileRec
    <3> HIDE DEF theirs, me
    <3>3. Parts(file, [fileMine EXCEPT ![a] = theirs], me, a)
      <4> DEFINE files == [fileMine EXCEPT ![a] = theirs]
      <4>1. /\ files[a].contact = file[a].contact \ {me}
            /\ \A x \in Account \ {a} : files[x] = fileMine[x]
        BY <2>4, <3>2 DEF Files
      <4> HIDE DEF files
      <4>2. QED
        BY <1>4, <2>2, <2>6, <4>1 DEF files
    <3>4. QED
      BY <1>1, <2>2, <3>1, <3>3 DEF ContactStep
  <2>8. CASE t # Null
    <3>1. t \in Slot /\ client[t].isConnected /\ client[t].account = a
      BY <2>8, FindOnline
    <3>2. me = a => t = c
      BY <2>1, <3>1 DEF LoginInv, NoDoubleLogin, Session
    <3>3. client[t].contact = file[a].contact
      BY <3>1 DEF Agree
    <3>4. /\ both \in Clients /\ SameLogins(mine, both)
          /\ both[t].contact = mine[t].contact \ {me} /\ both[t].account = mine[t].account
          /\ \A s \in Slot \ {t} : both[s] = mine[s]
      <4>1. mine[t].contact \ {me} \in SUBSET Account
        BY <2>3, <3>1 DEF Clients, ClientRec
      <4> HIDE DEF t, me
      <4>2. QED
        BY <2>3, <3>1, <4>1, ContactSet, ContactField
    <3> HIDE DEF both, t
    <3>5. both[t].account = a
      BY <2>3, <3>1, <3>4 DEF SameLogins
    <3>6. fileBoth = [fileMine EXCEPT ![a] = Image(both[t])] /\ fileBoth \in Files
      BY <1>1, <2>4, <3>1, <3>4, <3>5, StoreTypes DEF Store, Clients
    <3>7. Image(both[t]).contact = both[t].contact
      BY DEF Image
    <3>8. /\ fileBoth[a].contact = both[t].contact
          /\ \A x \in Account \ {a} : fileBoth[x] = fileMine[x]
      BY <2>4, <3>6, <3>7 DEF Files
    <3> HIDE DEF fileBoth
    <3>9. both[t].contact = file[a].contact \ {me}
      BY <2>2, <2>3, <3>1, <3>3, <3>4
    <3>10. Parts(file, fileBoth, me, a)
      <4>1. me = a => fileBoth[me].contact = file[me].contact \ {a}
        BY <3>8, <3>9
      <4>2. me # a => fileBoth[me].contact = file[me].contact \ {a}
        BY <2>2, <2>6, <3>8
      <4> HIDE DEF me
      <4>3. QED
        BY <1>4, <2>2, <2>6, <3>8, <3>9, <4>1, <4>2
    <3>11. Agree(both, fileBoth)
      <4>1. ASSUME NEW s \in Slot, both[s].isConnected
            PROVE  both[s].account \in Account /\ fileBoth[both[s].account].contact = both[s].contact
        <5>1. client[s].isConnected /\ both[s].account = client[s].account
          BY <2>3, <3>4, <4>1 DEF SameLogins
        <5>2. client[s].account \in Account /\ file[client[s].account].contact = client[s].contact
          BY <5>1 DEF Agree
        <5>3. CASE s = t
          BY <3>5, <3>8, <5>3
        <5>4. CASE s # t /\ s = c
          <6>1. me # a
            BY <2>1, <3>1, <5>4 DEF LoginInv, NoDoubleLogin, Session
          <6>2. both[c] = mine[c]
            BY <3>4, <5>4
          <6>3. fileBoth[me] = fileMine[me]
            BY <2>2, <3>8, <6>1
          <6>4. QED
            BY <2>2, <2>3, <2>6, <5>4, <6>2, <6>3
        <5>5. CASE s # t /\ s # c
          <6>1. client[s].account # a /\ client[s].account # me
            BY <2>1, <3>1, <5>1, <5>5 DEF LoginInv, NoDoubleLogin, Session
          <6>2. both[s] = client[s]
            BY <2>3, <3>4, <5>5
          <6>3. QED
            BY <2>6, <3>8, <5>2, <6>1, <6>2
        <5>6. QED
          BY <5>3, <5>4, <5>5
      <4>2. QED
        BY <4>1 DEF Agree
    <3>12. KeepsContacts(fileBoth, closed.files)
      BY <1>1, <3>4, <3>6, <3>11, CloseCallKeeps
    <3> HIDE DEF closed
    <3>13. Parts(file, closed.files, me, a)
      BY <3>10, <3>12 DEF Parts, KeepsContacts
    <3>14. \/ file' = fileBoth /\ mAccounts' = mAccounts
           \/ file' = closed.files /\ mAccounts' = mAccounts
           \/ ~up'
      BY <1>1, <1>5, <2>8 DEF onDel, Become, Die, t, me, mine, both, fileMine, fileBoth, closed
    <3>15. QED
      BY <1>1, <2>2, <3>10, <3>13, <3>14 DEF ContactStep
  <2>9. QED
    BY <2>7, <2>8
<1>6. QED
  BY <1>2, <1>5 DEF onDel, Send, memory, disk
\* An account that is not registered has no contacts on disk.
UnknownAlone == up => \A a \in Account : mAccounts[a] = Null => file[a].contact = {}

\* No account is its own contact.
NoOwnContact == up => \A a \in Account : a \notin file[a].contact

\* What a client's connection and requests do, but for its answers to invitations.
OtherSteps(c) ==
    \/ Connection(c) \/ onHandshake(c) \/ onExit(c) \/ onList(c)
    \/ \E a \in Account :
          \/ \E pseudo \in Pseudo, password \in Password : onReg(c, a, pseudo, password)
          \/ \E password \in Password : onLog(c, a, password)
          \/ \E pseudo \in Pseudo, password \in Password, status \in StatusByte :
                onUpdate(c, a, pseudo, password, status)
          \/ onShow(c, a) \/ onAdd(c, a) \/ onDel(c, a) \/ onSend(c, a)
          \/ onCall(c, a) \/ onCloseCall(c, a)
          \/ \E accept \in BOOLEAN : onAcceptCall(c, a, accept)

LEMMA OtherContacts ==
    ASSUME TypeOK, LoginInv, Agree(client, file), UnknownAlone, NEW c \in Slot, OtherSteps(c)
    PROVE  ContactStep(FALSE)
<1>1. up => \A x \in Account : mAccounts[x] = Null => file[x].contact = {}
  BY DEF UnknownAlone
<1>2. ASSUME UNCHANGED <<memory, disk>>, up PROVE ContactStep(FALSE)
  BY <1>2 DEF memory, disk, ContactStep, KnownStays, KeepsContacts
<1>3. CASE Connection(c) \/ onHandshake(c)
  BY <1>3, ConnectionContacts
<1>4. CASE onExit(c)
  BY <1>4, ExitContacts
<1>5. CASE onList(c)
  BY <1>2, <1>5 DEF onList, Send, Serves
<1>6. ASSUME NEW a \in Account, NEW password \in Password,
             \/ \E pseudo \in Pseudo : onReg(c, a, pseudo, password)
             \/ onLog(c, a, password)
             \/ \E pseudo \in Pseudo, status \in StatusByte :
                   onUpdate(c, a, pseudo, password, status)
      PROVE  ContactStep(FALSE)
  <2>1. up
    BY <1>6 DEF onReg, onLog, onUpdate, Serves
  <2>2. password # Null
    BY NullAssumption
  <2>3. \/ \E pseudo : onReg(c, a, pseudo, password)
        \/ onLog(c, a, password)
        \/ \E pseudo, status : onUpdate(c, a, pseudo, password, status)
    BY <1>6
  <2>4. \A x \in Account : mAccounts[x] = Null => file[x].contact = {}
    BY <1>1, <2>1
  <2>5. QED
    BY <2>2, <2>3, <2>4, AccountContacts
<1>7. ASSUME NEW a \in Account, onShow(c, a) \/ onAdd(c, a) \/ onSend(c, a)
      PROVE  ContactStep(FALSE)
  BY <1>2, <1>7 DEF onShow, onAdd, onSend, Send, Serves
<1>8. ASSUME NEW a \in Account, NEW accept \in BOOLEAN,
             onCall(c, a) \/ onAcceptCall(c, a, accept) \/ onCloseCall(c, a)
      PROVE  ContactStep(FALSE)
  BY <1>8, CallContacts
<1>9. ASSUME NEW a \in Account, onDel(c, a)
      PROVE  ContactStep(FALSE)
  BY <1>9, DelContacts
<1>10. QED
  BY <1>3, <1>4, <1>5, <1>6, <1>7, <1>8, <1>9 DEF OtherSteps

LEMMA NextContacts ==
    ASSUME TypeOK, LoginInv, Agree(client, file), UnknownAlone,
           NEW c \in Slot, Connection(c) \/ Request(c)
    PROVE  ContactStep(TRUE)
<1>1. OtherSteps(c) \/ \E a \in Account, accept \in BOOLEAN : onAcceptAdd(c, a, accept)
  BY DEF Request, OtherSteps
<1>2. \A itself \in BOOLEAN : ContactStep(itself) => ContactStep(TRUE)
  BY DEF ContactStep
<1>3. QED
  BY <1>1, <1>2, OtherContacts, AcceptAddContacts

\* Such steps keep the lists symmetric, and without their owners.
LEMMA ContactsKept ==
    ASSUME NEW itself, ContactStep(itself), UnknownAlone, ContactsSymmetric
    PROVE  UnknownAlone' /\ ContactsSymmetric' /\ (NoOwnContact /\ ~itself => NoOwnContact')
<1>1. CASE ~up'
  BY <1>1 DEF UnknownAlone, ContactsSymmetric, NoOwnContact
<1>2. CASE up /\ KnownStays /\ KeepsContacts(file, file')
  BY <1>2 DEF UnknownAlone, ContactsSymmetric, NoOwnContact, KnownStays, KeepsContacts
<1>3. ASSUME up, mAccounts' = mAccounts, NEW a \in Known, NEW b \in Known,
             Befriends(file, file', a, b), a = b => itself
      PROVE  UnknownAlone' /\ ContactsSymmetric' /\ (NoOwnContact /\ ~itself => NoOwnContact')
  <2>1. ASSUME NEW x \in Account, mAccounts[x] = Null PROVE file'[x].contact = {}
    <3>1. {y \in Account : {x, y} = {a, b}} = {}
      BY <2>1 DEF Known
    <3>2. QED
      BY <1>3, <2>1, <3>1 DEF Befriends, UnknownAlone
  <2>2. ASSUME NEW x \in Account, NEW y \in Account, y \in file'[x].contact
        PROVE  x \in file'[y].contact
    BY <1>3, <2>2 DEF Befriends, ContactsSymmetric
  <2>3. ASSUME NoOwnContact, a # b, NEW x \in Account
        PROVE  x \notin file'[x].contact
    <3>1. {x, x} # {a, b}
      BY <2>3
    <3>2. QED
      BY <1>3, <2>3, <3>1 DEF Befriends, NoOwnContact
  <2>4. QED
    BY <1>3, <2>1, <2>2, <2>3 DEF UnknownAlone, ContactsSymmetric, NoOwnContact
<1>4. ASSUME up, mAccounts' = mAccounts, NEW a \in Account, NEW b \in Account,
             Parts(file, file', a, b)
      PROVE  UnknownAlone' /\ ContactsSymmetric' /\ (NoOwnContact => NoOwnContact')
  <2>1. ASSUME NEW x \in Account, mAccounts[x] = Null PROVE file'[x].contact = {}
    BY <1>4, <2>1 DEF Parts, UnknownAlone
  <2>2. ASSUME NEW x \in Account, NEW y \in Account, y \in file'[x].contact
        PROVE  x \in file'[y].contact
    BY <1>4, <2>2 DEF Parts, ContactsSymmetric
  <2>3. NoOwnContact => NoOwnContact'
    BY <1>4 DEF Parts, NoOwnContact
  <2>4. QED
    BY <1>4, <2>1, <2>2, <2>3 DEF UnknownAlone, ContactsSymmetric
<1>5. QED
  BY <1>1, <1>2, <1>3, <1>4 DEF ContactStep

\* Without stops the accounts are never exported.
ContactInv == (\A a \in Account : accountsFile[a] = Null) /\ UnknownAlone

\* Only a shutdown exports the accounts.
LEMMA NoExport ==
    ASSUME NEW c \in Slot, Connection(c) \/ Request(c)
    PROVE  accountsFile' = accountsFile
<1>1. CASE Connection(c) \/ onHandshake(c)
  BY <1>1 DEF Connection, onNewConnection, onSocketClosed, StrayCommand, onHandshake, Become
<1>2. CASE onExit(c) \/ onList(c)
  BY <1>2 DEF onExit, onList, Become, Send, Die, disk
<1>3. ASSUME NEW a, NEW pseudo, NEW password, NEW status,
             \/ onReg(c, a, pseudo, password) \/ onLog(c, a, password)
             \/ onUpdate(c, a, pseudo, password, status)
      PROVE  accountsFile' = accountsFile
  BY <1>3 DEF onReg, onLog, onUpdate, Become, Send, disk
<1>4. ASSUME NEW a, onShow(c, a) \/ onAdd(c, a) \/ onDel(c, a) \/ onSend(c, a)
      PROVE  accountsFile' = accountsFile
  BY <1>4 DEF onShow, onAdd, onDel, onSend, Become, Send, Die, disk
<1>5. ASSUME NEW a, NEW accept,
             \/ onCall(c, a) \/ onCloseCall(c, a)
             \/ onAcceptAdd(c, a, accept) \/ onAcceptCall(c, a, accept)
      PROVE  accountsFile' = accountsFile
  BY <1>5 DEF onCall, onCloseCall, onAcceptAdd, onAcceptCall, Become, Send, Die, disk
<1>6. QED
  BY <1>1, <1>2, <1>3, <1>4, <1>5 DEF Request

LEMMA NextContactInv ==
    ASSUME ~ServerMayStop, TypeOK, LoginInv, Agree(client, file),
           ContactInv, ContactsSymmetric, [Next]_vars
    PROVE  ContactInv' /\ ContactsSymmetric'
<1>1. CASE UNCHANGED vars
  BY <1>1 DEF vars, memory, disk, ContactInv, UnknownAlone, ContactsSymmetric
<1>2. CASE \E c \in Slot : Connection(c) \/ Request(c)
  <2>1. accountsFile' = accountsFile
    BY <1>2, NoExport
  <2>2. UnknownAlone' /\ ContactsSymmetric'
    BY <1>2, NextContacts, ContactsKept DEF ContactInv
  <2>3. QED
    BY <2>1, <2>2 DEF ContactInv
<1>3. CASE Shutdown \/ Crash \/ DiskFault
  <2>1. UNCHANGED <<up, mAccounts, file, accountsFile>>
    BY <1>3 DEF Shutdown, Crash, DiskFault, memory
  <2>2. QED
    BY <2>1 DEF ContactInv, UnknownAlone, ContactsSymmetric
<1>4. CASE Start
  <2>1. \A a \in Account : accountsFile'[a] = Null /\ file'[a] = NoFile
    BY <1>4 DEF Start, CleanedFile, ContactInv
  <2>2. QED
    BY <2>1 DEF ContactInv, UnknownAlone, ContactsSymmetric, NoFile
<1>5. QED
  BY <1>1, <1>2, <1>3, <1>4 DEF Next, Environment

\* Two accounts are in each other's lists on disk or in neither, although
\* handlers judge friendship from one list only and change the files one after
\* the other, as long as saves succeed, clients shake hands first and the
\* process is not killed between two saves.
THEOREM ContactsSymmetricHolds ==
    ASSUME ~SavesMayFail, ~StrayCommands, ~ServerMayStop
    PROVE  Spec => []ContactsSymmetric
<1> DEFINE Inv == ContactInv /\ ContactsSymmetric
<1>1. Init => Inv
  BY DEF Init, ContactInv, UnknownAlone, ContactsSymmetric, NoFile
<1>2. TypeOK /\ LoginInv /\ ObjectInv /\ Mirrored(client, file) /\ Inv /\ [Next]_vars
      => Inv'
  <2>1. ObjectInv => \A s \in Slot : client[s].alive => client[s].listed
    BY DEF ObjectInv
  <2>2. QED
    BY <2>1, SessionsListed, MirrorsAgree, NextContactInv
<1>3. QED
  BY <1>1, <1>2, LoginInvariant, ObjectInvariant, MirrorInvariant, PTL DEF Spec
-----------------------------------------------------------------------------
(* What is acknowledged *)

\* An answer OK, and what it says of the user files.
Ok(m) == m.cmd = "ERR" /\ m.code = "OK"
Saved(m) ==
    LET before == client[m.to]
        after == client'[m.to]
        saved == file'[after.account]
    IN  /\ m.instruction = "REG" => saved.state = "good"
        /\ m.instruction = "LOG" => saved.isConnected
        /\ m.instruction = "UPDATE" =>
              <<saved.pseudo, saved.status>> = <<after.pseudo, after.status>>
        /\ m.instruction = "ACCEPT_ADD" =>
              \A b \in after.contact \ before.contact :
                  b \in saved.contact /\ after.account \in file'[b].contact
        /\ m.instruction = "DEL" =>
              \A b \in before.contact \ after.contact :
                  b \notin saved.contact /\ after.account \notin file'[b].contact

\* The answers OK among messages, but for instructions that save nothing or
\* promise nothing, are those in told.
Durable == {"REG", "LOG", "UPDATE", "ACCEPT_ADD", "DEL"}
Claims(messages, told) == \A m \in messages : Ok(m) /\ m.instruction \in Durable => m \in told

LEMMA ClaimsOfErr ==
    ASSUME NEW c, NEW instruction, NEW code
    PROVE  /\ Claims({Err(c, instruction, code)}, {Err(c, instruction, code)})
           /\ code # "OK" \/ instruction \notin Durable => Claims({Err(c, instruction, code)}, {})
BY DEF Claims, Ok, Err

LEMMA ClaimsUnion ==
    ASSUME NEW first, NEW second, NEW told, Claims(first, told),
           Claims(second, told) \/ Claims(second, {})
    PROVE  Claims(first \cup second, told)
BY DEF Claims

LEMMA ClaimsOfTell ==
    ASSUME NEW c, NEW a, NEW accept, NEW command \in {"HANDSHAKE", "ADD", "CALL", "CLOSE_CALL", "DEL", "SEND"}
    PROVE  Claims({}, {}) /\ Claims({Tell(c, command, a)}, {}) /\ Claims({Answered(c, a, accept)}, {})
BY DEF Claims, Ok, Tell, Answered

LEMMA ClaimsOfReplies ==
    ASSUME NEW clients, NEW files, NEW c, NEW a
    PROVE  /\ Claims(notifyMyFriendsOfModificationAboutMe(clients, c), {})
           /\ Claims(ShowReply(clients, files, c, a), {})
           /\ Claims(ListReply(clients, files, c), {})
           /\ Claims(CloseCall(clients, files, c, a).sent, {})
           /\ Claims(CloseConnection(c).sent, {})
<1>1. \A x, b, p, s, i : ~Ok(Show(x, b, p, s, i))
  BY DEF Ok, Show
<1>2. ASSUME NEW t PROVE Claims(notifyMyFriendsOfModificationAboutMe(t, c), {})
  BY <1>1 DEF notifyMyFriendsOfModificationAboutMe, Claims
<1>3. ASSUME NEW b PROVE Claims(ShowReply(clients, files, c, b), {})
  BY <1>1 DEF ShowReply, Claims, Err, Durable
<1>4. Claims(ListReply(clients, files, c), {})
  BY <1>3 DEF ListReply, Claims
<1>5. Claims(CloseCall(clients, files, c, a).sent, {})
  <2> DEFINE answer(code) == Err(c, "CLOSE_CALL", code)
             told == {Tell(findOnlineClient(clients, a), "CLOSE_CALL", clients[c].account),
                      Tell(c, "CLOSE_CALL", clients[findOnlineClient(clients, a)].account)}
  <2>1. \A code : Claims({answer(code)}, {})
    BY DEF Claims, Err, Durable
  <2>2. Claims(told, {})
    BY DEF Claims, Ok, Tell
  <2>3. \/ \E code : CloseCall(clients, files, c, a).sent = {answer(code)}
        \/ CloseCall(clients, files, c, a).sent = {answer("OK")} \cup told
    BY DEF CloseCall
  <2> HIDE DEF answer, told
  <2>4. QED
    BY <2>1, <2>2, <2>3 DEF Claims
<1>6. Claims(CloseConnection(c).sent, {})
  <2>1. CloseConnection(c).sent = {}
          \/ \E t : CloseConnection(c).sent = notifyMyFriendsOfModificationAboutMe(t, c)
    BY DEF CloseConnection
  <2>2. QED
    BY <1>2, <2>1 DEF Claims
<1>7. QED
  BY <1>2, <1>3, <1>4, <1>5, <1>6

\* The other handlers acknowledge nothing that has to be on disk.
LEMMA OtherClaims ==
    ASSUME NEW c \in Slot, NEW a, NEW accept,
           \/ Connection(c) \/ onHandshake(c) \/ onExit(c) \/ onList(c)
           \/ onShow(c, a) \/ onAdd(c, a) \/ onSend(c, a)
           \/ onCall(c, a) \/ onAcceptCall(c, a, accept) \/ onCloseCall(c, a)
    PROVE  Claims(sent', {})
<1>1. \A i, code : i \notin Durable => Claims({Err(c, i, code)}, {})
  BY ClaimsOfErr
<1>2. CASE Connection(c) \/ onHandshake(c)
  <2>1. sent' = {} \/ sent' = {Tell(c, "HANDSHAKE", Null)} \/ sent' = CloseConnection(c).sent
    BY <1>2 DEF Connection, onNewConnection, onSocketClosed, StrayCommand, onHandshake, Become
  <2>2. Claims({}, {}) /\ Claims({Tell(c, "HANDSHAKE", Null)}, {})
    BY ClaimsOfTell
  <2>3. QED
    BY <2>1, <2>2, ClaimsOfReplies
<1>3. CASE onExit(c)
  <2>1. \/ sent' = {Err(c, "EXIT", "YOU_ARE_NOT_LOGGED")} \/ sent' = {}
        \/ \E clients : sent' = {Err(c, "EXIT", "OK")} \cup {}
                                  \cup notifyMyFriendsOfModificationAboutMe(clients, c)
        \/ \E clients, b : sent' = {Err(c, "EXIT", "OK")} \cup CloseCall(client, file, c, b).sent
                                     \cup notifyMyFriendsOfModificationAboutMe(clients, c)
    BY <1>3 DEF onExit, Become, Send, Die
  <2>2. \A code : Claims({Err(c, "EXIT", code)}, {})
    BY <1>1 DEF Durable
  <2>3. /\ \A b : Claims(CloseCall(client, file, c, b).sent, {})
        /\ \A clients : Claims(notifyMyFriendsOfModificationAboutMe(clients, c), {})
    BY ClaimsOfReplies
  <2>4. \A m \in sent' : \/ \E code : m \in {Err(c, "EXIT", code)}
                         \/ \E b : m \in CloseCall(client, file, c, b).sent
                         \/ \E clients : m \in notifyMyFriendsOfModificationAboutMe(clients, c)
    BY <2>1
  <2> HIDE DEF Ok, Err
  <2>5. QED
    BY <2>2, <2>3, <2>4 DEF Claims
<1>4. CASE onList(c) \/ onShow(c, a)
  <2>1. \/ sent' = {Err(c, "LIST", "YOU_ARE_NOT_LOGGED")}
        \/ sent' = {Err(c, "SHOW", "YOU_ARE_NOT_LOGGED")}
        \/ sent' = ListReply(client, file, c) \/ sent' = ShowReply(client, file, c, a)
    BY <1>4 DEF onList, onShow, Send
  <2>2. QED
    BY <2>1, ClaimsOfErr, ClaimsOfReplies
<1>5. CASE onAdd(c, a) \/ onSend(c, a)
  <2>1. \E i \in {"ADD", "SEND"} : \E T, code :
           sent' = {Err(c, i, code)} \cup {Tell(t, i, client[c].account) : t \in T}
    BY <1>5 DEF onAdd, onSend, Send
  <2>2. QED
    BY <2>1 DEF Claims, Ok, Err, Tell, Durable
<1>6. CASE onCall(c, a)
  <2>1. \E code, t, b : sent' \in {{Err(c, "CALL", code)}, {Err(c, "CALL", code), Tell(t, "CALL", b)}}
    BY <1>6 DEF onCall, Become, Send
  <2>2. QED
    BY <2>1 DEF Claims, Ok, Err, Tell, Durable
<1>7. CASE onAcceptCall(c, a, accept)
  <2>1. \E code, t, b : sent' \subseteq {Err(c, "ACCEPT_CALL", code), Answered(t, b, accept),
                                         Answered(c, a, accept)}
    BY <1>7 DEF onAcceptCall, Become, Send
  <2>2. QED
    BY <2>1 DEF Claims, Ok, Err, Answered, Durable
<1>8. CASE onCloseCall(c, a)
  BY <1>8, ClaimsOfReplies DEF onCloseCall, Become
<1>9. QED
  BY <1>2, <1>3, <1>4, <1>5, <1>6, <1>7, <1>8
LEMMA ClaimsSuffice ==
    ASSUME NEW told, Claims(sent', told), \A m \in told : m \in sent' => Saved(m)
    PROVE  \A m \in sent' : Ok(m) => Saved(m)
<1>1. \A m : m.instruction \notin Durable => Saved(m)
  BY DEF Saved, Durable
<1>2. QED
  BY <1>1 DEF Claims

LEMMA AccountSaved ==
    ASSUME TypeOK, NEW c \in Slot, NEW a \in Account, NEW password,
           \/ \E pseudo : onReg(c, a, pseudo, password)
           \/ onLog(c, a, password)
           \/ \E pseudo, status : onUpdate(c, a, pseudo, password, status)
    PROVE  \A m \in sent' : Ok(m) => Saved(m)
<1>1. client \in Clients /\ file \in Files
  BY DEF TypeOK, Clients, Files
<1>2. ASSUME NEW i \in {"REG", "LOG", "UPDATE"}, NEW code, code # "OK", sent' = {Err(c, i, code)}
      PROVE  \A m \in sent' : Ok(m) => Saved(m)
  BY <1>2 DEF Ok, Err
<1>3. ASSUME NEW r, a \notin unwritable, r.account = a,
             client' = [client EXCEPT ![c] = r], file' = Store(file, r)
      PROVE  client'[c].account = a /\ client'[c] = r /\ file'[a] = Image(r)
  BY <1>1, <1>3 DEF Store, Files, Clients
<1>4. ASSUME NEW pseudo, onReg(c, a, pseudo, password) PROVE \A m \in sent' : Ok(m) => Saved(m)
  <2> DEFINE fresh == [client[c] EXCEPT !.account = a, !.pseudo = pseudo,
                                        !.status = DISCONNECTED, !.statusCall = "NONE",
                                        !.contact = {}, !.isConnected = FALSE]
  <2>1. CASE RegError(c, a) # "OK"
    BY <1>2, <1>4, <2>1 DEF onReg
  <2>2. CASE RegError(c, a) = "OK"
    <3>1. /\ a \notin unwritable /\ client' = [client EXCEPT ![c] = fresh]
          /\ file' = Store(file, fresh) /\ sent' = {Err(c, "REG", "OK")}
      BY <1>4, <2>2 DEF onReg, RegError
    <3>2. fresh.account = a /\ Image(fresh).state = "good"
      BY <1>1 DEF Clients, ClientRec, Image
    <3> HIDE DEF fresh
    <3>3. client'[c].account = a /\ file'[a].state = "good"
      BY <1>3, <3>1, <3>2
    <3>4. Saved(Err(c, "REG", "OK"))
      BY <3>3 DEF Saved, Err
    <3>5. QED
      BY <3>1, <3>4
  <2>3. QED
    BY <2>1, <2>2
<1>5. CASE onLog(c, a, password)
  <2> DEFINE in == Connected(Loaded(client[c], a))
  <2>1. CASE LogError(c, a, password) # "OK"
    <3>1. \E code : code # "OK" /\ sent' = {Err(c, "LOG", code)}
      BY <1>5, <2>1 DEF onLog, Become, Send
    <3>2. QED
      BY <1>2, <3>1
  <2>2. CASE LogError(c, a, password) = "OK"
    <3> DEFINE clients == [client EXCEPT ![c] = in]
    <3>1. /\ a \notin unwritable /\ client' = clients /\ file' = Store(file, in)
          /\ sent' = {Err(c, "LOG", "OK")} \cup ListReply(clients, file', c)
                       \cup notifyMyFriendsOfModificationAboutMe(clients, c)
      BY <1>5, <2>2 DEF onLog, LogError, Become
    <3>2. in.account = a /\ Image(in).isConnected
      BY <1>1 DEF Connected, Loaded, Image, Clients, ClientRec
    <3> HIDE DEF in
    <3>3. client'[c].account = a /\ file'[a].isConnected
      BY <1>3, <3>1, <3>2
    <3> HIDE DEF clients
    <3>4. Saved(Err(c, "LOG", "OK"))
      BY <3>3 DEF Saved, Err
    <3> DEFINE told == {Err(c, "LOG", "OK")}
    <3>5. Claims(told, told)
      BY ClaimsOfErr
    <3>6. /\ Claims(ListReply(clients, file', c), {})
          /\ Claims(notifyMyFriendsOfModificationAboutMe(clients, c), {})
      BY ClaimsOfReplies
    <3>7. Claims(sent', told)
      <4> HIDE DEF told
      <4>1. QED
        BY <3>1, <3>5, <3>6 DEF Claims, told
    <3>8. \A m \in told : Saved(m)
      BY <3>4
    <3>9. QED
      BY <3>7, <3>8, ClaimsSuffice
  <2>3. QED
    BY <2>1, <2>2
<1>6. ASSUME NEW pseudo, NEW status, onUpdate(c, a, pseudo, password, status)
      PROVE  \A m \in sent' : Ok(m) => Saved(m)
  <2> DEFINE clients == [client EXCEPT ![c].pseudo = pseudo, ![c].status = status]
  <2>1. CASE UpdateError(c, a, status) # "OK"
    <3>1. \E code : code # "OK" /\ sent' = {Err(c, "UPDATE", code)}
      BY <1>6, <2>1 DEF onUpdate, Become, Send
    <3>2. QED
      BY <1>2, <3>1
  <2>2. CASE UpdateError(c, a, status) = "OK"
    <3>1. /\ a \notin unwritable /\ client[c].account = a /\ client' = clients
          /\ file' = Store(file, clients[c])
          /\ sent' = {Err(c, "UPDATE", "OK")} \cup notifyMyFriendsOfModificationAboutMe(clients, c)
                       \cup ShowReply(clients, file', c, a)
      BY <1>6, <2>2 DEF onUpdate, UpdateError
    <3>2. clients[c].account = a
      BY <1>1, <3>1 DEF Clients, ClientRec
    <3> HIDE DEF clients
    <3>3. file'[a] = Image(clients[c])
      BY <1>1, <3>1, <3>2 DEF Store, Files
    <3>4. Saved(Err(c, "UPDATE", "OK"))
      BY <3>1, <3>2, <3>3 DEF Saved, Err, Image
    <3> DEFINE told == {Err(c, "UPDATE", "OK")}
    <3>5. Claims(told, told)
      BY ClaimsOfErr
    <3>6. /\ Claims(notifyMyFriendsOfModificationAboutMe(clients, c), {})
          /\ Claims(ShowReply(clients, file', c, a), {})
      BY ClaimsOfReplies
    <3>7. Claims(sent', told)
      <4> HIDE DEF told
      <4>1. QED
        BY <3>1, <3>5, <3>6 DEF Claims, told
    <3>8. \A m \in told : Saved(m)
      BY <3>4
    <3>9. QED
      BY <3>7, <3>8, ClaimsSuffice
  <2>3. QED
    BY <2>1, <2>2
<1>7. QED
  BY <1>4, <1>5, <1>6
LEMMA AcceptAddSaved ==
    ASSUME TypeOK, SessionsAreNamed, NEW c \in Slot, NEW a \in Account, NEW accept \in BOOLEAN,
           onAcceptAdd(c, a, accept)
    PROVE  \A m \in sent' : Ok(m) => Saved(m)
<1> DEFINE me == client[c].account
           t == findOnlineClient(client, a)
           added == [client EXCEPT ![t].contact = @ \cup {me}]
           clients == [added EXCEPT ![c].contact = @ \cup {a}]
           files == StoreBoth(file, clients[c], clients[t])
           told == {Err(c, "ACCEPT_ADD", "OK")}
<1>1. client \in Clients /\ file \in Files
  BY DEF TypeOK, Clients, Files
<1>2. Claims(told, told)
  BY ClaimsOfErr
<1>3. CASE AcceptAddError(c, a) # "OK" \/ ~accept
  <2>1. client' = client /\ \E code : sent' = {Err(c, "ACCEPT_ADD", code)}
    BY <1>3 DEF onAcceptAdd, Send, memory
  <2>2. \A code : Saved(Err(c, "ACCEPT_ADD", code))
    BY <2>1 DEF Saved, Err
  <2>3. QED
    BY <2>1, <2>2
<1>4. ASSUME AcceptAddError(c, a) = "OK", accept,
             BothStored(clients[c], clients[t]), client' = clients, file' = files
      PROVE  Saved(Err(c, "ACCEPT_ADD", "OK"))
  <2>1. t \in Slot /\ client[t].isConnected /\ client[c].isConnected /\ client[t].account = a
    BY <1>4, FindOnline DEF AcceptAddError
  <2>2. me \in Account
    BY <2>1 DEF SessionsAreNamed, Session
  <2> HIDE DEF t, me
  <2>3. /\ added \in Clients
        /\ added[t].contact = client[t].contact \cup {me} /\ added[t].account = a
        /\ \A s \in Slot \ {t} : added[s] = client[s]
    <3>1. client[t].contact \cup {me} \in SUBSET Account
      BY <1>1, <2>1, <2>2 DEF Clients, ClientRec
    <3>2. QED
      BY <1>1, <2>1, <3>1, ContactSet, ContactField
  <2> HIDE DEF added
  <2>4. /\ clients[c].contact = added[c].contact \cup {a} /\ clients[c].account = added[c].account
        /\ \A s \in Slot \ {c} : clients[s] = added[s]
    BY <2>3, ContactField
  <2> HIDE DEF clients
  <2>5. clients[c].account = me /\ clients[t].account = a
    BY <2>1, <2>3, <2>4 DEF me
  <2>6. /\ a \in clients[c].contact /\ me \in clients[t].contact
        /\ clients[c].contact \ client[c].contact \subseteq {a}
    <3>1. CASE t = c
      <4>1. me = a
        BY <2>1, <3>1 DEF me
      <4>2. QED
        BY <2>3, <2>4, <3>1, <4>1
    <3>2. CASE t # c
      BY <2>1, <2>3, <2>4, <3>2
    <3>3. QED
      BY <3>1, <3>2
  <2>7. files = [[file EXCEPT ![me] = Image(clients[c])] EXCEPT ![a] = Image(clients[t])]
    BY <1>4, <2>5 DEF StoreBoth, Store, BothStored
  <2>8. files[a] = Image(clients[t]) /\ (me # a => files[me] = Image(clients[c]))
    BY <1>1, <2>2, <2>7 DEF Files
  <2> HIDE DEF files
  <2>9. me \in files[a].contact /\ a \in files[me].contact
    <3>1. me \in files[a].contact
      BY <2>6, <2>8 DEF Image
    <3>2. CASE me = a
      BY <3>1, <3>2
    <3>3. CASE me # a
      BY <2>6, <2>8, <3>3 DEF Image
    <3>4. QED
      BY <3>1, <3>2, <3>3
  <2>10. QED
    BY <1>4, <2>5, <2>6, <2>9 DEF Saved, Err
<1>5. CASE AcceptAddError(c, a) = "OK" /\ accept
  <2>1. \/ /\ BothStored(clients[c], clients[t]) /\ client' = clients /\ file' = files
           /\ sent' = told \cup ShowReply(clients, files, t, me) \cup ShowReply(clients, files, c, a)
        \/ sent' = {Err(c, "ACCEPT_ADD", "CANNOT_SAVE_DATA")}
        \/ sent' = {}
    BY <1>5 DEF onAcceptAdd, Become, Die
  <2>2. /\ Claims(ShowReply(clients, files, t, me), {})
        /\ Claims(ShowReply(clients, files, c, a), {})
    BY ClaimsOfReplies
  <2>3. Claims({Err(c, "ACCEPT_ADD", "CANNOT_SAVE_DATA")}, {})
    BY ClaimsOfErr
  <2> HIDE DEF clients, files, t, me, told
  <2>4. Claims(sent', told)
    BY <1>2, <2>1, <2>2, <2>3 DEF Claims
  <2>5. \A m \in told : m \in sent' => Saved(m)
    <3>1. Err(c, "ACCEPT_ADD", "OK") \notin {Err(c, "ACCEPT_ADD", "CANNOT_SAVE_DATA")}
      BY DEF Err
    <3>2. QED
      BY <1>4, <1>5, <2>1, <3>1 DEF told
  <2>6. QED
    BY <2>4, <2>5, ClaimsSuffice
<1>6. QED
  BY <1>3, <1>5
\* x is not in the list of y on disk, and saving r leaves it out.
LEMMA StoreLeavesOut ==
    ASSUME NEW files \in Files, NEW r, NEW x, NEW y \in Account,
           x \notin files[y].contact, r.account = y => x \notin r.contact
    PROVE  x \notin Store(files, r)[y].contact
BY DEF Store, Files, Image

LEMMA CloseCallLeavesOut ==
    ASSUME NEW clients \in Clients, NEW files \in Files, NEW c \in Slot, NEW a,
           NEW x, NEW y \in Account, x \notin files[y].contact,
           \A s \in Slot : clients[s].account = y /\ (s = c \/ s = findOnlineClient(clients, a))
                              => x \notin clients[s].contact
    PROVE  x \notin CloseCall(clients, files, c, a).files[y].contact
<1> DEFINE t == findOnlineClient(clients, a)
           code == CloseCallError(clients, c, a)
           idle == [clients EXCEPT ![c].statusCall = "NONE", ![t].statusCall = "NONE"]
<1>1. CASE code \notin {"OK", "CANNOT_SAVE_DATA"}
  BY <1>1 DEF CloseCall
<1>2. CASE code \in {"OK", "CANNOT_SAVE_DATA"}
  <2>1. t \in Slot
    BY <1>2, FindOnline DEF CloseCallError
  <2>2. idle \in Clients /\ SameImages(clients, idle)
    BY <2>1, CallFieldTypes, CallFieldImages DEF StatusCall
  <2>3. CloseCall(clients, files, c, a).files = StoreBoth(files, idle[c], idle[t])
    BY <1>2 DEF CloseCall
  <2> HIDE DEF idle
  <2>4. SameLists(clients, idle)
    BY <2>2, SameImagesLists
  <2>5. \A s \in {c, t} : idle[s].account = y => x \notin idle[s].contact
    BY <2>1, <2>4 DEF SameLists
  <2> HIDE DEF t
  <2>6. x \notin Store(files, idle[c])[y].contact
    BY <2>5, StoreLeavesOut
  <2>7. Store(files, idle[c]) \in Files
    BY <2>2, StoreTypes DEF Clients
  <2>8. x \notin Store(Store(files, idle[c]), idle[t])[y].contact
    BY <2>5, <2>6, <2>7, StoreLeavesOut
  <2>9. x \notin StoreBoth(files, idle[c], idle[t])[y].contact
    BY <2>8 DEF StoreBoth
  <2>10. QED
    BY <2>3, <2>9
<1>3. QED
  BY <1>1, <1>2

LEMMA DelSaved ==
    ASSUME TypeOK, SessionsAreNamed, NEW c \in Slot, NEW a \in Account, onDel(c, a)
    PROVE  \A m \in sent' : Ok(m) => Saved(m)
<1> DEFINE me == client[c].account
           t == findOnlineClient(client, a)
           partner == client[c].comm
           mine == [client EXCEPT ![c].contact = @ \ {a}]
           both == [mine EXCEPT ![t].contact = @ \ {me}]
           theirs == [file[a] EXCEPT !.contact = @ \ {me}]
           fileMine == Store(file, mine[c])
           fileBoth == Store(fileMine, both[t])
           closed == CloseCall(both, fileBoth, c, a)
           ok == {Err(c, "DEL", "OK")}
           tells == {Tell(c, "DEL", a), Tell(t, "DEL", me)}
<1>1. client \in Clients /\ file \in Files
  BY DEF TypeOK, Clients, Files
<1>2. ASSUME NEW code, code # "OK", sent' = {Err(c, "DEL", code)}
      PROVE  \A m \in sent' : Ok(m) => Saved(m)
  BY <1>2 DEF Ok, Err
<1>3. Claims(ok, ok) /\ Claims(tells, {}) /\ Claims(closed.sent, {})
  <2>1. Claims({Tell(c, "DEL", a)}, {}) /\ Claims({Tell(t, "DEL", me)}, {})
    BY ClaimsOfTell
  <2>2. Claims(tells, {})
    BY <2>1 DEF Claims
  <2>3. QED
    BY <2>2, ClaimsOfErr, ClaimsOfReplies
<1>4. ASSUME client'[c].account = me, client[c].contact \ client'[c].contact \subseteq {a},
             a \notin file'[me].contact, me \notin file'[a].contact,
             sent' \in {ok, ok \cup tells, ok \cup tells \cup closed.sent}
      PROVE  \A m \in sent' : Ok(m) => Saved(m)
  <2>1. Saved(Err(c, "DEL", "OK"))
    BY <1>4 DEF Saved, Err
  <2>2. \A m \in ok : Saved(m)
    BY <2>1
  <2> HIDE DEF ok, tells, closed
  <2>3. Claims(sent', ok)
    BY <1>3, <1>4 DEF Claims
  <2>4. QED
    BY <2>2, <2>3, ClaimsSuffice
<1>5. CASE DelError(c, a) # "OK"
  BY <1>2, <1>5 DEF onDel, Send
<1>6. CASE DelError(c, a) = "OK" /\ me \notin unwritable
  <2>1. client[c].isConnected
    BY <1>6 DEF DelError
  <2>2. me \in Account
    BY <2>1 DEF SessionsAreNamed, Session
  <2>3. /\ mine \in Clients /\ SameLogins(client, mine)
        /\ mine[c].contact = client[c].contact \ {a} /\ mine[c].account = me
        /\ \A s \in Slot \ {c} : mine[s] = client[s]
    <3>1. client[c].contact \ {a} \in SUBSET Account
      BY <1>1 DEF Clients, ClientRec
    <3>2. QED
      BY <1>1, <3>1, ContactSet, ContactField
  <2>4. \A s \in Slot : mine[s].listed = client[s].listed
    BY <1>1 DEF Clients, ClientRec
  <2> HIDE DEF mine
  <2>5. fileMine = [file EXCEPT ![me] = Image(mine[c])] /\ fileMine \in Files
    BY <1>1, <1>6, <2>3, StoreTypes DEF Store, Clients
  <2>6. a \notin fileMine[me].contact
    BY <1>1, <2>2, <2>3, <2>5 DEF Files, Image
  <2> HIDE DEF fileMine
  <2>7. CASE sent' = {} \/ \E code : code # "OK" /\ sent' = {Err(c, "DEL", code)}
    BY <1>2, <2>7
  <2>8. CASE t = Null /\ client' = mine /\ file' = [fileMine EXCEPT ![a] = theirs] /\ sent' = ok
    <3>1. theirs.contact = file[a].contact \ {me}
      BY <1>1 DEF Files, FileRec
    <3> HIDE DEF theirs
    <3>2. file'[a].contact = file[a].contact \ {me} /\ (me # a => file'[me] = fileMine[me])
      BY <2>2, <2>5, <2>8, <3>1 DEF Files
    <3> HIDE DEF me
    <3>3. me \notin file'[a].contact /\ a \notin file'[me].contact
      BY <2>6, <3>2
    <3>4. client'[c].account = me /\ client[c].contact \ client'[c].contact \subseteq {a}
      BY <2>3, <2>8
    <3>5. sent' \in {ok, ok \cup tells, ok \cup tells \cup closed.sent}
      BY <2>8
    <3>6. QED
      BY <1>4, <3>3, <3>4, <3>5
  <2>9. ASSUME t # Null, a \notin unwritable,
               \/ client' = both /\ file' = fileBoth /\ sent' = ok \cup tells
               \/ /\ client' = closed.clients /\ file' = closed.files
                  /\ sent' = ok \cup tells \cup closed.sent
        PROVE  \A m \in sent' : Ok(m) => Saved(m)
    <3>1. t \in Slot /\ client[t].account = a
      BY <2>9, FindOnline
    <3>2. mine[t].contact \ {me} \in SUBSET Account
      BY <2>3, <3>1 DEF Clients, ClientRec
    <3>3. /\ both \in Clients /\ SameLogins(mine, both)
          /\ both[t].contact = mine[t].contact \ {me} /\ both[t].account = mine[t].account
          /\ \A s \in Slot \ {t} : both[s] = mine[s]
      <4> HIDE DEF t, me
      <4>1. QED
        BY <2>3, <3>1, <3>2, ContactSet, ContactField
    <3>4. \A s \in Slot : both[s].listed = mine[s].listed
      <4> HIDE DEF t, me
      <4>1. QED
        BY <2>3, <3>1 DEF Clients, ClientRec
    <3>5. findOnlineClient(both, a) = t
      <4> HIDE DEF both
      <4>1. OnlineAs(both, a) = OnlineAs(client, a)
        BY <2>3, <2>4, <3>3, <3>4 DEF OnlineAs, SameLogins
      <4>2. QED
        BY <4>1 DEF findOnlineClient
    <3> HIDE DEF both, t
    <3>6. both[t].account = a /\ both[c].account = me
      BY <2>3, <3>1, <3>3 DEF SameLogins
    <3> HIDE DEF me
    <3>7. /\ a \notin both[c].contact /\ me \notin both[t].contact
          /\ client[c].contact \ both[c].contact \subseteq {a, me}
          /\ t # c => client[c].contact \ both[c].contact \subseteq {a}
      BY <2>3, <3>1, <3>3
    <3>8. t = c => me = a
      BY <3>6
    <3>9. client[c].contact \ both[c].contact \subseteq {a}
      BY <3>7, <3>8
    <3>10. fileBoth = [fileMine EXCEPT ![a] = Image(both[t])] /\ fileBoth \in Files
      BY <2>5, <2>9, <3>1, <3>3, <3>6, StoreTypes DEF Store, Clients
    <3>11. me \notin fileBoth[a].contact
      BY <2>5, <3>7, <3>10 DEF Files, Image
    <3>12. a \notin fileBoth[me].contact
      BY <2>2, <2>5, <2>6, <3>6, <3>7, StoreLeavesOut
    <3> HIDE DEF fileBoth
    <3>13. CASE client' = both /\ file' = fileBoth /\ sent' = ok \cup tells
      BY <1>4, <3>6, <3>9, <3>11, <3>12, <3>13
    <3>14. CASE /\ client' = closed.clients /\ file' = closed.files
                /\ sent' = ok \cup tells \cup closed.sent
      <4>1. \A s \in Slot :
               both[s].account = me /\ (s = c \/ s = findOnlineClient(both, a)) =>
                  a \notin both[s].contact
        BY <3>5, <3>6, <3>7
      <4>2. both \in Clients /\ fileBoth \in Files
        BY <3>3, <3>10
      <4>3. a \notin closed.files[me].contact
        BY <2>2, <3>12, <4>1, <4>2, CloseCallLeavesOut
      <4>4. SameImages(both, closed.clients)
        BY <4>2, CloseCallImages
      <4>5. me \notin closed.files[a].contact
        <5>1. \A s \in Slot :
                 both[s].account = a /\ (s = c \/ s = findOnlineClient(both, a)) =>
                    me \notin both[s].contact
          BY <3>5, <3>6, <3>7
        <5>2. QED
          BY <3>11, <4>2, <5>1, CloseCallLeavesOut
      <4> HIDE DEF closed
      <4>6. SameLists(both, closed.clients)
        BY <4>4, SameImagesLists
      <4>7. closed.clients[c].account = me /\ closed.clients[c].contact = both[c].contact
        BY <3>6, <4>6 DEF SameLists
      <4>8. QED
        BY <1>4, <3>9, <3>14, <4>3, <4>5, <4>7
    <3>15. QED
      BY <2>9, <3>13, <3>14
  <2>10. \/ sent' = {} \/ \E code : code # "OK" /\ sent' = {Err(c, "DEL", code)}
         \/ t = Null /\ client' = mine /\ file' = [fileMine EXCEPT ![a] = theirs] /\ sent' = ok
         \/ /\ t # Null /\ a \notin unwritable
            /\ \/ client' = both /\ file' = fileBoth /\ sent' = ok \cup tells
               \/ /\ client' = closed.clients /\ file' = closed.files
                  /\ sent' = ok \cup tells \cup closed.sent
    <3>1. {Err(c, "DEL", "OK"), Tell(c, "DEL", a), Tell(t, "DEL", me)} = ok \cup tells
      OBVIOUS
    <3> HIDE DEF ok, tells
    <3>2. QED
      BY <1>6, <3>1 DEF onDel, Become, Die, ok, t, me, mine, both, theirs, fileMine, fileBoth, closed
  <2>11. QED
    BY <2>7, <2>8, <2>9, <2>10
<1>7. CASE DelError(c, a) = "OK" /\ me \in unwritable
  <2>1. sent' = {Err(c, "DEL", "CANNOT_SAVE_DATA")} \/ sent' = {}
    BY <1>7 DEF onDel, Become, Die
  <2>2. QED
    BY <1>2, <2>1
<1>8. QED
  BY <1>5, <1>6, <1>7
LEMMA NextSaved ==
    ASSUME TypeOK, SessionsAreNamed, Next
    PROVE  \A m \in sent' : Ok(m) => Saved(m)
<1>1. ASSUME Claims(sent', {}) PROVE \A m \in sent' : Ok(m) => Saved(m)
  BY <1>1, ClaimsSuffice
<1>2. ASSUME NEW c \in Slot, Connection(c) \/ Request(c)
      PROVE  \A m \in sent' : Ok(m) => Saved(m)
  <2>1. CASE Connection(c) \/ onHandshake(c) \/ onExit(c) \/ onList(c)
    BY <1>1, <2>1, OtherClaims
  <2>2. ASSUME NEW a \in Account, NEW password \in Password,
               \/ \E pseudo \in Pseudo : onReg(c, a, pseudo, password)
               \/ onLog(c, a, password)
               \/ \E pseudo \in Pseudo, status \in StatusByte :
                     onUpdate(c, a, pseudo, password, status)
        PROVE  \A m \in sent' : Ok(m) => Saved(m)
    <3>1. \/ \E pseudo : onReg(c, a, pseudo, password)
          \/ onLog(c, a, password)
          \/ \E pseudo, status : onUpdate(c, a, pseudo, password, status)
      BY <2>2
    <3>2. QED
      BY <3>1, AccountSaved
  <2>3. ASSUME NEW a \in Account, NEW accept \in BOOLEAN,
               \/ onShow(c, a) \/ onAdd(c, a) \/ onSend(c, a)
               \/ onCall(c, a) \/ onAcceptCall(c, a, accept) \/ onCloseCall(c, a)
        PROVE  \A m \in sent' : Ok(m) => Saved(m)
    BY <1>1, <2>3, OtherClaims
  <2>4. ASSUME NEW a \in Account, NEW accept \in BOOLEAN, onAcceptAdd(c, a, accept)
        PROVE  \A m \in sent' : Ok(m) => Saved(m)
    BY <2>4, AcceptAddSaved
  <2>5. ASSUME NEW a \in Account, onDel(c, a) PROVE \A m \in sent' : Ok(m) => Saved(m)
    BY <2>5, DelSaved
  <2>6. QED
    BY <1>2, <2>1, <2>2, <2>3, <2>4, <2>5 DEF Request
<1>3. CASE Environment
  <2>1. sent' = {}
    BY <1>3 DEF Environment, Shutdown, Crash, Start, DiskFault, Die
  <2>2. QED
    BY <2>1
<1>4. QED
  BY <1>2, <1>3 DEF Next

\* What a reg, log, update, accept_add or del answered OK changes is in the user
\* files, whichever saves fail and whenever the process stops: the file of the
\* requester says so, and contacts made or dropped are so in the files of both.
\* It says nothing of exit, nor of the accounts file.
THEOREM AcknowledgedIsSavedHolds == Spec => AcknowledgedIsSaved
<1>1. TypeOK /\ SessionsAreNamed /\ [Next]_vars
        => [\A m \in sent' : Ok(m) => Saved(m)]_vars
  BY NextSaved
<1>2. Spec => [][\A m \in sent' : Ok(m) => Saved(m)]_vars
  BY <1>1, ObjectInvariant, PTL DEF Spec
<1>3. QED
  BY <1>2 DEF AcknowledgedIsSaved, Ok, Saved
-----------------------------------------------------------------------------
(* What contacts are told *)

\* Two objects that their contacts see the same of.
Present(r) == r.listed /\ r.isConnected
SameShown(p, q) ==
    /\ Present(p) <=> Present(q)
    /\ Present(p) => q.account = p.account /\ q.pseudo = p.pseudo /\ q.status = p.status

SteadyBut(before, after, slots) ==
    \A s \in Slot \ slots : SameShown(before[s], after[s])

LEMMA SteadyPresence ==
    ASSUME NEW before, NEW after, NEW slots, SteadyBut(before, after, slots), NEW a,
           \A c \in slots : c \notin OnlineAs(before, a) /\ c \notin OnlineAs(after, a)
    PROVE  /\ OnlineAs(before, a) = OnlineAs(after, a)
           /\ Presence(before, a) = Presence(after, a)
<1>1. OnlineAs(before, a) = OnlineAs(after, a)
  BY DEF SteadyBut, SameShown, Present, OnlineAs
<1>2. findOnlineClient(before, a) = findOnlineClient(after, a)
  BY <1>1 DEF findOnlineClient
<1>3. CASE findOnlineClient(before, a) = Null
  BY <1>1, <1>2, <1>3 DEF Presence
<1>4. CASE findOnlineClient(before, a) # Null
  <2> DEFINE s == findOnlineClient(before, a)
  <2>1. s \in OnlineAs(before, a)
    BY <1>4, FindOnline DEF OnlineAs
  <2> HIDE DEF s
  <2>2. after[s].pseudo = before[s].pseudo /\ after[s].status = before[s].status
    BY <2>1 DEF SteadyBut, SameShown, Present, OnlineAs
  <2>3. Presence(before, a) = <<before[s].pseudo, before[s].status>>
        /\ Presence(after, a) = <<after[s].pseudo, after[s].status>>
    BY <1>2, <1>4 DEF Presence, s
  <2>4. QED
    BY <1>1, <2>2, <2>3
<1>5. QED
  BY <1>3, <1>4

\* The session at c, in a step that changes what its contacts see of account a
\* only, sends its contacts what is in clients[c].
Announces(clients, c, a) ==
    /\ SteadyBut(client, client', {c})
    /\ \A x : c \in OnlineAs(client, x) \/ c \in OnlineAs(client', x) => x = a
    /\ clients[c].account = a
    /\ file'[a].contact = clients[c].contact
    /\ \A x : x # a => OnlineAs(clients, x) = OnlineAs(client', x)
    /\ clients[c].isConnected = Present(client'[c])
    /\ Present(client'[c]) =>
          clients[c].pseudo = client'[c].pseudo /\ clients[c].status = client'[c].status
    /\ notifyMyFriendsOfModificationAboutMe(clients, c) \subseteq sent'

\* Contact s of a learns that a's presence has changed.
Learns(s, a) ==
    \E m \in sent' :
        /\ m.to = s /\ m.cmd = "SHOW" /\ m.who = a
        /\ m.isConnected = (Presence(client', a) # <<>>)
        /\ m.isConnected => <<m.pseudo, m.status>> = Presence(client', a)

LearnsOfChanges ==
    \A a \in Account : Presence(client, a) # Presence(client', a) =>
        \A s \in Slot :
            (Listening(s) /\ client[s].account # a /\ client[s].account \in file'[a].contact) =>
                Learns(s, a)

\* Without two sessions of one account findOnlineClient finds the only one.
LEMMA OnlyOnline ==
    ASSUME NEW clients, Distinct(clients), NEW s \in Slot, NEW a, s \in OnlineAs(clients, a)
    PROVE  OnlineAs(clients, a) = {s} /\ findOnlineClient(clients, a) = s
<1>1. OnlineAs(clients, a) = {s}
  BY DEF OnlineAs, Distinct
<1>2. QED
  BY <1>1 DEF findOnlineClient

LEMMA AnnouncementReaches ==
    ASSUME LoginInv, LoginInv', NEW clients, NEW c \in Slot, NEW a, Announces(clients, c, a)
    PROVE  LearnsOfChanges
<1>1. Distinct(client) /\ Distinct(client')
  <2>1. Distinct(client)
    BY DistinctSessions DEF SameLogins
  <2>2. Distinct(client')
    BY DEF LoginInv, NoDoubleLogin, SessionHoldsFile, Session, Distinct
  <2>3. QED
    BY <2>1, <2>2
<1>2. SUFFICES ASSUME NEW x \in Account, Presence(client, x) # Presence(client', x),
                      NEW s \in Slot, Listening(s), client[s].account # x,
                      client[s].account \in file'[x].contact
               PROVE  Learns(s, x)
  BY DEF LearnsOfChanges
<1>3. x = a /\ (c \in OnlineAs(client, a) \/ c \in OnlineAs(client', a))
  BY <1>2, SteadyPresence DEF Announces
<1> DEFINE b == client'[s].account
           m == Show(s, a, clients[c].pseudo, clients[c].status, clients[c].isConnected)
<1>4. s # c
  <2>1. ASSUME s = c PROVE FALSE
    <3>1. c \in OnlineAs(client, client[s].account)
      BY <1>2, <2>1 DEF Listening, OnlineAs
    <3>2. QED
      BY <1>2, <1>3, <3>1 DEF Announces
  <2>2. QED
    BY <2>1
<1>5. b = client[s].account /\ s \in OnlineAs(client', b)
  BY <1>2, <1>4 DEF Announces, SteadyBut, SameShown, Present, Listening, OnlineAs
<1>6. b # a /\ b \in clients[c].contact
  BY <1>2, <1>3, <1>5 DEF Announces
<1>7. OnlineAs(clients, b) = {s} /\ findOnlineClient(clients, b) = s
  <2>1. OnlineAs(client', b) = {s}
    BY <1>1, <1>5, OnlyOnline
  <2> HIDE DEF b
  <2>2. OnlineAs(clients, b) = {s}
    BY <1>6, <2>1 DEF Announces
  <2>3. QED
    BY <2>2 DEF findOnlineClient
<1> HIDE DEF b
<1>8. /\ m \in sent' /\ m.to = s /\ m.cmd = "SHOW" /\ m.who = a
      /\ m.pseudo = clients[c].pseudo /\ m.status = clients[c].status
      /\ m.isConnected = clients[c].isConnected
  <2>1. m \in notifyMyFriendsOfModificationAboutMe(clients, c)
    BY <1>6, <1>7 DEF notifyMyFriendsOfModificationAboutMe, Announces
  <2>2. m \in sent'
    BY <2>1 DEF Announces
  <2>3. QED
    BY <2>2 DEF Show
<1> HIDE DEF m
<1>9. CASE Present(client'[c])
  <2>1. c \in OnlineAs(client', client'[c].account)
    BY <1>9 DEF Present, OnlineAs
  <2>2. client'[c].account = a
    BY <2>1 DEF Announces
  <2>3. findOnlineClient(client', a) = c
    BY <1>1, <2>1, <2>2, OnlyOnline
  <2>4. Presence(client', a) = <<client'[c].pseudo, client'[c].status>>
    BY <2>3, NullAssumption DEF Presence
  <2>5. Presence(client', a) # <<>>
    BY <2>4
  <2>6. m.isConnected = TRUE /\ <<m.pseudo, m.status>> = Presence(client', a)
    BY <1>8, <1>9, <2>4 DEF Announces
  <2>7. QED
    BY <1>3, <1>8, <2>5, <2>6 DEF Learns
<1>10. CASE ~Present(client'[c])
  <2>1. c \in OnlineAs(client, a)
    BY <1>3, <1>10 DEF Present, OnlineAs
  <2>2. OnlineAs(client, a) = {c}
    BY <1>1, <2>1, OnlyOnline
  <2>3. OnlineAs(client', a) = {}
    BY <1>10, <2>2 DEF Announces, SteadyBut, SameShown, Present, OnlineAs
  <2>4. Presence(client', a) = <<>>
    BY <2>3 DEF Presence, findOnlineClient
  <2>5. m.isConnected = FALSE
    BY <1>8, <1>10 DEF Announces
  <2>6. QED
    BY <1>3, <1>8, <2>4, <2>5 DEF Learns
<1>11. QED
  BY <1>9, <1>10
LEMMA SteadyIsQuiet ==
    ASSUME SteadyBut(client, client', {})
    PROVE  LearnsOfChanges
BY SteadyPresence DEF LearnsOfChanges

LEMMA SteadyComposes ==
    ASSUME NEW first, NEW second, NEW third,
           SteadyBut(first, second, {}), SteadyBut(second, third, {})
    PROVE  SteadyBut(first, third, {})
BY DEF SteadyBut, SameShown, Present

LEMMA SameImagesSteady ==
    ASSUME NEW before, NEW after, SameImages(before, after)
    PROVE  SteadyBut(before, after, {})
<1>1. ASSUME NEW s \in Slot, SameImage(before, after, s)
      PROVE  after[s].status = before[s].status /\ after[s].pseudo = before[s].pseudo
  BY <1>1 DEF SameImage, Image
<1>2. QED
  BY <1>1 DEF SameImages, SameImagesBut, SameImage, SteadyBut, SameShown, Present

LEMMA ContactSteady ==
    ASSUME NEW clients \in Clients, NEW c \in Slot, NEW contact
    PROVE  SteadyBut(clients, [clients EXCEPT ![c].contact = contact], {})
BY DEF SteadyBut, SameShown, Present, Clients, ClientRec

LEMMA ContactLearns ==
    ASSUME TypeOK, SessionsAreNamed, NEW c \in Slot, NEW a \in Account, NEW accept \in BOOLEAN, up',
           onAcceptAdd(c, a, accept) \/ onDel(c, a)
    PROVE  LearnsOfChanges
<1> DEFINE me == client[c].account
           t == findOnlineClient(client, a)
           mine == [client EXCEPT ![c].contact = @ \ {a}]
           both == [mine EXCEPT ![t].contact = @ \ {me}]
           added == [client EXCEPT ![t].contact = @ \cup {me}]
           clients == [added EXCEPT ![c].contact = @ \cup {a}]
           fileBoth == Store(Store(file, mine[c]), both[t])
           closed == CloseCall(both, fileBoth, c, a)
<1>1. client \in Clients
  BY DEF TypeOK, Clients
<1>2. CASE UNCHANGED client
  BY <1>2, SteadyIsQuiet DEF SteadyBut, SameShown
<1>3. CASE onAcceptAdd(c, a, accept) /\ AcceptAddError(c, a) = "OK" /\ accept
  <2>1. t \in Slot /\ client[c].isConnected
    BY <1>3, FindOnline DEF AcceptAddError
  <2>2. me \in Account
    BY <2>1 DEF SessionsAreNamed, Session
  <2>3. client' = clients
    BY <1>3 DEF onAcceptAdd, Become, Die
  <2> HIDE DEF t, me
  <2>4. added \in Clients /\ SteadyBut(client, added, {})
    <3>1. client[t].contact \cup {me} \in SUBSET Account
      BY <1>1, <2>1, <2>2 DEF Clients, ClientRec
    <3>2. QED
      BY <1>1, <2>1, <3>1, ContactSet, ContactSteady
  <2> HIDE DEF added
  <2>5. SteadyBut(added, clients, {})
    BY <2>4, ContactSteady
  <2> HIDE DEF clients
  <2>6. QED
    BY <2>3, <2>4, <2>5, SteadyComposes, SteadyIsQuiet
<1>4. CASE onDel(c, a) /\ DelError(c, a) = "OK"
  <2>1. mine \in Clients /\ SteadyBut(client, mine, {})
    <3>1. client[c].contact \ {a} \in SUBSET Account
      BY <1>1 DEF Clients, ClientRec
    <3>2. QED
      BY <1>1, <3>1, ContactSet, ContactSteady
  <2>2. t # Null => t \in Slot
    BY FindOnline
  <2>3. client' \in {mine, both, closed.clients} /\ (client' # mine => t # Null)
    BY <1>4 DEF onDel, Become, Die
  <2> HIDE DEF mine, t
  <2>4. CASE client' = mine
    BY <2>1, <2>4, SteadyIsQuiet
  <2>5. CASE t # Null
    <3>1. both \in Clients /\ SteadyBut(mine, both, {})
      <4>1. mine[t].contact \ {me} \in SUBSET Account
        BY <2>1, <2>2, <2>5 DEF Clients, ClientRec
      <4> HIDE DEF me
      <4>2. QED
        BY <2>1, <2>2, <2>5, <4>1, ContactSet, ContactSteady
    <3> HIDE DEF both, fileBoth
    <3>2. SteadyBut(both, closed.clients, {})
      BY <3>1, CloseCallImages, SameImagesSteady
    <3> HIDE DEF closed
    <3>3. SteadyBut(client, both, {}) /\ SteadyBut(client, closed.clients, {})
      BY <2>1, <3>1, <3>2, SteadyComposes
    <3>4. QED
      BY <2>3, <2>4, <3>3, SteadyIsQuiet
  <2>6. QED
    BY <2>3, <2>4, <2>5
<1>5. QED
  BY <1>2, <1>3, <1>4 DEF onAcceptAdd, onDel, Send, memory

LEMMA RegLearns ==
    ASSUME TypeOK, NEW c \in Slot, NEW a \in Account, NEW pseudo, NEW password,
           onReg(c, a, pseudo, password)
    PROVE  LearnsOfChanges
<1> DEFINE fresh == [client[c] EXCEPT !.account = a, !.pseudo = pseudo,
                                      !.status = DISCONNECTED, !.statusCall = "NONE",
                                      !.contact = {}, !.isConnected = FALSE]
<1>1. client \in Clients
  BY DEF TypeOK, Clients
<1>2. CASE UNCHANGED client
  BY <1>2, SteadyIsQuiet DEF SteadyBut, SameShown
<1>3. CASE RegError(c, a) \in {"OK", "CANNOT_SAVE_DATA"}
  <2>1. client' = [client EXCEPT ![c] = fresh] /\ ~client[c].isConnected
    BY <1>3 DEF onReg, RegError
  <2>2. ~fresh.isConnected
    BY <1>1 DEF Clients, ClientRec
  <2> HIDE DEF fresh
  <2>3. SteadyBut(client, client', {})
    BY <1>1, <2>1, <2>2 DEF SteadyBut, SameShown, Present, Clients
  <2>4. QED
    BY <2>3, SteadyIsQuiet
<1>4. QED
  BY <1>2, <1>3 DEF onReg, memory

\* The session that logs in, in mClients or not.
LEMMA LogLearns ==
    ASSUME TypeOK, LoginInv, LoginInv', NEW c \in Slot, NEW a \in Account, NEW password,
           onLog(c, a, password)
    PROVE  LearnsOfChanges
<1> DEFINE in == Connected(Loaded(client[c], a))
           clients == [client EXCEPT ![c] = in]
           files == Store(file, in)
<1>1. client \in Clients /\ file \in Files /\ unwritable = {}
  BY DEF TypeOK, Clients, Files, LoginInv
<1>2. CASE UNCHANGED client
  BY <1>2, SteadyIsQuiet DEF SteadyBut, SameShown
<1>3. CASE LogError(c, a, password) = "OK"
  <2>1. /\ client' = clients /\ file' = files /\ ~client[c].isConnected
        /\ notifyMyFriendsOfModificationAboutMe(clients, c) \subseteq sent'
    BY <1>3 DEF onLog, LogError, Become
  <2>2. in.account = a /\ in.isConnected = TRUE /\ in.listed = client[c].listed
    BY <1>1 DEF Connected, Loaded, Clients, ClientRec
  <2> HIDE DEF in
  <2>3. clients[c] = in /\ \A s \in Slot \ {c} : clients[s] = client[s]
    BY <1>1 DEF Clients
  <2>4. files[a].contact = in.contact
    BY <1>1, <2>2 DEF Store, Files, Image
  <2> HIDE DEF clients, files
  <2>5. CASE ~client[c].listed
    <3>1. SteadyBut(client, client', {})
      BY <2>1, <2>2, <2>3, <2>5 DEF SteadyBut, SameShown, Present
    <3>2. QED
      BY <3>1, SteadyIsQuiet
  <2>6. CASE client[c].listed
    <3>1. SteadyBut(client, client', {c})
      BY <2>1, <2>3 DEF SteadyBut, SameShown
    <3>2. \A x : c \in OnlineAs(client, x) \/ c \in OnlineAs(client', x) => x = a
      BY <2>1, <2>2, <2>3 DEF OnlineAs
    <3>3. clients[c].isConnected = Present(client'[c])
      BY <1>1, <2>1, <2>2, <2>3, <2>6 DEF Present
    <3>4. Announces(clients, c, a)
      BY <2>1, <2>2, <2>3, <2>4, <3>1, <3>2, <3>3 DEF Announces
    <3>5. QED
      BY <3>4, AnnouncementReaches
  <2>7. QED
    BY <2>5, <2>6
<1>4. CASE LogError(c, a, password) # "OK"
  <2>1. LogError(c, a, password) # "CANNOT_SAVE_DATA"
    BY <1>1 DEF LogError
  <2>2. QED
    BY <1>2, <1>4, <2>1 DEF onLog, Send, memory
<1>5. QED
  BY <1>3, <1>4

LEMMA UpdateLearns ==
    ASSUME TypeOK, LoginInv, LoginInv', NEW c \in Slot, NEW a \in Account, NEW pseudo,
           NEW password, NEW status, onUpdate(c, a, pseudo, password, status)
    PROVE  LearnsOfChanges
<1> DEFINE clients == [client EXCEPT ![c].pseudo = pseudo, ![c].status = status]
           files == Store(file, clients[c])
<1>1. client \in Clients /\ file \in Files /\ unwritable = {}
  BY DEF TypeOK, Clients, Files, LoginInv
<1>2. CASE UNCHANGED client
  BY <1>2, SteadyIsQuiet DEF SteadyBut, SameShown
<1>3. CASE UpdateError(c, a, status) = "OK"
  <2>1. /\ client' = clients /\ file' = files /\ client[c].isConnected = TRUE
        /\ client[c].account = a
        /\ notifyMyFriendsOfModificationAboutMe(clients, c) \subseteq sent'
    BY <1>1, <1>3 DEF onUpdate, UpdateError, Clients, ClientRec
  <2>2. /\ clients[c].account = a /\ clients[c].isConnected = TRUE
        /\ clients[c].listed = client[c].listed
        /\ \A s \in Slot \ {c} : clients[s] = client[s]
    BY <1>1, <2>1 DEF Clients, ClientRec
  <2> HIDE DEF clients
  <2>3. files[a].contact = clients[c].contact
    BY <1>1, <2>2 DEF Store, Files, Image
  <2> HIDE DEF files
  <2>4. CASE ~client[c].listed
    <3>1. SteadyBut(client, client', {})
      BY <2>1, <2>2, <2>4 DEF SteadyBut, SameShown, Present
    <3>2. QED
      BY <3>1, SteadyIsQuiet
  <2>5. CASE client[c].listed
    <3>1. SteadyBut(client, client', {c})
      BY <2>1, <2>2 DEF SteadyBut, SameShown
    <3>2. \A x : c \in OnlineAs(client, x) \/ c \in OnlineAs(client', x) => x = a
      BY <2>1, <2>2 DEF OnlineAs
    <3>3. clients[c].isConnected = Present(client'[c])
      BY <1>1, <2>1, <2>2, <2>5 DEF Present
    <3>4. Announces(clients, c, a)
      BY <2>1, <2>2, <2>3, <3>1, <3>2, <3>3 DEF Announces
    <3>5. QED
      BY <3>4, AnnouncementReaches
  <2>6. QED
    BY <2>4, <2>5
<1>4. CASE UpdateError(c, a, status) # "OK"
  <2>1. UpdateError(c, a, status) # "CANNOT_SAVE_DATA"
    BY <1>1 DEF UpdateError
  <2>2. QED
    BY <1>2, <1>4, <2>1 DEF onUpdate, Send, memory
<1>5. QED
  BY <1>3, <1>4
\* A session that leaves, from the tables and files in which its call is closed.
LEMMA LeavingAnnounces ==
    ASSUME unwritable = {}, SessionsAreNamed, NEW clients \in Clients, NEW files \in Files,
           SteadyBut(client, clients, {}), NEW c \in Slot, client[c].isConnected,
           clients[c].account = client[c].account,
           NEW left, left = [clients EXCEPT ![c] = Disconnected(@)],
           file' = Store(files, left[c]),
           notifyMyFriendsOfModificationAboutMe(left, c) \subseteq sent',
           \A s \in Slot \ {c} : client'[s] = left[s],
           ~client'[c].isConnected
    PROVE  Announces(left, c, client[c].account)
<1> DEFINE a == client[c].account
<1>1. a \in Account
  BY DEF SessionsAreNamed, Session
<1>2. /\ left[c].account = a /\ left[c].isConnected = FALSE
      /\ \A s \in Slot \ {c} : left[s] = clients[s]
  BY DEF Disconnected, Clients, ClientRec
<1> HIDE DEF a
<1>3. file'[a].contact = left[c].contact
  <2> DEFINE r == left[c]
  <2>1. r.account = a /\ r.account \notin unwritable
    BY <1>2
  <2>2. file' = Store(files, r)
    OBVIOUS
  <2> HIDE DEF r
  <2>3. file'[a] = Image(r)
    BY <1>1, <2>1, <2>2 DEF Store, Files
  <2>4. QED
    BY <2>3 DEF Image, r
<1>4. SteadyBut(client, client', {c})
  BY <1>2 DEF SteadyBut
<1>5. \A x : c \in OnlineAs(client, x) \/ c \in OnlineAs(client', x) => x = a
  BY DEF OnlineAs, a
<1>6. \A x : OnlineAs(left, x) = OnlineAs(client', x)
  BY <1>2 DEF OnlineAs
<1>7. left[c].isConnected = Present(client'[c]) /\ ~Present(client'[c])
  BY <1>2 DEF Present
<1>8. QED
  BY <1>2, <1>3, <1>4, <1>5, <1>6, <1>7 DEF Announces, a

LEMMA ExitLearns ==
    ASSUME TypeOK, LoginInv, LoginInv', NEW c \in Slot, onExit(c), up'
    PROVE  LearnsOfChanges
<1> DEFINE left(clients) == [clients EXCEPT ![c] = Disconnected(@)]
<1>1. client \in Clients /\ file \in Files /\ unwritable = {} /\ SessionsAreNamed
  BY LoginInvFacts DEF TypeOK, Clients, Files, LoginInv
<1>2. CASE UNCHANGED client
  BY <1>2, SteadyIsQuiet DEF SteadyBut, SameShown
<1>3. ASSUME NEW clients \in Clients, NEW files \in Files, SteadyBut(client, clients, {}),
             clients[c].account = client[c].account, client[c].isConnected,
             client' = [left(clients) EXCEPT ![c] = ResetAttributes(@)],
             file' = Store(files, left(clients)[c]),
             notifyMyFriendsOfModificationAboutMe(left(clients), c) \subseteq sent'
      PROVE  LearnsOfChanges
  <2> DEFINE gone == left(clients)
  <2>1. ~client'[c].isConnected
    BY <1>3 DEF Disconnected, ResetAttributes, Clients, ClientRec
  <2>2. \A s \in Slot \ {c} : client'[s] = gone[s]
    BY <1>3 DEF Clients
  <2>3. gone = [clients EXCEPT ![c] = Disconnected(@)]
    OBVIOUS
  <2>4. file' = Store(files, gone[c])
    BY <1>3
  <2>5. notifyMyFriendsOfModificationAboutMe(gone, c) \subseteq sent'
    BY <1>3
  <2>6. client[c].isConnected
    BY <1>3
  <2>7. clients[c].account = client[c].account /\ SteadyBut(client, clients, {})
    BY <1>3
  <2> HIDE DEF left, gone
  <2>8. Announces(gone, c, client[c].account)
    BY <1>1, <2>1, <2>2, <2>3, <2>4, <2>5, <2>6, <2>7, LeavingAnnounces
  <2>9. QED
    BY <2>8, AnnouncementReaches
<1>4. SteadyBut(client, client, {})
  BY DEF SteadyBut, SameShown
<1>5. CASE /\ client[c].isConnected
           /\ client' = [left(client) EXCEPT ![c] = ResetAttributes(@)]
           /\ file' = Store(file, left(client)[c])
           /\ notifyMyFriendsOfModificationAboutMe(left(client), c) \subseteq sent'
  <2> HIDE DEF left
  <2>1. QED
    BY <1>1, <1>3, <1>4, <1>5
<1>6. ASSUME NEW a, client[c].isConnected,
             client' = [left(CloseCall(client, file, c, a).clients) EXCEPT ![c] = ResetAttributes(@)],
             file' = Store(CloseCall(client, file, c, a).files,
                           left(CloseCall(client, file, c, a).clients)[c]),
             notifyMyFriendsOfModificationAboutMe(left(CloseCall(client, file, c, a).clients), c)
                \subseteq sent'
      PROVE  LearnsOfChanges
  <2>1. /\ CloseCall(client, file, c, a).clients \in Clients
        /\ CloseCall(client, file, c, a).files \in Files
    BY <1>1, CloseCallTypes
  <2>2. SteadyBut(client, CloseCall(client, file, c, a).clients, {})
    BY <1>1, CloseCallImages, SameImagesSteady
  <2>3. CloseCall(client, file, c, a).clients[c].account = client[c].account
    BY <1>1, CloseCallLogins DEF SameLogins
  <2> HIDE DEF left
  <2>4. QED
    BY <1>3, <1>6, <2>1, <2>2, <2>3
<1>7. QED
  BY <1>2, <1>5, <1>6 DEF onExit, Become, Send, Die, memory

LEMMA ConnectionLearns ==
    ASSUME TypeOK, LoginInv, LoginInv', ObjectInv, NEW c \in Slot, Connection(c) \/ onHandshake(c)
    PROVE  LearnsOfChanges
<1> DEFINE left == [client EXCEPT ![c] = Disconnected(@)]
<1>1. client \in Clients /\ file \in Files /\ unwritable = {} /\ SessionsAreNamed
  BY LoginInvFacts DEF TypeOK, Clients, Files, LoginInv
<1>2. ASSUME ~Present(client[c]), ~Present(client'[c]), \A s \in Slot \ {c} : client'[s] = client[s]
      PROVE  LearnsOfChanges
  <2>1. SteadyBut(client, client', {})
    BY <1>2 DEF SteadyBut, SameShown
  <2>2. QED
    BY <2>1, SteadyIsQuiet
<1>3. CASE onNewConnection(c)
  <2>1. ~client[c].isConnected /\ client' = [client EXCEPT ![c] = NewClient]
    BY <1>3 DEF onNewConnection, Accepts, Become, ObjectInv, NoClient
  <2>2. ~NewClient.isConnected
    BY DEF NewClient, NoClient
  <2> HIDE DEF NewClient
  <2>3. QED
    BY <1>1, <1>2, <2>1, <2>2 DEF Present, Clients
<1>4. CASE onHandshake(c)
  <2>1. SameImages(client, client')
    BY <1>1, <1>4, CallFieldImages DEF onHandshake, Become
  <2>2. QED
    BY <2>1, SameImagesSteady, SteadyIsQuiet
<1>5. /\ \A s \in Slot \ {c} : CloseConnection(c).clients[s] = client[s]
      /\ CloseConnection(c).clients \in Clients
      /\ CloseConnection(c).clients[c].isConnected => ~CloseConnection(c).clients[c].listed
  BY <1>1, ClosedObject, CloseConnectionTypes
<1>6. CASE StrayCommand(c)
  <2>1. ~client[c].isConnected /\ client' = CloseConnection(c).clients
    BY <1>6 DEF StrayCommand, Become, ObjectInv
  <2>2. QED
    BY <1>2, <1>5, <2>1 DEF Present
<1>7. CASE onSocketClosed(c)
  <2>1. /\ client' = [CloseConnection(c).clients EXCEPT ![c] = NoClient]
        /\ file' = CloseConnection(c).files /\ sent' = CloseConnection(c).sent
    BY <1>7 DEF onSocketClosed, Become
  <2>2. ~NoClient.isConnected
    BY DEF NoClient
  <2> HIDE DEF NoClient
  <2>3. ~client'[c].isConnected /\ \A s \in Slot \ {c} : client'[s] = client[s]
    BY <1>5, <2>1, <2>2 DEF Clients
  <2>4. CASE ~Present(client[c])
    BY <1>2, <2>3, <2>4 DEF Present
  <2>5. CASE Present(client[c])
    <3>1. file' = Store(file, left[c]) /\ sent' = notifyMyFriendsOfModificationAboutMe(left, c)
      BY <2>1, <2>5 DEF CloseConnection, Present
    <3>2. left = [client EXCEPT ![c] = Disconnected(@)]
          /\ \A s \in Slot \ {c} : client'[s] = left[s]
      BY <1>1, <2>3 DEF Clients
    <3>3. SteadyBut(client, client, {}) /\ client[c].isConnected
      BY <2>5 DEF SteadyBut, SameShown, Present
    <3> HIDE DEF left
    <3>4. Announces(left, c, client[c].account)
      BY <1>1, <2>3, <3>1, <3>2, <3>3, LeavingAnnounces
    <3>5. QED
      BY <3>4, AnnouncementReaches
  <2>6. QED
    BY <2>4, <2>5
<1>8. QED
  BY <1>3, <1>4, <1>6, <1>7 DEF Connection

LEMMA NextLearns ==
    ASSUME TypeOK, LoginInv, LoginInv', ObjectInv, Mirrored(client, file), [Next]_vars, up, up'
    PROVE  LearnsOfChanges
<1>1. CASE UNCHANGED client
  BY <1>1, SteadyIsQuiet DEF SteadyBut, SameShown
<1>2. ASSUME NEW c \in Slot, Connection(c) \/ Request(c)
      PROVE  LearnsOfChanges
  <2>1. CASE Connection(c) \/ onHandshake(c)
    BY <2>1, ConnectionLearns
  <2>2. CASE onExit(c)
    BY <2>2, ExitLearns
  <2>3. CASE onList(c)
    BY <1>1, <2>3 DEF onList, Send, memory
  <2>4. ASSUME NEW a \in Account, NEW pseudo \in Pseudo, NEW password \in Password,
               onReg(c, a, pseudo, password)
        PROVE  LearnsOfChanges
    BY <2>4, RegLearns
  <2>5. ASSUME NEW a \in Account, NEW password \in Password, onLog(c, a, password)
        PROVE  LearnsOfChanges
    BY <2>5, LogLearns
  <2>6. ASSUME NEW a \in Account, NEW pseudo \in Pseudo, NEW password \in Password,
               NEW status \in StatusByte, onUpdate(c, a, pseudo, password, status)
        PROVE  LearnsOfChanges
    BY <2>6, UpdateLearns
  <2>7. ASSUME NEW a \in Account, onShow(c, a) \/ onAdd(c, a) \/ onSend(c, a)
        PROVE  LearnsOfChanges
    BY <1>1, <2>7 DEF onShow, onAdd, onSend, Send, memory
  <2>8. ASSUME NEW a \in Account, NEW accept \in BOOLEAN,
               onCall(c, a) \/ onAcceptCall(c, a, accept) \/ onCloseCall(c, a)
        PROVE  LearnsOfChanges
    BY <2>8, CallMirrors, SameImagesSteady, SteadyIsQuiet
  <2>9. ASSUME NEW a \in Account, NEW accept \in BOOLEAN,
               onAcceptAdd(c, a, accept) \/ onDel(c, a)
        PROVE  LearnsOfChanges
    BY <2>9, LoginInvFacts, ContactLearns
  <2>10. ASSUME NEW a \in Account, onDel(c, a)
         PROVE  LearnsOfChanges
    BY <2>9, <2>10
  <2>11. QED
    BY <1>2, <2>1, <2>2, <2>3, <2>4, <2>5, <2>6, <2>7, <2>8, <2>9, <2>10 DEF Request
<1>3. CASE Environment
  BY <1>1, <1>3 DEF Environment, Shutdown, Crash, Start, DiskFault, Die, memory
<1>4. CASE UNCHANGED vars
  BY <1>1, <1>4 DEF vars, memory
<1>5. QED
  BY <1>2, <1>3, <1>4 DEF Next

\* When an account comes online, leaves or changes its pseudo or status, every
\* contact of it that is logged in before and after is sent the new values in
\* that step, by login, update, exit and a lost connection alike, as long as
\* user files can be saved.
THEOREM ContactsLearnOfChangesHolds ==
    ASSUME ~SavesMayFail
    PROVE  Spec => ContactsLearnOfChanges
<1>1. TypeOK /\ LoginInv /\ LoginInv' /\ ObjectInv /\ Mirrored(client, file) /\ [Next]_vars
      => [(up /\ up') => LearnsOfChanges]_vars
  BY NextLearns
<1>2. Spec => [][(up /\ up') => LearnsOfChanges]_vars
  BY <1>1, LoginInvariant, ObjectInvariant, MirrorInvariant, PTL DEF Spec
<1>3. QED
  BY <1>2 DEF ContactsLearnOfChanges, LearnsOfChanges, Learns
=============================================================================
