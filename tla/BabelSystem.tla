------------------------------ MODULE BabelSystem ------------------------------
(***************************************************************************)
(* The whole of Babel but the sound: clients (BabelClient) and the server  *)
(* (BabelServer), joined by a queue in each direction of each connection.  *)
(*                                                                         *)
(* The server treats the commands of a connection in order, whole, and one *)
(* at a time (CommandsInOrder of Connection); its messages to a client     *)
(* arrive in the order of the steps that sent them (MessagesInOrder).      *)
(* Those of one step arrive in any order, since BabelServer has them as a  *)
(* set.  What a user types beside an account is chosen when the command is *)
(* treated.                                                                *)
(***************************************************************************)
EXTENDS BabelServer, SequencesExt

CONSTANTS
    User, Login, Wish, AudioMayFail, MaxUnderWay,  \* as in BabelClient
    Befriended,    \* are the accounts each other's contacts at first, or not?
    MaxLosses      \* bound: connections that break, or that a user leaves for another

\* Commands carry names in 256 bytes (CommandLog), so there are finitely many.
ASSUME FiniteAssumption == IsFiniteSet(Account)

ASSUME SystemAssumption ==
    /\ Login \in [User -> SUBSET Account]
    /\ Wish \subseteq Instruction
    /\ Befriended \subseteq BOOLEAN
    /\ AudioMayFail \in BOOLEAN
    /\ {MaxUnderWay, MaxLosses} \subseteq Nat

VARIABLES
    app, toServer, toClient,  \* as in BabelClient
    losses,                   \* history: how many connections broke or were left
    unnoticed,                \* history: was an offline contact deleted, which tells nobody?
    misnamed                  \* history: was a user taken for another account's (Misnames)?

INSTANCE BabelClient WITH Conn <- Slot

history == <<losses, unnoticed, misnamed>>
systemVars == <<vars, clientVars, history>>

\* A connection breaks, or is left, now or has before: happened.
Loses(happened) ==
    \/ happened /\ UNCHANGED losses
    \/ ~happened /\ losses < MaxLosses /\ losses' = losses + 1

\* Some client reads connection c.
Attached(c) == \E p \in User : app[p].conn = c

\* The server has been started with the accounts it had exported, which are all
\* each other's contacts, or none is.
SystemInit ==
    /\ ClientInit
    /\ up = TRUE
    /\ client = [s \in Slot |-> NoClient]
    /\ mAccounts \in [Account -> Password]
    /\ accountsFile = mAccounts
    /\ \E befriended \in Befriended, pseudo \in Pseudo :
          file = [a \in Account |->
                    [NoFile EXCEPT !.state = "good", !.pseudo = pseudo,
                                   !.contact = IF befriended THEN Account \ {a} ELSE {}]]
    /\ unwritable = {}
    /\ sent = {}
    /\ losses = 0
    /\ unnoticed = FALSE
    /\ misnamed = FALSE

-----------------------------------------------------------------------------
(* Clients *)

\* p takes its session, or one it is about to get, for that of another account:
\* who logs in is noted before the server answers.  Or it takes for its own an
\* account that the end of its last session, not read yet, is still about.
Misnames(p) ==
    LET c == app[p].conn
    IN  /\ c # Null
        /\ app'[p].mLoggedUser # app[p].mLoggedUser
        /\ \/ client[c].isConnected
           \/ \E i \in DOMAIN toServer[c] : toServer[c][i].cmd = "LOG"
           \/ \E i \in DOMAIN toClient[c] :
                 /\ toClient[c][i].cmd \in {"SHOW", "ADD"}
                 /\ toClient[c][i].who = app'[p].mLoggedUser

ClientStep(p) ==
    /\ Handle(p) \/ Use(p)
    /\ misnamed' = (misnamed \/ Misnames(p))
    /\ UNCHANGED <<vars, losses, unnoticed>>

\* The connection is accepted as soon as it is made.  An address that a client
\* still takes for its own connection is not given again.
Connect(p, c) ==
    /\ ~Attached(c)
    /\ connectToServer(p, c)
    /\ onNewConnection(c)
    /\ Loses(app[p].conn = Null)
    /\ UNCHANGED <<unnoticed, misnamed>>

\* A client finds its connection closed.
NoticeLoss(p) ==
    /\ onSocketClosedByServer(p)
    /\ Loses(~client[app[p].conn].alive)
    /\ UNCHANGED <<vars, unnoticed, misnamed>>

-----------------------------------------------------------------------------
(* The server *)

\* treatCommand: the handler of a command.
Treat(c, command) ==
    LET a == command.who
    IN  \/ /\ command.cmd = "HANDSHAKE"
           /\ onHandshake(c)
        \/ /\ command.cmd = "REG"
           /\ \E pseudo \in Pseudo, password \in Password : onReg(c, a, pseudo, password)
        \/ /\ command.cmd = "LOG"
           /\ \E password \in Password : onLog(c, a, password)
        \/ /\ command.cmd = "EXIT"
           /\ onExit(c)
        \/ /\ command.cmd = "UPDATE"
           /\ \E pseudo \in Pseudo, password \in Password, status \in StatusByte :
                 onUpdate(c, a, pseudo, password, status)
        \/ /\ command.cmd = "SHOW"
           /\ onShow(c, a)
        \/ /\ command.cmd = "ADD"
           /\ onAdd(c, a)
        \/ /\ command.cmd = "ACCEPT_ADD"
           /\ onAcceptAdd(c, a, command.accept)
        \/ /\ command.cmd = "DEL"
           /\ onDel(c, a)
        \/ /\ command.cmd = "SEND"
           /\ onSend(c, a)
        \/ /\ command.cmd = "CALL"
           /\ onCall(c, a)
        \/ /\ command.cmd = "ACCEPT_CALL"
           /\ onAcceptCall(c, a, command.accept)
        \/ /\ command.cmd = "CLOSE_CALL"
           /\ onCloseCall(c, a)

\* Of the answers only these change a client; the others open a dialog.  An OK to
\* REG would also turn the page to mFlyer, but every account is registered here
\* from SystemInit on, so that no REG is answered OK.
Effective(m) == m.cmd = "ERR" => m.instruction \in {"LOG", "EXIT"} /\ m.code = "OK"

\* What of a SHOW matters here: whom it is about.
Reduced(m) == IF m.cmd = "SHOW" THEN Tell(m.to, "SHOW", m.who) ELSE m

MessagesFor(c, messages) == {Reduced(m) : m \in {n \in messages : n.to = c /\ Effective(n)}}

\* Mutant of Deliver: a new message is put before those not read yet.
DeliverFirst(messages) ==
    toClient' \in {f \in [Slot -> UNION {{q \o toClient[c] : q \in SetToSeqs(MessagesFor(c, messages))} : c \in Slot}] :
                     \A c \in Slot : \E q \in SetToSeqs(MessagesFor(c, messages)) :
                        f[c] = IF Attached(c) THEN q \o toClient[c] ELSE <<>>}

\* The messages of a step are appended to the queues of their receivers, in some
\* order; nobody reads those of a connection that its client has left.
Deliver(messages) ==
    toClient' \in {f \in [Slot -> UNION {{toClient[c] \o q : q \in SetToSeqs(MessagesFor(c, messages))} : c \in Slot}] :
                     \A c \in Slot : \E q \in SetToSeqs(MessagesFor(c, messages)) :
                        f[c] = IF Attached(c) THEN toClient[c] \o q ELSE <<>>}

\* A contact of c's is deleted and c not told to take it from its list.
Unnoticed(c) ==
    /\ client[c].contact \ client'[c].contact # {}
    /\ client'[c].isConnected
    /\ ~\E m \in sent' : m.to = c /\ m.cmd = "DEL"

Serve(c) ==
    /\ toServer[c] # <<>>
    /\ Treat(c, Head(toServer[c]))
    /\ toServer' = [toServer EXCEPT ![c] = Tail(@)]
    /\ Deliver(sent')
    /\ unnoticed' = (unnoticed \/ Unnoticed(c))
    /\ UNCHANGED <<app, losses, misnamed>>

\* The server finds a connection closed: the client has left it, or it broke.
Close(c) ==
    /\ onSocketClosed(c)
    /\ toServer' = [toServer EXCEPT ![c] = <<>>]
    /\ Deliver(sent')
    /\ Loses(~Attached(c))
    /\ UNCHANGED <<app, unnoticed, misnamed>>

SystemNext ==
    \/ \E p \in User : ClientStep(p) \/ NoticeLoss(p) \/ \E c \in Slot : Connect(p, c)
    \/ \E c \in Slot : Serve(c) \/ Close(c)

SystemSpec == SystemInit /\ [][SystemNext]_systemVars
=============================================================================
