------------------------- MODULE BabelSystemProperties -------------------------
(***************************************************************************)
(* What makes Babel correct as a whole: once everything sent has been read *)
(* clients show and do what the server holds.                              *)
(***************************************************************************)
EXTENDS BabelSystem

\* Nothing is under way, nobody is being asked anything, and no client has yet
\* to find out that its connection is closed.
Settled ==
    /\ \A c \in Slot : toServer[c] = <<>> /\ toClient[c] = <<>>
    /\ \A p \in User :
          /\ app[p].question = NoQuestion
          /\ app[p].conn # Null => client[app[p].conn].alive

Online(p) == app[p].conn # Null /\ client[app[p].conn].isConnected

Talking(p) == app[p].conn # Null /\ client[app[p].conn].statusCall = "ISCALLING"

\* As long as no connection is lost, sound is recorded and played by exactly
\* those whom the server has in a call, and with the same partner: whatever
\* crossed on the way, hang-ups of both sides, a logout or deletion during the
\* call, answers to calls that are over, or sound devices that failed to open.
\* This is said of two users: a third can end or take over a call of the others
\* with an answer to a caller who has meanwhile logged out and in again (README,
\* section 3).
AudioFollowsCall ==
    (Settled /\ losses = 0) =>
        \A p \in User :
            /\ app[p].mInCommunication = Talking(p)
            /\ app[p].recording = Talking(p)
            /\ app[p].playing = Talking(p)
            /\ Talking(p) =>
                  LET partner == client[app[p].conn].comm
                  IN  /\ partner # Null
                      /\ app[p].mCurrentCalledContact = client[partner].account

\* The button of the window hangs up exactly when there is a call, and hangs up
\* that call: Babel and the windows keep this twice, and each is told of calls
\* by other signals than the other.
ButtonFollowsCall ==
    (Settled /\ losses = 0) =>
        \A p \in User :
            /\ app[p].mIsCall = app[p].mInCommunication
            /\ app[p].mIsCall => app[p].mContactInCall = app[p].mCurrentCalledContact

\* A logged in client lists all its contacts, also after connections were lost
\* and other users have logged in; and no others, unless one was deleted while
\* offline.  A client that misnamed its user takes SHOWs of another account for
\* its own, so nothing is said of what follows then.
ContactsShown ==
    (Settled /\ ~misnamed) =>
        \A p \in User : Online(p) =>
            LET contact == client[app[p].conn].contact
            IN  /\ contact \subseteq app[p].mContacts
                /\ ~unnoticed => app[p].mContacts = contact

\* A message from a contact finds it in the receiver's list, where alone it can
\* be shown: the server's view of friendship, by which it passed the message
\* on, never is ahead of the client's, again if no user is misnamed.
MessageFindsContact ==
    \A p \in User :
        LET c == app[p].conn
        IN  (/\ c # Null
             /\ toClient[c] # <<>>
             /\ Head(toClient[c]).cmd = "SEND"
             /\ ~misnamed) =>
                Head(toClient[c]).who \in app[p].mContacts

\* The first message that a client gets on a connection is the handshake: it
\* never closes a connection itself (treatCommand), also not on messages of the
\* connection it had before.
GreetedFirst ==
    \A p \in User :
        LET c == app[p].conn
        IN  (c # Null /\ toClient[c] # <<>> /\ ~app[p].mHasHandshaked) =>
                Head(toClient[c]).cmd = "HANDSHAKE"

\* The window shows the page of a logged in user exactly to those who are.
PageFollowsSession ==
    Settled => \A p \in User : (app[p].page = "main") = Online(p)
=============================================================================
