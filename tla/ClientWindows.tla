---------------------------- MODULE ClientWindows ----------------------------
(***************************************************************************)
(* The windows of a client: BabelMainWindow with its five pages, BabelMain *)
(* with the contact list and the conversation it shows, and what Babel     *)
(* keeps of contacts for them.                                             *)
(*                                                                         *)
(* The list of contacts exists three times: in Babel, in the model of the  *)
(* list, whose entries alone hold conversations, and, of the selected      *)
(* contact, in mCurrentContact; mMessageList is what the panel shows.  The *)
(* answers and messages of the server come in any order here (BabelSystem  *)
(* has the order); the call button is in BabelClient.                      *)
(***************************************************************************)
EXTENDS Naturals, Sequences, FiniteSets

CONSTANTS
    Account,
    Null,
    MaxMessages,   \* bound: messages sent and received
    MaxContacts    \* bound: contacts of a user

ASSUME WindowsAssumption ==
    /\ Null \notin Account
    /\ {MaxMessages, MaxContacts} \subseteq Nat

VARIABLES
    page,             \* the current widget of mCentralWidget
    mLoggedUser,      \* of Babel: the account of the user
    mContact,         \* of BabelMainWindow: the account that an update names
    mUser,            \* of BabelMain: the account that signs messages
    mContacts,        \* of Babel
    mContactList,     \* of ContactListModel
    mCurrentContact,  \* of BabelMain: the contact whose conversation is shown
    mMessageList,     \* of MessageListModel
    outbox,           \* the messages that the last step has sent
    count             \* history: messages sent and received

user == <<mLoggedUser, mContact, mUser>>
contacts == <<mContacts, mContactList>>
panel == <<mCurrentContact, mMessageList>>
windowsVars == <<page, user, contacts, panel, outbox, count>>

Page == {"mFlyer", "mSignup", "mSetting", "mMain", "mUpdate"}

\* A message: who has signed it, in the conversation with whom, and the how many-th it is.
Message(autor, with) == [autor |-> autor, with |-> with, n |-> count + 1]

Contact(a, isConnected) == [account |-> a, isConnected |-> isConnected, messages |-> <<>>]

WindowsInit ==
    /\ page = "mFlyer"
    /\ mLoggedUser = Null /\ mContact = Null /\ mUser = Null
    /\ mContacts = <<>> /\ mContactList = <<>>
    /\ mCurrentContact = Contact(Null, FALSE) /\ mMessageList = <<>>
    /\ outbox = <<>> /\ count = 0

-----------------------------------------------------------------------------
(* Pages *)

\* A page is left for another one.
Turns(from, to) ==
    /\ page \in from
    /\ page' = to
    /\ outbox' = <<>>
    /\ UNCHANGED <<user, contacts, panel, count>>

displaySignUp == Turns({"mFlyer"}, "mSignup")
displayOptions == Turns({"mFlyer"}, "mSetting")
displayFlyer == Turns({"mSignup", "mSetting"}, "mFlyer")
displayUpdate == Turns({"mMain"}, "mUpdate")
displayHome == Turns({"mUpdate"}, "mMain")

\* The command EXIT is sent and the page left before it is answered.
disconnectionToAccount == Turns({"mMain"}, "mFlyer")

\* The answer comes whatever the page is by now.
createAccountSuccess == Turns(Page, "mFlyer")
connectToServerSuccess == Turns(Page, "mFlyer")
authenticateSuccess == mLoggedUser # Null /\ Turns(Page, "mMain")

\* The form of mFlyer: the window and Babel each note the account.
connexionToAccount(a) ==
    /\ page = "mFlyer"
    /\ mContact' = a
    /\ mLoggedUser' = a
    /\ outbox' = <<>>
    /\ UNCHANGED <<page, mUser, contacts, panel, count>>

\* The contacts of Babel are handed to the model, and replace the conversations in it.
setContactList(list) == mContactList' = list
updateContactList == setContactList(mContacts')

\* The window shows mFlyer, and Babel empties the lists; the conversation shown stays.
disconnectedFromServer ==
    /\ page' = "mFlyer"
    /\ mContacts' = <<>>
    /\ updateContactList
    /\ outbox' = <<>>
    /\ UNCHANGED <<user, panel, count>>

-----------------------------------------------------------------------------
(* Contacts *)

Places(a) == {k \in DOMAIN mContacts : mContacts[k].account = a}

First(places) == CHOOSE k \in places : \A j \in places : k <= j

\* Mutant of Placed: a contact that is there is added once more.
PlacedAgain(contact) == Append(mContacts, contact)

Placed(contact) ==
    LET there == Places(contact.account)
    IN  IF there = {} THEN Append(mContacts, contact)
        ELSE [mContacts EXCEPT ![First(there)] = contact]

\* Mutant of IsOwn: every information is taken for the user's own.
AnyIsOwn(a) == mLoggedUser # Null

IsOwn(a) == a = mLoggedUser

setUser(a) == mUser' = a

updateInfo(a) == mContact' = a /\ setUser(a)

\* The user's own data, or those of a contact.
receiveContactInfo(a, isConnected) ==
    /\ \/ /\ IsOwn(a)
          /\ updateInfo(a)
          /\ UNCHANGED contacts
       \/ /\ ~IsOwn(a)
          /\ Len(mContacts) < MaxContacts \/ Places(a) # {}
          /\ mContacts' = Placed(Contact(a, isConnected))
          /\ updateContactList
          /\ UNCHANGED <<mContact, mUser>>
    /\ outbox' = <<>>
    /\ UNCHANGED <<page, mLoggedUser, panel, count>>

Without(s, k) == SubSeq(s, 1, k - 1) \o SubSeq(s, k + 1, Len(s))

receiveContactDeletion(a) ==
    /\ mContacts' = IF Places(a) = {} THEN mContacts ELSE Without(mContacts, First(Places(a)))
    /\ updateContactList
    /\ outbox' = <<>>
    /\ UNCHANGED <<page, user, panel, count>>

-----------------------------------------------------------------------------
(* Conversations *)

\* A conversation is selected, with a copy of what it is by now.
Select(contact) ==
    /\ mCurrentContact' = contact
    /\ mMessageList' = contact.messages

onClickContact(row) ==
    /\ page = "mMain"
    /\ row \in DOMAIN mContactList
    /\ Select(mContactList[row])
    /\ outbox' = <<>>
    /\ UNCHANGED <<page, user, contacts, count>>

Rows(a) == {k \in DOMAIN mContactList : mContactList[k].account = a}

Last(rows) == CHOOSE k \in rows : \A j \in rows : j <= k

\* Each entry of account a gets the message.
Written(a, message) ==
    [k \in DOMAIN mContactList |->
        IF k \in Rows(a) THEN [mContactList[k] EXCEPT !.messages = Append(@, message)]
        ELSE mContactList[k]]

\* A text is typed: it is written to each entry of the selected contact, shown and
\* sent.  When it is in none, the text is thrown away, and nothing has happened.
onSendButtonClicked ==
    LET a == mCurrentContact.account
        message == Message(mUser, a)
        written == Written(a, message)
    IN  /\ page = "mMain"
        /\ count < MaxMessages
        /\ Rows(a) # {}
        /\ count' = count + 1
        /\ mContactList' = written
        /\ Select(written[Last(Rows(a))])
        /\ outbox' = [k \in 1 .. Cardinality(Rows(a)) |-> [to |-> a, message |-> message]]
        /\ UNCHANGED <<page, user, mContacts>>

\* The socket turns out not to be connected when the first entry's message is sent:
\* in the loop over the list the slots of a disconnection empty that list.
sendFails ==
    LET a == mCurrentContact.account
    IN  /\ page = "mMain"
        /\ count < MaxMessages
        /\ Rows(a) # {}
        /\ count' = count + 1
        /\ Select(Written(a, Message(mUser, a))[First(Rows(a))])
        /\ page' = "mFlyer"
        /\ mContacts' = <<>>
        /\ updateContactList
        /\ outbox' = <<>>
        /\ UNCHANGED user

\* Mutant of Shown: a message is only put into its entry.
ShownOfNobody(a) == FALSE

\* Is the conversation with a the one that is shown?
Shown(a) == a = mCurrentContact.account

\* A message from an account that is not in the list is thrown away.
receiveMessage(a) ==
    LET written == Written(a, Message(a, a))
    IN  /\ count < MaxMessages
        /\ Rows(a) # {}
        /\ count' = count + 1
        /\ mContactList' = written
        /\ IF Shown(a) THEN Select(written[Last(Rows(a))]) ELSE UNCHANGED panel
        /\ outbox' = <<>>
        /\ UNCHANGED <<page, user, mContacts>>

WindowsNext ==
    \/ displaySignUp \/ displayOptions \/ displayFlyer \/ displayUpdate \/ displayHome
    \/ disconnectionToAccount
    \/ createAccountSuccess \/ connectToServerSuccess \/ authenticateSuccess
    \/ disconnectedFromServer
    \/ \E a \in Account :
          \/ connexionToAccount(a)
          \/ \E isConnected \in BOOLEAN : receiveContactInfo(a, isConnected)
          \/ receiveContactDeletion(a) \/ receiveMessage(a)
    \/ \E row \in DOMAIN mContactList : onClickContact(row)
    \/ onSendButtonClicked \/ sendFails

WindowsSpec == WindowsInit /\ [][WindowsNext]_windowsVars
=============================================================================
