--------------------------- MODULE WindowsProperties ---------------------------
(***************************************************************************)
(* What makes the windows of a client correct.                             *)
(***************************************************************************)
EXTENDS ClientWindows

MessageRec == [autor : Account \cup {Null}, with : Account, n : 1 .. MaxMessages]

ContactRec(names) ==
    [account : names, isConnected : BOOLEAN, messages : Seq(MessageRec)]

\* The type invariant, proved in WindowsProofs.
WindowsTypeOK ==
    /\ page \in Page
    /\ {mLoggedUser, mContact, mUser} \subseteq Account \cup {Null}
    /\ mContacts \in Seq(ContactRec(Account))
    /\ mContactList \in Seq(ContactRec(Account))
    /\ mCurrentContact \in ContactRec(Account \cup {Null})
    /\ mMessageList \in Seq(MessageRec)
    /\ outbox \in Seq([to : Account, message : MessageRec])
    /\ count \in 0 .. MaxMessages

\* The window's copies agree with what Babel keeps: the list that the user sees and
\* clicks on is Babel's, entry by entry, and an update of the profile names the
\* account that Babel takes for the user's.  No account has two entries: a message
\* is written to, and sent for, each of them.
CopiesAgree ==
    /\ mContact = mLoggedUser
    /\ DOMAIN mContactList = DOMAIN mContacts
    /\ \A k \in DOMAIN mContacts :
          /\ mContactList[k].account = mContacts[k].account
          /\ mContactList[k].isConnected = mContacts[k].isConnected
    /\ \A j, k \in DOMAIN mContacts : mContacts[j].account = mContacts[k].account => j = k

\* The panel shows one conversation, that of the selected contact, whom what is
\* typed is sent to, and is never behind it: it shows what the contact's entry
\* holds, unless a new list has just emptied that.  This is so after lists were
\* replaced, contacts deleted and added again, and other users have logged in.
PanelFollowsSelection ==
    /\ mMessageList = mCurrentContact.messages
    /\ \A k \in DOMAIN mMessageList : mMessageList[k].with = mCurrentContact.account
    /\ \A k \in DOMAIN mContactList :
          mContactList[k].account = mCurrentContact.account =>
              mContactList[k].messages \in {<<>>, mMessageList}

\* A step sends one message at most, to whom the panel shows the conversation with,
\* as the last one of that.
SentOnceAsShown ==
    [][outbox' # <<>> =>
          /\ Len(outbox') = 1
          /\ outbox'[1].to = mCurrentContact'.account
          /\ mMessageList' # <<>>
          /\ outbox'[1].message = mMessageList'[Len(mMessageList')]]_windowsVars
=============================================================================
