----------------------------- MODULE WindowsProofs -----------------------------
(***************************************************************************)
(* Proofs about the windows of a client, for any number of accounts,       *)
(* contacts and messages.                                                  *)
(***************************************************************************)
EXTENDS WindowsProperties, FiniteSetTheorems, SequenceTheorems, TLAPS

USE WindowsAssumption

\* Babel keeps contacts without conversations, and an entry holds no message of
\* another conversation.
EntriesHoldOwn ==
    /\ \A k \in DOMAIN mContacts : mContacts[k].messages = <<>>
    /\ \A k \in DOMAIN mContactList : \A i \in DOMAIN mContactList[k].messages :
          mContactList[k].messages[i].with = mContactList[k].account

WindowsInv == WindowsTypeOK /\ CopiesAgree /\ PanelFollowsSelection /\ EntriesHoldOwn

-----------------------------------------------------------------------------
(* Lists without doubles *)

\* The one entry of an account that has one.
LEMMA OneRow ==
    ASSUME WindowsTypeOK, CopiesAgree, NEW a, Rows(a) # {}
    PROVE  \E k \in DOMAIN mContactList :
              /\ Rows(a) = {k} /\ mContactList[k].account = a
              /\ First(Rows(a)) = k /\ Last(Rows(a)) = k /\ Cardinality(Rows(a)) = 1
<1>1. PICK k \in Rows(a) : TRUE
  OBVIOUS
<1>2. k \in DOMAIN mContactList /\ mContactList[k].account = a
  BY <1>1 DEF Rows
<1>3. Rows(a) = {k}
  BY <1>1 DEF Rows, CopiesAgree
<1>4. k \in Nat
  BY <1>2 DEF WindowsTypeOK
<1>5. First({k}) = k /\ Last({k}) = k
  BY <1>4 DEF First, Last
<1>6. Cardinality({k}) = 1
  BY FS_Singleton
<1> QED
  BY <1>2, <1>3, <1>5, <1>6

LEMMA OnePlace ==
    ASSUME WindowsTypeOK, CopiesAgree, NEW a, Places(a) # {}
    PROVE  \E k \in DOMAIN mContacts :
              Places(a) = {k} /\ mContacts[k].account = a /\ First(Places(a)) = k
<1>1. PICK k \in Places(a) : TRUE
  OBVIOUS
<1>2. k \in DOMAIN mContacts /\ mContacts[k].account = a
  BY <1>1 DEF Places
<1>3. Places(a) = {k}
  BY <1>1 DEF Places, CopiesAgree
<1>4. k \in Nat
  BY <1>2 DEF WindowsTypeOK
<1>5. First({k}) = k
  BY <1>4 DEF First
<1> QED
  BY <1>2, <1>3, <1>5

\* A list without its k-th entry.
LEMMA WithoutEntry ==
    ASSUME NEW S, NEW s \in Seq(S), NEW k \in DOMAIN s
    PROVE  /\ Without(s, k) \in Seq(S)
           /\ Len(Without(s, k)) = Len(s) - 1
           /\ \A i \in 1 .. Len(s) - 1 :
                 Without(s, k)[i] = IF i < k THEN s[i] ELSE s[i + 1]
<1>1. k \in 1 .. Len(s) /\ Len(s) \in Nat
  OBVIOUS
<1>2. /\ SubSeq(s, 1, k - 1) \in Seq(S) /\ Len(SubSeq(s, 1, k - 1)) = k - 1
      /\ \A i \in 1 .. k - 1 : SubSeq(s, 1, k - 1)[i] = s[i]
  BY <1>1
<1>3. /\ SubSeq(s, k + 1, Len(s)) \in Seq(S) /\ Len(SubSeq(s, k + 1, Len(s))) = Len(s) - k
      /\ \A i \in 1 .. Len(s) - k : SubSeq(s, k + 1, Len(s))[i] = s[k + i]
  BY <1>1
<1> DEFINE before == SubSeq(s, 1, k - 1)
<1> DEFINE after == SubSeq(s, k + 1, Len(s))
<1> HIDE DEF before, after
<1>4. before \in Seq(S) /\ after \in Seq(S)
  BY <1>2, <1>3 DEF before, after
<1>5. Len(before) = k - 1 /\ Len(after) = Len(s) - k
  BY <1>2, <1>3 DEF before, after
<1>6. before \o after \in Seq(S) /\ Len(before \o after) = Len(s) - 1
  BY <1>1, <1>4, <1>5
<1>7. ASSUME NEW i \in 1 .. Len(s) - 1
      PROVE  (before \o after)[i] = IF i < k THEN s[i] ELSE s[i + 1]
  <2>1. CASE i < k
    <3>1. (before \o after)[i] = before[i]
      BY <1>1, <1>4, <1>5, <2>1
    <3>2. before[i] = s[i]
      BY <1>1, <1>2, <2>1 DEF before
    <3> QED
      BY <2>1, <3>1, <3>2
  <2>2. CASE ~(i < k)
    <3>1. (before \o after)[i] = after[i - (k - 1)]
      BY <1>1, <1>4, <1>5, <2>2
    <3>2. i - (k - 1) \in 1 .. Len(s) - k /\ k + (i - (k - 1)) = i + 1
      BY <1>1, <2>2
    <3>3. after[i - (k - 1)] = s[k + (i - (k - 1))]
      BY <1>3, <3>2 DEF after
    <3> QED
      BY <2>2, <3>1, <3>2, <3>3
  <2> QED
    BY <2>1, <2>2
<1>8. Without(s, k) = before \o after
  BY DEF Without, before, after
<1> QED
  BY <1>6, <1>7, <1>8

\* Babel's list after a change that keeps it without doubles and conversations,
\* handed to the model, keeps the invariant.
LEMMA NewList ==
    ASSUME WindowsInv,
           mContacts' \in Seq(ContactRec(Account)),
           \A k \in DOMAIN mContacts' : mContacts'[k].messages = <<>>,
           \A j, k \in DOMAIN mContacts' : mContacts'[j].account = mContacts'[k].account => j = k,
           mContactList' = mContacts',
           page' \in Page,
           mContact' = mLoggedUser',
           {mLoggedUser', mContact', mUser'} \subseteq Account \cup {Null},
           UNCHANGED panel, outbox' = <<>>, count' \in 0 .. MaxMessages
    PROVE  WindowsInv'
<1>1. WindowsTypeOK'
  BY DEF WindowsInv, WindowsTypeOK, panel, ContactRec, MessageRec
<1>2. CopiesAgree'
  BY DEF CopiesAgree
<1>3. PanelFollowsSelection'
  BY DEF WindowsInv, PanelFollowsSelection, panel
<1>4. EntriesHoldOwn'
  BY DEF EntriesHoldOwn
<1> QED
  BY <1>1, <1>2, <1>3, <1>4 DEF WindowsInv

-----------------------------------------------------------------------------
(* The steps *)

LEMMA PageStep ==
    ASSUME WindowsInv, NEW from, NEW to \in Page, Turns(from, to)
    PROVE  WindowsInv'
  BY DEF WindowsInv, WindowsTypeOK, CopiesAgree, PanelFollowsSelection, EntriesHoldOwn, Turns, user,
         contacts, panel, ContactRec, MessageRec

LEMMA LoginStep ==
    ASSUME WindowsInv, NEW a \in Account, connexionToAccount(a)
    PROVE  WindowsInv'
  BY DEF WindowsInv, WindowsTypeOK, CopiesAgree, PanelFollowsSelection, EntriesHoldOwn,
         connexionToAccount, user, contacts, panel, ContactRec, MessageRec

LEMMA LossStep ==
    ASSUME WindowsInv, disconnectedFromServer
    PROVE  WindowsInv'
<1>1. mContacts' = <<>> /\ mContactList' = mContacts'
  BY DEF disconnectedFromServer, updateContactList, setContactList
<1>2. page' \in Page /\ UNCHANGED <<mLoggedUser, mContact, mUser>> /\ UNCHANGED panel
      /\ outbox' = <<>> /\ count' = count
  BY DEF disconnectedFromServer, updateContactList, setContactList, user, panel, Page
<1> QED
  BY <1>1, <1>2, NewList DEF WindowsInv, WindowsTypeOK, CopiesAgree

LEMMA InfoStep ==
    ASSUME WindowsInv, NEW a \in Account, NEW isConnected \in BOOLEAN,
           receiveContactInfo(a, isConnected)
    PROVE  WindowsInv'
<1>1. CASE IsOwn(a)
  BY <1>1 DEF WindowsInv, WindowsTypeOK, CopiesAgree, PanelFollowsSelection, EntriesHoldOwn,
              receiveContactInfo, updateInfo, setUser, updateContactList, setContactList,
              IsOwn, contacts, panel, ContactRec, MessageRec
<1>2. CASE ~IsOwn(a)
  <2> DEFINE new == Contact(a, isConnected)
  <2>1. /\ mContacts' = Placed(new) /\ mContactList' = mContacts'
        /\ UNCHANGED <<page, mLoggedUser, mContact, mUser>> /\ UNCHANGED panel
        /\ outbox' = <<>> /\ count' = count
    BY <1>2 DEF receiveContactInfo, updateInfo, setUser, updateContactList, setContactList,
                panel
  <2>2. new \in ContactRec(Account) /\ new.account = a /\ new.messages = <<>>
    BY DEF Contact, ContactRec
  <2>3. /\ mContacts' \in Seq(ContactRec(Account))
        /\ \A k \in DOMAIN mContacts' : mContacts'[k].messages = <<>>
        /\ \A j, k \in DOMAIN mContacts' : mContacts'[j].account = mContacts'[k].account => j = k
    <3>1. CASE Places(a) = {}
      <4>1. mContacts' = Append(mContacts, new)
        BY <2>1, <2>2, <3>1 DEF Placed
      <4>2. \A k \in DOMAIN mContacts : mContacts[k].account # a
        BY <3>1 DEF Places
      <4> HIDE DEF new
      <4> QED
        BY <2>2, <4>1, <4>2 DEF WindowsInv, WindowsTypeOK, CopiesAgree, EntriesHoldOwn
    <3>2. CASE Places(a) # {}
      <4>1. PICK k \in DOMAIN mContacts :
              Places(a) = {k} /\ mContacts[k].account = a /\ First(Places(a)) = k
        BY <3>2, OnePlace DEF WindowsInv
      <4>2. mContacts' = [mContacts EXCEPT ![k] = new]
        BY <2>1, <2>2, <3>2, <4>1 DEF Placed
      <4> HIDE DEF new
      <4> QED
        BY <2>2, <4>1, <4>2 DEF WindowsInv, WindowsTypeOK, CopiesAgree, EntriesHoldOwn
    <3> QED
      BY <3>1, <3>2
  <2> QED
    BY <2>1, <2>3, NewList DEF WindowsInv, WindowsTypeOK, CopiesAgree
<1> QED
  BY <1>1, <1>2

LEMMA DeletionStep ==
    ASSUME WindowsInv, NEW a \in Account, receiveContactDeletion(a)
    PROVE  WindowsInv'
<1>1. /\ mContacts' = IF Places(a) = {} THEN mContacts ELSE Without(mContacts, First(Places(a)))
      /\ mContactList' = mContacts'
      /\ UNCHANGED <<page, mLoggedUser, mContact, mUser>> /\ UNCHANGED panel
      /\ outbox' = <<>> /\ count' = count
  BY DEF receiveContactDeletion, updateContactList, setContactList, user, panel
<1>2. /\ mContacts' \in Seq(ContactRec(Account))
      /\ \A k \in DOMAIN mContacts' : mContacts'[k].messages = <<>>
      /\ \A j, k \in DOMAIN mContacts' : mContacts'[j].account = mContacts'[k].account => j = k
  <2>1. CASE Places(a) = {}
    BY <1>1, <2>1 DEF WindowsInv, WindowsTypeOK, CopiesAgree, EntriesHoldOwn
  <2>2. CASE Places(a) # {}
    <3>1. PICK k \in DOMAIN mContacts : First(Places(a)) = k
      BY <2>2, OnePlace DEF WindowsInv
    <3>2. mContacts' = Without(mContacts, k)
      BY <1>1, <2>2, <3>1
    <3>3. mContacts \in Seq(ContactRec(Account)) /\ Len(mContacts) \in Nat /\ k \in 1 .. Len(mContacts)
      BY DEF WindowsInv, WindowsTypeOK
    <3>4. /\ mContacts' \in Seq(ContactRec(Account))
          /\ Len(mContacts') = Len(mContacts) - 1
          /\ \A i \in 1 .. Len(mContacts) - 1 :
                mContacts'[i] = IF i < k THEN mContacts[i] ELSE mContacts[i + 1]
      BY <3>2, <3>3, WithoutEntry
    <3>5. DOMAIN mContacts' = 1 .. Len(mContacts) - 1 /\ DOMAIN mContacts = 1 .. Len(mContacts)
      BY <3>3, <3>4
    <3>6. \A i \in DOMAIN mContacts' : mContacts'[i].messages = <<>>
      BY <3>3, <3>4, <3>5 DEF WindowsInv, EntriesHoldOwn
    <3>7. \A i, j \in DOMAIN mContacts' : mContacts'[i].account = mContacts'[j].account => i = j
      <4> SUFFICES ASSUME NEW i \in DOMAIN mContacts', NEW j \in DOMAIN mContacts',
                          mContacts'[i].account = mContacts'[j].account
                   PROVE  i = j
        OBVIOUS
      <4> DEFINE at(n) == IF n < k THEN n ELSE n + 1
      <4>1. at(i) \in DOMAIN mContacts /\ at(j) \in DOMAIN mContacts
        BY <3>3, <3>5
      <4>2. mContacts'[i] = mContacts[at(i)] /\ mContacts'[j] = mContacts[at(j)]
        BY <3>4, <3>5
      <4>3. at(i) = at(j)
        BY <4>1, <4>2 DEF WindowsInv, CopiesAgree
      <4> QED
        BY <3>3, <3>5, <4>3
    <3> QED
      BY <3>4, <3>6, <3>7
  <2> QED
    BY <2>1, <2>2
<1> QED
  BY <1>1, <1>2, NewList DEF WindowsInv, WindowsTypeOK, CopiesAgree

\* The conversation shown becomes that of an entry.
LEMMA ClickStep ==
    ASSUME WindowsInv, NEW row \in DOMAIN mContactList, onClickContact(row)
    PROVE  WindowsInv'
<1>1. /\ mCurrentContact' = mContactList[row]
      /\ mMessageList' = mContactList[row].messages
      /\ outbox' = <<>>
      /\ UNCHANGED <<page, mLoggedUser, mContact, mUser, mContacts, mContactList, count>>
  BY DEF onClickContact, Select, user, contacts
<1>2. mContactList[row] \in ContactRec(Account)
  BY DEF WindowsInv, WindowsTypeOK
<1>3. WindowsTypeOK'
  BY <1>1, <1>2 DEF WindowsInv, WindowsTypeOK, ContactRec, MessageRec
<1>4. CopiesAgree' /\ EntriesHoldOwn'
  BY <1>1 DEF WindowsInv, CopiesAgree, EntriesHoldOwn
<1>5. \A k \in DOMAIN mContactList :
          mContactList[k].account = mContactList[row].account => k = row
  BY DEF WindowsInv, CopiesAgree
<1>6. PanelFollowsSelection'
  BY <1>1, <1>5 DEF WindowsInv, PanelFollowsSelection, EntriesHoldOwn
<1> QED
  BY <1>3, <1>4, <1>6 DEF WindowsInv

\* A conversation with a, and a message of it more.
LEMMA AppendOwn ==
    ASSUME NEW a, NEW s \in Seq(MessageRec), NEW m \in MessageRec, m.with = a,
           \A i \in DOMAIN s : s[i].with = a
    PROVE  \A i \in DOMAIN Append(s, m) : Append(s, m)[i].with = a
<1>1. ASSUME NEW i \in DOMAIN Append(s, m) PROVE Append(s, m)[i].with = a
  <2>1. i \in 1 .. Len(s) + 1 /\ DOMAIN s = 1 .. Len(s) /\ Len(s) \in Nat
    OBVIOUS
  <2>2. Append(s, m)[i] = IF i \in 1 .. Len(s) THEN s[i] ELSE m
    BY <2>1
  <2> QED
    BY <2>1, <2>2
<1> QED
  BY <1>1

\* The list with a message written to the entry of an account.
LEMMA WrittenList ==
    ASSUME WindowsInv, NEW a \in Account, NEW m \in MessageRec, m.with = a
    PROVE  /\ Written(a, m) \in Seq(ContactRec(Account))
           /\ DOMAIN Written(a, m) = DOMAIN mContactList
           /\ \A k \in DOMAIN mContactList :
                 /\ Written(a, m)[k].account = mContactList[k].account
                 /\ Written(a, m)[k].isConnected = mContactList[k].isConnected
                 /\ Written(a, m)[k].messages =
                        IF mContactList[k].account = a THEN Append(mContactList[k].messages, m)
                        ELSE mContactList[k].messages
                 /\ \A i \in DOMAIN Written(a, m)[k].messages :
                        Written(a, m)[k].messages[i].with = mContactList[k].account
<1>1. mContactList \in Seq(ContactRec(Account))
  BY DEF WindowsInv, WindowsTypeOK
<1>2. ASSUME NEW k \in DOMAIN mContactList
      PROVE  /\ Written(a, m)[k] \in ContactRec(Account)
             /\ Written(a, m)[k].account = mContactList[k].account
             /\ Written(a, m)[k].isConnected = mContactList[k].isConnected
             /\ Written(a, m)[k].messages =
                    IF mContactList[k].account = a THEN Append(mContactList[k].messages, m)
                    ELSE mContactList[k].messages
  <2>1. mContactList[k] \in ContactRec(Account)
    BY <1>1
  <2>2. mContactList[k].messages \in Seq(MessageRec)
    BY <2>1 DEF ContactRec
  <2>3. Append(mContactList[k].messages, m) \in Seq(MessageRec)
    BY <2>2
  <2> QED
    BY <2>1, <2>2, <2>3 DEF Written, Rows, ContactRec
<1>3. DOMAIN Written(a, m) = DOMAIN mContactList
  BY DEF Written
<1>4. Written(a, m) \in Seq(ContactRec(Account))
  <2>1. Len(mContactList) \in Nat /\ DOMAIN mContactList = 1 .. Len(mContactList)
    BY <1>1
  <2>2. Written(a, m) \in [1 .. Len(mContactList) -> ContactRec(Account)]
    <3>1. Written(a, m) = [k \in 1 .. Len(mContactList) |-> Written(a, m)[k]]
      BY <2>1 DEF Written
    <3> QED
      BY <1>2, <2>1, <3>1
  <2> QED
    BY <2>1, <2>2, SeqDef
<1>5. ASSUME NEW k \in DOMAIN mContactList, NEW i \in DOMAIN Written(a, m)[k].messages
      PROVE  Written(a, m)[k].messages[i].with = mContactList[k].account
  <2>1. mContactList[k] \in ContactRec(Account)
    BY <1>1
  <2>2. mContactList[k].messages \in Seq(MessageRec)
    BY <2>1 DEF ContactRec
  <2>3. \A n \in DOMAIN mContactList[k].messages :
            mContactList[k].messages[n].with = mContactList[k].account
    BY DEF WindowsInv, EntriesHoldOwn
  <2>4. CASE mContactList[k].account = a
    <3>1. Written(a, m)[k].messages = Append(mContactList[k].messages, m)
      BY <1>2, <2>4
    <3> QED
      BY <2>2, <2>3, <2>4, <3>1, AppendOwn
  <2>5. CASE mContactList[k].account # a
    BY <1>2, <2>3, <2>5
  <2> QED
    BY <2>4, <2>5
<1> QED
  BY <1>2, <1>3, <1>4, <1>5

\* A message received, or sent with success, when the panel shows what is written.
LEMMA NewMessage ==
    ASSUME WindowsInv, NEW a \in Account, NEW m \in MessageRec, m.with = a,
           mContactList' = Written(a, m),
           UNCHANGED <<page, mLoggedUser, mContact, mUser, mContacts>>,
           outbox' \in Seq([to : Account, message : MessageRec]),
           count' \in 0 .. MaxMessages,
           \/ /\ mCurrentContact.account # a /\ UNCHANGED panel
           \/ \E k \in DOMAIN mContactList :
                 mContactList[k].account = a /\ Select(Written(a, m)[k])
    PROVE  WindowsInv'
<1>1. /\ mContactList' \in Seq(ContactRec(Account))
      /\ DOMAIN mContactList' = DOMAIN mContactList
      /\ \A k \in DOMAIN mContactList :
            /\ mContactList'[k].account = mContactList[k].account
            /\ mContactList'[k].isConnected = mContactList[k].isConnected
            /\ mContactList[k].account # a =>
                  mContactList'[k].messages = mContactList[k].messages
            /\ \A i \in DOMAIN mContactList'[k].messages :
                  mContactList'[k].messages[i].with = mContactList[k].account
  BY WrittenList
<1>2. CopiesAgree'
  BY <1>1 DEF WindowsInv, CopiesAgree
<1>3. EntriesHoldOwn'
  BY <1>1 DEF WindowsInv, EntriesHoldOwn
<1>4. CASE mCurrentContact.account # a /\ UNCHANGED panel
  <2>1. WindowsTypeOK'
    BY <1>1, <1>4 DEF WindowsInv, WindowsTypeOK, panel, ContactRec, MessageRec
  <2>2. PanelFollowsSelection'
    BY <1>1, <1>4 DEF WindowsInv, PanelFollowsSelection, panel
  <2> QED
    BY <1>2, <1>3, <2>1, <2>2 DEF WindowsInv
<1>5. CASE \E k \in DOMAIN mContactList :
             mContactList[k].account = a /\ Select(Written(a, m)[k])
  <2>1. PICK k \in DOMAIN mContactList :
               mContactList[k].account = a /\ Select(mContactList'[k])
    BY <1>5
  <2>2. mCurrentContact' = mContactList'[k] /\ mMessageList' = mContactList'[k].messages
    BY <2>1 DEF Select
  <2>3. mContactList'[k] \in ContactRec(Account)
    BY <1>1
  <2>4. WindowsTypeOK'
    BY <1>1, <2>2, <2>3 DEF WindowsInv, WindowsTypeOK, ContactRec, MessageRec
  <2>5. \A j \in DOMAIN mContactList' : mContactList'[j].account = a => j = k
    BY <1>1, <2>1 DEF WindowsInv, CopiesAgree
  <2>6. mCurrentContact'.account = a
    BY <1>1, <2>1, <2>2
  <2>7. PanelFollowsSelection'
    BY <1>1, <2>1, <2>2, <2>5, <2>6 DEF PanelFollowsSelection
  <2> QED
    BY <1>2, <1>3, <2>4, <2>7 DEF WindowsInv
<1> QED
  BY <1>4, <1>5

LEMMA ReceiveStep ==
    ASSUME WindowsInv, NEW a \in Account, receiveMessage(a)
    PROVE  WindowsInv'
<1> DEFINE m == Message(a, a)
<1>1. m \in MessageRec /\ m.with = a /\ count' \in 0 .. MaxMessages
  BY DEF WindowsInv, WindowsTypeOK, receiveMessage, Message, MessageRec
<1>2. PICK k \in DOMAIN mContactList : mContactList[k].account = a /\ Last(Rows(a)) = k
  BY OneRow DEF WindowsInv, receiveMessage
<1>3. /\ mContactList' = Written(a, m)
      /\ IF mCurrentContact.account = a THEN Select(Written(a, m)[k]) ELSE UNCHANGED panel
      /\ outbox' = <<>>
      /\ UNCHANGED <<page, mLoggedUser, mContact, mUser, mContacts>>
  BY <1>2 DEF receiveMessage, Shown, user
<1>4. outbox' \in Seq([to : Account, message : MessageRec])
  BY <1>3
<1> HIDE DEF m
<1> QED
  BY <1>1, <1>2, <1>3, <1>4, NewMessage

\* What a step that sends does: the selected contact has one entry, k, which is
\* written to and shown.
LEMMA SendDoes ==
    ASSUME WindowsInv, onSendButtonClicked
    PROVE  \E a \in Account, m \in MessageRec, k \in DOMAIN mContactList :
              /\ m.with = a /\ mContactList[k].account = a
              /\ mContactList' = Written(a, m) /\ Select(Written(a, m)[k])
              /\ outbox' = <<[to |-> a, message |-> m]>>
              /\ count' \in 0 .. MaxMessages
              /\ UNCHANGED <<page, mLoggedUser, mContact, mUser, mContacts>>
<1> DEFINE a == mCurrentContact.account
<1> DEFINE m == Message(mUser, a)
<1>1. PICK k \in DOMAIN mContactList :
         Rows(a) = {k} /\ mContactList[k].account = a /\ Last(Rows(a)) = k
         /\ Cardinality(Rows(a)) = 1
  BY OneRow DEF WindowsInv, onSendButtonClicked
<1>2. a \in Account
  <2>1. mContactList[k] \in ContactRec(Account)
    BY DEF WindowsInv, WindowsTypeOK
  <2> QED
    BY <1>1, <2>1 DEF ContactRec
<1>3. m \in MessageRec /\ m.with = a /\ count' \in 0 .. MaxMessages
  BY <1>2 DEF WindowsInv, WindowsTypeOK, onSendButtonClicked, Message, MessageRec
<1>4. outbox' = [n \in 1 .. 1 |-> [to |-> a, message |-> m]]
  BY <1>1 DEF onSendButtonClicked
<1>5. outbox' = <<[to |-> a, message |-> m]>>
  BY <1>4
<1>6. mContactList' = Written(a, m) /\ Select(Written(a, m)[k])
      /\ UNCHANGED <<page, mLoggedUser, mContact, mUser, mContacts>>
  BY <1>1 DEF onSendButtonClicked, user
<1> HIDE DEF a, m
<1> QED
  BY <1>1, <1>2, <1>3, <1>5, <1>6

LEMMA SendStep ==
    ASSUME WindowsInv, onSendButtonClicked
    PROVE  WindowsInv'
<1>1. PICK a \in Account, m \in MessageRec, k \in DOMAIN mContactList :
              /\ m.with = a /\ mContactList[k].account = a
              /\ mContactList' = Written(a, m) /\ Select(Written(a, m)[k])
              /\ outbox' = <<[to |-> a, message |-> m]>>
              /\ count' \in 0 .. MaxMessages
              /\ UNCHANGED <<page, mLoggedUser, mContact, mUser, mContacts>>
  BY SendDoes
<1>2. [to |-> a, message |-> m] \in [to : Account, message : MessageRec]
  OBVIOUS
<1>3. outbox' \in Seq([to : Account, message : MessageRec])
  BY <1>1, <1>2
<1> QED
  BY <1>1, <1>3, NewMessage

\* The loss empties the lists, and the panel shows what was written before it.
LEMMA FailStep ==
    ASSUME WindowsInv, sendFails
    PROVE  WindowsInv'
<1> DEFINE a == mCurrentContact.account
<1> DEFINE m == Message(mUser, a)
<1>1. PICK k \in DOMAIN mContactList :
         mContactList[k].account = a /\ First(Rows(a)) = k
  BY OneRow DEF WindowsInv, sendFails, updateContactList, setContactList
<1>2. a \in Account
  <2>1. mContactList[k] \in ContactRec(Account)
    BY DEF WindowsInv, WindowsTypeOK
  <2> QED
    BY <1>1, <2>1 DEF ContactRec
<1>3. m \in MessageRec /\ m.with = a /\ count' \in 0 .. MaxMessages
  BY <1>2 DEF WindowsInv, WindowsTypeOK, sendFails, updateContactList, setContactList,
              Message, MessageRec
<1>4. /\ mCurrentContact' = Written(a, m)[k]
      /\ mMessageList' = Written(a, m)[k].messages
      /\ page' = "mFlyer" /\ mContacts' = <<>> /\ mContactList' = <<>> /\ outbox' = <<>>
      /\ UNCHANGED <<mLoggedUser, mContact, mUser>>
  BY <1>1 DEF sendFails, updateContactList, setContactList, Select, user
<1> HIDE DEF a, m
<1>5. /\ Written(a, m)[k] \in ContactRec(Account)
      /\ Written(a, m)[k].account = a
      /\ \A i \in DOMAIN Written(a, m)[k].messages : Written(a, m)[k].messages[i].with = a
  BY <1>1, <1>2, <1>3, WrittenList
<1>6. WindowsTypeOK'
  BY <1>3, <1>4, <1>5 DEF WindowsInv, WindowsTypeOK, Page, ContactRec, MessageRec
<1>7. CopiesAgree' /\ EntriesHoldOwn'
  BY <1>4 DEF WindowsInv, CopiesAgree, EntriesHoldOwn
<1>8. PanelFollowsSelection'
  BY <1>4, <1>5 DEF PanelFollowsSelection
<1> QED
  BY <1>6, <1>7, <1>8 DEF WindowsInv

-----------------------------------------------------------------------------
(* The theorems *)

LEMMA WindowsStart ==
    ASSUME WindowsInit
    PROVE  WindowsInv
<1>1. WindowsTypeOK
  BY DEF WindowsInit, WindowsTypeOK, Contact, ContactRec, Page
<1>2. CopiesAgree /\ PanelFollowsSelection /\ EntriesHoldOwn
  BY DEF WindowsInit, CopiesAgree, PanelFollowsSelection, EntriesHoldOwn, Contact
<1> QED
  BY <1>1, <1>2 DEF WindowsInv

LEMMA WindowsSteps ==
    ASSUME WindowsInv, [WindowsNext]_windowsVars
    PROVE  WindowsInv'
<1>1. CASE \/ displaySignUp \/ displayOptions \/ displayFlyer \/ displayUpdate \/ displayHome
           \/ disconnectionToAccount
           \/ createAccountSuccess \/ connectToServerSuccess \/ authenticateSuccess
  BY <1>1, PageStep
     DEF displaySignUp, displayOptions, displayFlyer, displayUpdate, displayHome,
         disconnectionToAccount, createAccountSuccess, connectToServerSuccess,
         authenticateSuccess, Page
<1>2. CASE disconnectedFromServer
  BY <1>2, LossStep
<1>3. CASE \E a \in Account : connexionToAccount(a)
  BY <1>3, LoginStep
<1>4. CASE \E a \in Account, isConnected \in BOOLEAN : receiveContactInfo(a, isConnected)
  BY <1>4, InfoStep
<1>5. CASE \E a \in Account : receiveContactDeletion(a)
  BY <1>5, DeletionStep
<1>6. CASE \E a \in Account : receiveMessage(a)
  BY <1>6, ReceiveStep
<1>7. CASE \E row \in DOMAIN mContactList : onClickContact(row)
  BY <1>7, ClickStep
<1>8. CASE onSendButtonClicked
  BY <1>8, SendStep
<1>9. CASE sendFails
  BY <1>9, FailStep
<1>10. CASE UNCHANGED windowsVars
  BY <1>10 DEF WindowsInv, WindowsTypeOK, CopiesAgree, PanelFollowsSelection, EntriesHoldOwn,
               windowsVars, user, contacts, panel, ContactRec, MessageRec
<1> QED
  BY <1>1, <1>2, <1>3, <1>4, <1>5, <1>6, <1>7, <1>8, <1>9, <1>10 DEF WindowsNext

LEMMA WindowsInvariant == WindowsSpec => []WindowsInv
<1>1. WindowsInit => WindowsInv
  BY WindowsStart
<1>2. WindowsInv /\ [WindowsNext]_windowsVars => WindowsInv'
  BY WindowsSteps
<1> QED
  BY <1>1, <1>2, PTL DEF WindowsSpec

\* The three copies of the list and the two of the user's account agree, and no
\* account has two entries, after any number of answers of the server in any order.
THEOREM CopiesAgreeHolds == WindowsSpec => []CopiesAgree
<1>1. WindowsInv => CopiesAgree
  BY DEF WindowsInv
<1> QED
  BY <1>1, WindowsInvariant, PTL

\* The panel shows the selected conversation, as far as the entry of the contact goes.
THEOREM PanelHolds == WindowsSpec => []PanelFollowsSelection
<1>1. WindowsInv => PanelFollowsSelection
  BY DEF WindowsInv
<1> QED
  BY <1>1, WindowsInvariant, PTL

LEMMA SendShows ==
    ASSUME WindowsInv, onSendButtonClicked
    PROVE  /\ Len(outbox') = 1
           /\ outbox'[1].to = mCurrentContact'.account
           /\ mMessageList' # <<>>
           /\ outbox'[1].message = mMessageList'[Len(mMessageList')]
<1>1. PICK a \in Account, m \in MessageRec, k \in DOMAIN mContactList :
              /\ m.with = a /\ mContactList[k].account = a
              /\ Select(Written(a, m)[k])
              /\ outbox' = <<[to |-> a, message |-> m]>>
  BY SendDoes
<1>2. /\ Written(a, m)[k].account = a
      /\ Written(a, m)[k].messages = Append(mContactList[k].messages, m)
  BY <1>1, WrittenList
<1>3. mContactList[k].messages \in Seq(MessageRec)
  <2>1. mContactList[k] \in ContactRec(Account)
    BY DEF WindowsInv, WindowsTypeOK
  <2> QED
    BY <2>1 DEF ContactRec
<1>4. mCurrentContact'.account = a /\ mMessageList' = Append(mContactList[k].messages, m)
  BY <1>1, <1>2 DEF Select
<1>5. mMessageList' # <<>> /\ mMessageList'[Len(mMessageList')] = m
  BY <1>3, <1>4
<1>6. Len(outbox') = 1 /\ outbox'[1] = [to |-> a, message |-> m]
  BY <1>1
<1> QED
  BY <1>4, <1>5, <1>6

\* What is typed is sent once, to whom the panel shows the conversation with.
THEOREM SentOnceHolds == WindowsSpec => SentOnceAsShown
<1> DEFINE Sent == outbox' # <<>> =>
              /\ Len(outbox') = 1
              /\ outbox'[1].to = mCurrentContact'.account
              /\ mMessageList' # <<>>
              /\ outbox'[1].message = mMessageList'[Len(mMessageList')]
<1>1. ASSUME WindowsInv, [WindowsNext]_windowsVars
      PROVE  [Sent]_windowsVars
  <2>1. CASE onSendButtonClicked
    BY <1>1, <2>1, SendShows
  <2>2. CASE ~onSendButtonClicked /\ WindowsNext
    <3>1. outbox' = <<>>
      BY <2>2 DEF WindowsNext, displaySignUp, displayOptions, displayFlyer, displayUpdate,
                  displayHome, disconnectionToAccount, createAccountSuccess,
                  connectToServerSuccess, authenticateSuccess, Turns,
                  disconnectedFromServer, updateContactList, setContactList,
                  connexionToAccount, receiveContactInfo, updateInfo, setUser,
                  receiveContactDeletion, receiveMessage, onClickContact, sendFails
    <3> QED
      BY <3>1
  <2>3. CASE UNCHANGED windowsVars
    BY <2>3
  <2> QED
    BY <1>1, <2>1, <2>2, <2>3
<1> QED
  BY <1>1, WindowsInvariant, PTL DEF WindowsSpec, SentOnceAsShown
=============================================================================
