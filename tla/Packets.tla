------------------------------- MODULE Packets -------------------------------
(***************************************************************************)
(* The packets of Babel's 15 commands, as each end lays them out, fills    *)
(* and reads them: the client (src/Babel/client) and the server            *)
(* (src/Babel/server) declare their structures, numbers and conversions    *)
(* separately.                                                             *)
(*                                                                         *)
(* A structure is the sequence of its fields, with their widths; none has  *)
(* padding.  Of a text is kept how long it is, in characters and in bytes, *)
(* and of a field which text is in it and how many of its bytes, the rest  *)
(* being zero.                                                             *)
(***************************************************************************)
EXTENDS Naturals, Sequences, SequencesExt

Field(name, width) == [name |-> name, width |-> width]

Widths(layout) == [k \in DOMAIN layout |-> layout[k].width]
Size(layout) == FoldSeq(+, 0, Widths(layout))
Offset(layout, k) == Size(SubSeq(layout, 1, k - 1))

-----------------------------------------------------------------------------
(* Numbers and their meanings *)

Numbered(first, names) == [n \in first .. first + Len(names) - 1 |-> names[n - first + 1]]

ClientInstruction ==
    Numbered(1, <<"REG", "LOG", "LIST", "SHOW", "ADD", "ACCEPT_ADD", "DEL", "EXIT", "UPDATE",
                  "SEND", "CALL", "ACCEPT_CALL", "CLOSE_CALL", "ERR", "HANDSHAKE">>)

ServerInstruction ==
    Numbered(1, <<"REG", "LOG", "LIST", "SHOW", "ADD", "ACCEPT_ADD", "DEL", "EXIT", "UPDATE",
                  "SEND", "CALL", "ACCEPT_CALL", "CLOSE_CALL", "ERR", "HANDSHAKE">>)

ClientErrorCode ==
    Numbered(0, <<"OK", "THE_IMPOSSIBLE_HAPPENED", "FAIL_INIT_SOCKET", "FAIL_INIT_AUDIO",
                  "WRONG_PACKET_STRUCT", "REGISTER_ACC_ALREADY_USED", "LOGIN_WRONG_PASSWORD",
                  "UNKNOWN_ACCOUNT", "ACTIONS_TO_OFFLINE_ACCOUNT", "CANNOT_DO_CALL_MULTIPLE",
                  "CANNOT_ACCEPT_CALL_FROM_NOT_A_CALLER",
                  "CANNOT_CLOSE_CALL_WHEN_YOU_ARENT_CALLING",
                  "LOGIN_ON_ALREADY_LOGGED_ACCOUNT", "CANNOT_ADD_YOURSELF",
                  "CANNOT_CALL_YOURSELF", "YOU_ARE_NOT_LOGGED", "ALREADY_CONNECTED",
                  "ALREADY_IN_YOUR_CONTACT_LIST", "NOT_IN_YOUR_CONTACT_LIST",
                  "BUSY_CONTACT_CANNOT_REPLY", "NOT_IN_COMMUNICATION_WITH_HIM",
                  "CANNOT_LOAD_DATA", "CANNOT_SAVE_DATA", "YOU_CANNOT_UPDATE_OTHER_ACCOUNT",
                  "INVALID_STATUS_ID">>)

ServerErrorCode ==
    Numbered(0, <<"OK", "THE_IMPOSSIBLE_HAPPENED", "FAIL_INIT_SOCKET", "FAIL_INIT_AUDIO",
                  "WRONG_PACKET_STRUCT", "REGISTER_ACC_ALREADY_USED", "LOGIN_WRONG_PASSWORD",
                  "UNKNOWN_ACCOUNT", "ACTIONS_TO_OFFLINE_ACCOUNT", "CANNOT_DO_CALL_MULTIPLE",
                  "CANNOT_ACCEPT_CALL_FROM_NOT_A_CALLER",
                  "CANNOT_CLOSE_CALL_WHEN_YOU_ARENT_CALLING",
                  "LOGIN_ON_ALREADY_LOGGED_ACCOUNT", "CANNOT_ADD_YOURSELF",
                  "CANNOT_CALL_YOURSELF", "YOU_ARE_NOT_LOGGED", "ALREADY_CONNECTED",
                  "ALREADY_IN_YOUR_CONTACT_LIST", "NOT_IN_YOUR_CONTACT_LIST",
                  "BUSY_CONTACT_CANNOT_REPLY", "NOT_IN_COMMUNICATION_WITH_HIM",
                  "CANNOT_LOAD_DATA", "CANNOT_SAVE_DATA", "YOU_CANNOT_UPDATE_OTHER_ACCOUNT",
                  "INVALID_STATUS_ID">>)

ClientStatus ==
    Numbered(0, <<"CONNECTED", "DISCONNECTED", "BUSY", "AWAY", "KIPOUR", "SLEEPING", "RAMADAN",
                  "SPORT", "TOILET", "YOLO", "CRYING">>)

ServerStatus ==
    Numbered(0, <<"CONNECTED", "DISCONNECTED", "BUSY", "AWAY", "KIPOUR", "SLEEPING", "RAMADAN",
                  "SPORT", "TOILET", "YOLO", "CRYING">>)

Flag == Numbered(0, <<"no", "yes">>)

\* What each end takes the numbers in fields and headers for.
ClientNumbers ==
    [instructionCode |-> ClientInstruction, errorCode |-> ClientErrorCode,
     status |-> ClientStatus, hasAccepted |-> Flag, isConnected |-> Flag]
ServerNumbers ==
    [instructionCode |-> ServerInstruction, errorCode |-> ServerErrorCode,
     status |-> ServerStatus, hasAccepted |-> Flag, isConnected |-> Flag]

IsNumber(name) == name \in DOMAIN ClientNumbers
NumberOf(table, meaning) == CHOOSE n \in DOMAIN table : table[n] = meaning

-----------------------------------------------------------------------------
(* What the client sends *)

Reg_PacketFromClient == <<Field("accountName", 256), Field("pseudo", 256), Field("password", 256)>>
Log_PacketFromClient == <<Field("accountName", 256), Field("password", 256)>>
Show_PacketFromClient == <<Field("accountName", 256)>>
Add_PacketFromClient == <<Field("accountName", 256)>>
AcceptAdd_PacketFromClient == <<Field("accountName", 256), Field("hasAccepted", 1)>>
Del_PacketFromClient == <<Field("accountName", 256)>>
Update_PacketFromClient ==
    <<Field("accountName", 256), Field("pseudo", 256), Field("password", 256), Field("status", 1)>>
Send_PacketFromClient == <<Field("accountName", 256), Field("textMessage", 4096)>>
Call_PacketFromClient == <<Field("accountName", 256)>>
AcceptCall_PacketFromClient == <<Field("accountName", 256), Field("hasAccepted", 1)>>
CloseCall_PacketFromClient == <<Field("accountName", 256)>>

PacketFromClient ==
    [REG |-> Reg_PacketFromClient, LOG |-> Log_PacketFromClient, LIST |-> <<>>,
     SHOW |-> Show_PacketFromClient, ADD |-> Add_PacketFromClient,
     ACCEPT_ADD |-> AcceptAdd_PacketFromClient, DEL |-> Del_PacketFromClient, EXIT |-> <<>>,
     UPDATE |-> Update_PacketFromClient, SEND |-> Send_PacketFromClient,
     CALL |-> Call_PacketFromClient, ACCEPT_CALL |-> AcceptCall_PacketFromClient,
     CLOSE_CALL |-> CloseCall_PacketFromClient, HANDSHAKE |-> <<>>]

\* Mutant of PutByClient: the last byte of a field is not left zero.
PutByClientWithoutEnd(text, width) == IF text.chars < width THEN text.chars ELSE width

\* How much of a text the client copies: as many bytes as it has characters,
\* and one less than the field has at most.
PutByClient(text, width) == IF text.chars < width THEN text.chars ELSE width - 1

-----------------------------------------------------------------------------
(* What the server reads, and as what its handlers take what getParam pushed *)

Reg_Body == <<Field("accountName", 256), Field("pseudo", 256), Field("password", 256)>>
Log_Body == <<Field("accountName", 256), Field("password", 256)>>
Show_Body == <<Field("accountName", 256)>>
Add_Body == <<Field("accountName", 256)>>
AcceptAdd_Body == <<Field("accountName", 256), Field("hasAccepted", 1)>>
Del_Body == <<Field("accountName", 256)>>
Update_Body ==
    <<Field("accountName", 256), Field("pseudo", 256), Field("password", 256), Field("status", 1)>>
Send_Body == <<Field("accountName", 256), Field("textMessage", 4096)>>
Call_Body == <<Field("accountName", 256)>>
AcceptCall_Body == <<Field("accountName", 256), Field("hasAccepted", 1)>>
CloseCall_Body == <<Field("accountName", 256)>>

Body ==
    [REG |-> Reg_Body, LOG |-> Log_Body, LIST |-> <<>>, SHOW |-> Show_Body, ADD |-> Add_Body,
     ACCEPT_ADD |-> AcceptAdd_Body, DEL |-> Del_Body, EXIT |-> <<>>, UPDATE |-> Update_Body,
     SEND |-> Send_Body, CALL |-> Call_Body, ACCEPT_CALL |-> AcceptCall_Body,
     CLOSE_CALL |-> CloseCall_Body, HANDSHAKE |-> <<>>]

onUpdate_param == <<"accountName", "pseudo", "password", "status">>
onReg_param == <<"accountName", "pseudo", "password">>
onLog_param == <<"accountName", "password">>
onSend_param == <<"accountName", "textMessage">>
onAcceptAdd_param == <<"accountName", "hasAccepted">>
onAcceptCall_param == <<"accountName", "hasAccepted">>

HandlerTakes ==
    [REG |-> onReg_param, LOG |-> onLog_param, LIST |-> <<>>, SHOW |-> <<"accountName">>,
     ADD |-> <<"accountName">>, ACCEPT_ADD |-> onAcceptAdd_param, DEL |-> <<"accountName">>,
     EXIT |-> <<>>, UPDATE |-> onUpdate_param, SEND |-> onSend_param,
     CALL |-> <<"accountName">>, ACCEPT_CALL |-> onAcceptCall_param,
     CLOSE_CALL |-> <<"accountName">>, HANDSHAKE |-> <<>>]

-----------------------------------------------------------------------------
(* What the server sends: its structures without the header, and what        *)
(* handlers pass to packCmd                                                  *)

Show_BodySend ==
    <<Field("accountName", 256), Field("pseudo", 256), Field("status", 1), Field("isConnected", 1)>>
Add_BodySend == <<Field("accountName", 256)>>
AcceptAdd_BodySend == <<Field("accountName", 256), Field("hasAccepted", 1)>>
Del_BodySend == <<Field("accountName", 256)>>
Send_BodySend == <<Field("accountName", 256), Field("textMessage", 4096)>>
Call_BodySend == <<Field("accountName", 256)>>
AcceptCall_BodySend == <<Field("accountName", 256), Field("host", 15), Field("hasAccepted", 1)>>
CloseCall_BodySend == <<Field("accountName", 256)>>
Handshake_BodySend == <<>>
Err_Body == <<Field("instructionCode", 4), Field("errorCode", 4)>>

BodySend ==
    [SHOW |-> Show_BodySend, ADD |-> Add_BodySend, ACCEPT_ADD |-> AcceptAdd_BodySend,
     DEL |-> Del_BodySend, SEND |-> Send_BodySend, CALL |-> Call_BodySend,
     ACCEPT_CALL |-> AcceptCall_BodySend, CLOSE_CALL |-> CloseCall_BodySend,
     HANDSHAKE |-> Handshake_BodySend, ERR |-> Err_Body]

notifyMyFriends_args == <<"accountName", "pseudo", "status", "isConnected">>
onSend_args == <<"accountName", "textMessage">>
onAcceptCall_args == <<"accountName", "host", "hasAccepted">>
sendStateCommand_args == <<"errorCode", "instructionCode">>

HandlerPasses ==
    [SHOW |-> notifyMyFriends_args, ADD |-> <<"accountName">>, DEL |-> <<"accountName">>,
     SEND |-> onSend_args, CALL |-> <<"accountName">>, ACCEPT_CALL |-> onAcceptCall_args,
     CLOSE_CALL |-> <<"accountName">>, HANDSHAKE |-> <<>>, ERR |-> sendStateCommand_args]

\* How much of a text the server copies.
PutByServer(text, width) == IF text.bytes < width THEN text.bytes ELSE width - 1

-----------------------------------------------------------------------------
(* What the client reads *)

Show_PacketFromServer ==
    <<Field("accountName", 256), Field("pseudo", 256), Field("status", 1), Field("isConnected", 1)>>
Add_PacketFromServer == <<Field("accountName", 256)>>
Del_PacketFromServer == <<Field("accountName", 256)>>
Send_PacketFromServer == <<Field("accountName", 256), Field("textMessage", 4096)>>
Call_PacketFromServer == <<Field("accountName", 256)>>

\* Mutant of AcceptCall_PacketFromServer: the client declares the Boolean first.
AcceptCall_hasAcceptedFirst ==
    <<Field("accountName", 256), Field("hasAccepted", 1), Field("host", 15)>>

AcceptCall_PacketFromServer ==
    <<Field("accountName", 256), Field("host", 15), Field("hasAccepted", 1)>>

CloseCall_PacketFromServer == <<Field("accountName", 256)>>
Err_PacketFromServer == <<Field("instructionCode", 4), Field("errorCode", 4)>>

PacketFromServer ==
    [SHOW |-> Show_PacketFromServer, ADD |-> Add_PacketFromServer, DEL |-> Del_PacketFromServer,
     SEND |-> Send_PacketFromServer, CALL |-> Call_PacketFromServer,
     ACCEPT_CALL |-> AcceptCall_PacketFromServer, CLOSE_CALL |-> CloseCall_PacketFromServer,
     HANDSHAKE |-> <<>>, ERR |-> Err_PacketFromServer]

-----------------------------------------------------------------------------
(* The client's classes of commands: the members that have accessors, those  *)
(* that getMessage puts into the packet, and those that initFromMessage sets *)

\* A class of commands without a body.
Bare(i) == [getInstruction |-> i, accessors |-> {}, getMessage |-> {}, initFromMessage |-> {}]

\* A class of commands that only name an account, both ways.
AboutAccount(i) ==
    [getInstruction |-> i, accessors |-> {"accountName"}, getMessage |-> {"accountName"},
     initFromMessage |-> {"accountName"}]

CommandReg ==
    [Bare("REG") EXCEPT !.accessors = {"accountName", "pseudo", "password"},
                        !.getMessage = {"accountName", "password", "pseudo"}]

CommandLog ==
    [Bare("LOG") EXCEPT !.accessors = {"accountName", "password"},
                        !.getMessage = {"accountName", "password"}]

CommandList == Bare("LIST")

CommandShow ==
    [AboutAccount("SHOW") EXCEPT
        !.accessors = {"accountName", "pseudo", "status", "isConnected"},
        !.initFromMessage = {"accountName", "pseudo", "status", "isConnected"}]

CommandAdd == AboutAccount("ADD")

CommandAcceptAdd ==
    [Bare("ACCEPT_ADD") EXCEPT !.accessors = {"accountName", "hasAccepted"},
                               !.getMessage = {"accountName", "hasAccepted"}]

CommandDel == AboutAccount("DEL")

CommandExit == Bare("EXIT")

CommandUpdate ==
    [Bare("UPDATE") EXCEPT !.accessors = {"accountName", "pseudo", "password", "status"},
                           !.getMessage = {"accountName", "password", "pseudo", "status"}]

CommandSend ==
    [Bare("SEND") EXCEPT !.accessors = {"accountName", "textMessage"},
                         !.getMessage = {"accountName", "textMessage"},
                         !.initFromMessage = {"accountName", "textMessage"}]

CommandCall == AboutAccount("CALL")

CommandAcceptCall ==
    [Bare("ACCEPT_CALL") EXCEPT !.accessors = {"accountName", "host", "hasAccepted"},
                                !.getMessage = {"accountName", "hasAccepted"},
                                !.initFromMessage = {"accountName", "host", "hasAccepted"}]

CommandCloseCall == AboutAccount("CLOSE_CALL")

CommandHandshake == Bare("HANDSHAKE")

CommandErr ==
    [Bare("ERR") EXCEPT !.accessors = {"instructionCode", "errorCode"},
                        !.initFromMessage = {"instructionCode", "errorCode"}]

\* getCommand: the class for an instruction.
ClientCommand ==
    [REG |-> CommandReg, LOG |-> CommandLog, LIST |-> CommandList, SHOW |-> CommandShow,
     ADD |-> CommandAdd, ACCEPT_ADD |-> CommandAcceptAdd, DEL |-> CommandDel,
     EXIT |-> CommandExit, UPDATE |-> CommandUpdate, SEND |-> CommandSend,
     CALL |-> CommandCall, ACCEPT_CALL |-> CommandAcceptCall, CLOSE_CALL |-> CommandCloseCall,
     HANDSHAKE |-> CommandHandshake, ERR |-> CommandErr]

-----------------------------------------------------------------------------
(* The server's classes of commands: how much of a body they await, the      *)
(* fields in the order in which getParam pushes them, the instruction that   *)
(* setParam puts into a header, and the field for each of its param          *)

\* A class whose setParam returns NULL.
NeverSent(names, bodySize) ==
    [getSizeBody |-> bodySize, getParam |-> names, instructionCode |-> "none", setParam |-> <<>>]

\* A class of commands that only name an account, both ways.
Naming(i, bodySize) ==
    [getSizeBody |-> bodySize, getParam |-> <<"accountName">>, instructionCode |-> i,
     setParam |-> <<"accountName">>]

ServerReg == NeverSent(<<"accountName", "pseudo", "password">>, Size(Reg_Body))

ServerLog == NeverSent(<<"accountName", "password">>, Size(Log_Body))

ServerList == NeverSent(<<>>, 0)

ServerShow ==
    [Naming("SHOW", Size(Show_Body)) EXCEPT
        !.setParam = <<"accountName", "pseudo", "status", "isConnected">>]

ServerAdd == Naming("ADD", Size(Add_Body))

ServerAcceptAdd ==
    [Naming("ACCEPT_ADD", Size(AcceptAdd_Body)) EXCEPT
        !.getParam = <<"accountName", "hasAccepted">>, !.setParam = <<"accountName", "hasAccepted">>]

ServerDel == Naming("DEL", Size(Del_Body))

ServerExit == NeverSent(<<>>, 0)

ServerUpdate == NeverSent(<<"accountName", "pseudo", "password", "status">>, Size(Update_Body))

ServerSend ==
    [Naming("SEND", Size(Send_Body)) EXCEPT
        !.getParam = <<"accountName", "textMessage">>, !.setParam = <<"accountName", "textMessage">>]

ServerCall == Naming("CALL", Size(Call_Body))

ServerAcceptCall ==
    [Naming("ACCEPT_CALL", Size(AcceptCall_Body)) EXCEPT
        !.getParam = <<"accountName", "hasAccepted">>,
        !.setParam = <<"accountName", "host", "hasAccepted">>]

ServerCloseCall == Naming("CLOSE_CALL", Size(CloseCall_Body))

ServerHandshake ==
    [getSizeBody |-> 0, getParam |-> <<>>, instructionCode |-> "HANDSHAKE", setParam |-> <<>>]

ServerErr ==
    [getSizeBody |-> Size(Err_Body), getParam |-> <<>>, instructionCode |-> "ERR",
     setParam |-> <<"errorCode", "instructionCode">>]

\* getCommand: the class for an instruction.
ServerCommand ==
    [REG |-> ServerReg, LOG |-> ServerLog, LIST |-> ServerList, SHOW |-> ServerShow,
     ADD |-> ServerAdd, ACCEPT_ADD |-> ServerAcceptAdd, DEL |-> ServerDel, EXIT |-> ServerExit,
     UPDATE |-> ServerUpdate, SEND |-> ServerSend, CALL |-> ServerCall,
     ACCEPT_CALL |-> ServerAcceptCall, CLOSE_CALL |-> ServerCloseCall,
     HANDSHAKE |-> ServerHandshake, ERR |-> ServerErr]
=============================================================================
