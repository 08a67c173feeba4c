-------------------------------- MODULE Codec --------------------------------
(***************************************************************************)
(* Writing and reading the packets of Packets: the server writes what its  *)
(* handlers pass by position, reads texts up to a zero byte and hands them *)
(* to handlers by position; the client fills and reads members by name,    *)
(* and ends texts itself, all but the host.                                *)
(***************************************************************************)
EXTENDS Packets

\* A text, or what a number means.
Text(chars, bytes) == [chars |-> chars, bytes |-> bytes, meaning |-> "text"]
Meaning(meaning) == [chars |-> 0, bytes |-> 0, meaning |-> meaning]

-----------------------------------------------------------------------------
(* Writing *)

Put(writer, v, width) == IF writer = "client" THEN PutByClient(v, width) ELSE PutByServer(v, width)
Numbers(writer) == IF writer = "client" THEN ClientNumbers ELSE ServerNumbers

\* A field holds argument, of value v: kept bytes of a text, or a number.
Cell(argument, v, width, writer) ==
    [argument |-> argument, width |-> width,
     kept |-> IF IsNumber(argument) THEN NumberOf(Numbers(writer)[argument], v.meaning)
              ELSE Put(writer, v, width)]

\* What memset leaves.
Zeros(width) == [argument |-> "none", width |-> width, kept |-> 0]

\* The fields of a structure, of which filled holds arguments by name.
Written(layout, filled, value, writer) ==
    [k \in DOMAIN layout |->
        LET field == layout[k]
        IN  IF field.name \notin DOMAIN filled THEN Zeros(field.width)
            ELSE Cell(filled[field.name], value[filled[field.name]], field.width, writer)]

\* getMessage puts what setters have set.
WrittenByClient(i, value) ==
    LET set == ClientCommand[i].getMessage \cap ClientCommand[i].accessors
    IN  Written(PacketFromClient[i], [name \in set |-> name], value, "client")

WrittenByServer(i, value) ==
    LET names == ServerCommand[i].setParam
        filled == [name \in ToSet(names) |->
                      HandlerPasses[i][CHOOSE k \in DOMAIN names : names[k] = name]]
    IN  Written(BodySend[i], filled, value, "server")

-----------------------------------------------------------------------------
(* Reading *)

Got(argument, kept, meaning) == [argument |-> argument, kept |-> kept, meaning |-> meaning]

\* What is read where nobody wrote such a field.
Garbled == Got("garbled", 0, "garbled")

\* A text is read up to the first zero byte.  One that fills its field is cut by
\* its reader, or else runs into what comes after it.
ReadText(cell, isCut) ==
    IF cell.kept < cell.width THEN Got(cell.argument, cell.kept, "text")
    ELSE IF isCut THEN Got(cell.argument, cell.width - 1, "text") ELSE Garbled

ReadNumber(cell, table) ==
    IF cell.kept \in DOMAIN table THEN Got(cell.argument, 0, table[cell.kept]) ELSE Garbled

\* The field of that name, where the reader's structure has it.
ReadField(layout, packet, name, isCut, numbers) ==
    LET k == CHOOSE k \in DOMAIN layout : layout[k].name = name
        there == {j \in DOMAIN packet : /\ Offset(packet, j) = Offset(layout, k)
                                        /\ packet[j].width = layout[k].width
                                        /\ IsNumber(packet[j].argument) = IsNumber(name)}
    IN  IF there = {} THEN Garbled
        ELSE LET cell == packet[CHOOSE j \in there : TRUE]
             IN  IF IsNumber(name) THEN ReadNumber(cell, numbers[name]) ELSE ReadText(cell, isCut)

ReadByServer(i, packet) ==
    [k \in DOMAIN ServerCommand[i].getParam |->
        ReadField(Body[i], packet, ServerCommand[i].getParam[k], FALSE, ServerNumbers)]

\* What getters give of what initFromMessage has set.
NamesRead(i) == ClientCommand[i].initFromMessage \cap ClientCommand[i].accessors

ReadByClient(i, packet) ==
    [name \in NamesRead(i) |->
        ReadField(PacketFromServer[i], packet, name, name # "host", ClientNumbers)]

-----------------------------------------------------------------------------
(* What should be read *)

AsMeant(argument, v) == Got(argument, v.bytes, v.meaning)

\* A text whole if it leaves a zero byte in its field, or the beginning that does.
AsFits(argument, v, layout) ==
    LET k == CHOOSE k \in DOMAIN layout : layout[k].name = argument
    IN  Got(argument, IF IsNumber(argument) \/ v.bytes < layout[k].width THEN v.bytes
                      ELSE layout[k].width - 1, v.meaning)
=============================================================================
