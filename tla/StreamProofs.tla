----------------------------- MODULE StreamProofs -----------------------------
(***************************************************************************)
(* Proofs about the client's end of a connection, for any size of the      *)
(* header and any number of commands, connections and requests.            *)
(***************************************************************************)
EXTENDS CommandStreamProperties, TLAPS

-----------------------------------------------------------------------------
(* Sums.  A structure has at most four fields, so their sum, which the       *)
(* community modules fold over the sets of fields in no given order, is      *)
(* found by going through those sets by their size.                          *)

Part(w, s, k) == IF k \in s THEN w[k] ELSE 0
SumOver(w, s) == Part(w, s, 1) + Part(w, s, 2) + Part(w, s, 3) + Part(w, s, 4)
PartialSums(w) == [s \in SUBSET DOMAIN w |-> SumOver(w, s)]

\* Size adds the widths of up to four fields.
LEMMA FoldOfFour ==
    ASSUME NEW n \in 0..4, NEW w \in [1..n -> Nat]
    PROVE  FoldSeq(+, 0, w) = SumOver(w, 1..n)
<1> DEFINE S == 1..n
           Pick(s) == CHOOSE x \in s : TRUE
           Step(f) == [s \in SUBSET S |-> IF s = {} THEN 0 ELSE w[Pick(s)] + f[s \ {Pick(s)}]]
           Iter == CHOOSE f : f = Step(f)
           G == PartialSums(w)
<1>1. FoldSeq(+, 0, w) = Iter[S]
  BY DEF FoldSeq, FoldFunction, FoldFunctionOnSet, MapThenFoldSet
<1>2. \A s \in SUBSET S : \A x \in s : SumOver(w, s) = w[x] + SumOver(w, s \ {x})
  <2> SUFFICES ASSUME NEW s \in SUBSET S, NEW x \in s
               PROVE  SumOver(w, s) = w[x] + SumOver(w, s \ {x})
    OBVIOUS
  <2>1. x \in {1, 2, 3, 4} /\ w[x] \in Nat
    OBVIOUS
  <2>2. \A k \in {1, 2, 3, 4} : Part(w, s, k) \in Nat /\ Part(w, s \ {x}, k) \in Nat
    BY DEF Part
  <2>3. \A k \in {1, 2, 3, 4} :
           /\ k # x => Part(w, s, k) = Part(w, s \ {x}, k)
           /\ k = x => Part(w, s, k) = w[x] /\ Part(w, s \ {x}, k) = 0
    BY DEF Part
  <2>4. \A p, q, r, t, v \in Nat : /\ v + q + r + t = v + (0 + q + r + t)
                                   /\ p + v + r + t = v + (p + 0 + r + t)
                                   /\ p + q + v + t = v + (p + q + 0 + t)
                                   /\ p + q + r + v = v + (p + q + r + 0)
    OBVIOUS
  <2>5. CASE x = 1
    BY <2>1, <2>2, <2>3, <2>4, <2>5 DEF SumOver
  <2>6. CASE x = 2
    BY <2>1, <2>2, <2>3, <2>4, <2>6 DEF SumOver
  <2>7. CASE x = 3
    BY <2>1, <2>2, <2>3, <2>4, <2>7 DEF SumOver
  <2>8. CASE x = 4
    BY <2>1, <2>2, <2>3, <2>4, <2>8 DEF SumOver
  <2>9. QED
    BY <2>1, <2>5, <2>6, <2>7, <2>8
<1>3. SumOver(w, {}) = 0
  BY DEF SumOver, Part
<1>4. \A s \in SUBSET S : s # {} => Pick(s) \in s
  OBVIOUS
<1>5. G = Step(G)
  <2>1. \A s \in SUBSET S : G[s] = SumOver(w, s)
    BY DEF PartialSums
  <2>2. \A s \in SUBSET S : G[s] = Step(G)[s]
    BY <2>1, <1>2, <1>3, <1>4
  <2>3. QED
    BY <2>2 DEF PartialSums
<1>6. Iter = Step(Iter)
  BY <1>5
<1> HIDE DEF Iter
<1>7. Iter[{}] = 0
  BY <1>6
<1>8. ASSUME NEW s \in SUBSET S, \A x \in s : Iter[s \ {x}] = SumOver(w, s \ {x})
      PROVE  Iter[s] = SumOver(w, s)
  <2>1. CASE s = {}
    BY <1>3, <1>7, <2>1
  <2>2. CASE s # {}
    <3> DEFINE x == Pick(s)
    <3>1. x \in s
      BY <1>4, <2>2
    <3>2. Iter[s] = w[x] + Iter[s \ {x}]
      BY <1>6, <2>2
    <3> HIDE DEF x
    <3>3. QED
      BY <3>1, <3>2, <1>2, <1>8
  <2>3. QED
    BY <2>1, <2>2
<1> DEFINE Right(T) == \A s \in SUBSET S : s \subseteq T => Iter[s] = SumOver(w, s)
<1>9. Right({})
  BY <1>3, <1>7
<1>10. ASSUME NEW a \in 1..4 PROVE Right({a})
  <2>1. \A s \in SUBSET S : s \subseteq {a} => \A x \in s : s \ {x} \subseteq {}
    OBVIOUS
  <2>2. QED
    BY <2>1, <1>8, <1>9
<1>11. ASSUME NEW a \in 1..4, NEW b \in 1..4 PROVE Right({a, b})
  <2>1. \A s \in SUBSET S : s \subseteq {a, b} =>
           \A x \in s : \/ s \ {x} \subseteq {a}
                        \/ s \ {x} \subseteq {b}
    OBVIOUS
  <2>2. QED
    BY <2>1, <1>8, <1>10
<1>12. ASSUME NEW a \in 1..4, NEW b \in 1..4, NEW c \in 1..4 PROVE Right({a, b, c})
  <2>1. \A s \in SUBSET S : s \subseteq {a, b, c} =>
           \A x \in s : \/ s \ {x} \subseteq {a, b}
                        \/ s \ {x} \subseteq {a, c}
                        \/ s \ {x} \subseteq {b, c}
    OBVIOUS
  <2>2. QED
    BY <2>1, <1>8, <1>11
<1>13. Right({1, 2, 3, 4})
  <2>1. \A s \in SUBSET S : s \subseteq {1, 2, 3, 4} =>
           \A x \in s : \/ s \ {x} \subseteq {1, 2, 3}
                        \/ s \ {x} \subseteq {1, 2, 4}
                        \/ s \ {x} \subseteq {1, 3, 4}
                        \/ s \ {x} \subseteq {2, 3, 4}
    OBVIOUS
  <2>2. Right({1, 2, 3}) /\ Right({1, 2, 4}) /\ Right({1, 3, 4}) /\ Right({2, 3, 4})
    <3>1. {1, 2, 3, 4} \subseteq 1..4
      OBVIOUS
    <3> HIDE DEF Right
    <3>2. QED
      BY <1>12, <3>1
  <2>3. QED
    BY <2>1, <2>2, <1>8
<1>14. S \subseteq {1, 2, 3, 4}
  OBVIOUS
<1>15. QED
  BY <1>1, <1>13, <1>14

\* A structure: at most four fields, none empty and no two of one name.
IsLayout(L) ==
    /\ Len(L) \in {0, 1, 2, 3, 4}
    /\ L = [k \in 1..Len(L) |-> L[k]]
    /\ \A k \in 1..Len(L) : L[k].width \in Nat /\ L[k].width > 0
    /\ \A j, k \in 1..Len(L) : L[j].name = L[k].name => j = k

LEMMA LayoutFacts ==
    ASSUME NEW L, IsLayout(L)
    PROVE  /\ Len(L) \in {0, 1, 2, 3, 4} /\ Len(L) \in Nat /\ Len(L) <= 4
           /\ DOMAIN L = 1..Len(L)
           /\ L = [k \in 1..Len(L) |-> L[k]]
           /\ \A k \in 1..Len(L) : k \in {1, 2, 3, 4} /\ L[k].width \in Nat /\ L[k].width > 0
<1>1. Len(L) \in {0, 1, 2, 3, 4} /\ L = [k \in 1..Len(L) |-> L[k]]
  BY DEF IsLayout
<1>2. DOMAIN L = 1..Len(L)
  BY <1>1
<1>3. \A n \in {0, 1, 2, 3, 4} : \A k \in 1..n : k \in {1, 2, 3, 4}
  OBVIOUS
<1>4. QED
  BY <1>1, <1>2, <1>3 DEF IsLayout

\* A sequence of as many fields as L, of its widths.
HasWidthsOf(p, L) ==
    /\ p = [k \in 1..Len(L) |-> p[k]]
    /\ \A k \in 1..Len(L) : p[k].width = L[k].width

\* Equal widths make equal sizes.
LEMMA SizeOfLayout ==
    ASSUME NEW L, IsLayout(L), NEW p, HasWidthsOf(p, L)
    PROVE  /\ Size(p) = Size(L)
           /\ Size(L) \in Nat
           /\ L # <<>> => Size(L) > 0
<1> DEFINE n == Len(L)
           w == [k \in 1..n |-> L[k].width]
<1>1. n \in 0..4 /\ w \in [1..n -> Nat] /\ DOMAIN L = 1..n /\ \A k \in 1..n : w[k] > 0
  BY LayoutFacts
<1>2. Widths(L) = w /\ Widths(p) = w
  BY <1>1 DEF Widths, HasWidthsOf
<1>3. Size(L) = SumOver(w, 1..n) /\ Size(p) = SumOver(w, 1..n)
  <2> HIDE DEF w, n
  <2>1. QED
    BY <1>1, <1>2, FoldOfFour DEF Size
<1>4. \A k \in {1, 2, 3, 4} : Part(w, 1..n, k) \in Nat
  BY <1>1 DEF Part
<1>5. SumOver(w, 1..n) \in Nat /\ SumOver(w, 1..n) >= Part(w, 1..n, 1)
  BY <1>4 DEF SumOver
<1>6. L # <<>> => Part(w, 1..n, 1) > 0
  <2>1. L # <<>> => n >= 1
    BY DEF IsLayout
  <2>2. QED
    BY <1>1, <2>1 DEF Part
<1>7. QED
  BY <1>3, <1>4, <1>5, <1>6

\* Where field k of a structure begins: the sum of the widths before it.
LEMMA OffsetOfLayout ==
    ASSUME NEW L, IsLayout(L), NEW p, HasWidthsOf(p, L), NEW k \in 1..Len(L)
    PROVE  Offset(p, k) = SumOver([j \in 1..Len(L) |-> L[j].width], 1..(k - 1))
<1> DEFINE n == Len(L)
           w == [j \in 1..n |-> L[j].width]
           v == [j \in 1..(k - 1) |-> w[j]]
<1>1. n \in 0..4 /\ w \in [1..n -> Nat]
  BY LayoutFacts
<1>2. k - 1 \in 0..4 /\ v \in [1..(k - 1) -> Nat]
  BY <1>1
<1>3. Widths(SubSeq(p, 1, k - 1)) = v
  BY <1>1, <1>2 DEF Widths, HasWidthsOf
<1>4. FoldSeq(+, 0, v) = SumOver(v, 1..(k - 1))
  <2> HIDE DEF v, n
  <2>1. QED
    BY <1>2, FoldOfFour
<1>5. \A j \in {1, 2, 3, 4} : Part(v, 1..(k - 1), j) = Part(w, 1..(k - 1), j)
  BY <1>1, <1>2 DEF Part
<1>6. QED
  BY <1>3, <1>4, <1>5 DEF Offset, Size, SumOver

LEMMA FourLess ==
    ASSUME NEW f1 \in Nat, NEW f2 \in Nat, NEW f3 \in Nat, NEW f4 \in Nat,
           NEW g1 \in Nat, NEW g2 \in Nat, NEW g3 \in Nat, NEW g4 \in Nat,
           f1 <= g1, f2 <= g2, f3 <= g3, f4 <= g4,
           f1 < g1 \/ f2 < g2 \/ f3 < g3 \/ f4 < g4
    PROVE  f1 + f2 + f3 + f4 < g1 + g2 + g3 + g4
OBVIOUS

\* Fields that begin at the same byte are the same.
LEMMA OffsetsDiffer ==
    ASSUME NEW L, IsLayout(L), NEW p, HasWidthsOf(p, L),
           NEW j \in 1..Len(L), NEW k \in 1..Len(L), Offset(p, j) = Offset(L, k)
    PROVE  j = k
<1> DEFINE n == Len(L)
           w == [i \in 1..n |-> L[i].width]
<1>1. n \in {0, 1, 2, 3, 4} /\ \A i \in 1..n : w[i] \in Nat /\ w[i] > 0
  BY LayoutFacts
<1>2. HasWidthsOf(L, L)
  BY DEF HasWidthsOf, IsLayout
<1>3. SumOver(w, 1..(j - 1)) = SumOver(w, 1..(k - 1))
  BY <1>2, OffsetOfLayout
<1> HIDE DEF w
<1>4. ASSUME NEW a \in 1..n, NEW b \in 1..n, a < b
      PROVE  SumOver(w, 1..(a - 1)) < SumOver(w, 1..(b - 1))
  <2> DEFINE f(i) == Part(w, 1..(a - 1), i)
             g(i) == Part(w, 1..(b - 1), i)
  <2>1. \A i \in {1, 2, 3, 4} : f(i) \in Nat /\ g(i) \in Nat /\ f(i) <= g(i)
    BY <1>1, <1>4 DEF Part
  <2>2. f(a) < g(a)
    BY <1>1, <1>4 DEF Part
  <2>3. a \in {1, 2, 3, 4}
    BY LayoutFacts
  <2>4. SumOver(w, 1..(a - 1)) = f(1) + f(2) + f(3) + f(4)
        /\ SumOver(w, 1..(b - 1)) = g(1) + g(2) + g(3) + g(4)
    BY DEF SumOver
  <2> HIDE DEF f, g
  <2>5. /\ f(1) \in Nat /\ g(1) \in Nat /\ f(1) <= g(1)
        /\ f(2) \in Nat /\ g(2) \in Nat /\ f(2) <= g(2)
        /\ f(3) \in Nat /\ g(3) \in Nat /\ f(3) <= g(3)
        /\ f(4) \in Nat /\ g(4) \in Nat /\ f(4) <= g(4)
    BY <2>1
  <2>6. f(1) < g(1) \/ f(2) < g(2) \/ f(3) < g(3) \/ f(4) < g(4)
    BY <2>2, <2>3
  <2>7. f(1) + f(2) + f(3) + f(4) < g(1) + g(2) + g(3) + g(4)
    BY <2>5, <2>6, FourLess
  <2>8. QED
    BY <2>4, <2>7
<1>5. ~(j < k) /\ ~(k < j)
  <2>1. \A i \in 1..n : SumOver(w, 1..(i - 1)) \in Nat
    <3> SUFFICES ASSUME NEW i \in 1..n
                 PROVE  SumOver(w, 1..(i - 1)) \in Nat
      OBVIOUS
    <3>1. \A k1 \in {1, 2, 3, 4} : Part(w, 1..(i - 1), k1) \in Nat
      BY <1>1 DEF Part
    <3>2. QED
      BY <3>1 DEF SumOver
  <2>2. QED
    BY <2>1, <1>3, <1>4
<1>6. QED
  BY <1>1, <1>5

-----------------------------------------------------------------------------
(* The tables of both ends *)

\* What the server may send.
Served ==
    {"SHOW", "ADD", "DEL", "SEND", "CALL", "ACCEPT_CALL", "CLOSE_CALL", "HANDSHAKE", "ERR"}

LEMMA ServedFacts == DOMAIN HandlerPasses = Served /\ Sendable = Served \ {"HANDSHAKE"}
  BY DEF HandlerPasses, Served, Sendable

\* The names and members of short sequences.
LEMMA SetsOfFew ==
    /\ Names(<<>>) = {} /\ ToSet(<<>>) = {}
    /\ \A a : Names(<<a>>) = {a.name} /\ ToSet(<<a>>) = {a}
    /\ \A a, b : Names(<<a, b>>) = {a.name, b.name} /\ ToSet(<<a, b>>) = {a, b}
    /\ \A a, b, c : /\ Names(<<a, b, c>>) = {a.name, b.name, c.name}
                    /\ ToSet(<<a, b, c>>) = {a, b, c}
    /\ \A a, b, c, d : /\ Names(<<a, b, c, d>>) = {a.name, b.name, c.name, d.name}
                       /\ ToSet(<<a, b, c, d>>) = {a, b, c, d}
  BY DEF Names, ToSet

\* The server declares what it sends as the client declares what it reads, and
\* passes values in the order in which its classes of commands put them.
SameStructures(i) ==
    /\ PacketFromServer[i] = BodySend[i]
    /\ ServerCommand[i].setParam = HandlerPasses[i]
    /\ ServerCommand[i].instructionCode = i
    /\ ClientCommand[i].getInstruction = i
    /\ NamesRead(i) = Names(BodySend[i])
    /\ ToSet(HandlerPasses[i]) = Names(BodySend[i])
    /\ IsLayout(BodySend[i])
    /\ BodySend[i] = <<>> <=> i = "HANDSHAKE"

LEMMA SameStructuresServed == \A i \in Served : SameStructures(i)
<1>1. SameStructures("SHOW")
  <2>1. /\ PacketFromServer["SHOW"] = BodySend["SHOW"] /\ IsLayout(BodySend["SHOW"])
        /\ BodySend["SHOW"] = <<>> <=> "SHOW" = "HANDSHAKE"
    BY DEF PacketFromServer, BodySend, Show_BodySend, Show_PacketFromServer, Field, IsLayout
  <2>2. /\ Names(BodySend["SHOW"]) = {"accountName", "pseudo", "status", "isConnected"}
        /\ ToSet(HandlerPasses["SHOW"]) = {"accountName", "pseudo", "status", "isConnected"}
    BY SetsOfFew DEF BodySend, Show_BodySend, Field, HandlerPasses, notifyMyFriends_args
  <2>3. /\ ServerCommand["SHOW"].setParam = HandlerPasses["SHOW"]
        /\ ServerCommand["SHOW"].instructionCode = "SHOW"
    BY DEF ServerCommand, ServerShow, Naming, HandlerPasses, notifyMyFriends_args
  <2>4. /\ ClientCommand["SHOW"].getInstruction = "SHOW"
        /\ NamesRead("SHOW") = {"accountName", "pseudo", "status", "isConnected"}
    BY DEF NamesRead, ClientCommand, CommandShow, AboutAccount
  <2>5. QED
    BY <2>1, <2>2, <2>3, <2>4 DEF SameStructures
<1>2. SameStructures("ADD")
  <2>1. /\ PacketFromServer["ADD"] = BodySend["ADD"] /\ IsLayout(BodySend["ADD"])
        /\ BodySend["ADD"] = <<>> <=> "ADD" = "HANDSHAKE"
    BY DEF PacketFromServer, BodySend, Add_BodySend, Add_PacketFromServer, Field, IsLayout
  <2>2. /\ Names(BodySend["ADD"]) = {"accountName"}
        /\ ToSet(HandlerPasses["ADD"]) = {"accountName"}
    BY SetsOfFew DEF BodySend, Add_BodySend, Field, HandlerPasses
  <2>3. /\ ServerCommand["ADD"].setParam = HandlerPasses["ADD"]
        /\ ServerCommand["ADD"].instructionCode = "ADD"
    BY DEF ServerCommand, ServerAdd, Naming, HandlerPasses
  <2>4. /\ ClientCommand["ADD"].getInstruction = "ADD"
        /\ NamesRead("ADD") = {"accountName"}
    BY DEF NamesRead, ClientCommand, CommandAdd, AboutAccount
  <2>5. QED
    BY <2>1, <2>2, <2>3, <2>4 DEF SameStructures
<1>3. SameStructures("DEL")
  <2>1. /\ PacketFromServer["DEL"] = BodySend["DEL"] /\ IsLayout(BodySend["DEL"])
        /\ BodySend["DEL"] = <<>> <=> "DEL" = "HANDSHAKE"
    BY DEF PacketFromServer, BodySend, Del_BodySend, Del_PacketFromServer, Field, IsLayout
  <2>2. /\ Names(BodySend["DEL"]) = {"accountName"}
        /\ ToSet(HandlerPasses["DEL"]) = {"accountName"}
    BY SetsOfFew DEF BodySend, Del_BodySend, Field, HandlerPasses
  <2>3. /\ ServerCommand["DEL"].setParam = HandlerPasses["DEL"]
        /\ ServerCommand["DEL"].instructionCode = "DEL"
    BY DEF ServerCommand, ServerDel, Naming, HandlerPasses
  <2>4. /\ ClientCommand["DEL"].getInstruction = "DEL"
        /\ NamesRead("DEL") = {"accountName"}
    BY DEF NamesRead, ClientCommand, CommandDel, AboutAccount
  <2>5. QED
    BY <2>1, <2>2, <2>3, <2>4 DEF SameStructures
<1>4. SameStructures("SEND")
  <2>1. /\ PacketFromServer["SEND"] = BodySend["SEND"] /\ IsLayout(BodySend["SEND"])
        /\ BodySend["SEND"] = <<>> <=> "SEND" = "HANDSHAKE"
    BY DEF PacketFromServer, BodySend, Send_BodySend, Send_PacketFromServer, Field, IsLayout
  <2>2. /\ Names(BodySend["SEND"]) = {"accountName", "textMessage"}
        /\ ToSet(HandlerPasses["SEND"]) = {"accountName", "textMessage"}
    BY SetsOfFew DEF BodySend, Send_BodySend, Field, HandlerPasses, onSend_args
  <2>3. /\ ServerCommand["SEND"].setParam = HandlerPasses["SEND"]
        /\ ServerCommand["SEND"].instructionCode = "SEND"
    BY DEF ServerCommand, ServerSend, Naming, HandlerPasses, onSend_args
  <2>4. /\ ClientCommand["SEND"].getInstruction = "SEND"
        /\ NamesRead("SEND") = {"accountName", "textMessage"}
    BY DEF NamesRead, ClientCommand, CommandSend, Bare
  <2>5. QED
    BY <2>1, <2>2, <2>3, <2>4 DEF SameStructures
<1>5. SameStructures("CALL")
  <2>1. /\ PacketFromServer["CALL"] = BodySend["CALL"] /\ IsLayout(BodySend["CALL"])
        /\ BodySend["CALL"] = <<>> <=> "CALL" = "HANDSHAKE"
    BY DEF PacketFromServer, BodySend, Call_BodySend, Call_PacketFromServer, Field, IsLayout
  <2>2. /\ Names(BodySend["CALL"]) = {"accountName"}
        /\ ToSet(HandlerPasses["CALL"]) = {"accountName"}
    BY SetsOfFew DEF BodySend, Call_BodySend, Field, HandlerPasses
  <2>3. /\ ServerCommand["CALL"].setParam = HandlerPasses["CALL"]
        /\ ServerCommand["CALL"].instructionCode = "CALL"
    BY DEF ServerCommand, ServerCall, Naming, HandlerPasses
  <2>4. /\ ClientCommand["CALL"].getInstruction = "CALL"
        /\ NamesRead("CALL") = {"accountName"}
    BY DEF NamesRead, ClientCommand, CommandCall, AboutAccount
  <2>5. QED
    BY <2>1, <2>2, <2>3, <2>4 DEF SameStructures
<1>6. SameStructures("ACCEPT_CALL")
  <2>1. /\ PacketFromServer["ACCEPT_CALL"] = BodySend["ACCEPT_CALL"] /\ IsLayout(BodySend["ACCEPT_CALL"])
        /\ BodySend["ACCEPT_CALL"] = <<>> <=> "ACCEPT_CALL" = "HANDSHAKE"
    BY DEF PacketFromServer, BodySend, AcceptCall_BodySend, AcceptCall_PacketFromServer, Field, IsLayout
  <2>2. /\ Names(BodySend["ACCEPT_CALL"]) = {"accountName", "host", "hasAccepted"}
        /\ ToSet(HandlerPasses["ACCEPT_CALL"]) = {"accountName", "host", "hasAccepted"}
    BY SetsOfFew DEF BodySend, AcceptCall_BodySend, Field, HandlerPasses, onAcceptCall_args
  <2>3. /\ ServerCommand["ACCEPT_CALL"].setParam = HandlerPasses["ACCEPT_CALL"]
        /\ ServerCommand["ACCEPT_CALL"].instructionCode = "ACCEPT_CALL"
    BY DEF ServerCommand, ServerAcceptCall, Naming, HandlerPasses, onAcceptCall_args
  <2>4. /\ ClientCommand["ACCEPT_CALL"].getInstruction = "ACCEPT_CALL"
        /\ NamesRead("ACCEPT_CALL") = {"accountName", "host", "hasAccepted"}
    BY DEF NamesRead, ClientCommand, CommandAcceptCall, Bare
  <2>5. QED
    BY <2>1, <2>2, <2>3, <2>4 DEF SameStructures
<1>7. SameStructures("CLOSE_CALL")
  <2>1. /\ PacketFromServer["CLOSE_CALL"] = BodySend["CLOSE_CALL"] /\ IsLayout(BodySend["CLOSE_CALL"])
        /\ BodySend["CLOSE_CALL"] = <<>> <=> "CLOSE_CALL" = "HANDSHAKE"
    BY DEF PacketFromServer, BodySend, CloseCall_BodySend, CloseCall_PacketFromServer, Field, IsLayout
  <2>2. /\ Names(BodySend["CLOSE_CALL"]) = {"accountName"}
        /\ ToSet(HandlerPasses["CLOSE_CALL"]) = {"accountName"}
    BY SetsOfFew DEF BodySend, CloseCall_BodySend, Field, HandlerPasses
  <2>3. /\ ServerCommand["CLOSE_CALL"].setParam = HandlerPasses["CLOSE_CALL"]
        /\ ServerCommand["CLOSE_CALL"].instructionCode = "CLOSE_CALL"
    BY DEF ServerCommand, ServerCloseCall, Naming, HandlerPasses
  <2>4. /\ ClientCommand["CLOSE_CALL"].getInstruction = "CLOSE_CALL"
        /\ NamesRead("CLOSE_CALL") = {"accountName"}
    BY DEF NamesRead, ClientCommand, CommandCloseCall, AboutAccount
  <2>5. QED
    BY <2>1, <2>2, <2>3, <2>4 DEF SameStructures
<1>8. SameStructures("HANDSHAKE")
  <2>1. /\ PacketFromServer["HANDSHAKE"] = BodySend["HANDSHAKE"] /\ IsLayout(BodySend["HANDSHAKE"])
        /\ BodySend["HANDSHAKE"] = <<>> <=> "HANDSHAKE" = "HANDSHAKE"
    BY DEF PacketFromServer, BodySend, Handshake_BodySend, Field, IsLayout
  <2>2. /\ Names(BodySend["HANDSHAKE"]) = {}
        /\ ToSet(HandlerPasses["HANDSHAKE"]) = {}
    BY SetsOfFew DEF BodySend, Handshake_BodySend, Field, HandlerPasses
  <2>3. /\ ServerCommand["HANDSHAKE"].setParam = HandlerPasses["HANDSHAKE"]
        /\ ServerCommand["HANDSHAKE"].instructionCode = "HANDSHAKE"
    BY DEF ServerCommand, ServerHandshake, HandlerPasses
  <2>4. /\ ClientCommand["HANDSHAKE"].getInstruction = "HANDSHAKE"
        /\ NamesRead("HANDSHAKE") = {}
    BY DEF NamesRead, ClientCommand, CommandHandshake, Bare
  <2>5. QED
    BY <2>1, <2>2, <2>3, <2>4 DEF SameStructures
<1>9. SameStructures("ERR")
  <2>1. /\ PacketFromServer["ERR"] = BodySend["ERR"] /\ IsLayout(BodySend["ERR"])
        /\ BodySend["ERR"] = <<>> <=> "ERR" = "HANDSHAKE"
    BY DEF PacketFromServer, BodySend, Err_Body, Err_PacketFromServer, Field, IsLayout
  <2>2. /\ Names(BodySend["ERR"]) = {"instructionCode", "errorCode"}
        /\ ToSet(HandlerPasses["ERR"]) = {"instructionCode", "errorCode"}
    BY SetsOfFew DEF BodySend, Err_Body, Field, HandlerPasses, sendStateCommand_args
  <2>3. /\ ServerCommand["ERR"].setParam = HandlerPasses["ERR"]
        /\ ServerCommand["ERR"].instructionCode = "ERR"
    BY DEF ServerCommand, ServerErr, HandlerPasses, sendStateCommand_args
  <2>4. /\ ClientCommand["ERR"].getInstruction = "ERR"
        /\ NamesRead("ERR") = {"instructionCode", "errorCode"}
    BY DEF NamesRead, ClientCommand, CommandErr, Bare
  <2>5. QED
    BY <2>1, <2>2, <2>3, <2>4 DEF SameStructures
<1>10. QED
  BY <1>1, <1>2, <1>3, <1>4, <1>5, <1>6, <1>7, <1>8, <1>9 DEF Served

-----------------------------------------------------------------------------
(* Writing and reading a structure *)

\* A structure with every field filled with the value of its name.
Filled(L, value, writer) ==
    [k \in 1..Len(L) |-> Cell(L[k].name, value[L[k].name], L[k].width, writer)]

\* What a field of this name may hold.
IsMeant(name, v) ==
    IF IsNumber(name)
    THEN v.bytes = 0 /\ \E n \in DOMAIN ClientNumbers[name] : ClientNumbers[name][n] = v.meaning
    ELSE /\ v.meaning = "text" /\ v.bytes \in Nat
         /\ v.chars \in Nat /\ v.chars > 0 /\ v.chars <= v.bytes

\* Both ends count what they number in the same way.
LEMMA SameNumbers ==
    /\ ClientInstruction = ServerInstruction
    /\ ClientNumbers = ServerNumbers
    /\ DOMAIN ClientNumbers = DOMAIN ServerNumbers
<1>1. ClientInstruction = ServerInstruction /\ ClientErrorCode = ServerErrorCode /\ ClientStatus = ServerStatus
  BY DEF ClientInstruction, ServerInstruction, ClientErrorCode, ServerErrorCode, ClientStatus,
         ServerStatus
<1>2. QED
  BY <1>1 DEF ClientNumbers, ServerNumbers

\* A reader finds every field that the writer has filled.
LEMMA FieldFound ==
    ASSUME NEW L, IsLayout(L), NEW k \in 1..Len(L)
    PROVE  \A value, writer, isCut, numbers :
              ReadField(L, Filled(L, value, writer), L[k].name, isCut, numbers)
                 = IF IsNumber(L[k].name)
                   THEN ReadNumber(Filled(L, value, writer)[k], numbers[L[k].name])
                   ELSE ReadText(Filled(L, value, writer)[k], isCut)
<1> TAKE value, writer, isCut, numbers
<1> DEFINE p == Filled(L, value, writer)
           name == L[k].name
           there(m) == {j \in DOMAIN p : /\ Offset(p, j) = Offset(L, m)
                                         /\ p[j].width = L[m].width
                                         /\ IsNumber(p[j].argument) = IsNumber(name)}
<1>1. DOMAIN L = 1..Len(L) /\ DOMAIN p = 1..Len(L)
  BY LayoutFacts DEF Filled
<1>2. \A j \in 1..Len(L) : p[j].width = L[j].width /\ p[j].argument = L[j].name
  BY DEF Filled, Cell
<1>3. HasWidthsOf(p, L) /\ HasWidthsOf(L, L)
  BY <1>2, LayoutFacts DEF HasWidthsOf, Filled
<1>4. (CHOOSE j \in DOMAIN L : L[j].name = name) = k
  BY <1>1 DEF IsLayout
<1>5. Offset(p, k) = Offset(L, k)
  BY <1>3, OffsetOfLayout
<1>6. there(k) = {k}
  <2>1. \A j \in there(k) : j = k
    BY <1>1, <1>3, OffsetsDiffer
  <2>2. k \in there(k)
    BY <1>1, <1>2, <1>5
  <2>3. QED
    BY <2>1, <2>2
<1>7. (CHOOSE j \in there(k) : TRUE) = k /\ there(k) # {}
  BY <1>6
<1>8. ReadField(L, p, name, isCut, numbers) =
         LET m == CHOOSE j \in DOMAIN L : L[j].name = name
         IN  IF there(m) = {} THEN Garbled
             ELSE LET cell == p[CHOOSE j \in there(m) : TRUE]
                  IN  IF IsNumber(name) THEN ReadNumber(cell, numbers[name])
                      ELSE ReadText(cell, isCut)
  BY DEF ReadField
<1> HIDE DEF there, p, name
<1>9. QED
  BY <1>4, <1>7, <1>8 DEF p, name

\* A number is read as what it meant, a text as much of it as leaves room for a
\* zero byte.
LEMMA CellRead ==
    ASSUME NEW L, IsLayout(L), NEW k \in 1..Len(L), NEW v, IsMeant(L[k].name, v), NEW isCut
    PROVE  LET name == L[k].name
               cell == Cell(name, v, L[k].width, "server")
           IN  (IF IsNumber(name) THEN ReadNumber(cell, ClientNumbers[name])
                ELSE ReadText(cell, isCut)) = AsFits(name, v, L)
<1> DEFINE name == L[k].name
           cell == Cell(name, v, L[k].width, "server")
<1>1. (CHOOSE j \in DOMAIN L : L[j].name = name) = k
  BY LayoutFacts DEF IsLayout
<1>2. L[k].width \in Nat /\ L[k].width > 0
  BY LayoutFacts
<1>3. AsFits(name, v, L) =
         Got(name, IF IsNumber(name) \/ v.bytes < L[k].width THEN v.bytes
                   ELSE L[k].width - 1, v.meaning)
  <2>1. AsFits(name, v, L) =
           LET m == CHOOSE j \in DOMAIN L : L[j].name = name
           IN  Got(name, IF IsNumber(name) \/ v.bytes < L[m].width THEN v.bytes
                         ELSE L[m].width - 1, v.meaning)
    BY DEF AsFits
  <2> HIDE DEF name
  <2>2. QED
    BY <1>1, <2>1
<1>4. CASE IsNumber(name)
  <2> DEFINE table == ClientNumbers[name]
  <2>1. cell.kept = NumberOf(table, v.meaning) /\ cell.argument = name
    BY <1>4, SameNumbers DEF Cell, Numbers
  <2>2. NumberOf(table, v.meaning) \in DOMAIN table /\ table[NumberOf(table, v.meaning)] = v.meaning
    BY <1>4 DEF IsMeant, NumberOf
  <2>3. ReadNumber(cell, table) = Got(name, 0, v.meaning)
    BY <2>1, <2>2 DEF ReadNumber
  <2>4. v.bytes = 0
    BY <1>4 DEF IsMeant
  <2>5. QED
    BY <1>3, <1>4, <2>3, <2>4
<1>5. CASE ~IsNumber(name)
  <2>1. v.meaning = "text" /\ v.bytes \in Nat
    BY <1>5 DEF IsMeant
  <2>2. /\ cell.kept = (IF v.bytes < L[k].width THEN v.bytes ELSE L[k].width - 1)
        /\ cell.width = L[k].width /\ cell.argument = name
    BY <1>5 DEF Cell, Put, PutByServer
  <2>3. cell.kept < cell.width
    BY <1>2, <2>1, <2>2
  <2>4. ReadText(cell, isCut) = Got(name, cell.kept, "text")
    BY <2>2, <2>3 DEF ReadText
  <2>5. QED
    BY <1>3, <1>5, <2>1, <2>2, <2>4
<1>6. QED
  BY <1>4, <1>5

\* Both together.
LEMMA FieldReadAsMeant ==
    ASSUME NEW L, IsLayout(L), NEW value, NEW k \in 1..Len(L),
           IsMeant(L[k].name, value[L[k].name]), NEW isCut
    PROVE  ReadField(L, Filled(L, value, "server"), L[k].name, isCut, ClientNumbers) =
              AsFits(L[k].name, value[L[k].name], L)
<1> DEFINE cell == Filled(L, value, "server")[k]
<1>1. cell = Cell(L[k].name, value[L[k].name], L[k].width, "server")
  BY DEF Filled
<1>2. (IF IsNumber(L[k].name) THEN ReadNumber(cell, ClientNumbers[L[k].name])
       ELSE ReadText(cell, isCut)) = AsFits(L[k].name, value[L[k].name], L)
  BY <1>1, CellRead
<1>3. \A v, writer, cut, numbers :
         ReadField(L, Filled(L, v, writer), L[k].name, cut, numbers)
            = IF IsNumber(L[k].name)
              THEN ReadNumber(Filled(L, v, writer)[k], numbers[L[k].name])
              ELSE ReadText(Filled(L, v, writer)[k], cut)
  BY FieldFound
<1>4. ReadField(L, Filled(L, value, "server"), L[k].name, isCut, ClientNumbers)
         = IF IsNumber(L[k].name) THEN ReadNumber(cell, ClientNumbers[L[k].name])
           ELSE ReadText(cell, isCut)
  BY <1>3
<1> HIDE DEF cell
<1>5. QED
  BY <1>2, <1>4

\* Every field of a command that the client reads is what fits of what the
\* server meant.
LEMMA ReadAsMeant ==
    ASSUME NEW i \in Served, NEW value,
           \A name \in Names(BodySend[i]) : IsMeant(name, value[name])
    PROVE  ReadByClient(i, WrittenByServer(i, value)) =
              [name \in Names(BodySend[i]) |-> AsFits(name, value[name], BodySend[i])]
<1> DEFINE L == BodySend[i]
           p == Filled(L, value, "server")
<1>1. SameStructures(i)
  BY SameStructuresServed
<1>2. IsLayout(L) /\ DOMAIN L = 1..Len(L)
  BY <1>1, LayoutFacts DEF SameStructures
<1>3. \A k \in 1..Len(L) : L[k].name \in Names(L) /\ L[k].name \in ToSet(HandlerPasses[i])
  BY <1>1, <1>2 DEF SameStructures, Names
<1>4. WrittenByServer(i, value) = p
  <2> DEFINE names == HandlerPasses[i]
             filled == [name \in ToSet(names) |-> names[CHOOSE k \in DOMAIN names : names[k] = name]]
  <2>1. WrittenByServer(i, value) = Written(L, filled, value, "server")
    BY <1>1 DEF WrittenByServer, SameStructures
  <2>2. \A name \in ToSet(names) : filled[name] = name
    BY DEF ToSet
  <2>3. DOMAIN filled = ToSet(names)
    OBVIOUS
  <2> HIDE DEF filled
  <2>4. QED
    BY <1>2, <1>3, <2>1, <2>2, <2>3 DEF Written, Filled
<1>5. \A name \in Names(L) : \E k \in 1..Len(L) : name = L[k].name
  BY <1>2 DEF Names
<1>6. ASSUME NEW name \in Names(L)
      PROVE  ReadField(L, p, name, name # "host", ClientNumbers) = AsFits(name, value[name], L)
  <2>1. PICK k \in 1..Len(L) : name = L[k].name
    BY <1>5
  <2>2. IsMeant(L[k].name, value[L[k].name])
    BY <2>1
  <2>3. \A isCut : ReadField(L, p, L[k].name, isCut, ClientNumbers)
                      = AsFits(L[k].name, value[L[k].name], L)
    <3> HIDE DEF L
    <3>1. QED
      BY <1>2, <2>2, FieldReadAsMeant
  <2> HIDE DEF L, p
  <2>4. QED
    BY <2>1, <2>3
<1>7. NamesRead(i) = Names(L) /\ PacketFromServer[i] = L
  BY <1>1 DEF SameStructures
<1> HIDE DEF p, L
<1>8. ReadByClient(i, p) = [name \in Names(L) |-> ReadField(L, p, name, name # "host", ClientNumbers)]
  BY <1>7 DEF ReadByClient
<1>9. QED
  BY <1>4, <1>6, <1>8 DEF L

-----------------------------------------------------------------------------
(* What is sent *)

\* A command for a structure whose fields hold what they may.
IsCommand(command, i, L) ==
    /\ command.instruction = i
    /\ DOMAIN command.value = Names(L)
    /\ \A name \in Names(L) : IsMeant(name, command.value[name])

LEMMA NumbersAre ==
    \A name : IsNumber(name) <=>
        name \in {"instructionCode", "errorCode", "status", "hasAccepted", "isConnected"}
  BY DEF IsNumber, ClientNumbers

\* The instruction of the answer to a registration, the answer "OK", the status of
\* a session and "yes" have numbers.
LEMMA UsualNumbers ==
    \A name : IsNumber(name) =>
        Usual(name).bytes = 0
          /\ \E n \in DOMAIN ClientNumbers[name] : ClientNumbers[name][n] = Usual(name).meaning
<1>1. 1 \in DOMAIN ClientInstruction /\ ClientInstruction[1] = "REG"
  BY DEF ClientInstruction, Numbered
<1>2. 0 \in DOMAIN ClientErrorCode /\ ClientErrorCode[0] = "OK"
  BY DEF ClientErrorCode, Numbered
<1>3. 0 \in DOMAIN ClientStatus /\ ClientStatus[0] = "CONNECTED"
  BY DEF ClientStatus, Numbered
<1>4. 1 \in DOMAIN Flag /\ Flag[1] = "yes"
  BY DEF Flag, Numbered
<1>5. /\ ClientNumbers["instructionCode"] = ClientInstruction
      /\ ClientNumbers["errorCode"] = ClientErrorCode
      /\ ClientNumbers["status"] = ClientStatus
      /\ ClientNumbers["hasAccepted"] = Flag
      /\ ClientNumbers["isConnected"] = Flag
  BY DEF ClientNumbers
<1>6. /\ Usual("instructionCode") = Meaning("REG")
      /\ Usual("errorCode") = Meaning("OK")
      /\ Usual("status") = Meaning("CONNECTED")
      /\ Usual("hasAccepted") = Meaning("yes")
      /\ Usual("isConnected") = Meaning("yes")
  BY DEF Usual
<1>7. \A meaning : Meaning(meaning).bytes = 0 /\ Meaning(meaning).meaning = meaning
  BY DEF Meaning
<1>8. QED
  BY <1>1, <1>2, <1>3, <1>4, <1>5, <1>6, <1>7, NumbersAre

LEMMA UsualIsMeant == \A name : IsMeant(name, Usual(name))
<1>1. ASSUME NEW name, ~IsNumber(name) PROVE Usual(name) \in {Text(7, 7), Text(1, 1)}
  BY <1>1, NumbersAre DEF Usual
<1>2. \A b \in {1, 7} : /\ Text(b, b).meaning = "text" /\ Text(b, b).bytes = b
                        /\ Text(b, b).chars = b
  BY DEF Text
<1>3. QED
  BY <1>1, <1>2, UsualNumbers DEF IsMeant

\* The commands made of a structure and of texts that its fields may hold.
LEMMA CommandsAreMeant ==
    ASSUME NEW i, NEW L, IsLayout(L), NEW texts,
           \A k \in 1..Len(L) : \A text \in texts[L[k]] : IsMeant(L[k].name, text),
           NEW command \in Commands(i, L, texts)
    PROVE  IsCommand(command, i, L)
<1> DEFINE usual == UsualCommand(i, L)
<1>1. /\ usual.instruction = i
      /\ DOMAIN usual.value = Names(L)
      /\ usual = [instruction |-> i, value |-> [name \in Names(L) |-> Usual(name)]]
      /\ \A name \in Names(L) : usual.value[name] = Usual(name)
  BY DEF UsualCommand
<1>2. IsCommand(usual, i, L)
  BY <1>1, UsualIsMeant DEF IsCommand
<1>3. ASSUME NEW field \in ToSet(L), NEW text \in texts[field]
      PROVE  IsCommand([usual EXCEPT !.value[field.name] = text], i, L)
  <2>1. PICK k \in 1..Len(L) : field = L[k]
    BY LayoutFacts DEF ToSet
  <2>2. IsMeant(field.name, text) /\ field.name \in Names(L)
    BY <2>1, LayoutFacts DEF Names
  <2> DEFINE changed == [usual EXCEPT !.value[field.name] = text]
  <2>3. changed.instruction = i
    BY <1>1
  <2>4. changed.value = [usual.value EXCEPT ![field.name] = text]
    BY <1>1
  <2>5. DOMAIN changed.value = Names(L)
    BY <1>1, <2>4
  <2>6. \A name \in Names(L) : IsMeant(name, changed.value[name])
    BY <1>1, <2>2, <2>4, UsualIsMeant
  <2> HIDE DEF changed
  <2>7. QED
    BY <2>3, <2>5, <2>6 DEF IsCommand, changed
<1>4. \/ command = usual
      \/ \E field \in ToSet(L) : \E text \in texts[field] :
            command = [usual EXCEPT !.value[field.name] = text]
  BY DEF Commands
<1>5. QED
  BY <1>2, <1>3, <1>4

\* A text has room for a character and a zero byte.
LEMMA RoomInAnswers ==
    \A i \in Served : \A k \in 1..Len(BodySend[i]) :
        ~IsNumber(BodySend[i][k].name) => BodySend[i][k].width > 1
<1> DEFINE P(i) == \A k \in 1..Len(BodySend[i]) :
                      ~IsNumber(BodySend[i][k].name) => BodySend[i][k].width > 1
<1>1. P("SHOW")
  BY NumbersAre DEF BodySend, Show_BodySend, Field
<1>2. P("ADD")
  BY NumbersAre DEF BodySend, Add_BodySend, Field
<1>3. P("DEL")
  BY NumbersAre DEF BodySend, Del_BodySend, Field
<1>4. P("SEND")
  BY NumbersAre DEF BodySend, Send_BodySend, Field
<1>5. P("CALL")
  BY NumbersAre DEF BodySend, Call_BodySend, Field
<1>6. P("ACCEPT_CALL")
  BY NumbersAre DEF BodySend, AcceptCall_BodySend, Field
<1>7. P("CLOSE_CALL")
  BY NumbersAre DEF BodySend, CloseCall_BodySend, Field
<1>8. P("HANDSHAKE")
  BY NumbersAre DEF BodySend, Handshake_BodySend, Field
<1>9. P("ERR")
  BY NumbersAre DEF BodySend, Err_Body, Field
<1>10. QED
  BY <1>1, <1>2, <1>3, <1>4, <1>5, <1>6, <1>7, <1>8, <1>9 DEF Served

\* What may be in a field that the server fills.
LEMMA ServerTextsAreMeant ==
    ASSUME NEW L, IsLayout(L), NEW k \in 1..Len(L), NEW text \in ServerTexts(L[k]),
           ~IsNumber(L[k].name) => L[k].width > 1
    PROVE  IsMeant(L[k].name, text)
<1>1. CASE IsNumber(L[k].name)
  <2>1. PICK n \in DOMAIN ServerNumbers[L[k].name] : text = Meaning(ServerNumbers[L[k].name][n])
    BY <1>1, NumbersAre DEF ServerTexts
  <2>2. QED
    BY <1>1, <2>1, SameNumbers DEF IsMeant, Meaning
<1>2. CASE ~IsNumber(L[k].name)
  <2>1. \E b \in {7, 14, 15, 1, L[k].width - 1} : text = Text(b, b)
    BY <1>2 DEF ServerTexts
  <2>2. L[k].width - 1 \in Nat /\ L[k].width - 1 > 0
    BY <1>2, LayoutFacts
  <2>3. QED
    BY <1>2, <2>1, <2>2 DEF IsMeant, Text
<1>3. QED
  BY <1>1, <1>2

\* What the server sends after its greeting, and before.
LEMMA AnswersAreMeant ==
    ASSUME NEW command \in Answers
    PROVE  /\ command.instruction \in Served \ {"HANDSHAKE"}
           /\ IsCommand(command, command.instruction, BodySend[command.instruction])
<1>1. PICK i \in Sendable : command \in Commands(i, BodySend[i], TextsOfServer(BodySend[i]))
  BY DEF Answers
<1> DEFINE L == BodySend[i]
           texts == TextsOfServer(L)
<1>2. i \in Served \ {"HANDSHAKE"} /\ IsLayout(L)
  BY ServedFacts, SameStructuresServed DEF SameStructures
<1> HIDE DEF L
<1>3. \A k \in 1..Len(L) : texts[L[k]] = ServerTexts(L[k])
  BY <1>2, LayoutFacts DEF TextsOfServer, ToSet
<1>4. ASSUME NEW k \in 1..Len(L), NEW text \in texts[L[k]]
      PROVE  IsMeant(L[k].name, text)
  <2>1. ~IsNumber(L[k].name) => L[k].width > 1
    BY <1>2, RoomInAnswers DEF L
  <2>2. QED
    BY <1>2, <1>3, <2>1, ServerTextsAreMeant
<1> HIDE DEF texts
<1>5. IsCommand(command, i, L)
  BY <1>1, <1>2, <1>4, CommandsAreMeant DEF L, texts
<1>6. QED
  BY <1>2, <1>5 DEF IsCommand, L

LEMMA GreetingIsMeant == IsCommand(Greeting, "HANDSHAKE", BodySend["HANDSHAKE"])
<1>1. Names(BodySend["HANDSHAKE"]) = {}
  BY SetsOfFew DEF BodySend, Handshake_BodySend
<1>2. QED
  BY <1>1 DEF IsCommand, Greeting

-----------------------------------------------------------------------------
(* The invariant of the stream *)

IsSequence(s) == \E S : s \in Seq(S)

StreamTypeOK ==
    /\ link \in {"none", "up", "lost"}
    /\ thread \in {"idle", "reading", "asking"}
    /\ mCurrentState \in {"HEADER", "CONTENT"}
    /\ mHasHandshaked \in BOOLEAN
    /\ inStep \in BOOLEAN
    /\ arrived \in Nat /\ consumed \in Nat
    /\ IsSequence(sent) /\ IsSequence(received)

\* The first command sent is the greeting, the only one, and each begins where
\* the one before it ends.
SentInOrder ==
    \A k \in 1..Len(sent) :
        /\ sent[k].instruction \in Served
        /\ sent[k].instruction = "HANDSHAKE" <=> k = 1
        /\ IsCommand(sent[k], sent[k].instruction, BodySend[sent[k].instruction])
        /\ Begin(k) \in Nat
        /\ k = 1 => Begin(k) = 0
        /\ \A j \in 1..Len(sent) : j < k => End(j) <= Begin(k)
        /\ \A j \in 1..Len(sent) : k = j + 1 => End(j) = Begin(k)

Arrived == consumed <= arrived /\ arrived <= written

\* What has been read of a connection that began with the reading of a header:
\* n commands, and perhaps the header of the next one.
Upto(n) == IF n = 0 THEN 0 ELSE End(n)

ReadUpto(n) ==
    /\ n <= Len(sent)
    /\ \A k \in 1..n :
          /\ received[k].instruction = sent[k].instruction
          /\ received[k].fields =
                [name \in DOMAIN sent[k].value |->
                    AsFits(name, sent[k].value[name], BodySend[sent[k].instruction])]
    /\ mHasHandshaked <=> n >= 1
    /\ mCurrentState = "HEADER" \/ thread = "asking" => consumed = Upto(n)
    /\ mCurrentState = "CONTENT" /\ thread # "asking" =>
          /\ n < Len(sent)
          /\ consumed = Content(n + 1)
          /\ mCurrentCommand = sent[n + 1].instruction
    /\ thread = "asking" => n >= 1
    /\ thread = "idle" => \A k \in 1..Len(sent) : End(k) <= arrived => k <= n

InStep == (link = "up" /\ inStep) => ReadUpto(Len(received))

\* A connection that began with a content left over: it is closed on that content.
OutOfStep ==
    (link = "up" /\ ~inStep) =>
        /\ received = <<>> /\ consumed = 0
        /\ mCurrentState = "CONTENT" /\ mCurrentCommand # "HANDSHAKE"
        /\ ~mHasHandshaked
        /\ thread # "asking"

\* What is left of a lost connection is read from behind its greeting.
LeftOver ==
    link # "up" =>
        /\ ~mHasHandshaked
        /\ thread # "idle" => consumed > 0
        /\ mCurrentState = "CONTENT" => mCurrentCommand # "HANDSHAKE"

AwaitsContent == mCurrentState = "CONTENT" => mCurrentCommand \in Served

RequestOf(command) ==
    [instruction |-> command.instruction, value |-> command.value,
     code |-> NumberOf(ClientInstruction, ClientCommand[command.instruction].getInstruction),
     packet |-> WrittenByClient(command.instruction, command.value)]

Requested == request # Null => \E command \in Requests : request = RequestOf(command)

StreamInv ==
    /\ StreamTypeOK /\ SentInOrder /\ Arrived
    /\ InStep /\ OutOfStep /\ LeftOver /\ AwaitsContent /\ Requested

-----------------------------------------------------------------------------
(* Positions in the stream *)

\* Every instruction has a number, by which both ends know it.
LEMMA InstructionsNumbered ==
    \A i \in Served \cup DOMAIN PacketFromClient :
        \E n \in DOMAIN ClientInstruction : ClientInstruction[n] = i
<1>1. DOMAIN PacketFromClient =
         {"REG", "LOG", "LIST", "SHOW", "ADD", "ACCEPT_ADD", "DEL", "EXIT", "UPDATE", "SEND",
          "CALL", "ACCEPT_CALL", "CLOSE_CALL", "HANDSHAKE"}
  BY DEF PacketFromClient
<1>2. /\ DOMAIN ClientInstruction = 1..15
      /\ ClientInstruction[1] = "REG" /\ ClientInstruction[2] = "LOG"
      /\ ClientInstruction[3] = "LIST" /\ ClientInstruction[4] = "SHOW"
      /\ ClientInstruction[5] = "ADD" /\ ClientInstruction[6] = "ACCEPT_ADD"
      /\ ClientInstruction[7] = "DEL" /\ ClientInstruction[8] = "EXIT"
      /\ ClientInstruction[9] = "UPDATE" /\ ClientInstruction[10] = "SEND"
      /\ ClientInstruction[11] = "CALL" /\ ClientInstruction[12] = "ACCEPT_CALL"
      /\ ClientInstruction[13] = "CLOSE_CALL" /\ ClientInstruction[14] = "ERR"
      /\ ClientInstruction[15] = "HANDSHAKE"
  BY DEF ClientInstruction, Numbered
<1>3. \A i \in Served \cup DOMAIN PacketFromClient :
         \E n \in 1..15 : ClientInstruction[n] = i
  BY <1>1, <1>2 DEF Served
<1>4. QED
  BY <1>2, <1>3

LEMMA SameInstructionNumbers ==
    \A i \in Served \cup DOMAIN PacketFromClient :
        /\ ClientInstruction[NumberOf(ServerInstruction, i)] = i
        /\ ServerInstruction[NumberOf(ClientInstruction, i)] = i
  BY InstructionsNumbered, SameNumbers DEF NumberOf

LEMMA Appended ==
    ASSUME NEW s, IsSequence(s), NEW e
    PROVE  /\ IsSequence(Append(s, e))
           /\ Len(s) \in Nat /\ Len(Append(s, e)) = Len(s) + 1
           /\ \A k \in 1..Len(s) : Append(s, e)[k] = s[k]
           /\ Append(s, e)[Len(s) + 1] = e
<1>1. PICK S : s \in Seq(S)
  BY DEF IsSequence
<1>2. s \in Seq(S \cup {e})
  BY <1>1
<1>3. Append(s, e) \in Seq(S \cup {e})
  BY <1>2
<1>4. IsSequence(Append(s, e))
  BY <1>3 DEF IsSequence
<1>5. QED
  BY <1>2, <1>4

LEMMA EmptySequence == IsSequence(<<>>) /\ Len(<<>>) = 0 /\ \A s : IsSequence(s) => (s = <<>> <=> Len(s) = 0)
<1>1. <<>> \in Seq({})
  OBVIOUS
<1>2. QED
  BY <1>1 DEF IsSequence

LEMMA LengthIsNatural == \A s : IsSequence(s) => Len(s) \in Nat /\ DOMAIN s = 1..Len(s)
  BY DEF IsSequence

\* Only the handshake has no content.
LEMMA Sizes ==
    \A i \in Served :
        /\ Size(BodySend[i]) \in Nat
        /\ i # "HANDSHAKE" => Size(BodySend[i]) > 0
        /\ SizeToRead(i) = Size(BodySend[i])
<1> SUFFICES ASSUME NEW i \in Served
             PROVE  /\ Size(BodySend[i]) \in Nat
                    /\ i # "HANDSHAKE" => Size(BodySend[i]) > 0
                    /\ SizeToRead(i) = Size(BodySend[i])
  OBVIOUS
<1>1. IsLayout(BodySend[i]) /\ PacketFromServer[i] = BodySend[i]
  BY SameStructuresServed DEF SameStructures
<1>2. i # "HANDSHAKE" => BodySend[i] # <<>>
  BY SameStructuresServed DEF SameStructures
<1>3. HasWidthsOf(BodySend[i], BodySend[i])
  BY <1>1, LayoutFacts DEF HasWidthsOf
<1>4. QED
  BY <1>1, <1>2, <1>3, SizeOfLayout DEF SizeToRead

\* Commands follow each other without a gap.
LEMMA Positions ==
    ASSUME StreamTypeOK, SentInOrder
    PROVE  /\ Len(sent) \in Nat
           /\ DOMAIN sent = 1..Len(sent)
           /\ written = Upto(Len(sent))
           /\ \A n \in 0..Len(sent) : Upto(n) \in Nat /\ Upto(n) <= written
           /\ \A k \in 1..Len(sent) :
                 /\ Begin(k) \in Nat /\ Content(k) \in Nat /\ End(k) \in Nat
                 /\ Begin(k) = Upto(k - 1) /\ End(k) = Upto(k)
                 /\ Content(k) = Begin(k) + HEADER_SIZE
                 /\ End(k) = Content(k) + Size(BodySend[sent[k].instruction])
                 /\ Begin(k) < Content(k) /\ Content(k) <= End(k) /\ End(k) <= written
           /\ \A j, k \in 1..Len(sent) : j < k => End(j) <= Begin(k)
<1>1. Len(sent) \in Nat /\ DOMAIN sent = 1..Len(sent) /\ (sent = <<>> <=> Len(sent) = 0)
  BY LengthIsNatural, EmptySequence DEF StreamTypeOK
<1>2. \A k \in 1..Len(sent) :
         /\ Begin(k) \in Nat /\ Content(k) \in Nat /\ End(k) \in Nat
         /\ Content(k) = Begin(k) + HEADER_SIZE
         /\ End(k) = Content(k) + Size(BodySend[sent[k].instruction])
         /\ Begin(k) < Content(k) /\ Content(k) <= End(k)
  BY Sizes, StreamAssumption DEF SentInOrder, Content, End
<1>3. \A j, k \in 1..Len(sent) : j < k => End(j) <= Begin(k)
  BY DEF SentInOrder
<1>4. written = Upto(Len(sent)) /\ Upto(0) = 0 /\ \A k \in 1..Len(sent) : End(k) = Upto(k)
  BY <1>1 DEF written, Upto
<1>5. \A k \in 1..Len(sent) : End(k) <= written
  <2> SUFFICES ASSUME NEW k \in 1..Len(sent) PROVE End(k) <= End(Len(sent))
    BY <1>1, <1>4
  <2>1. k = Len(sent) \/ k < Len(sent)
    <3>1. Len(sent) \in Nat
      BY <1>1
    <3>2. \A n \in Nat : \A m \in 1..n : m = n \/ m < n
      OBVIOUS
    <3>3. QED
      BY <3>1, <3>2
  <2>2. k < Len(sent) => End(k) <= Begin(Len(sent))
    BY <1>1, <1>3
  <2> HIDE DEF End
  <2>3. QED
    BY <1>1, <1>2, <2>1, <2>2
<1>6. \A k \in 1..Len(sent) : Begin(k) = Upto(k - 1)
  <2> SUFFICES ASSUME NEW k \in 1..Len(sent) PROVE Begin(k) = Upto(k - 1)
    OBVIOUS
  <2>1. CASE k = 1
    BY <2>1, <1>4 DEF SentInOrder
  <2>2. CASE k # 1
    <3>1. k - 1 \in 1..Len(sent) /\ k = (k - 1) + 1
      BY <1>1, <2>2
    <3>2. End(k - 1) = Begin(k)
      BY <3>1 DEF SentInOrder
    <3>3. QED
      BY <3>1, <3>2, <1>4
  <2>3. QED
    BY <2>1, <2>2
<1>7. \A n \in 0..Len(sent) : Upto(n) \in Nat /\ Upto(n) <= written
  <2> SUFFICES ASSUME NEW n \in 0..Len(sent) PROVE Upto(n) \in Nat /\ Upto(n) <= written
    OBVIOUS
  <2>1. written \in Nat
    BY <1>1, <1>2, <1>4
  <2>2. n = 0 \/ n \in 1..Len(sent)
    BY <1>1
  <2>3. QED
    BY <2>1, <2>2, <1>2, <1>4, <1>5
<1>8. QED
  BY <1>1, <1>2, <1>3, <1>4, <1>5, <1>6, <1>7

\* Behind n commands begins the next one, if it has been sent, and no other.
LEMMA NextCommand ==
    ASSUME StreamTypeOK, SentInOrder, NEW n \in 0..Len(sent)
    PROVE  /\ Upto(n) < written => n < Len(sent)
           /\ n < Len(sent) => n + 1 \in 1..Len(sent) /\ Begin(n + 1) = Upto(n)
           /\ \A k \in 1..Len(sent) : Begin(k) = Upto(n) => k = n + 1
           /\ n < Len(sent) => \A k \in 1..Len(sent) : Content(k) = Content(n + 1) => k = n + 1
           /\ \A k \in 1..Len(sent) : k > n => Upto(n) <= Begin(k) /\ (k > n + 1 => End(n + 1) <= End(k))
<1>1. Len(sent) \in Nat /\ n \in Nat /\ written = Upto(Len(sent)) /\ Upto(n) \in Nat
  BY Positions
<1>2. Upto(n) < written => n < Len(sent)
  BY <1>1
<1>3. n < Len(sent) => n + 1 \in 1..Len(sent) /\ Begin(n + 1) = Upto(n)
  BY <1>1, Positions
<1>4. \A j, k \in 1..Len(sent) : j < k => Begin(j) < Begin(k)
  BY Positions
<1>5. ASSUME NEW k \in 1..Len(sent), k <= n
      PROVE  Begin(k) < Upto(n)
  <2>1. Begin(k) < End(k) /\ Begin(k) \in Nat /\ End(k) \in Nat
    BY Positions
  <2>2. n \in 1..Len(sent) /\ End(n) = Upto(n) /\ End(n) \in Nat /\ Begin(n) < End(n) /\ Begin(n) \in Nat
    BY <1>1, <1>5, Positions
  <2>3. k = n \/ k < n
    BY <1>5, <1>1
  <2>4. k < n => Begin(k) < Begin(n)
    BY <1>4, <2>2
  <2>5. QED
    BY <2>1, <2>2, <2>3, <2>4
<1>6. ASSUME NEW k \in 1..Len(sent), k > n
      PROVE  /\ Upto(n) <= Begin(k)
             /\ k > n + 1 => End(n + 1) <= End(k) /\ Upto(n) < Begin(k)
  <2>1. n + 1 \in 1..Len(sent) /\ (k = n + 1 \/ n + 1 < k)
    BY <1>1, <1>6
  <2>2. Begin(n + 1) = Upto(n)
    BY <1>3, <2>1, <1>1
  <2>3. n + 1 < k => Begin(n + 1) < Begin(k) /\ End(n + 1) <= Begin(k)
    BY <1>4, <2>1, Positions
  <2>4. /\ Begin(k) \in Nat /\ End(k) \in Nat /\ End(n + 1) \in Nat /\ Begin(n + 1) \in Nat
        /\ Begin(k) <= End(k)
    BY <2>1, Positions
  <2>5. QED
    BY <1>1, <2>1, <2>2, <2>3, <2>4
<1>7. \A k \in 1..Len(sent) : Begin(k) = Upto(n) => k = n + 1
  <2> SUFFICES ASSUME NEW k \in 1..Len(sent), Begin(k) = Upto(n) PROVE k = n + 1
    OBVIOUS
  <2>1. Begin(k) \in Nat
    BY Positions
  <2>2. ~(k <= n) /\ ~(k > n + 1)
    BY <1>1, <1>5, <1>6, <2>1
  <2>3. QED
    BY <1>1, <2>2
<1>8. \A j, k \in 1..Len(sent) : Content(j) = Content(k) => j = k
  <2> SUFFICES ASSUME NEW j \in 1..Len(sent), NEW k \in 1..Len(sent), Content(j) = Content(k)
               PROVE  j = k
    OBVIOUS
  <2>1. Begin(j) = Begin(k) /\ Begin(j) \in Nat
    BY Positions, StreamAssumption
  <2>2. QED
    BY <1>1, <1>4, <2>1
<1>9. QED
  BY <1>1, <1>2, <1>3, <1>6, <1>7, <1>8

-----------------------------------------------------------------------------
(* The steps of the stream *)

\* What does not change with the commands sent.
LEMMA SameSent ==
    ASSUME sent' = sent
    PROVE  /\ written' = written
           /\ \A k : Begin(k)' = Begin(k) /\ Content(k)' = Content(k) /\ End(k)' = End(k)
           /\ \A n : Upto(n)' = Upto(n)
           /\ SentInOrder => SentInOrder'
  BY DEF written, Begin, Content, End, Upto, SentInOrder

LEMMA StreamInitially == StreamInit => StreamInv
<1> SUFFICES ASSUME StreamInit PROVE StreamInv
  OBVIOUS
<1> USE DEF StreamInit
<1>1. StreamTypeOK
  <2>1. IsSequence(sent) /\ IsSequence(received)
    BY EmptySequence
  <2>2. QED
    BY <2>1 DEF StreamTypeOK
<1>2. SentInOrder /\ Arrived
  BY EmptySequence DEF SentInOrder, Arrived, written
<1>3. InStep /\ OutOfStep /\ LeftOver /\ AwaitsContent /\ Requested
  BY DEF InStep, OutOfStep, LeftOver, AwaitsContent, Requested
<1>4. QED
  BY <1>1, <1>2, <1>3 DEF StreamInv

LEMMA ServerSendsStep ==
    ASSUME StreamInv, NEW command \in Answers \cup {Greeting}, ServerSends(command)
    PROVE  StreamInv'
<1> USE DEF StreamInv, ServerSends, framing, stream
<1>0. PICK n \in Nat : n = Len(sent)
  BY LengthIsNatural DEF StreamTypeOK
<1> DEFINE new == [instruction |-> command.instruction, value |-> command.value, begin |-> written]
<1>1. /\ IsSequence(sent) /\ sent' = Append(sent, new)
      /\ n \in Nat /\ Len(sent') = n + 1
      /\ \A k \in 1..n : sent'[k] = sent[k]
      /\ sent'[n + 1] = new
      /\ sent = <<>> <=> n = 0
  BY <1>0, Appended, EmptySequence DEF StreamTypeOK
<1>2. StreamTypeOK'
  BY <1>1, Appended DEF StreamTypeOK
<1>3. /\ new.instruction \in Served
      /\ new.instruction = "HANDSHAKE" <=> n = 0
      /\ IsCommand(new, new.instruction, BodySend[new.instruction])
  <2>1. CASE command = Greeting
    <3>1. n = 0
      BY <1>1, <2>1
    <3>2. IsCommand(Greeting, "HANDSHAKE", BodySend["HANDSHAKE"]) /\ Greeting.instruction = "HANDSHAKE"
      BY GreetingIsMeant DEF Greeting
    <3>3. QED
      BY <2>1, <3>1, <3>2 DEF IsCommand, Served
  <2>2. CASE command # Greeting
    <3>1. command \in Answers /\ n # 0
      BY <1>1, <2>2
    <3>2. /\ command.instruction \in Served \ {"HANDSHAKE"}
          /\ IsCommand(command, command.instruction, BodySend[command.instruction])
      BY <3>1, AnswersAreMeant
    <3>3. QED
      BY <3>1, <3>2 DEF IsCommand
  <2>3. QED
    BY <2>1, <2>2
<1>4. \A k \in 1..n : Begin(k)' = Begin(k) /\ Content(k)' = Content(k) /\ End(k)' = End(k)
  BY <1>1 DEF Begin, Content, End
<1>5. \A m \in 0..n : Upto(m)' = Upto(m)
  BY <1>1, <1>4 DEF Upto
<1>6. Begin(n + 1)' = written /\ written = Upto(n) /\ written \in Nat
  <2>1. Begin(n + 1)' = written
    BY <1>1 DEF Begin
  <2>2. QED
    BY <1>0, <1>1, <2>1, Positions
<1>7. SentInOrder'
  <2> HIDE DEF new
  <2>1. ASSUME NEW k \in 1..n
        PROVE  /\ sent[k]'.instruction \in Served
               /\ sent[k]'.instruction = "HANDSHAKE" <=> k = 1
               /\ IsCommand(sent[k]', sent[k]'.instruction, BodySend[sent[k]'.instruction])
               /\ Begin(k)' \in Nat
               /\ k = 1 => Begin(k)' = 0
               /\ \A j \in 1..(n + 1) : j < k => End(j)' <= Begin(k)'
               /\ \A j \in 1..(n + 1) : k = j + 1 => End(j)' = Begin(k)'
    BY <1>0, <1>1, <1>4 DEF SentInOrder
  <2>2. /\ sent[n + 1]'.instruction \in Served
        /\ sent[n + 1]'.instruction = "HANDSHAKE" <=> n + 1 = 1
        /\ IsCommand(sent[n + 1]', sent[n + 1]'.instruction, BodySend[sent[n + 1]'.instruction])
    BY <1>1, <1>3
  <2>3. Begin(n + 1)' \in Nat /\ (n + 1 = 1 => Begin(n + 1)' = 0)
    BY <1>1, <1>6 DEF Upto
  <2>4. \A j \in 1..(n + 1) : j < n + 1 => End(j)' <= Begin(n + 1)'
    <3> SUFFICES ASSUME NEW j \in 1..(n + 1), j < n + 1
                 PROVE  End(j)' <= Begin(n + 1)'
      OBVIOUS
    <3>1. j \in 1..n
      BY <1>1
    <3>2. End(j)' = End(j) /\ End(j) <= written
      BY <1>0, <1>4, <3>1, Positions
    <3>3. QED
      BY <3>2, <1>6
  <2>5. \A j \in 1..(n + 1) : n + 1 = j + 1 => End(j)' = Begin(n + 1)'
    <3> SUFFICES ASSUME NEW j \in 1..(n + 1), n + 1 = j + 1
                 PROVE  End(j)' = Begin(n + 1)'
      OBVIOUS
    <3>1. j = n /\ j \in 1..n
      BY <1>1
    <3>2. End(j)' = End(j) /\ End(j) = Upto(n)
      BY <1>0, <1>4, <3>1, Positions
    <3>3. QED
      BY <3>2, <1>6
  <2>6. \A k \in 1..(n + 1) : k \in 1..n \/ k = n + 1
    BY <1>1
  <2>7. QED
    BY <1>0, <1>1, <2>1, <2>2, <2>3, <2>4, <2>5, <2>6 DEF SentInOrder
<1>8. written' = End(n + 1)' /\ End(n + 1)' \in Nat /\ written < End(n + 1)'
  <2>1. Len(sent)' = n + 1 /\ sent' # <<>>
    BY <1>1, <1>2, EmptySequence DEF StreamTypeOK
  <2>2. written' = End(n + 1)'
    BY <2>1 DEF written
  <2>3. End(n + 1)' = written + HEADER_SIZE + Size(BodySend[new.instruction])
    BY <1>1, <1>6 DEF End, Content
  <2>4. QED
    BY <2>2, <2>3, <1>3, <1>6, Sizes, StreamAssumption
<1>9. Arrived'
  BY <1>6, <1>8 DEF Arrived, StreamTypeOK
<1>10. InStep'
  <2> SUFFICES ASSUME link = "up", inStep
               PROVE  ReadUpto(Len(received))'
    BY DEF InStep
  <2> DEFINE m == Len(received)
  <2>1. ReadUpto(m) /\ m \in Nat /\ m <= n
    BY <1>0, LengthIsNatural DEF InStep, ReadUpto, StreamTypeOK
  <2>2. Upto(m)' = Upto(m)
    BY <2>1, <1>5, <1>1
  <2>3. \A k \in 1..m : sent'[k] = sent[k]
    BY <2>1, <1>1
  <2>4. m < n => Content(m + 1)' = Content(m + 1) /\ sent'[m + 1] = sent[m + 1]
    BY <2>1, <1>1, <1>4
  <2>5. thread = "idle" => \A k \in 1..(n + 1) : End(k)' <= arrived => k <= m
    <3> SUFFICES ASSUME thread = "idle", NEW k \in 1..(n + 1), End(k)' <= arrived
                 PROVE  k <= m
      OBVIOUS
    <3>1. k # n + 1
      BY <1>6, <1>8 DEF Arrived, StreamTypeOK
    <3>2. k \in 1..n
      BY <1>1, <3>1
    <3>3. QED
      BY <1>0, <1>4, <2>1, <3>2 DEF ReadUpto
  <2>6. m <= n + 1 /\ (m < n => m < n + 1)
    BY <1>1, <2>1
  <2>7. QED
    BY <1>0, <1>1, <2>1, <2>2, <2>3, <2>4, <2>5, <2>6 DEF ReadUpto
<1>11. OutOfStep' /\ LeftOver' /\ AwaitsContent' /\ Requested'
  BY DEF OutOfStep, LeftOver, AwaitsContent, Requested
<1>12. QED
  BY <1>2, <1>7, <1>9, <1>10, <1>11

-----------------------------------------------------------------------------
(* Steps that send nothing *)

LEMMA ServerReadsStep == ASSUME StreamInv, ServerReads PROVE StreamInv'
<1> USE DEF StreamInv, ServerReads, framing, stream
<1>1. SentInOrder' /\ written' = written /\ \A n : Upto(n)' = Upto(n)
  BY SameSent
<1>2. \A k : Begin(k)' = Begin(k) /\ Content(k)' = Content(k) /\ End(k)' = End(k)
  BY SameSent
<1>3. StreamTypeOK' /\ Arrived' /\ OutOfStep' /\ LeftOver' /\ AwaitsContent' /\ Requested'
  BY <1>1 DEF StreamTypeOK, Arrived, OutOfStep, LeftOver, AwaitsContent, Requested
<1>4. InStep'
  BY <1>1, <1>2 DEF InStep, ReadUpto
<1>5. QED
  BY <1>1, <1>3, <1>4

LEMMA ArriveStep == ASSUME StreamInv, NEW n \in Cuts, Arrive(n) PROVE StreamInv'
<1> USE DEF StreamInv, Arrive, framing
<1>1. SentInOrder' /\ written' = written /\ \A m : Upto(m)' = Upto(m)
  BY SameSent
<1>2. \A k : Begin(k)' = Begin(k) /\ Content(k)' = Content(k) /\ End(k)' = End(k)
  BY SameSent
<1>3. n \in Nat /\ n <= written /\ n > arrived
  <2>1. \E k \in 1..Len(sent) :
           n \in {Begin(k) + 1, Content(k) - 1, Content(k), Content(k) + 1, End(k) - 1, End(k)}
    BY Positions DEF Cuts
  <2>2. n \in Int
    BY <2>1, Positions
  <2>3. QED
    BY <2>2 DEF StreamTypeOK
<1>4. StreamTypeOK' /\ Arrived'
  BY <1>1, <1>3, Positions DEF StreamTypeOK, Arrived
<1>5. OutOfStep' /\ LeftOver' /\ AwaitsContent' /\ Requested'
  BY DEF OutOfStep, LeftOver, AwaitsContent, Requested
<1>6. InStep'
  <2> SUFFICES ASSUME link = "up", inStep PROVE ReadUpto(Len(received))'
    BY DEF InStep
  <2>1. ReadUpto(Len(received))
    BY DEF InStep
  <2>2. thread' # "idle" /\ (thread' = "asking" <=> thread = "asking")
    OBVIOUS
  <2>3. QED
    BY <1>1, <1>2, <2>1, <2>2 DEF ReadUpto
<1>7. QED
  BY <1>1, <1>4, <1>5, <1>6

LEMMA AnswerStep == ASSUME StreamInv, Answer PROVE StreamInv'
<1> USE DEF StreamInv, Answer, stream, resetCurrentCommand, Resumed
<1>1. SentInOrder' /\ written' = written /\ \A m : Upto(m)' = Upto(m)
  BY SameSent
<1>2. \A k : Begin(k)' = Begin(k) /\ Content(k)' = Content(k) /\ End(k)' = End(k)
  BY SameSent
<1>3. StreamTypeOK' /\ Arrived' /\ OutOfStep' /\ LeftOver' /\ AwaitsContent' /\ Requested'
  BY <1>1 DEF StreamTypeOK, Arrived, OutOfStep, LeftOver, AwaitsContent, Requested
<1>4. InStep'
  BY <1>1, <1>2 DEF InStep, ReadUpto
<1>5. QED
  BY <1>1, <1>3, <1>4

\* Less than a header, or than the content awaited, has arrived: the next command
\* has not arrived whole.
LEMMA ReturnStep == ASSUME StreamInv, Return PROVE StreamInv'
<1> USE DEF StreamInv, Return, framing, stream
<1>1. SentInOrder' /\ written' = written /\ \A m : Upto(m)' = Upto(m)
  BY SameSent
<1>2. \A k : Begin(k)' = Begin(k) /\ Content(k)' = Content(k) /\ End(k)' = End(k)
  BY SameSent
<1>3. StreamTypeOK' /\ Arrived' /\ OutOfStep' /\ LeftOver' /\ AwaitsContent' /\ Requested'
  BY <1>1 DEF StreamTypeOK, Arrived, OutOfStep, LeftOver, AwaitsContent, Requested
<1>4. InStep'
  <2> SUFFICES ASSUME link = "up", inStep PROVE ReadUpto(Len(received))'
    BY DEF InStep
  <2>0. PICK n \in Nat : n = Len(received)
    BY LengthIsNatural DEF StreamTypeOK
  <2>1. ReadUpto(n) /\ n \in 0..Len(sent)
    BY <2>0, Positions DEF InStep, ReadUpto
  <2>2. ASSUME NEW k \in 1..Len(sent), End(k) <= arrived PROVE k <= n
    <3> SUFFICES ASSUME k > n PROVE FALSE
      BY <2>0, <2>1
    <3>1. /\ Begin(k) \in Nat /\ Content(k) \in Nat /\ End(k) \in Nat
          /\ Content(k) = Begin(k) + HEADER_SIZE /\ Content(k) <= End(k)
          /\ Upto(n) <= Begin(k) /\ Upto(n) \in Nat
      BY <2>1, Positions, NextCommand
    <3>2. CASE mCurrentState = "HEADER"
      <4>1. consumed = Upto(n) /\ arrived - consumed < HEADER_SIZE
        BY <2>1, <3>2 DEF ReadUpto, bytesAvailable
      <4>2. QED
        BY <2>2, <3>1, <4>1, StreamAssumption DEF StreamTypeOK
    <3>3. CASE mCurrentState = "CONTENT"
      <4>1. /\ n < Len(sent) /\ consumed = Content(n + 1) /\ mCurrentCommand = sent[n + 1].instruction
            /\ arrived - consumed < SizeToRead(mCurrentCommand)
        BY <2>1, <3>3 DEF ReadUpto, bytesAvailable
      <4>2. n + 1 \in 1..Len(sent) /\ sent[n + 1].instruction \in Served
        BY <2>1, <4>1, NextCommand DEF SentInOrder
      <4>3. /\ End(n + 1) = Content(n + 1) + SizeToRead(mCurrentCommand)
            /\ End(n + 1) \in Nat /\ SizeToRead(mCurrentCommand) \in Nat /\ Content(n + 1) \in Nat
        BY <4>1, <4>2, Positions, Sizes
      <4>4. arrived < End(n + 1)
        BY <4>1, <4>3 DEF StreamTypeOK
      <4>5. End(n + 1) <= End(k)
        <5>1. k = n + 1 \/ k > n + 1
          BY <2>0
        <5>2. k > n + 1 => End(n + 1) <= End(k)
          BY <2>1, NextCommand
        <5>3. QED
          BY <4>3, <5>1, <5>2
      <4>6. QED
        BY <2>2, <3>1, <4>3, <4>4, <4>5 DEF StreamTypeOK
    <3>4. QED
      BY <3>2, <3>3 DEF StreamTypeOK
  <2>3. QED
    BY <1>1, <1>2, <2>0, <2>1, <2>2 DEF ReadUpto
<1>5. QED
  BY <1>1, <1>3, <1>4

\* The header read is that of the next command, and the client takes it for what
\* the server sent.  Reading behind the greeting of a lost connection, it does not
\* find another.
LEMMA HeaderStep == ASSUME StreamInv, fetchCommandHeader PROVE StreamInv'
<1> DEFINE here == {k \in DOMAIN sent : Begin(k) = consumed}
<1>0. /\ thread = "reading" /\ mCurrentState = "HEADER" /\ bytesAvailable >= HEADER_SIZE
      /\ consumed' = consumed + HEADER_SIZE
      /\ UNCHANGED <<sent, arrived, received, request, connections, inStep>>
      /\ \/ \E k \in here :
               /\ mCurrentCommand' =
                     ClientInstruction[NumberOf(ServerInstruction,
                                                ServerCommand[sent[k].instruction].instructionCode)]
               /\ mCurrentState' = "CONTENT"
               /\ UNCHANGED <<link, thread, mHasHandshaked>>
         \/ /\ here = {}
            /\ onSocketClosed
            /\ link' = "lost"
            /\ thread' = "idle"
  BY DEF fetchCommandHeader
<1> USE DEF StreamInv
<1>1. SentInOrder' /\ written' = written /\ \A m : Upto(m)' = Upto(m)
  BY <1>0, SameSent
<1>2. \A k : Begin(k)' = Begin(k) /\ Content(k)' = Content(k) /\ End(k)' = End(k)
  BY <1>0, SameSent
<1>3. consumed' \in Nat /\ consumed' > 0 /\ consumed' <= arrived /\ consumed < arrived
  BY <1>0, StreamAssumption DEF bytesAvailable, StreamTypeOK
<1>4. StreamTypeOK' /\ Arrived' /\ Requested'
  BY <1>0, <1>1, <1>3 DEF StreamTypeOK, Arrived, Requested, onSocketClosed
<1>5. ASSUME NEW k \in here,
             mCurrentCommand' =
                ClientInstruction[NumberOf(ServerInstruction,
                                           ServerCommand[sent[k].instruction].instructionCode)]
      PROVE  /\ k \in 1..Len(sent) /\ Begin(k) = consumed
             /\ mCurrentCommand' = sent[k].instruction /\ sent[k].instruction \in Served
  <2>1. k \in 1..Len(sent) /\ Begin(k) = consumed
    BY Positions
  <2>2. sent[k].instruction \in Served
    BY <2>1 DEF SentInOrder
  <2>3. ServerCommand[sent[k].instruction].instructionCode = sent[k].instruction
    BY <2>2, SameStructuresServed DEF SameStructures
  <2>4. QED
    BY <1>5, <2>1, <2>2, <2>3, SameInstructionNumbers
<1>6. AwaitsContent'
  BY <1>0, <1>5 DEF AwaitsContent, onSocketClosed
<1>7. link = "up" => inStep
  BY <1>0 DEF OutOfStep
<1>8. OutOfStep'
  BY <1>0, <1>7 DEF OutOfStep
<1>9. LeftOver'
  <2> SUFFICES ASSUME link' # "up"
               PROVE  /\ ~mHasHandshaked'
                      /\ thread' # "idle" => consumed' > 0
                      /\ mCurrentState' = "CONTENT" => mCurrentCommand' # "HANDSHAKE"
    BY DEF LeftOver
  <2>1. CASE \E k \in here :
               /\ mCurrentCommand' =
                     ClientInstruction[NumberOf(ServerInstruction,
                                                ServerCommand[sent[k].instruction].instructionCode)]
               /\ UNCHANGED <<link, thread, mHasHandshaked>>
    <3>1. PICK k \in here :
               mCurrentCommand' =
                     ClientInstruction[NumberOf(ServerInstruction,
                                                ServerCommand[sent[k].instruction].instructionCode)]
      BY <2>1
    <3>2. ~mHasHandshaked /\ consumed > 0
      BY <1>0, <2>1 DEF LeftOver
    <3>3. k \in 1..Len(sent) /\ Begin(k) # 0 /\ mCurrentCommand' = sent[k].instruction
      BY <1>5, <3>1, <3>2
    <3>4. sent[k].instruction # "HANDSHAKE"
      BY <3>3 DEF SentInOrder
    <3>5. QED
      BY <1>3, <2>1, <3>2, <3>3, <3>4
  <2>2. CASE onSocketClosed /\ thread' = "idle"
    BY <2>2 DEF onSocketClosed
  <2>3. QED
    BY <1>0, <2>1, <2>2
<1>10. InStep'
  <2> SUFFICES ASSUME link' = "up", inStep' PROVE ReadUpto(Len(received))'
    BY DEF InStep
  <2>0. PICK n \in Nat : n = Len(received)
    BY LengthIsNatural DEF StreamTypeOK
  <2>1. /\ link = "up" /\ inStep /\ thread' = "reading" /\ mCurrentState' = "CONTENT"
        /\ UNCHANGED mHasHandshaked
    BY <1>0
  <2>2. PICK k \in here :
           mCurrentCommand' =
              ClientInstruction[NumberOf(ServerInstruction,
                                         ServerCommand[sent[k].instruction].instructionCode)]
    BY <1>0, <2>1
  <2>3. ReadUpto(n) /\ n \in 0..Len(sent) /\ consumed = Upto(n)
    BY <1>0, <2>0, <2>1, Positions DEF InStep, ReadUpto
  <2>4. n < Len(sent) /\ n + 1 \in 1..Len(sent)
    <3>1. Upto(n) < written
      BY <1>3, <2>3, Positions DEF Arrived, StreamTypeOK
    <3>2. QED
      BY <2>3, <3>1, NextCommand
  <2>5. k = n + 1 /\ Begin(n + 1) = Upto(n)
    BY <1>5, <2>2, <2>3, <2>4, NextCommand
  <2>6. consumed' = Content(n + 1) /\ mCurrentCommand' = sent[n + 1].instruction
    BY <1>0, <1>5, <2>2, <2>3, <2>4, <2>5, Positions
  <2>7. QED
    BY <1>0, <1>1, <1>2, <2>0, <2>1, <2>3, <2>4, <2>6 DEF ReadUpto
<1>11. QED
  BY <1>1, <1>4, <1>6, <1>8, <1>9, <1>10

\* The content read is that of the next command.
LEMMA ContentStep == ASSUME StreamInv, fetchCommandContent PROVE StreamInv'
<1> DEFINE command == ClientCommand[mCurrentCommand].getInstruction
           refused == ~mHasHandshaked /\ command # "HANDSHAKE"
           asks == ~refused /\ command \in {"ADD", "CALL"}
           read == [instruction |-> command, fields |-> Fields]
<1>0. /\ thread = "reading" /\ mCurrentState = "CONTENT"
      /\ bytesAvailable >= SizeToRead(mCurrentCommand)
      /\ consumed' = consumed + SizeToRead(mCurrentCommand)
      /\ received' = Append(received, read)
      /\ asks => thread' = "asking" /\ UNCHANGED framing
      /\ ~asks => UNCHANGED thread /\ resetCurrentCommand
      /\ mHasHandshaked' = ~refused
      /\ refused => link' = "lost"
      /\ ~refused => link' = link
      /\ UNCHANGED <<sent, arrived, request, connections, inStep>>
  BY DEF fetchCommandContent
<1> HIDE DEF refused, asks
<1> USE DEF StreamInv
<1>1. SentInOrder' /\ written' = written /\ \A m : Upto(m)' = Upto(m)
  BY <1>0, SameSent
<1>2. \A k : Begin(k)' = Begin(k) /\ Content(k)' = Content(k) /\ End(k)' = End(k)
  BY <1>0, SameSent
<1>3. mCurrentCommand \in Served /\ command = mCurrentCommand
  BY <1>0, SameStructuresServed DEF AwaitsContent, SameStructures
<1>4. /\ SizeToRead(mCurrentCommand) \in Nat
      /\ mCurrentCommand # "HANDSHAKE" => SizeToRead(mCurrentCommand) > 0
  BY <1>3, Sizes
<1>5. consumed' \in Nat /\ consumed' >= consumed /\ consumed' <= arrived
  BY <1>0, <1>4 DEF bytesAvailable, StreamTypeOK
<1>6. StreamTypeOK'
  <2>1. IsSequence(received)'
    BY <1>0, Appended DEF StreamTypeOK
  <2>2. thread' \in {"reading", "asking"} /\ mCurrentState' \in {"HEADER", "CONTENT"}
    BY <1>0 DEF framing, resetCurrentCommand
  <2>3. link' \in {"none", "up", "lost"} /\ mHasHandshaked' \in BOOLEAN
    BY <1>0 DEF StreamTypeOK, refused
  <2>4. QED
    BY <1>0, <1>5, <2>1, <2>2, <2>3 DEF StreamTypeOK
<1>7. Arrived' /\ Requested'
  BY <1>0, <1>1, <1>5 DEF Arrived, Requested
<1>8. AwaitsContent'
  BY <1>0, <1>3 DEF AwaitsContent, framing, resetCurrentCommand
<1>9. (link # "up" \/ ~inStep) => refused
  BY <1>0, <1>3 DEF LeftOver, OutOfStep, StreamTypeOK, refused
<1>a. PICK n \in Nat : n = Len(received)
  BY LengthIsNatural DEF StreamTypeOK
<1>10. link = "up" /\ inStep => ReadUpto(n + 1)' /\ ~refused
  <2> SUFFICES ASSUME link = "up", inStep PROVE ReadUpto(n + 1)' /\ ~refused
    OBVIOUS
  <2>1. ReadUpto(n) /\ n \in 0..Len(sent)
    BY <1>a, Positions DEF InStep, ReadUpto
  <2>2. n < Len(sent) /\ consumed = Content(n + 1) /\ mCurrentCommand = sent[n + 1].instruction
    BY <1>0, <2>1 DEF ReadUpto
  <2>3. n + 1 \in 1..Len(sent)
    BY <2>1, <2>2, NextCommand
  <2>4. n = 0 => command = "HANDSHAKE"
    BY <1>3, <2>2, <2>3 DEF SentInOrder
  <2>5. mHasHandshaked <=> n >= 1
    BY <2>1 DEF ReadUpto
  <2>6. ~refused
    BY <1>a, <2>4, <2>5 DEF refused
  <2>7. /\ Len(received)' = n + 1
        /\ \A k \in 1..n : received'[k] = received[k]
        /\ received'[n + 1] = read
    BY <1>0, <1>a, Appended DEF StreamTypeOK
  <2>8. consumed' = Upto(n + 1) /\ Upto(n + 1) = End(n + 1)
    BY <1>0, <1>3, <2>2, <2>3, Positions, Sizes
  <2>9. Fields = [name \in DOMAIN sent[n + 1].value |->
                     AsFits(name, sent[n + 1].value[name], BodySend[sent[n + 1].instruction])]
    <3> DEFINE here == {k \in DOMAIN sent : /\ Content(k) = consumed
                                             /\ sent[k].instruction = mCurrentCommand}
               i == sent[n + 1].instruction
    <3>1. here = {n + 1}
      BY <2>1, <2>2, <2>3, NextCommand, Positions
    <3>2. here # {} /\ (CHOOSE k \in here : TRUE) = n + 1
      BY <3>1
    <3>3. Fields = IF here = {} THEN [name \in NamesRead(mCurrentCommand) |-> Garbled]
                   ELSE LET k == CHOOSE k \in here : TRUE
                        IN  ReadByClient(mCurrentCommand,
                                         WrittenByServer(mCurrentCommand, sent[k].value))
      BY DEF Fields
    <3> HIDE DEF here
    <3>4. Fields = ReadByClient(mCurrentCommand,
                                WrittenByServer(mCurrentCommand, sent[n + 1].value))
      BY <3>2, <3>3
    <3>5. /\ i \in Served /\ DOMAIN sent[n + 1].value = Names(BodySend[i])
          /\ \A name \in Names(BodySend[i]) : IsMeant(name, sent[n + 1].value[name])
      BY <2>3 DEF SentInOrder, IsCommand
    <3>6. QED
      BY <2>2, <3>4, <3>5, ReadAsMeant
  <2>10. \A k \in 1..(n + 1) :
            /\ received'[k].instruction = sent[k].instruction
            /\ received'[k].fields =
                  [name \in DOMAIN sent[k].value |->
                      AsFits(name, sent[k].value[name], BodySend[sent[k].instruction])]
    <3>1. /\ received'[n + 1].instruction = sent[n + 1].instruction
          /\ received'[n + 1].fields =
                [name \in DOMAIN sent[n + 1].value |->
                    AsFits(name, sent[n + 1].value[name], BodySend[sent[n + 1].instruction])]
      BY <1>3, <2>2, <2>7, <2>9
    <3>2. \A k \in 1..n :
             /\ received'[k].instruction = sent[k].instruction
             /\ received'[k].fields =
                   [name \in DOMAIN sent[k].value |->
                       AsFits(name, sent[k].value[name], BodySend[sent[k].instruction])]
      BY <2>1, <2>7 DEF ReadUpto
    <3>3. \A k \in 1..(n + 1) : k \in 1..n \/ k = n + 1
      BY <1>a
    <3>4. QED
      BY <3>1, <3>2, <3>3
  <2>11. /\ mHasHandshaked'
         /\ n + 1 >= 1 /\ n + 1 <= Len(sent)
    <3>1. mHasHandshaked'
      BY <1>0, <2>6, Zenon
    <3>2. n + 1 >= 1 /\ n + 1 <= Len(sent)
      BY <2>1, <2>3, NextCommand
    <3>3. QED
      BY <3>1, <3>2
  <2>12. thread' # "idle" /\ (thread' # "asking" => mCurrentState' = "HEADER")
    BY <1>0 DEF resetCurrentCommand
  <2>13. ReadUpto(n + 1)'
    BY <1>0, <1>1, <2>8, <2>10, <2>11, <2>12 DEF ReadUpto
  <2>14. QED
    BY <2>6, <2>13
<1>11. Len(received)' = n + 1
  BY <1>0, <1>a, Appended DEF StreamTypeOK
<1>12. InStep'
  <2> SUFFICES ASSUME link' = "up", inStep' PROVE ReadUpto(Len(received))'
    BY DEF InStep
  <2>1. ReadUpto(n + 1)'
    BY <1>0, <1>9, <1>10
  <2>2. QED
    BY <1>11, <2>1 DEF ReadUpto, Upto
<1>13. OutOfStep'
  BY <1>0, <1>9 DEF OutOfStep
<1>14. LeftOver'
  <2> SUFFICES ASSUME link' # "up" PROVE LeftOver'
    BY DEF LeftOver
  <2>1. refused
    BY <1>0, <1>9, <1>10
  <2>2. mCurrentState' = "HEADER" /\ ~mHasHandshaked' /\ mCurrentCommand # "HANDSHAKE"
    BY <1>0, <1>3, <2>1 DEF refused, asks, resetCurrentCommand
  <2>3. consumed' > 0
    BY <1>0, <1>4, <2>2 DEF StreamTypeOK
  <2>4. QED
    BY <2>2, <2>3 DEF LeftOver
<1>15. QED
  BY <1>1, <1>6, <1>7, <1>8, <1>12, <1>13, <1>14

LEMMA LoseStep == ASSUME StreamInv, Lose PROVE StreamInv'
<1> USE DEF StreamInv, Lose, stream, onSocketClosed
<1>1. SentInOrder' /\ written' = written
  BY SameSent
<1>2. StreamTypeOK' /\ Arrived' /\ InStep' /\ OutOfStep' /\ AwaitsContent' /\ Requested'
  BY <1>1 DEF StreamTypeOK, Arrived, InStep, OutOfStep, AwaitsContent, Requested
<1>3. thread = "asking" => consumed > 0
  <2> SUFFICES ASSUME thread = "asking" PROVE consumed > 0
    OBVIOUS
  <2>1. inStep
    BY DEF OutOfStep
  <2>2. PICK n \in Nat : n = Len(received)
    BY LengthIsNatural DEF StreamTypeOK
  <2>3. ReadUpto(n) /\ n \in 1..Len(sent) /\ consumed = Upto(n)
    BY <2>1, <2>2, Positions DEF InStep, ReadUpto
  <2>4. QED
    BY <2>3, Positions
<1>4. LeftOver'
  BY <1>3 DEF LeftOver, StreamTypeOK
<1>5. QED
  BY <1>1, <1>2, <1>4

LEMMA ConnectStep == ASSUME StreamInv, connectToServer PROVE StreamInv'
<1> USE DEF StreamInv, connectToServer, framing, onSocketClosed
<1>1. StreamTypeOK'
  <2>1. IsSequence(sent)' /\ IsSequence(received)'
    BY EmptySequence
  <2>2. QED
    BY <2>1 DEF StreamTypeOK
<1>2. SentInOrder' /\ Arrived'
  BY EmptySequence DEF SentInOrder, Arrived, written
<1>3. ~mHasHandshaked' /\ (mCurrentState' = "CONTENT" => mCurrentCommand' # "HANDSHAKE")
  BY DEF LeftOver
<1>4. InStep'
  <2>1. mCurrentState' = "HEADER" => ReadUpto(0)'
    <3>1. Len(sent)' = 0 /\ thread' = "idle" /\ ~mHasHandshaked' /\ consumed' = 0
      BY <1>3, EmptySequence
    <3>2. \A k \in 1..Len(sent)' : FALSE
      BY <3>1
    <3>3. \A k \in 1..0 : FALSE
      OBVIOUS
    <3>4. QED
      BY <3>1, <3>2, <3>3 DEF ReadUpto, Upto
  <2>2. inStep' => mCurrentState' = "HEADER"
    OBVIOUS
  <2>3. Len(received)' = 0
    BY EmptySequence
  <2>4. QED
    BY <2>1, <2>2, <2>3 DEF InStep
<1>5. OutOfStep' /\ LeftOver' /\ AwaitsContent' /\ Requested'
  BY <1>1, <1>3 DEF OutOfStep, LeftOver, AwaitsContent, Requested, StreamTypeOK
<1>6. QED
  BY <1>1, <1>2, <1>4, <1>5

LEMMA SendStep ==
    ASSUME StreamInv, NEW command \in Requests, sendCommand(command)
    PROVE  StreamInv'
<1> USE DEF StreamInv, sendCommand, framing, stream
<1>1. SentInOrder' /\ written' = written /\ \A m : Upto(m)' = Upto(m)
  BY SameSent
<1>2. \A k : Begin(k)' = Begin(k) /\ Content(k)' = Content(k) /\ End(k)' = End(k)
  BY SameSent
<1>3. StreamTypeOK' /\ Arrived' /\ OutOfStep' /\ LeftOver' /\ AwaitsContent'
  BY <1>1 DEF StreamTypeOK, Arrived, OutOfStep, LeftOver, AwaitsContent
<1>4. InStep'
  BY <1>1, <1>2 DEF InStep, ReadUpto
<1>5. Requested'
  <2>1. request' = RequestOf(command)
    BY DEF RequestOf
  <2>2. QED
    BY <2>1 DEF Requested
<1>6. QED
  BY <1>1, <1>3, <1>4, <1>5

LEMMA StreamStep == StreamInv /\ [StreamNext]_streamVars => StreamInv'
<1> SUFFICES ASSUME StreamInv, [StreamNext]_streamVars PROVE StreamInv'
  OBVIOUS
<1>1. CASE UNCHANGED streamVars
  <2> USE <1>1 DEF streamVars, framing, stream
  <2>1. SentInOrder' /\ written' = written /\ \A m : Upto(m)' = Upto(m)
    BY SameSent DEF StreamInv
  <2>2. \A k : Begin(k)' = Begin(k) /\ Content(k)' = Content(k) /\ End(k)' = End(k)
    BY SameSent
  <2>3. /\ StreamTypeOK' /\ Arrived' /\ OutOfStep' /\ LeftOver' /\ AwaitsContent'
        /\ Requested'
    BY <2>1 DEF StreamInv, StreamTypeOK, Arrived, OutOfStep, LeftOver, AwaitsContent, Requested
  <2>4. InStep'
    BY <2>1, <2>2 DEF StreamInv, InStep, ReadUpto
  <2>5. QED
    BY <2>1, <2>3, <2>4 DEF StreamInv
<1>2. CASE StreamNext
  BY <1>2, ServerSendsStep, ServerReadsStep, ArriveStep, HeaderStep, ContentStep, AnswerStep,
     ReturnStep, LoseStep, ConnectStep, SendStep DEF StreamNext
<1>3. QED
  BY <1>1, <1>2

\* The client's place in the stream is always at the end of a command, or of a
\* header, that the server has sent, on a connection that began with the reading
\* of a header; on another one, or a lost one, it can only be refused.
THEOREM StreamInvariant == StreamSpec => []StreamInv
<1>1. QED
  BY StreamInitially, StreamStep, PTL DEF StreamSpec

\* On a connection that began with the reading of a header, the client reads what
\* the server sent, in that order, with the content that was meant.
THEOREM ReadingInOrder == StreamSpec => []ReadInOrder
<1>1. StreamInv => ReadInOrder
  <2> SUFFICES ASSUME StreamInv, link = "up", inStep
               PROVE  /\ Len(received) <= Len(sent)
                      /\ \A k \in DOMAIN received :
                            /\ received[k].instruction = sent[k].instruction
                            /\ received[k].fields =
                                  [name \in DOMAIN sent[k].value |->
                                      AsFits(name, sent[k].value[name], BodySend[sent[k].instruction])]
    BY DEF ReadInOrder
  <2>1. ReadUpto(Len(received)) /\ DOMAIN received = 1..Len(received)
    BY LengthIsNatural DEF StreamInv, StreamTypeOK, InStep
  <2>2. QED
    BY <2>1 DEF ReadUpto
<1>2. QED
  BY <1>1, StreamInvariant, PTL

\* Nothing that has arrived whole waits for more to arrive.
THEOREM ReadingAll == StreamSpec => []AllReadWhenIdle
<1>1. StreamInv => AllReadWhenIdle
  <2> SUFFICES ASSUME StreamInv, link = "up", inStep, thread = "idle",
                      NEW k \in DOMAIN sent, End(k) <= arrived
               PROVE  k <= Len(received)
    BY DEF AllReadWhenIdle
  <2>1. ReadUpto(Len(received)) /\ DOMAIN sent = 1..Len(sent)
    BY LengthIsNatural DEF StreamInv, StreamTypeOK, InStep
  <2>2. QED
    BY <2>1 DEF ReadUpto
<1>2. QED
  BY <1>1, StreamInvariant, PTL

\* A client that takes itself for greeted has read the greeting of the connection
\* it has.
THEOREM GreetingsOfLink == StreamSpec => []GreetedOnLink
<1>1. StreamInv => GreetedOnLink
  <2> SUFFICES ASSUME StreamInv, mHasHandshaked
               PROVE  /\ link = "up"
                      /\ \E k \in DOMAIN received : received[k].instruction = "HANDSHAKE"
    BY DEF GreetedOnLink
  <2>1. link = "up" /\ inStep
    BY DEF StreamInv, LeftOver, OutOfStep
  <2>2. PICK n \in Nat : n = Len(received) /\ DOMAIN received = 1..n
    BY LengthIsNatural DEF StreamInv, StreamTypeOK
  <2>3. ReadUpto(n)
    BY <2>1, <2>2 DEF StreamInv, InStep
  <2>4. n >= 1 /\ n <= Len(sent) /\ Len(sent) \in Nat
    BY <2>3, Positions DEF ReadUpto, StreamInv
  <2>5. 1 \in 1..n /\ 1 \in 1..Len(sent)
    BY <2>4
  <2>6. received[1].instruction = "HANDSHAKE"
    BY <2>3, <2>5 DEF ReadUpto, StreamInv, SentInOrder
  <2>7. QED
    BY <2>1, <2>2, <2>5, <2>6
<1>2. QED
  BY <1>1, StreamInvariant, PTL

-----------------------------------------------------------------------------
(* Requests *)

LEMMA SizeOfNothing == Size(<<>>) = 0
<1> DEFINE w == [k \in 1..0 |-> 1]
<1>1. Widths(<<>>) = w
  BY DEF Widths
<1>2. 0 \in 0..4 /\ w \in [1..0 -> Nat]
  OBVIOUS
<1>3. FoldSeq(+, 0, w) = SumOver(w, 1..0)
  <2> HIDE DEF w
  <2>1. QED
    BY <1>2, FoldOfFour
<1>4. SumOver(w, 1..0) = 0
  BY DEF SumOver, Part
<1>5. QED
  BY <1>1, <1>3, <1>4 DEF Size

\* The client declares what it sends as the server declares what it reads, fills
\* all of it, and the server's handlers take what its classes of commands push.
SameRequest(i) ==
    /\ Body[i] = PacketFromClient[i]
    /\ IsLayout(Body[i])
    /\ \A k \in 1..Len(Body[i]) : ~IsNumber(Body[i][k].name) => Body[i][k].width > 1
    /\ Names(Body[i]) = ToSet(HandlerTakes[i])
    /\ ServerCommand[i].getParam = HandlerTakes[i]
    /\ ServerCommand[i].getSizeBody = Size(Body[i])
    /\ ClientCommand[i].getInstruction = i
    /\ ClientCommand[i].getMessage \cap ClientCommand[i].accessors = Names(Body[i])

LEMMA SameRequests == \A i \in DOMAIN PacketFromClient : SameRequest(i)
<1>1. SameRequest("REG")
  <2>1. /\ Body["REG"] = PacketFromClient["REG"] /\ IsLayout(Body["REG"])
        /\ \A k \in 1..Len(Body["REG"]) :
              ~IsNumber(Body["REG"][k].name) => Body["REG"][k].width > 1
    BY NumbersAre DEF PacketFromClient, Body, Reg_PacketFromClient, Reg_Body, Field, IsLayout
  <2>2. /\ Names(Body["REG"]) = {"accountName", "pseudo", "password"}
        /\ ToSet(HandlerTakes["REG"]) = {"accountName", "pseudo", "password"}
    BY SetsOfFew DEF Body, Reg_Body, Field, HandlerTakes, onReg_param
  <2>3. /\ ServerCommand["REG"].getParam = HandlerTakes["REG"]
        /\ ServerCommand["REG"].getSizeBody = Size(Body["REG"])
    BY SizeOfNothing DEF ServerCommand, ServerReg, NeverSent, HandlerTakes, Body, onReg_param
  <2>4. /\ ClientCommand["REG"].getInstruction = "REG"
        /\ ClientCommand["REG"].getMessage \cap ClientCommand["REG"].accessors =
              {"accountName", "pseudo", "password"}
    BY DEF ClientCommand, CommandReg, Bare
  <2>5. QED
    BY <2>1, <2>2, <2>3, <2>4 DEF SameRequest
<1>2. SameRequest("LOG")
  <2>1. /\ Body["LOG"] = PacketFromClient["LOG"] /\ IsLayout(Body["LOG"])
        /\ \A k \in 1..Len(Body["LOG"]) :
              ~IsNumber(Body["LOG"][k].name) => Body["LOG"][k].width > 1
    BY NumbersAre DEF PacketFromClient, Body, Log_PacketFromClient, Log_Body, Field, IsLayout
  <2>2. /\ Names(Body["LOG"]) = {"accountName", "password"}
        /\ ToSet(HandlerTakes["LOG"]) = {"accountName", "password"}
    BY SetsOfFew DEF Body, Log_Body, Field, HandlerTakes, onLog_param
  <2>3. /\ ServerCommand["LOG"].getParam = HandlerTakes["LOG"]
        /\ ServerCommand["LOG"].getSizeBody = Size(Body["LOG"])
    BY SizeOfNothing DEF ServerCommand, ServerLog, NeverSent, HandlerTakes, Body, onLog_param
  <2>4. /\ ClientCommand["LOG"].getInstruction = "LOG"
        /\ ClientCommand["LOG"].getMessage \cap ClientCommand["LOG"].accessors =
              {"accountName", "password"}
    BY DEF ClientCommand, CommandLog, Bare
  <2>5. QED
    BY <2>1, <2>2, <2>3, <2>4 DEF SameRequest
<1>3. SameRequest("LIST")
  <2>1. /\ Body["LIST"] = PacketFromClient["LIST"] /\ IsLayout(Body["LIST"])
        /\ \A k \in 1..Len(Body["LIST"]) :
              ~IsNumber(Body["LIST"][k].name) => Body["LIST"][k].width > 1
    BY NumbersAre DEF PacketFromClient, Body, Field, IsLayout
  <2>2. /\ Names(Body["LIST"]) = {}
        /\ ToSet(HandlerTakes["LIST"]) = {}
    BY SetsOfFew DEF Body, Field, HandlerTakes
  <2>3. /\ ServerCommand["LIST"].getParam = HandlerTakes["LIST"]
        /\ ServerCommand["LIST"].getSizeBody = Size(Body["LIST"])
    BY SizeOfNothing DEF ServerCommand, ServerList, NeverSent, HandlerTakes, Body
  <2>4. /\ ClientCommand["LIST"].getInstruction = "LIST"
        /\ ClientCommand["LIST"].getMessage \cap ClientCommand["LIST"].accessors =
              {}
    BY DEF ClientCommand, CommandList, Bare
  <2>5. QED
    BY <2>1, <2>2, <2>3, <2>4 DEF SameRequest
<1>4. SameRequest("SHOW")
  <2>1. /\ Body["SHOW"] = PacketFromClient["SHOW"] /\ IsLayout(Body["SHOW"])
        /\ \A k \in 1..Len(Body["SHOW"]) :
              ~IsNumber(Body["SHOW"][k].name) => Body["SHOW"][k].width > 1
    BY NumbersAre DEF PacketFromClient, Body, Show_PacketFromClient, Show_Body, Field, IsLayout
  <2>2. /\ Names(Body["SHOW"]) = {"accountName"}
        /\ ToSet(HandlerTakes["SHOW"]) = {"accountName"}
    BY SetsOfFew DEF Body, Show_Body, Field, HandlerTakes
  <2>3. /\ ServerCommand["SHOW"].getParam = HandlerTakes["SHOW"]
        /\ ServerCommand["SHOW"].getSizeBody = Size(Body["SHOW"])
    BY SizeOfNothing DEF ServerCommand, ServerShow, Naming, HandlerTakes, Body
  <2>4. /\ ClientCommand["SHOW"].getInstruction = "SHOW"
        /\ ClientCommand["SHOW"].getMessage \cap ClientCommand["SHOW"].accessors =
              {"accountName"}
    BY DEF ClientCommand, CommandShow, AboutAccount
  <2>5. QED
    BY <2>1, <2>2, <2>3, <2>4 DEF SameRequest
<1>5. SameRequest("ADD")
  <2>1. /\ Body["ADD"] = PacketFromClient["ADD"] /\ IsLayout(Body["ADD"])
        /\ \A k \in 1..Len(Body["ADD"]) :
              ~IsNumber(Body["ADD"][k].name) => Body["ADD"][k].width > 1
    BY NumbersAre DEF PacketFromClient, Body, Add_PacketFromClient, Add_Body, Field, IsLayout
  <2>2. /\ Names(Body["ADD"]) = {"accountName"}
        /\ ToSet(HandlerTakes["ADD"]) = {"accountName"}
    BY SetsOfFew DEF Body, Add_Body, Field, HandlerTakes
  <2>3. /\ ServerCommand["ADD"].getParam = HandlerTakes["ADD"]
        /\ ServerCommand["ADD"].getSizeBody = Size(Body["ADD"])
    BY SizeOfNothing DEF ServerCommand, ServerAdd, Naming, HandlerTakes, Body
  <2>4. /\ ClientCommand["ADD"].getInstruction = "ADD"
        /\ ClientCommand["ADD"].getMessage \cap ClientCommand["ADD"].accessors =
              {"accountName"}
    BY DEF ClientCommand, CommandAdd, AboutAccount
  <2>5. QED
    BY <2>1, <2>2, <2>3, <2>4 DEF SameRequest
<1>6. SameRequest("ACCEPT_ADD")
  <2>1. /\ Body["ACCEPT_ADD"] = PacketFromClient["ACCEPT_ADD"] /\ IsLayout(Body["ACCEPT_ADD"])
        /\ \A k \in 1..Len(Body["ACCEPT_ADD"]) :
              ~IsNumber(Body["ACCEPT_ADD"][k].name) => Body["ACCEPT_ADD"][k].width > 1
    BY NumbersAre DEF PacketFromClient, Body, AcceptAdd_PacketFromClient, AcceptAdd_Body, Field, IsLayout
  <2>2. /\ Names(Body["ACCEPT_ADD"]) = {"accountName", "hasAccepted"}
        /\ ToSet(HandlerTakes["ACCEPT_ADD"]) = {"accountName", "hasAccepted"}
    BY SetsOfFew DEF Body, AcceptAdd_Body, Field, HandlerTakes, onAcceptAdd_param
  <2>3. /\ ServerCommand["ACCEPT_ADD"].getParam = HandlerTakes["ACCEPT_ADD"]
        /\ ServerCommand["ACCEPT_ADD"].getSizeBody = Size(Body["ACCEPT_ADD"])
    BY SizeOfNothing DEF ServerCommand, ServerAcceptAdd, Naming, HandlerTakes, Body, onAcceptAdd_param
  <2>4. /\ ClientCommand["ACCEPT_ADD"].getInstruction = "ACCEPT_ADD"
        /\ ClientCommand["ACCEPT_ADD"].getMessage \cap ClientCommand["ACCEPT_ADD"].accessors =
              {"accountName", "hasAccepted"}
    BY DEF ClientCommand, CommandAcceptAdd, Bare
  <2>5. QED
    BY <2>1, <2>2, <2>3, <2>4 DEF SameRequest
<1>7. SameRequest("DEL")
  <2>1. /\ Body["DEL"] = PacketFromClient["DEL"] /\ IsLayout(Body["DEL"])
        /\ \A k \in 1..Len(Body["DEL"]) :
              ~IsNumber(Body["DEL"][k].name) => Body["DEL"][k].width > 1
    BY NumbersAre DEF PacketFromClient, Body, Del_PacketFromClient, Del_Body, Field, IsLayout
  <2>2. /\ Names(Body["DEL"]) = {"accountName"}
        /\ ToSet(HandlerTakes["DEL"]) = {"accountName"}
    BY SetsOfFew DEF Body, Del_Body, Field, HandlerTakes
  <2>3. /\ ServerCommand["DEL"].getParam = HandlerTakes["DEL"]
        /\ ServerCommand["DEL"].getSizeBody = Size(Body["DEL"])
    BY SizeOfNothing DEF ServerCommand, ServerDel, Naming, HandlerTakes, Body
  <2>4. /\ ClientCommand["DEL"].getInstruction = "DEL"
        /\ ClientCommand["DEL"].getMessage \cap ClientCommand["DEL"].accessors =
              {"accountName"}
    BY DEF ClientCommand, CommandDel, AboutAccount
  <2>5. QED
    BY <2>1, <2>2, <2>3, <2>4 DEF SameRequest
<1>8. SameRequest("EXIT")
  <2>1. /\ Body["EXIT"] = PacketFromClient["EXIT"] /\ IsLayout(Body["EXIT"])
        /\ \A k \in 1..Len(Body["EXIT"]) :
              ~IsNumber(Body["EXIT"][k].name) => Body["EXIT"][k].width > 1
    BY NumbersAre DEF PacketFromClient, Body, Field, IsLayout
  <2>2. /\ Names(Body["EXIT"]) = {}
        /\ ToSet(HandlerTakes["EXIT"]) = {}
    BY SetsOfFew DEF Body, Field, HandlerTakes
  <2>3. /\ ServerCommand["EXIT"].getParam = HandlerTakes["EXIT"]
        /\ ServerCommand["EXIT"].getSizeBody = Size(Body["EXIT"])
    BY SizeOfNothing DEF ServerCommand, ServerExit, NeverSent, HandlerTakes, Body
  <2>4. /\ ClientCommand["EXIT"].getInstruction = "EXIT"
        /\ ClientCommand["EXIT"].getMessage \cap ClientCommand["EXIT"].accessors =
              {}
    BY DEF ClientCommand, CommandExit, Bare
  <2>5. QED
    BY <2>1, <2>2, <2>3, <2>4 DEF SameRequest
<1>9. SameRequest("UPDATE")
  <2>1. /\ Body["UPDATE"] = PacketFromClient["UPDATE"] /\ IsLayout(Body["UPDATE"])
        /\ \A k \in 1..Len(Body["UPDATE"]) :
              ~IsNumber(Body["UPDATE"][k].name) => Body["UPDATE"][k].width > 1
    BY NumbersAre DEF PacketFromClient, Body, Update_PacketFromClient, Update_Body, Field, IsLayout
  <2>2. /\ Names(Body["UPDATE"]) = {"accountName", "pseudo", "password", "status"}
        /\ ToSet(HandlerTakes["UPDATE"]) = {"accountName", "pseudo", "password", "status"}
    BY SetsOfFew DEF Body, Update_Body, Field, HandlerTakes, onUpdate_param
  <2>3. /\ ServerCommand["UPDATE"].getParam = HandlerTakes["UPDATE"]
        /\ ServerCommand["UPDATE"].getSizeBody = Size(Body["UPDATE"])
    BY SizeOfNothing DEF ServerCommand, ServerUpdate, NeverSent, HandlerTakes, Body, onUpdate_param
  <2>4. /\ ClientCommand["UPDATE"].getInstruction = "UPDATE"
        /\ ClientCommand["UPDATE"].getMessage \cap ClientCommand["UPDATE"].accessors =
              {"accountName", "pseudo", "password", "status"}
    BY DEF ClientCommand, CommandUpdate, Bare
  <2>5. QED
    BY <2>1, <2>2, <2>3, <2>4 DEF SameRequest
<1>10. SameRequest("SEND")
  <2>1. /\ Body["SEND"] = PacketFromClient["SEND"] /\ IsLayout(Body["SEND"])
        /\ \A k \in 1..Len(Body["SEND"]) :
              ~IsNumber(Body["SEND"][k].name) => Body["SEND"][k].width > 1
    BY NumbersAre DEF PacketFromClient, Body, Send_PacketFromClient, Send_Body, Field, IsLayout
  <2>2. /\ Names(Body["SEND"]) = {"accountName", "textMessage"}
        /\ ToSet(HandlerTakes["SEND"]) = {"accountName", "textMessage"}
    BY SetsOfFew DEF Body, Send_Body, Field, HandlerTakes, onSend_param
  <2>3. /\ ServerCommand["SEND"].getParam = HandlerTakes["SEND"]
        /\ ServerCommand["SEND"].getSizeBody = Size(Body["SEND"])
    BY SizeOfNothing DEF ServerCommand, ServerSend, Naming, HandlerTakes, Body, onSend_param
  <2>4. /\ ClientCommand["SEND"].getInstruction = "SEND"
        /\ ClientCommand["SEND"].getMessage \cap ClientCommand["SEND"].accessors =
              {"accountName", "textMessage"}
    BY DEF ClientCommand, CommandSend, Bare
  <2>5. QED
    BY <2>1, <2>2, <2>3, <2>4 DEF SameRequest
<1>11. SameRequest("CALL")
  <2>1. /\ Body["CALL"] = PacketFromClient["CALL"] /\ IsLayout(Body["CALL"])
        /\ \A k \in 1..Len(Body["CALL"]) :
              ~IsNumber(Body["CALL"][k].name) => Body["CALL"][k].width > 1
    BY NumbersAre DEF PacketFromClient, Body, Call_PacketFromClient, Call_Body, Field, IsLayout
  <2>2. /\ Names(Body["CALL"]) = {"accountName"}
        /\ ToSet(HandlerTakes["CALL"]) = {"accountName"}
    BY SetsOfFew DEF Body, Call_Body, Field, HandlerTakes
  <2>3. /\ ServerCommand["CALL"].getParam = HandlerTakes["CALL"]
        /\ ServerCommand["CALL"].getSizeBody = Size(Body["CALL"])
    BY SizeOfNothing DEF ServerCommand, ServerCall, Naming, HandlerTakes, Body
  <2>4. /\ ClientCommand["CALL"].getInstruction = "CALL"
        /\ ClientCommand["CALL"].getMessage \cap ClientCommand["CALL"].accessors =
              {"accountName"}
    BY DEF ClientCommand, CommandCall, AboutAccount
  <2>5. QED
    BY <2>1, <2>2, <2>3, <2>4 DEF SameRequest
<1>12. SameRequest("ACCEPT_CALL")
  <2>1. /\ Body["ACCEPT_CALL"] = PacketFromClient["ACCEPT_CALL"] /\ IsLayout(Body["ACCEPT_CALL"])
        /\ \A k \in 1..Len(Body["ACCEPT_CALL"]) :
              ~IsNumber(Body["ACCEPT_CALL"][k].name) => Body["ACCEPT_CALL"][k].width > 1
    BY NumbersAre DEF PacketFromClient, Body, AcceptCall_PacketFromClient, AcceptCall_Body, Field, IsLayout
  <2>2. /\ Names(Body["ACCEPT_CALL"]) = {"accountName", "hasAccepted"}
        /\ ToSet(HandlerTakes["ACCEPT_CALL"]) = {"accountName", "hasAccepted"}
    BY SetsOfFew DEF Body, AcceptCall_Body, Field, HandlerTakes, onAcceptCall_param
  <2>3. /\ ServerCommand["ACCEPT_CALL"].getParam = HandlerTakes["ACCEPT_CALL"]
        /\ ServerCommand["ACCEPT_CALL"].getSizeBody = Size(Body["ACCEPT_CALL"])
    BY SizeOfNothing DEF ServerCommand, ServerAcceptCall, Naming, HandlerTakes, Body, onAcceptCall_param
  <2>4. /\ ClientCommand["ACCEPT_CALL"].getInstruction = "ACCEPT_CALL"
        /\ ClientCommand["ACCEPT_CALL"].getMessage \cap ClientCommand["ACCEPT_CALL"].accessors =
              {"accountName", "hasAccepted"}
    BY DEF ClientCommand, CommandAcceptCall, Bare
  <2>5. QED
    BY <2>1, <2>2, <2>3, <2>4 DEF SameRequest
<1>13. SameRequest("CLOSE_CALL")
  <2>1. /\ Body["CLOSE_CALL"] = PacketFromClient["CLOSE_CALL"] /\ IsLayout(Body["CLOSE_CALL"])
        /\ \A k \in 1..Len(Body["CLOSE_CALL"]) :
              ~IsNumber(Body["CLOSE_CALL"][k].name) => Body["CLOSE_CALL"][k].width > 1
    BY NumbersAre DEF PacketFromClient, Body, CloseCall_PacketFromClient, CloseCall_Body, Field, IsLayout
  <2>2. /\ Names(Body["CLOSE_CALL"]) = {"accountName"}
        /\ ToSet(HandlerTakes["CLOSE_CALL"]) = {"accountName"}
    BY SetsOfFew DEF Body, CloseCall_Body, Field, HandlerTakes
  <2>3. /\ ServerCommand["CLOSE_CALL"].getParam = HandlerTakes["CLOSE_CALL"]
        /\ ServerCommand["CLOSE_CALL"].getSizeBody = Size(Body["CLOSE_CALL"])
    BY SizeOfNothing DEF ServerCommand, ServerCloseCall, Naming, HandlerTakes, Body
  <2>4. /\ ClientCommand["CLOSE_CALL"].getInstruction = "CLOSE_CALL"
        /\ ClientCommand["CLOSE_CALL"].getMessage \cap ClientCommand["CLOSE_CALL"].accessors =
              {"accountName"}
    BY DEF ClientCommand, CommandCloseCall, AboutAccount
  <2>5. QED
    BY <2>1, <2>2, <2>3, <2>4 DEF SameRequest
<1>14. SameRequest("HANDSHAKE")
  <2>1. /\ Body["HANDSHAKE"] = PacketFromClient["HANDSHAKE"] /\ IsLayout(Body["HANDSHAKE"])
        /\ \A k \in 1..Len(Body["HANDSHAKE"]) :
              ~IsNumber(Body["HANDSHAKE"][k].name) => Body["HANDSHAKE"][k].width > 1
    BY NumbersAre DEF PacketFromClient, Body, Field, IsLayout
  <2>2. /\ Names(Body["HANDSHAKE"]) = {}
        /\ ToSet(HandlerTakes["HANDSHAKE"]) = {}
    BY SetsOfFew DEF Body, Field, HandlerTakes
  <2>3. /\ ServerCommand["HANDSHAKE"].getParam = HandlerTakes["HANDSHAKE"]
        /\ ServerCommand["HANDSHAKE"].getSizeBody = Size(Body["HANDSHAKE"])
    BY SizeOfNothing DEF ServerCommand, ServerHandshake, HandlerTakes, Body
  <2>4. /\ ClientCommand["HANDSHAKE"].getInstruction = "HANDSHAKE"
        /\ ClientCommand["HANDSHAKE"].getMessage \cap ClientCommand["HANDSHAKE"].accessors =
              {}
    BY DEF ClientCommand, CommandHandshake, Bare
  <2>5. QED
    BY <2>1, <2>2, <2>3, <2>4 DEF SameRequest
<1>15. DOMAIN PacketFromClient =
         {"REG", "LOG", "LIST", "SHOW", "ADD", "ACCEPT_ADD", "DEL", "EXIT", "UPDATE", "SEND",
          "CALL", "ACCEPT_CALL", "CLOSE_CALL", "HANDSHAKE"}
  BY DEF PacketFromClient
<1>16. QED
  BY <1>1, <1>2, <1>3, <1>4, <1>5, <1>6, <1>7, <1>8, <1>9, <1>10, <1>11, <1>12, <1>13, <1>14,
     <1>15

\* What a user may give a command.
LEMMA RequestsAreMeant ==
    ASSUME NEW command \in Requests
    PROVE  /\ command.instruction \in DOMAIN PacketFromClient
           /\ IsCommand(command, command.instruction, Body[command.instruction])
<1>1. PICK i \in DOMAIN PacketFromClient :
         command \in Commands(i, PacketFromClient[i], TextsOfUser(PacketFromClient[i]))
  BY DEF Requests
<1> DEFINE L == PacketFromClient[i]
           texts == TextsOfUser(L)
<1>2. L = Body[i] /\ IsLayout(L) /\ \A k \in 1..Len(L) : ~IsNumber(L[k].name) => L[k].width > 1
  BY SameRequests DEF SameRequest
<1> HIDE DEF L
<1>3. \A k \in 1..Len(L) : texts[L[k]] = TypedTexts(L[k])
  BY <1>2, LayoutFacts DEF TextsOfUser, ToSet
<1>4. ASSUME NEW k \in 1..Len(L), NEW text \in texts[L[k]]
      PROVE  IsMeant(L[k].name, text)
  <2>0. text \in TypedTexts(L[k])
    <3> HIDE DEF texts
    <3>1. QED
      BY <1>3
  <2>1. CASE IsNumber(L[k].name)
    <3>1. PICK n \in DOMAIN ClientNumbers[L[k].name] : text = Meaning(ClientNumbers[L[k].name][n])
      BY <2>0, <2>1 DEF TypedTexts
    <3>2. QED
      BY <2>1, <3>1 DEF IsMeant, Meaning
  <2>2. CASE ~IsNumber(L[k].name)
    <3>1. \/ \E b \in {1, L[k].width - 1, L[k].width, L[k].width + 1} : text = Text(b, b)
          \/ text = Text(2, 3)
      BY <2>0, <2>2 DEF TypedTexts
    <3>2. L[k].width \in Nat /\ L[k].width > 1
      BY <1>2, <2>2, LayoutFacts
    <3>3. QED
      BY <2>2, <3>1, <3>2 DEF IsMeant, Text
  <2>3. QED
    BY <2>1, <2>2
<1> HIDE DEF texts
<1>5. IsCommand(command, i, L)
  BY <1>1, <1>2, <1>4, CommandsAreMeant DEF L, texts
<1>6. QED
  BY <1>2, <1>5 DEF IsCommand, L

\* What the server reads of a field that the client has filled.
LEMMA FieldArrives ==
    ASSUME NEW L, IsLayout(L), NEW value, NEW k \in 1..Len(L),
           IsMeant(L[k].name, value[L[k].name]),
           ~IsNumber(L[k].name) => L[k].width > 1
    PROVE  LET name == L[k].name
               read == ReadField(L, Filled(L, value, "client"), name, FALSE, ServerNumbers)
               fitting == AsFits(name, value[name], L)
           IN  /\ [read EXCEPT !.kept = 0] = [fitting EXCEPT !.kept = 0]
               /\ value[name].chars = value[name].bytes => read = fitting
               /\ IsNumber(name) => read = fitting /\ fitting.kept = 0
               /\ ~IsNumber(name) => read.kept \in 1..fitting.kept
<1> DEFINE name == L[k].name
           v == value[name]
           cell == Cell(name, v, L[k].width, "client")
           read == ReadField(L, Filled(L, value, "client"), name, FALSE, ServerNumbers)
           fitting == AsFits(name, v, L)
<1>1. (CHOOSE j \in DOMAIN L : L[j].name = name) = k
  BY LayoutFacts DEF IsLayout
<1>2. L[k].width \in Nat /\ L[k].width > 0
  BY LayoutFacts
<1>3. fitting = Got(name, IF IsNumber(name) \/ v.bytes < L[k].width THEN v.bytes
                          ELSE L[k].width - 1, v.meaning)
  <2>1. fitting = LET m == CHOOSE j \in DOMAIN L : L[j].name = name
                  IN  Got(name, IF IsNumber(name) \/ v.bytes < L[m].width THEN v.bytes
                                ELSE L[m].width - 1, v.meaning)
    BY DEF AsFits
  <2> HIDE DEF name
  <2>2. QED
    BY <1>1, <2>1
<1>4. /\ IsNumber(name) => read = ReadNumber(cell, ServerNumbers[name])
      /\ ~IsNumber(name) => read = ReadText(cell, FALSE)
  <2>1. Filled(L, value, "client")[k] = cell
    BY DEF Filled
  <2>2. \A w, writer, isCut, numbers :
           ReadField(L, Filled(L, w, writer), L[k].name, isCut, numbers)
              = IF IsNumber(L[k].name)
                THEN ReadNumber(Filled(L, w, writer)[k], numbers[L[k].name])
                ELSE ReadText(Filled(L, w, writer)[k], isCut)
    BY FieldFound
  <2>3. read = IF IsNumber(L[k].name)
               THEN ReadNumber(Filled(L, value, "client")[k], ServerNumbers[L[k].name])
               ELSE ReadText(Filled(L, value, "client")[k], FALSE)
    BY <2>2
  <2> HIDE DEF cell
  <2>4. QED
    BY <2>1, <2>3
<1>5. CASE IsNumber(name)
  <2> DEFINE table == ServerNumbers[name]
  <2>1. cell.kept = NumberOf(table, v.meaning) /\ cell.argument = name
    BY <1>5, SameNumbers DEF Cell, Numbers
  <2>2. NumberOf(table, v.meaning) \in DOMAIN table /\ table[NumberOf(table, v.meaning)] = v.meaning
    BY <1>5, SameNumbers DEF IsMeant, NumberOf
  <2>3. ReadNumber(cell, table) = Got(name, 0, v.meaning)
    BY <2>1, <2>2 DEF ReadNumber
  <2>4. v.bytes = 0
    BY <1>5 DEF IsMeant
  <2>5. read = fitting /\ fitting = Got(name, 0, v.meaning)
    <3> HIDE DEF read, cell, fitting
    <3>1. QED
      BY <1>3, <1>4, <1>5, <2>3, <2>4
  <2> HIDE DEF read, fitting
  <2>6. read = fitting /\ fitting.kept = 0
    BY <2>5 DEF Got
  <2>7. QED
    BY <1>5, <2>6 DEF read, fitting
<1>6. CASE ~IsNumber(name)
  <2>1. /\ v.meaning = "text" /\ v.bytes \in Nat /\ v.chars \in Nat
        /\ v.chars > 0 /\ v.chars <= v.bytes /\ L[k].width > 1
    BY <1>6 DEF IsMeant
  <2>2. PICK kept : kept = IF v.chars < L[k].width THEN v.chars ELSE L[k].width - 1
    OBVIOUS
  <2>3. cell.kept = kept /\ cell.width = L[k].width /\ cell.argument = name
    BY <1>6, <2>2 DEF Cell, Put, PutByClient
  <2>4. kept < L[k].width
    BY <1>2, <2>1, <2>2
  <2>5. ReadText(cell, FALSE) = Got(name, kept, "text")
    BY <2>3, <2>4 DEF ReadText
  <2>6. PICK whole : whole = IF v.bytes < L[k].width THEN v.bytes ELSE L[k].width - 1
    OBVIOUS
  <2>7. read = Got(name, kept, "text") /\ fitting = Got(name, whole, "text")
    <3> HIDE DEF read, cell, fitting
    <3>1. QED
      BY <1>3, <1>4, <1>6, <2>1, <2>5, <2>6
  <2>8. kept \in 1..whole /\ (v.chars = v.bytes => kept = whole)
    BY <1>2, <2>1, <2>2, <2>6
  <2> HIDE DEF read, fitting
  <2>9. /\ [read EXCEPT !.kept = 0] = [fitting EXCEPT !.kept = 0]
        /\ read.kept = kept /\ fitting.kept = whole
    BY <2>7 DEF Got
  <2>10. QED
    BY <1>6, <2>7, <2>8, <2>9 DEF read, fitting
<1>7. QED
  BY <1>5, <1>6

\* The client fills every field of a request.
LEMMA RequestFilled ==
    ASSUME NEW i \in DOMAIN PacketFromClient, NEW value
    PROVE  WrittenByClient(i, value) = Filled(Body[i], value, "client")
<1> DEFINE L == Body[i]
           filled == [name \in Names(L) |-> name]
<1>1. /\ IsLayout(L) /\ PacketFromClient[i] = L
      /\ ClientCommand[i].getMessage \cap ClientCommand[i].accessors = Names(L)
  BY SameRequests DEF SameRequest
<1>2. DOMAIN L = 1..Len(L) /\ \A k \in 1..Len(L) : L[k].name \in Names(L)
  BY <1>1, LayoutFacts DEF Names
<1>3. WrittenByClient(i, value) = Written(L, filled, value, "client")
  <2> HIDE DEF L
  <2>1. QED
    BY <1>1 DEF WrittenByClient
<1>4. DOMAIN filled = Names(L) /\ \A name \in Names(L) : filled[name] = name
  OBVIOUS
<1> HIDE DEF filled, L
<1>5. QED
  BY <1>2, <1>3, <1>4 DEF Written, Filled, L

\* A request is what the user gave when the server reads it, in the words that
\* RequestArrives has for that.
LEMMA RequestRead ==
    ASSUME NEW command \in Requests, request = RequestOf(command), request # Null
    PROVE  RequestArrives
<1> DEFINE i == command.instruction
           value == command.value
           L == Body[i]
           packet == Filled(L, value, "client")
           param == ReadByServer(i, packet)
<1>1. i \in DOMAIN PacketFromClient /\ IsCommand(command, i, L)
  BY RequestsAreMeant
<1>2. SameRequest(i)
  BY <1>1, SameRequests
<1>3. /\ IsLayout(L) /\ DOMAIN L = 1..Len(L)
      /\ \A k \in 1..Len(L) : ~IsNumber(L[k].name) => L[k].width > 1
      /\ Names(L) = ToSet(HandlerTakes[i])
  BY <1>2, LayoutFacts DEF SameRequest
<1>4. /\ request.instruction = i /\ request.value = value
      /\ request.code = NumberOf(ClientInstruction, i)
      /\ request.packet = packet
  <2>1. ClientCommand[i].getInstruction = i
    BY <1>2 DEF SameRequest
  <2>2. WrittenByClient(i, value) = packet
    BY <1>1, RequestFilled
  <2> HIDE DEF packet
  <2>3. QED
    BY <2>1, <2>2 DEF RequestOf
<1>5. ServerInstruction[request.code] = i
  BY <1>1, <1>4, SameInstructionNumbers
<1>6. Size(packet) = ServerCommand[i].getSizeBody
  <2>1. HasWidthsOf(packet, L)
    BY DEF HasWidthsOf, Filled, Cell
  <2>2. Size(packet) = Size(L)
    <3> HIDE DEF packet, L
    <3>1. QED
      BY <1>3, <2>1, SizeOfLayout
  <2>3. QED
    BY <1>2, <2>2 DEF SameRequest
<1>7. DOMAIN param = DOMAIN HandlerTakes[i]
  BY <1>2 DEF ReadByServer, SameRequest
<1>8. DOMAIN value = ToSet(HandlerTakes[i])
  BY <1>1, <1>3 DEF IsCommand
<1>9. ASSUME NEW k \in DOMAIN param
      PROVE  LET name == HandlerTakes[i][k]
                 fitting == AsFits(name, value[name], L)
             IN  /\ [param[k] EXCEPT !.kept = 0] = [fitting EXCEPT !.kept = 0]
                 /\ IF IsAscii(value) THEN param[k] = fitting
                    ELSE param[k].kept \in (IF IsNumber(name) THEN 0 ELSE 1)..fitting.kept
  <2> DEFINE name == HandlerTakes[i][k]
             fitting == AsFits(name, value[name], L)
  <2>1. name \in Names(L)
    BY <1>3, <1>7 DEF ToSet
  <2>2. PICK m \in 1..Len(L) : L[m].name = name
    BY <1>3, <2>1 DEF Names
  <2>3. IsMeant(L[m].name, value[L[m].name])
    BY <1>1, <2>1, <2>2 DEF IsCommand
  <2>4. param[k] = ReadField(L, packet, name, FALSE, ServerNumbers)
    BY <1>2 DEF ReadByServer, SameRequest
  <2>5. IsAscii(value) => value[name].chars = value[name].bytes
    BY <1>8, <2>1, <1>3 DEF IsAscii
  <2> HIDE DEF L
  <2>6. LET read == param[k]
        IN  /\ [read EXCEPT !.kept = 0] = [fitting EXCEPT !.kept = 0]
            /\ value[name].chars = value[name].bytes => read = fitting
            /\ IsNumber(name) => read = fitting /\ fitting.kept = 0
            /\ ~IsNumber(name) => read.kept \in 1..fitting.kept
    <3>1. LET read == ReadField(L, Filled(L, value, "client"), L[m].name, FALSE, ServerNumbers)
              fit == AsFits(L[m].name, value[L[m].name], L)
          IN  /\ [read EXCEPT !.kept = 0] = [fit EXCEPT !.kept = 0]
              /\ value[L[m].name].chars = value[L[m].name].bytes => read = fit
              /\ IsNumber(L[m].name) => read = fit /\ fit.kept = 0
              /\ ~IsNumber(L[m].name) => read.kept \in 1..fit.kept
      BY <1>3, <2>3, FieldArrives
    <3> HIDE DEF name, packet, param
    <3>2. QED
      BY <2>2, <2>4, <3>1 DEF packet
  <2> HIDE DEF param, fitting, name, packet
  <2>7. /\ [param[k] EXCEPT !.kept = 0] = [fitting EXCEPT !.kept = 0]
        /\ IsAscii(value) => param[k] = fitting
        /\ IsNumber(name) => param[k].kept \in 0..fitting.kept
        /\ ~IsNumber(name) => param[k].kept \in 1..fitting.kept
    BY <2>5, <2>6
  <2>8. QED
    BY <2>7 DEF name, fitting
<1> HIDE DEF packet, L, param
<1>10. QED
  BY <1>4, <1>5, <1>6, <1>7, <1>8, <1>9 DEF RequestArrives, L, param

\* Whatever a user types into a form, and however long it is, the server's handler
\* is given it, at the place where it looks for it.
THEOREM RequestsArrive == StreamSpec => []RequestArrives
<1>1. StreamInv => RequestArrives
  <2> SUFFICES ASSUME StreamInv, request # Null PROVE RequestArrives
    BY DEF RequestArrives
  <2>1. PICK command \in Requests : request = RequestOf(command)
    BY DEF StreamInv, Requested
  <2>2. QED
    BY <2>1, RequestRead
<1>2. QED
  BY <1>1, StreamInvariant, PTL
=============================================================================
