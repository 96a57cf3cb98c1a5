------------------------- MODULE GdbProtocolProofs -------------------------
(***************************************************************************)
(* For every number of commands, damaged packets and stray bytes: what     *)
(* stray bytes can repeat, and, without any, that the transport executes   *)
(* and answers each command once, as RemoteCalls does.                     *)
(***************************************************************************)
EXTENDS GdbProtocol, SequenceTheorems, FiniteSetTheorems, TLAPS

-----------------------------------------------------------------------------
(* The lines. *)

\* What either end writes is a token.
LEMMA TokensAre ==
  /\ Ack \in Tokens /\ Nack \in Tokens
  /\ Byte("stray") \in Tokens /\ Byte("eof") \in Tokens
  /\ \A n \in 1..MaxCommands, good \in BOOLEAN : Packet(n, good) \in Tokens
  /\ \A t \in Tokens : t.type = "packet" => t.n \in 1..MaxCommands /\ t.good \in BOOLEAN
BY DEF Tokens, Ack, Nack, Byte, Packet

\* The lines of at most one token that are written at once.
LEMMA ShortLines ==
  /\ <<>> \in Seq(Tokens)
  /\ <<Ack>> \in Seq(Tokens) /\ <<Nack>> \in Seq(Tokens)
  /\ <<Byte("stray")>> \in Seq(Tokens) /\ <<Byte("eof")>> \in Seq(Tokens)
  /\ \A n \in 1..MaxCommands : <<Packet(n, TRUE)>> \in Seq(Tokens)
<1>1. \A S : \A t \in S : <<t>> \in Seq(S) OBVIOUS
<1> QED BY <1>1, TokensAre, EmptySeq

\* A line a packet is taken from keeps the others in order.
LEMMA TailOfLine ==
  ASSUME NEW s \in Seq(Tokens), s # <<>>
  PROVE  /\ Head(s) \in Tokens /\ Head(s) = s[1]
         /\ Tail(s) \in Seq(Tokens)
         /\ Len(s) \in Nat \ {0} /\ Len(Tail(s)) = Len(s) - 1
         /\ \A i \in 1..Len(Tail(s)) : Tail(s)[i] = s[i + 1]
BY HeadTailProperties, EmptySeq, LenProperties

Spoilt(s) == [s EXCEPT ![1].good = FALSE]

\* A spoilt packet keeps its place and its number.
LEMMA SpoiltLine ==
  ASSUME NEW s \in Seq(Tokens), s # <<>>, Head(s).type = "packet"
  PROVE  /\ Spoilt(s) \in Seq(Tokens) /\ Len(Spoilt(s)) = Len(s)
         /\ \A i \in 1..Len(s) :
              /\ Spoilt(s)[i].type = s[i].type
              /\ s[i].type = "packet" => Spoilt(s)[i].n = s[i].n
<1> DEFINE e == [s[1] EXCEPT !.good = FALSE]
<1>1. Len(s) \in Nat \ {0} /\ s[1] \in Tokens /\ s[1].type = "packet"
  BY TailOfLine
<1>2. s[1] \in [type : {"packet"}, n : 1..MaxCommands, good : BOOLEAN]
  BY <1>1 DEF Tokens
<1>3. e \in Tokens /\ e.type = "packet" /\ e.n = s[1].n BY <1>2 DEF Tokens
<1>4. 1 \in 1..Len(s) BY <1>1
<1> HIDE DEF e
<1>5. /\ [s EXCEPT ![1] = e] \in Seq(Tokens)
      /\ Len([s EXCEPT ![1] = e]) = Len(s)
      /\ \A i \in 1..Len(s) : [s EXCEPT ![1] = e][i] = IF i = 1 THEN e ELSE s[i]
  BY <1>3, <1>4, ExceptSeq
<1>6. Spoilt(s) = [s EXCEPT ![1] = e] BY DEF Spoilt, e
<1> QED BY <1>1, <1>3, <1>5, <1>6

\* What is written to a line follows what it holds.
LEMMA ExtendedLine ==
  ASSUME NEW s \in Seq(Tokens), NEW t \in Seq(Tokens)
  PROVE  /\ s \o t \in Seq(Tokens) /\ Len(s \o t) = Len(s) + Len(t)
         /\ Len(s) \in Nat /\ Len(t) \in Nat
         /\ \A i \in 1..Len(s) : (s \o t)[i] = s[i]
         /\ \A i \in 1..Len(t) : (s \o t)[Len(s) + i] = t[i]
<1>1. Len(s) \in Nat /\ Len(t) \in Nat BY LenProperties
<1>2. /\ s \o t \in Seq(Tokens) /\ Len(s \o t) = Len(s) + Len(t)
      /\ \A i \in 1..Len(s) + Len(t) :
           (s \o t)[i] = IF i <= Len(s) THEN s[i] ELSE t[i - Len(s)]
  BY ConcatProperties
<1> QED BY <1>1, <1>2

-----------------------------------------------------------------------------
(* Types. *)

\* gdb waits for an acknowledgement or an answer of a command it has sent.
Typed == TypeOK /\ (gdb_at # "nothing" => asked > 0)

\* What the server writes is a sequence of tokens.
LEMMA Replies ==
  ASSUME Typed
  PROVE  /\ handle_error \in Seq(Tokens) /\ gdb_transmit_packet \in Seq(Tokens)
         /\ handle_error \o gdb_transmit_packet \in Seq(Tokens)
         /\ \A p : handle_error \o verdict(p) \in Seq(Tokens)
<1>1. handle_error \in Seq(Tokens) BY ShortLines DEF handle_error
<1>2. gdb_transmit_packet \in Seq(Tokens)
  <2>1. packet # 0 => packet \in 1..MaxCommands BY DEF Typed, TypeOK
  <2> QED BY <2>1, ShortLines DEF gdb_transmit_packet
<1>3. \A p : verdict(p) \in Seq(Tokens) BY ShortLines DEF verdict
<1> QED BY <1>1, <1>2, <1>3, ExtendedLine

\* Writing keeps the line to gdb a line of tokens.
LEMMA WriteTyped ==
  ASSUME Typed, NEW tokens \in Seq(Tokens), Write(tokens)
  PROVE  /\ to_client' \in Seq(Tokens)
         /\ server' \in {"running", "ended", "killed"}
BY ExtendedLine DEF Write, Typed, TypeOK

\* Scanning takes a token off the line to the server.
LEMMA ScansTyped ==
  ASSUME Typed, NEW type, Scans(type)
  PROVE  /\ to_server' \in Seq(Tokens)
         /\ to_server # <<>> /\ Head(to_server) \in Tokens
         /\ Head(to_server).type = type
         /\ UNCHANGED <<gdb_at, asked, answers, damaged, strayed>>
BY TailOfLine DEF Scans, Typed, TypeOK, gdb, line

\* Every rule of the scanner and every handler keeps the shapes.
LEMMA ServerTyped ==
  ASSUME Typed, Server
  PROVE  Typed'
<1> USE ProtocolAssumption DEF ProtocolAssumption
<1>1. CASE Plus
  <2>1. to_client' \in Seq(Tokens) /\ server' \in {"running", "ended", "killed"}
    BY <1>1, Replies, WriteTyped DEF Plus
  <2> QED BY <1>1, <2>1, ScansTyped DEF Plus, Typed, TypeOK
<1>2. CASE Minus
  <2>1. to_client' \in Seq(Tokens) /\ server' \in {"running", "ended", "killed"}
    BY <1>2, Replies, WriteTyped DEF Minus
  <2> QED BY <1>2, <2>1, ScansTyped DEF Minus, Typed, TypeOK, handles_nothing
<1>3. CASE PacketScanned
  <2> DEFINE p == Head(to_server)
  <2>1. Scans("packet") /\ Write(handle_error \o verdict(p)) BY <1>3 DEF PacketScanned
  <2>2. p \in Tokens /\ p.type = "packet" BY <2>1, ScansTyped
  <2>3. p.n \in 1..MaxCommands BY <2>2, TokensAre
  <2>4. handling' \in 0..MaxCommands BY <1>3, <2>3 DEF PacketScanned
  <2>5. to_client' \in Seq(Tokens) /\ server' \in {"running", "ended", "killed"}
    BY <2>1, Replies, WriteTyped
  <2> QED BY <1>3, <2>1, <2>4, <2>5, ScansTyped DEF PacketScanned, Typed, TypeOK
<1>4. CASE Stray
  <2>1. to_client' \in Seq(Tokens) /\ server' \in {"running", "ended", "killed"}
    BY <1>4, ShortLines, WriteTyped DEF Stray
  <2>2. len' \in 0..MAX_ERROR_SIZE - 1
    <3>1. len \in 0..MAX_ERROR_SIZE - 1 BY DEF Typed, TypeOK
    <3>2. len' = IF len > MAX_ERROR_SIZE - 2 THEN 1 ELSE len + 1 BY <1>4 DEF Stray, full
    <3> QED BY <3>1, <3>2
  <2> QED BY <1>4, <2>1, <2>2, ScansTyped DEF Stray, Typed, TypeOK
<1>5. CASE EndOfFile
  <2>1. to_client' \in Seq(Tokens) /\ server' \in {"running", "ended", "killed"}
    BY <1>5, Replies, ExtendedLine DEF EndOfFile, Typed, TypeOK
  <2> QED BY <1>5, <2>1, ScansTyped DEF EndOfFile, Typed, TypeOK
<1>6. CASE Handle
  <2>1. handling \in 1..MaxCommands BY <1>6 DEF Handle, Typed, TypeOK
  <2>2. executed' \in Seq(1..MaxCommands)
    BY <1>6, <2>1, AppendProperties DEF Handle, Typed, TypeOK
  <2>3. <<Packet(handling, TRUE)>> \in Seq(Tokens) BY <2>1, ShortLines
  <2>4. to_client' \in Seq(Tokens) /\ server' \in {"running", "ended", "killed"}
    BY <1>6, <2>3, WriteTyped DEF Handle, Typed, TypeOK
  <2> QED BY <1>6, <2>1, <2>2, <2>4 DEF Handle, Typed, TypeOK, gdb, line
<1> QED BY <1>1, <1>2, <1>3, <1>4, <1>5, <1>6 DEF Server, Scanning

\* What gdb sends keeps the line to the server a line of tokens.
LEMMA SendTyped ==
  ASSUME Typed, NEW tokens \in Seq(Tokens), Send(tokens)
  PROVE  to_server' \in Seq(Tokens)
BY ExtendedLine DEF Send, Typed, TypeOK

\* Receiving takes a token off the line to gdb.
LEMMA ReceivesTyped ==
  ASSUME Typed, NEW type, Receives(type)
  PROVE  /\ to_client' \in Seq(Tokens)
         /\ to_client # <<>> /\ Head(to_client) \in Tokens
         /\ Head(to_client).type = type
         /\ UNCHANGED <<asked, len, packet, handling, writable, server, executed,
                        damaged, strayed>>
BY TailOfLine DEF Receives, Typed, TypeOK, scanner, line

\* gdb, its user and the lines keep the shapes.
LEMMA OthersTyped ==
  ASSUME Typed, Ask \/ Gdb \/ Interrupt \/ Damage
  PROVE  Typed'
<1> USE ProtocolAssumption DEF ProtocolAssumption
<1>1. CASE Ask
  <2>1. asked + 1 \in 1..MaxCommands BY <1>1 DEF Ask, Typed, TypeOK
  <2>2. to_server' \in Seq(Tokens) BY ShortLines, <1>1, <2>1, SendTyped DEF Ask
  <2> QED BY <1>1, <2>1, <2>2 DEF Ask, Typed, TypeOK, scanner, line
<1>2. CASE Acknowledged
  <2>1. to_server' \in Seq(Tokens) BY ShortLines, <1>2, SendTyped DEF Acknowledged
  <2> QED BY <1>2, <2>1, ReceivesTyped DEF Acknowledged, Typed, TypeOK
<1>3. CASE Refused
  <2>1. asked \in 1..MaxCommands BY <1>3 DEF Refused, Typed, TypeOK
  <2>2. to_server' \in Seq(Tokens) BY ShortLines, <1>3, <2>1, SendTyped DEF Refused
  <2> QED BY <1>3, <2>2, ReceivesTyped DEF Refused, Typed, TypeOK
<1>4. CASE Answered
  <2>1. to_server' \in Seq(Tokens) BY ShortLines, <1>4, SendTyped DEF Answered
  <2>2. Head(to_client).n \in 1..MaxCommands
    <3>1. Receives("packet") BY <1>4 DEF Answered
    <3>2. Head(to_client) \in Tokens /\ Head(to_client).type = "packet"
      BY <3>1, ReceivesTyped
    <3> QED BY <3>2, TokensAre
  <2>3. answers' \in Seq(1..MaxCommands)
    <3>1. answers' = answers \/ answers' = Append(answers, Head(to_client).n)
      BY <1>4 DEF Answered
    <3>2. answers \in Seq(1..MaxCommands) BY DEF Typed, TypeOK
    <3> QED BY <2>2, <3>1, <3>2, AppendProperties
  <2> QED BY <1>4, <2>1, <2>3, ReceivesTyped DEF Answered, Typed, TypeOK
<1>5. CASE Ignored BY <1>5, ReceivesTyped DEF Ignored, Typed, TypeOK
<1>6. CASE Interrupt
  <2>1. to_server' \in Seq(Tokens) BY ShortLines, <1>6, SendTyped DEF Interrupt
  <2> QED BY <1>6, <2>1 DEF Interrupt, Typed, TypeOK, scanner, gdb
<1>7. CASE Damage
  <2>1. to_server' \in Seq(Tokens) /\ to_client' \in Seq(Tokens)
    <3>1. to_server \in Seq(Tokens) /\ to_client \in Seq(Tokens) BY DEF Typed, TypeOK
    <3>2. \/ /\ to_server # <<>> /\ Head(to_server).type = "packet"
             /\ to_server' = Spoilt(to_server) /\ to_client' = to_client
          \/ /\ to_client # <<>> /\ Head(to_client).type = "packet"
             /\ to_client' = Spoilt(to_client) /\ to_server' = to_server
      BY <1>7 DEF Damage, Spoilt
    <3> QED BY <3>1, <3>2, SpoiltLine
  <2>2. damaged' \in 0..MaxDamage
    <3>1. damaged < MaxDamage /\ damaged' = damaged + 1 BY <1>7 DEF Damage
    <3> QED BY <3>1 DEF Typed, TypeOK
  <2>3. UNCHANGED <<scanner, gdb, strayed>> BY <1>7 DEF Damage
  <2> QED BY <2>1, <2>2, <2>3 DEF Typed, TypeOK, scanner, gdb
<1> QED BY <1>1, <1>2, <1>3, <1>4, <1>5, <1>6, <1>7 DEF Gdb

\* The shapes hold in every reachable state.
LEMMA TypedAlways == Spec => []Typed
<1>1. Init => Typed
  BY ProtocolAssumption, EmptySeq DEF ProtocolAssumption, Init, Typed, TypeOK
<1>2. Typed /\ [Next]_vars => Typed'
  <2> SUFFICES ASSUME Typed, [Next]_vars PROVE Typed' OBVIOUS
  <2>1. CASE UNCHANGED vars
    BY <2>1 DEF vars, scanner, gdb, line, Typed, TypeOK
  <2> QED BY <2>1, ServerTyped, OthersTyped DEF Next
<1> QED BY <1>1, <1>2, PTL DEF Spec

\* Whatever arrives, the error buffer keeps room for its final '\0', and every
\* packet sent is an answer to a command.
THEOREM ProtocolTypeCorrect == Spec => []TypeOK
BY TypedAlways, PTL DEF Typed

-----------------------------------------------------------------------------
(* What stray bytes repeat. *)

Places(s, type) == {i \in 1..Len(s) : s[i].type = type}
Number(s, type) == Cardinality(Places(s, type))

\* A line holds finitely many tokens of a type.
LEMMA NumberIsNat ==
  ASSUME NEW s \in Seq(Tokens), NEW type
  PROVE  IsFiniteSet(Places(s, type)) /\ Number(s, type) \in Nat
<1>1. Len(s) \in Nat BY LenProperties
<1>2. IsFiniteSet(1..Len(s)) BY <1>1, FS_Interval
<1>3. Places(s, type) \in SUBSET (1..Len(s)) BY DEF Places
<1> QED BY <1>2, <1>3, FS_Subset, FS_CardinalityType DEF Number

\* The tokens of one type in a line of one token,
LEMMA NumberInOne ==
  ASSUME NEW t \in Tokens, NEW type
  PROVE  Number(<<t>>, type) = IF t.type = type THEN 1 ELSE 0
<1>1. Places(<<t>>, type) = IF t.type = type THEN {1} ELSE {} BY DEF Places
<1> QED BY <1>1, FS_Singleton, FS_EmptySet DEF Number

\* in the empty line,
LEMMA NumberInNone == \A type : Number(<<>>, type) = 0
<1>1. \A type : Places(<<>>, type) = {} BY DEF Places
<1> QED BY <1>1, FS_EmptySet DEF Number

\* The tokens of a line are those it held and those written to it.
LEMMA NumberInExtended ==
  ASSUME NEW s \in Seq(Tokens), NEW t \in Seq(Tokens), NEW type
  PROVE  Number(s \o t, type) = Number(s, type) + Number(t, type)
<1> DEFINE moved == {Len(s) + i : i \in Places(t, type)}
           f == [i \in Places(t, type) |-> Len(s) + i]
<1>1. Len(s) \in Nat /\ Len(t) \in Nat BY LenProperties
<1>2. Places(t, type) \subseteq Nat BY <1>1 DEF Places
<1>3. f \in [Places(t, type) -> moved] OBVIOUS
<1>4. f \in Injection(Places(t, type), moved)
  BY <1>1, <1>2, <1>3 DEF Injection, IsInjective
<1>5. f \in Surjection(Places(t, type), moved) BY <1>3 DEF Surjection
<1>6. ExistsBijection(Places(t, type), moved)
  BY <1>4, <1>5 DEF ExistsBijection, Bijection
<1>7. IsFiniteSet(moved) /\ Cardinality(moved) = Number(t, type)
  BY <1>6, NumberIsNat, FS_Bijection DEF Number
<1>8. Places(s \o t, type) = Places(s, type) \cup moved
  <2>1. ASSUME NEW i \in Places(s \o t, type) PROVE i \in Places(s, type) \cup moved
    <3>1. i \in 1..Len(s) + Len(t) /\ (s \o t)[i].type = type
      BY ExtendedLine DEF Places
    <3>2. CASE i <= Len(s) BY <1>1, <3>1, <3>2, ExtendedLine DEF Places
    <3>3. CASE i > Len(s)
      <4>1. i - Len(s) \in 1..Len(t) /\ i = Len(s) + (i - Len(s))
        BY <1>1, <3>1, <3>3
      <4>2. (s \o t)[i] = t[i - Len(s)] BY <4>1, ExtendedLine
      <4> QED BY <3>1, <4>1, <4>2 DEF Places
    <3> QED BY <1>1, <3>1, <3>2, <3>3
  <2>2. ASSUME NEW i \in Places(s, type) PROVE i \in Places(s \o t, type)
    BY <1>1, ExtendedLine DEF Places
  <2>3. ASSUME NEW i \in Places(t, type) PROVE Len(s) + i \in Places(s \o t, type)
    BY <1>1, ExtendedLine DEF Places
  <2> QED BY <2>1, <2>2, <2>3
<1>9. Places(s, type) \cap moved = {} BY <1>1 DEF Places
<1>10. IsFiniteSet(Places(s, type)) BY NumberIsNat
<1>11. Cardinality(Places(s, type) \cup moved)
         = Cardinality(Places(s, type)) + Cardinality(moved)
                - Cardinality(Places(s, type) \cap moved)
  BY <1>7, <1>10, FS_Union
<1>12. Cardinality(Places(s, type) \cap moved) = 0 BY <1>9, FS_EmptySet
<1>13. Number(s, type) \in Nat /\ Number(t, type) \in Nat BY NumberIsNat
<1>14. Number(s \o t, type) = Cardinality(Places(s, type) \cup moved)
  BY <1>8 DEF Number
<1>15. Number(s, type) = Cardinality(Places(s, type)) BY DEF Number
<1> HIDE DEF moved
<1> QED BY <1>7, <1>11, <1>12, <1>13, <1>14, <1>15

\* in a line whose first token has been read,
LEMMA NumberInTail ==
  ASSUME NEW s \in Seq(Tokens), s # <<>>, NEW type
  PROVE  Number(Tail(s), type) = Number(s, type) - Number(<<Head(s)>>, type)
<1>1. Head(s) \in Tokens /\ Tail(s) \in Seq(Tokens) BY TailOfLine
<1>2. <<Head(s)>> \in Seq(Tokens) BY <1>1
<1>3. s = <<Head(s)>> \o Tail(s)
  <2>1. /\ <<Head(s)>> \o Tail(s) \in Seq(Tokens)
        /\ Len(<<Head(s)>> \o Tail(s)) = 1 + Len(Tail(s))
        /\ (<<Head(s)>> \o Tail(s))[1] = Head(s)
        /\ \A i \in 1..Len(Tail(s)) : (<<Head(s)>> \o Tail(s))[1 + i] = Tail(s)[i]
    BY <1>1, <1>2, ExtendedLine
  <2>2. /\ Len(s) \in Nat /\ Len(Tail(s)) = Len(s) - 1 /\ Head(s) = s[1]
        /\ \A i \in 1..Len(Tail(s)) : Tail(s)[i] = s[i + 1]
    BY TailOfLine
  <2>3. ASSUME NEW i \in 1..Len(s) PROVE s[i] = (<<Head(s)>> \o Tail(s))[i]
    <3>1. CASE i = 1 BY <2>1, <2>2, <3>1
    <3>2. CASE i # 1
      <4>1. i - 1 \in 1..Len(Tail(s)) /\ 1 + (i - 1) = i /\ (i - 1) + 1 = i
        BY <2>2, <3>2
      <4> QED BY <2>1, <2>2, <4>1
    <3> QED BY <3>1, <3>2
  <2> QED BY <2>1, <2>2, <2>3, SeqEqual
<1>4. Number(s, type) = Number(<<Head(s)>>, type) + Number(Tail(s), type)
  BY <1>1, <1>2, <1>3, NumberInExtended
<1>5. /\ Number(s, type) \in Nat /\ Number(Tail(s), type) \in Nat
      /\ Number(<<Head(s)>>, type) \in Nat
  BY <1>1, <1>2, NumberIsNat
<1> QED BY <1>4, <1>5

\* and in one whose first packet was damaged.
LEMMA NumberInSpoilt ==
  ASSUME NEW s \in Seq(Tokens), s # <<>>, Head(s).type = "packet", NEW type
  PROVE  Number(Spoilt(s), type) = Number(s, type)
<1>1. Places(Spoilt(s), type) = Places(s, type) BY SpoiltLine DEF Places
<1> QED BY <1>1 DEF Number

One(condition) == IF condition THEN 1 ELSE 0

PacketsSent == Number(to_server, "packet")
StraysSent == Number(to_server, "stray")
BeingHandled == IF handling # 0 THEN 1 ELSE 0
Unexpected == IF len > 0 THEN 1 ELSE 0
Refusals == Number(to_client, "-")

\* What may still be executed: the command handled, the packets sent, and the
\* retransmissions that were asked for or that a stray byte will ask for.
Owed ==
  BeingHandled + PacketsSent + StraysSent + Unexpected + Refusals

Executed == Len(executed)

Accounted == Executed + Owed <= asked + strayed

Counts ==
  /\ PacketsSent \in Nat /\ StraysSent \in Nat
  /\ Refusals \in Nat
  /\ BeingHandled \in Nat /\ Unexpected \in Nat
  /\ Executed \in Nat /\ asked \in Nat /\ strayed \in Nat

\* The numbers of which the accounts are made.
LEMMA CountsAreNats ==
  ASSUME Typed
  PROVE  Counts
<1>1. executed \in Seq(1..MaxCommands) /\ asked \in Nat /\ strayed \in Nat
  BY ProtocolAssumption DEF ProtocolAssumption, Typed, TypeOK
<1>2. Executed \in Nat BY <1>1, LenProperties DEF Executed
<1>3. BeingHandled \in Nat /\ Unexpected \in Nat BY DEF BeingHandled, Unexpected
<1> QED BY <1>1, <1>2, <1>3, NumberIsNat
        DEF Counts, PacketsSent, StraysSent, Refusals, Typed, TypeOK

\* The refusals on the line to gdb are a number in the next state too.
LEMMA RefusalsNext == Typed' => Refusals' \in Nat
BY NumberIsNat DEF Refusals, Typed, TypeOK

\* Scanning takes one of its type from the packets or strays under way.
LEMMA ScansCounts ==
  ASSUME Typed, NEW type, Scans(type)
  PROVE  /\ PacketsSent' = PacketsSent - One(type = "packet")
         /\ StraysSent' = StraysSent - One(type = "stray")
<1>1. /\ to_server \in Seq(Tokens) /\ to_server # <<>>
      /\ Head(to_server) \in Tokens /\ Head(to_server).type = type
      /\ to_server' = Tail(to_server)
  BY ScansTyped DEF Scans, Typed, TypeOK
<1>2. /\ Number(Tail(to_server), "packet")
           = Number(to_server, "packet") - Number(<<Head(to_server)>>, "packet")
      /\ Number(Tail(to_server), "stray")
           = Number(to_server, "stray") - Number(<<Head(to_server)>>, "stray")
  BY <1>1, NumberInTail
<1>3. /\ Number(<<Head(to_server)>>, "packet") = One(type = "packet")
      /\ Number(<<Head(to_server)>>, "stray") = One(type = "stray")
  BY <1>1, NumberInOne DEF One
<1> QED BY <1>1, <1>2, <1>3 DEF PacketsSent, StraysSent

\* A write adds at most its own refusals to those under way.
LEMMA WriteCounts ==
  ASSUME Typed, NEW tokens \in Seq(Tokens), Write(tokens)
  PROVE  Refusals' <= Refusals + Number(tokens, "-")
<1>1. to_client \in Seq(Tokens) BY DEF Typed, TypeOK
<1>2. Refusals \in Nat /\ Number(tokens, "-") \in Nat
  BY <1>1, NumberIsNat DEF Refusals
<1>3. to_client' = to_client \o tokens \/ to_client' = to_client BY DEF Write
<1>4. to_client' = to_client => Refusals' = Refusals BY DEF Refusals
<1>5. to_client' = to_client \o tokens => Refusals' = Refusals + Number(tokens, "-")
  BY <1>1, NumberInExtended DEF Refusals
<1> QED BY <1>2, <1>3, <1>4, <1>5

\* A retransmission is asked for at most once for the bytes in the error buffer,
\* and for a packet that is damaged.
LEMMA RepliesCount ==
  ASSUME Typed
  PROVE  /\ Number(handle_error, "-") = Unexpected
         /\ Number(handle_error \o gdb_transmit_packet, "-") = Unexpected
         /\ \A p : Number(handle_error \o verdict(p), "-") = Unexpected + One(~p.good)
<1>1. /\ handle_error \in Seq(Tokens) /\ gdb_transmit_packet \in Seq(Tokens)
      /\ \A p : verdict(p) \in Seq(Tokens)
  <2>1. packet # 0 => packet \in 1..MaxCommands BY DEF Typed, TypeOK
  <2> QED BY <2>1, ShortLines, Replies DEF verdict
<1>2. Number(<<Nack>>, "-") = 1 /\ Number(<<Ack>>, "-") = 0
  BY TokensAre, NumberInOne DEF Nack, Ack, Byte
<1>3. Number(handle_error, "-") = Unexpected
  BY <1>2, NumberInNone DEF handle_error, Unexpected
<1>4. Number(gdb_transmit_packet, "-") = 0
  <2>1. packet # 0 => Packet(packet, TRUE) \in Tokens
    <3>1. packet # 0 => packet \in 1..MaxCommands BY DEF Typed, TypeOK
    <3> QED BY <3>1, TokensAre
  <2>2. packet # 0 => Number(<<Packet(packet, TRUE)>>, "-") = 0
    BY <2>1, NumberInOne DEF Packet
  <2> QED BY <2>2, NumberInNone DEF gdb_transmit_packet
<1>5. \A p : Number(verdict(p), "-") = One(~p.good)
  BY <1>2 DEF verdict, One
<1> QED BY <1>1, <1>3, <1>4, <1>5, NumberInExtended DEF One, Unexpected

\* The values after a step that adds no more to what is done and owed than to
\* what is allowed.
Becomes(e, h, w, s, u, r, b) ==
  /\ e \in Nat /\ h \in Nat /\ w \in Nat /\ s \in Nat /\ u \in Nat /\ r \in Nat /\ b \in Nat
  /\ Executed' = e /\ BeingHandled' = h /\ PacketsSent' = w /\ StraysSent' = s
  /\ Unexpected' = u /\ Refusals' = r /\ asked' + strayed' = b
  /\ e + h + w + s + u + r + (asked + strayed)
       <= Executed + BeingHandled + PacketsSent + StraysSent + Unexpected + Refusals + b

\* The account still balances if its right side did not grow or its left side
\* grew as much: a packet executed, one waiting to be, one on the line, a stray
\* byte, one in the buffer, a refusal.
LEMMA StillAccounted ==
  ASSUME Typed, Accounted, NEW e, NEW h, NEW w, NEW s, NEW u, NEW r, NEW b,
         Becomes(e, h, w, s, u, r, b)
  PROVE  Accounted'
<1>1. Owed' = h + w + s + u + r BY DEF Becomes, Owed
<1>2. e + h + w + s + u + r <= b
  BY CountsAreNats DEF Counts, Becomes, Accounted, Owed
<1>3. e + (h + w + s + u + r) = e + h + w + s + u + r BY DEF Becomes
<1> QED BY <1>1, <1>2, <1>3 DEF Becomes, Accounted

\* What a step of the server on a token leaves as it was.
LEMMA ScansKeeps ==
  ASSUME Typed, NEW type, Scans(type)
  PROVE  asked' = asked /\ strayed' = strayed /\ handling = 0 /\ BeingHandled = 0
BY ScansTyped DEF Scans, BeingHandled

\* A token that is no packet and no stray byte, and empties the error buffer.
LEMMA EmptiedAccounted ==
  ASSUME Typed, Typed', Accounted, NEW type, Scans(type), type \notin {"packet", "stray"},
         len' = 0, handling' = 0, executed' = executed,
         Refusals' <= Refusals + Unexpected
  PROVE  Accounted'
<1> USE CountsAreNats DEF Counts
<1>1. PacketsSent' = PacketsSent /\ StraysSent' = StraysSent
  BY ScansCounts DEF One
<1>2. /\ Executed' = Executed /\ BeingHandled' = 0 /\ Unexpected' = 0
      /\ BeingHandled = 0 /\ asked' = asked /\ strayed' = strayed
  BY ScansKeeps DEF Executed, BeingHandled, Unexpected
<1>3. PICK r \in Nat : Refusals' = r /\ r <= Refusals + Unexpected
  BY RefusalsNext
<1>4. Becomes(Executed, 0, PacketsSent, StraysSent, 0, r, asked + strayed)
  BY <1>1, <1>2, <1>3 DEF Becomes
<1> QED BY <1>4, StillAccounted

\* A packet scanned moves from the line to the handler.
LEMMA ScannedAccounted ==
  ASSUME Typed, Typed', Accounted, PacketScanned
  PROVE  Accounted'
<1> USE CountsAreNats DEF Counts
<1> DEFINE p == Head(to_server)
<1>1. Scans("packet") /\ Write(handle_error \o verdict(p)) BY DEF PacketScanned
<1>2. PacketsSent' = PacketsSent - 1 /\ StraysSent' = StraysSent
  BY <1>1, ScansCounts DEF One
<1>3. Refusals' <= Refusals + (Unexpected + One(~p.good))
  BY <1>1, WriteCounts, Replies, RepliesCount
<1>4. /\ Executed' = Executed /\ Unexpected' = 0 /\ BeingHandled = 0
      /\ asked' = asked /\ strayed' = strayed
  BY <1>1, ScansKeeps DEF PacketScanned, Executed, Unexpected
<1>5. PICK h \in Nat : BeingHandled' = h /\ h + One(~p.good) <= 1
  BY DEF PacketScanned, BeingHandled, One
<1>6. PICK r \in Nat : Refusals' = r /\ r <= Refusals + (Unexpected + One(~p.good))
  BY <1>3, RefusalsNext
<1>7. PacketsSent - 1 \in Nat
  <2>1. PacketsSent' \in Nat BY NumberIsNat DEF PacketsSent, Typed, TypeOK
  <2> QED BY <1>2, <2>1
<1>8. One(~p.good) \in Nat BY DEF One
<1> HIDE DEF p
<1>9. Becomes(Executed, h, PacketsSent - 1, StraysSent, 0, r, asked + strayed)
  BY <1>2, <1>4, <1>5, <1>6, <1>7, <1>8 DEF Becomes
<1> QED BY <1>9, StillAccounted

\* A stray byte moves from the line to the error buffer.
LEMMA StrayAccounted ==
  ASSUME Typed, Typed', Accounted, Stray
  PROVE  Accounted'
<1> USE CountsAreNats DEF Counts
<1>1. Scans("stray") BY DEF Stray
<1>2. PacketsSent' = PacketsSent /\ StraysSent' = StraysSent - 1
  BY <1>1, ScansCounts DEF One
<1>3. /\ Executed' = Executed /\ BeingHandled' = 0 /\ BeingHandled = 0
      /\ asked' = asked /\ strayed' = strayed
  BY <1>1, ScansKeeps DEF Stray, Executed, BeingHandled
<1>4. Number(<<Nack>>, "-") = 1 /\ Number(<<>>, "-") = 0
  BY TokensAre, NumberInOne, NumberInNone DEF Nack, Byte
<1>5. len \in Nat /\ len' \in Nat
  BY ProtocolAssumption DEF ProtocolAssumption, Typed, TypeOK
<1>6. PICK r \in Nat : Refusals' = r /\ r + 1 <= Refusals + 1 + Unexpected
  <2>1. CASE full(len)
    <3>1. Write(<<Nack>>) BY <2>1 DEF Stray
    <3>2. Refusals' <= Refusals + 1 BY <1>4, <3>1, ShortLines, WriteCounts
    <3>3. Unexpected = 1
      BY <1>5, <2>1, ProtocolAssumption DEF full, ProtocolAssumption, Unexpected
    <3> QED BY <3>2, <3>3, RefusalsNext
  <2>2. CASE ~full(len)
    <3>1. Write(<<>>) BY <2>2 DEF Stray
    <3>2. Refusals' <= Refusals + 0 BY <1>4, <3>1, ShortLines, WriteCounts
    <3> QED BY <3>2, RefusalsNext
  <2> QED BY <2>1, <2>2
<1>7. StraysSent - 1 \in Nat
  <2>1. StraysSent' \in Nat BY NumberIsNat DEF StraysSent, Typed, TypeOK
  <2> QED BY <1>2, <2>1
<1>8. Unexpected' = 1 BY <1>5 DEF Stray, Unexpected
<1>9. Becomes(Executed, 0, PacketsSent, StraysSent - 1, 1, r, asked + strayed)
  BY <1>2, <1>3, <1>6, <1>7, <1>8 DEF Becomes
<1> QED BY <1>9, StillAccounted

\* A command handled moves from the handler to the executed ones.
LEMMA HandleAccounted ==
  ASSUME Typed, Typed', Accounted, Handle
  PROVE  Accounted'
<1> USE CountsAreNats DEF Counts
<1>1. /\ handling # 0 /\ handling' = 0 /\ len' = len /\ to_server' = to_server
      /\ executed' = Append(executed, handling) /\ asked' = asked /\ strayed' = strayed
  BY DEF Handle, gdb, line
<1>2. handling \in 1..MaxCommands /\ executed \in Seq(1..MaxCommands)
  BY <1>1 DEF Typed, TypeOK
<1>3. Executed' = Executed + 1 BY <1>1, <1>2, AppendProperties DEF Executed
<1>4. PICK r \in Nat : Refusals' = r /\ r <= Refusals
  <2>1. Packet(handling, TRUE) \in Tokens /\ <<Packet(handling, TRUE)>> \in Seq(Tokens)
    BY <1>2, TokensAre, ShortLines
  <2>2. Number(<<Packet(handling, TRUE)>>, "-") = 0 BY <2>1, NumberInOne DEF Packet
  <2>3. CASE to_client' = to_client BY <2>3, RefusalsNext DEF Refusals
  <2>4. CASE Write(<<Packet(handling, TRUE)>>)
    <3>1. Refusals' <= Refusals + 0 BY <2>1, <2>2, <2>4, WriteCounts
    <3> QED BY <3>1, RefusalsNext
  <2> QED BY <2>3, <2>4 DEF Handle
<1>5. /\ PacketsSent' = PacketsSent /\ StraysSent' = StraysSent
      /\ Unexpected' = Unexpected /\ BeingHandled' = 0 /\ BeingHandled = 1
  BY <1>1 DEF PacketsSent, StraysSent, Unexpected, BeingHandled
<1>6. asked' + strayed' = asked + strayed BY <1>1
<1>7. Becomes(Executed + 1, 0, PacketsSent, StraysSent, Unexpected, r, asked + strayed)
  BY <1>3, <1>4, <1>5, <1>6 DEF Becomes
<1> QED BY <1>7, StillAccounted

\* Every step of the server keeps the account.
LEMMA ServerAccounted ==
  ASSUME Typed, Typed', Accounted, Server
  PROVE  Accounted'
<1>1. CASE Plus
  <2>1. Scans("+") /\ Write(handle_error) BY <1>1 DEF Plus
  <2>2. Refusals' <= Refusals + Unexpected
    BY <2>1, WriteCounts, Replies, RepliesCount
  <2> QED BY <1>1, <2>1, <2>2, EmptiedAccounted, ScansKeeps DEF Plus
<1>2. CASE Minus
  <2>1. Scans("-") /\ Write(handle_error \o gdb_transmit_packet) BY <1>2 DEF Minus
  <2>2. Refusals' <= Refusals + Unexpected
    BY <2>1, WriteCounts, Replies, RepliesCount
  <2> QED BY <1>2, <2>1, <2>2, EmptiedAccounted DEF Minus, handles_nothing
<1>3. CASE EndOfFile
  <2>1. Scans("eof") BY <1>3 DEF EndOfFile
  <2>2. Refusals' <= Refusals + Unexpected
    <3>1. to_client' = to_client \/ to_client' = to_client \o handle_error
      BY <1>3 DEF EndOfFile
    <3>2. Number(to_client \o handle_error, "-")
            = Number(to_client, "-") + Number(handle_error, "-")
      BY Replies, NumberInExtended DEF Typed, TypeOK
    <3>3. to_client' = to_client \o handle_error => Refusals' = Refusals + Unexpected
      BY <3>2, RepliesCount DEF Refusals
    <3>4. to_client' = to_client => Refusals' = Refusals BY DEF Refusals
    <3> QED BY <3>1, <3>3, <3>4, CountsAreNats DEF Counts
  <2> QED BY <1>3, <2>1, <2>2, EmptiedAccounted, ScansKeeps DEF EndOfFile
<1> QED
  BY <1>1, <1>2, <1>3, ScannedAccounted, StrayAccounted, HandleAccounted
     DEF Server, Scanning

\* What gdb or the user sends to the server is owed from then on.
LEMMA SendCounts ==
  ASSUME Typed, NEW t \in Tokens, Send(<<t>>)
  PROVE  /\ t.type = "packet" => PacketsSent' = PacketsSent + 1 /\ StraysSent' = StraysSent
         /\ t.type = "stray" => PacketsSent' = PacketsSent /\ StraysSent' = StraysSent + 1
         /\ t.type \notin {"packet", "stray"} =>
              PacketsSent' = PacketsSent /\ StraysSent' = StraysSent
<1>1. to_server \in Seq(Tokens) /\ <<t>> \in Seq(Tokens) BY DEF Typed, TypeOK
<1>2. /\ Number(<<t>>, "packet") = IF t.type = "packet" THEN 1 ELSE 0
      /\ Number(<<t>>, "stray") = IF t.type = "stray" THEN 1 ELSE 0
  BY NumberInOne
<1>3. /\ Number(to_server \o <<t>>, "packet")
           = Number(to_server, "packet") + Number(<<t>>, "packet")
      /\ Number(to_server \o <<t>>, "stray")
           = Number(to_server, "stray") + Number(<<t>>, "stray")
  BY <1>1, NumberInExtended
<1>4. to_server' = to_server \o <<t>> BY DEF Send
<1>5. /\ PacketsSent' = PacketsSent + Number(<<t>>, "packet")
      /\ StraysSent' = StraysSent + Number(<<t>>, "stray")
  BY <1>3, <1>4 DEF PacketsSent, StraysSent
<1>6. PacketsSent \in Nat /\ StraysSent \in Nat BY CountsAreNats DEF Counts
<1> QED BY <1>2, <1>5, <1>6

\* Receiving takes one of its type from the refusals under way.
LEMMA ReceivesCounts ==
  ASSUME Typed, NEW type, Receives(type)
  PROVE  Refusals' = Refusals - One(type = "-")
<1>1. /\ to_client \in Seq(Tokens) /\ to_client # <<>>
      /\ Head(to_client) \in Tokens /\ Head(to_client).type = type
      /\ to_client' = Tail(to_client)
  BY ReceivesTyped DEF Receives, Typed, TypeOK
<1>2. Number(Tail(to_client), "-")
        = Number(to_client, "-") - Number(<<Head(to_client)>>, "-")
  BY <1>1, NumberInTail
<1>3. Number(<<Head(to_client)>>, "-") = One(type = "-") BY <1>1, NumberInOne DEF One
<1> QED BY <1>1, <1>2, <1>3 DEF Refusals

\* The server's side is as it was.
LEMMA ServerQuiet ==
  ASSUME UNCHANGED <<executed, handling, len>>
  PROVE  Executed' = Executed /\ BeingHandled' = BeingHandled /\ Unexpected' = Unexpected
BY DEF Executed, BeingHandled, Unexpected

\* gdb sends no packet and no stray byte.
LEMMA ReceivesAccounted ==
  ASSUME Typed, Typed', Accounted, NEW type, Receives(type),
         \/ to_server' = to_server
         \/ \E t \in Tokens : t.type \notin {"packet", "stray"} /\ Send(<<t>>)
  PROVE  Accounted'
<1> USE CountsAreNats DEF Counts
<1>1. PacketsSent' = PacketsSent /\ StraysSent' = StraysSent
  <2>1. CASE to_server' = to_server BY <2>1 DEF PacketsSent, StraysSent
  <2>2. ASSUME NEW t \in Tokens, t.type \notin {"packet", "stray"}, Send(<<t>>)
        PROVE  PacketsSent' = PacketsSent /\ StraysSent' = StraysSent
    BY <2>2, SendCounts
  <2> QED BY <2>1, <2>2
<1>2. PICK r \in Nat : Refusals' = r /\ r <= Refusals
  BY ReceivesCounts, RefusalsNext DEF One
<1>3. /\ Executed' = Executed /\ BeingHandled' = BeingHandled /\ Unexpected' = Unexpected
      /\ asked' = asked /\ strayed' = strayed
  BY ReceivesTyped, ServerQuiet
<1>4. Becomes(Executed, BeingHandled, PacketsSent, StraysSent, Unexpected, r,
              asked + strayed)
  BY <1>1, <1>2, <1>3 DEF Becomes
<1> QED BY <1>4, StillAccounted

\* Every step of gdb, its user and the lines keeps the account.
LEMMA OthersAccounted ==
  ASSUME Typed, Typed', Accounted, Ask \/ Gdb \/ Interrupt \/ Damage
  PROVE  Accounted'
<1> USE CountsAreNats DEF Counts
<1>0. /\ Ack \in Tokens /\ Nack \in Tokens /\ Byte("eof") \in Tokens
      /\ Byte("stray") \in Tokens /\ Byte("stray").type = "stray"
      /\ Ack.type = "+" /\ Nack.type = "-" /\ Byte("eof").type = "eof"
      /\ \A n \in 1..MaxCommands :
           Packet(n, TRUE) \in Tokens /\ Packet(n, TRUE).type = "packet"
  BY TokensAre DEF Ack, Nack, Byte, Packet
<1>1. CASE Ask
  <2>1. asked + 1 \in 1..MaxCommands BY <1>1 DEF Ask, Typed, TypeOK
  <2>2. PacketsSent' = PacketsSent + 1 /\ StraysSent' = StraysSent
    <3>1. Packet(asked + 1, TRUE) \in Tokens /\ Packet(asked + 1, TRUE).type = "packet"
      BY <1>0, <2>1
    <3>2. Send(<<Packet(asked + 1, TRUE)>>) BY <1>1 DEF Ask
    <3> QED BY <3>1, <3>2, SendCounts
  <2>3. /\ Executed' = Executed /\ BeingHandled' = BeingHandled
        /\ Unexpected' = Unexpected /\ Refusals' = Refusals
    BY <1>1, ServerQuiet DEF Ask, scanner, Refusals
  <2>4. asked' + strayed' = asked + 1 + strayed BY <1>1 DEF Ask, line
  <2>5. Becomes(Executed, BeingHandled, PacketsSent + 1, StraysSent, Unexpected,
                Refusals, asked + 1 + strayed)
    BY <2>2, <2>3, <2>4 DEF Becomes
  <2> QED BY <2>5, StillAccounted
<1>2. CASE Acknowledged
  <2>1. Send(<<>>) => to_server' = to_server
    BY ConcatEmptySeq DEF Send, Typed, TypeOK
  <2> QED BY <1>0, <1>2, <2>1, ReceivesAccounted DEF Acknowledged
<1>3. CASE Refused
  <2>1. Receives("-") BY <1>3 DEF Refused
  <2>2. asked \in 1..MaxCommands BY <1>3 DEF Refused, Typed, TypeOK
  <2>3. PacketsSent' = PacketsSent + 1 /\ StraysSent' = StraysSent
    <3>1. Packet(asked, TRUE) \in Tokens /\ Packet(asked, TRUE).type = "packet"
      BY <1>0, <2>2
    <3>2. Send(<<Packet(asked, TRUE)>>) BY <1>3 DEF Refused
    <3> QED BY <3>1, <3>2, SendCounts
  <2>4. Refusals' = Refusals - 1 /\ Refusals - 1 \in Nat
    BY <2>1, ReceivesCounts, RefusalsNext DEF One
  <2>5. /\ Executed' = Executed /\ BeingHandled' = BeingHandled /\ Unexpected' = Unexpected
        /\ asked' = asked /\ strayed' = strayed
    BY <2>1, ReceivesTyped, ServerQuiet
  <2>6. Becomes(Executed, BeingHandled, PacketsSent + 1, StraysSent, Unexpected,
                Refusals - 1, asked + strayed)
    BY <2>3, <2>4, <2>5 DEF Becomes
  <2> QED BY <2>6, StillAccounted
<1>4. CASE Answered
  BY <1>0, <1>4, ReceivesAccounted DEF Answered
<1>5. CASE Ignored
  BY <1>5, ReceivesAccounted DEF Ignored
<1>6. CASE Interrupt
  <2>1. PacketsSent' = PacketsSent /\ StraysSent' = StraysSent + 1
    BY <1>0, <1>6, SendCounts DEF Interrupt
  <2>2. /\ Executed' = Executed /\ BeingHandled' = BeingHandled
        /\ Unexpected' = Unexpected /\ Refusals' = Refusals
    BY <1>6, ServerQuiet DEF Interrupt, scanner, Refusals
  <2>3. asked' + strayed' = asked + (strayed + 1) BY <1>6 DEF Interrupt, gdb
  <2>4. Becomes(Executed, BeingHandled, PacketsSent, StraysSent + 1, Unexpected,
                Refusals, asked + (strayed + 1))
    BY <2>1, <2>2, <2>3 DEF Becomes
  <2> QED BY <2>4, StillAccounted
<1>7. CASE Damage
  <2>1. \/ /\ to_server # <<>> /\ Head(to_server).type = "packet"
           /\ to_server' = Spoilt(to_server) /\ to_client' = to_client
        \/ /\ to_client # <<>> /\ Head(to_client).type = "packet"
           /\ to_client' = Spoilt(to_client) /\ to_server' = to_server
    BY <1>7 DEF Damage, Spoilt
  <2>2. PacketsSent' = PacketsSent /\ StraysSent' = StraysSent /\ Refusals' = Refusals
    BY <2>1, NumberInSpoilt DEF PacketsSent, StraysSent, Refusals, Typed, TypeOK
  <2>3. /\ Executed' = Executed /\ BeingHandled' = BeingHandled /\ Unexpected' = Unexpected
        /\ asked' = asked /\ strayed' = strayed
    BY <1>7, ServerQuiet DEF Damage, scanner, gdb
  <2>4. Becomes(Executed, BeingHandled, PacketsSent, StraysSent, Unexpected, Refusals,
                asked + strayed)
    BY <2>2, <2>3 DEF Becomes
  <2> QED BY <2>4, StillAccounted
<1> QED BY <1>1, <1>2, <1>3, <1>4, <1>5, <1>6, <1>7 DEF Gdb

-----------------------------------------------------------------------------
(* The order of what is executed. *)

\* Commands already executed, the one handled, those on a line to the server and
\* the last one sent, each no later than the next.
InOrder(past, now, s, last) ==
  /\ \A e \in 1..Len(past) - 1 : past[e] <= past[e + 1]
  /\ \A e \in 1..Len(past) : past[e] <= last /\ (now # 0 => past[e] <= now)
  /\ now <= last
  /\ \A i \in Places(s, "packet") :
       /\ now <= s[i].n /\ s[i].n <= last
       /\ \A e \in 1..Len(past) : past[e] <= s[i].n
       /\ \A k \in Places(s, "packet") : i <= k => s[i].n <= s[k].n

\* A packet on a line has a number.
LEMMA NumbersOnLine ==
  ASSUME NEW s \in Seq(Tokens), NEW i \in Places(s, "packet")
  PROVE  i \in 1..Len(s) /\ s[i] \in Tokens /\ s[i].n \in Nat
<1>1. i \in 1..Len(s) /\ s[i].type = "packet" BY DEF Places
<1>2. s[i] \in Tokens BY <1>1, ElementOfSeq
<1> QED BY <1>1, <1>2, TokensAre

\* The order of the packets holds of a line whose first token has been read,
LEMMA OrderTail ==
  ASSUME NEW past \in Seq(1..MaxCommands), NEW s \in Seq(Tokens), s # <<>>,
         NEW last \in Nat, InOrder(past, 0, s, last)
  PROVE  /\ InOrder(past, 0, Tail(s), last)
         /\ Head(s).type = "packet" => InOrder(past, Head(s).n, Tail(s), last)
<1>0. Tail(s) \in Seq(Tokens) BY TailOfLine
<1>1. ASSUME NEW i \in Places(Tail(s), "packet")
      PROVE  /\ i \in Nat /\ 1 <= i + 1
             /\ i + 1 \in Places(s, "packet") /\ Tail(s)[i] = s[i + 1]
  BY TailOfLine DEF Places
<1>2. Head(s).type = "packet" =>
        1 \in Places(s, "packet") /\ Head(s) = s[1] /\ Head(s).n \in Nat
  BY TailOfLine, TokensAre DEF Places
<1>3. \A i \in Places(Tail(s), "packet") : Tail(s)[i].n \in Nat
  BY <1>0, NumbersOnLine
<1>4. InOrder(past, 0, Tail(s), last)
  <2>1. ASSUME NEW i \in Places(Tail(s), "packet")
        PROVE  /\ 0 <= Tail(s)[i].n /\ Tail(s)[i].n <= last
               /\ \A e \in 1..Len(past) : past[e] <= Tail(s)[i].n
               /\ \A k \in Places(Tail(s), "packet") :
                    i <= k => Tail(s)[i].n <= Tail(s)[k].n
    <3>1. i + 1 \in Places(s, "packet") /\ Tail(s)[i] = s[i + 1] BY <1>1
    <3>2. ASSUME NEW k \in Places(Tail(s), "packet"), i <= k
          PROVE  Tail(s)[i].n <= Tail(s)[k].n
      <4>1. i \in Nat /\ k \in Nat BY <1>1
      <4>2. i + 1 <= k + 1 BY <3>2, <4>1
      <4>3. k + 1 \in Places(s, "packet") /\ Tail(s)[k] = s[k + 1] BY <1>1
      <4> QED BY <3>1, <4>2, <4>3 DEF InOrder
    <3> QED BY <1>3, <3>1, <3>2 DEF InOrder
  <2> QED BY <2>1 DEF InOrder
<1>5. ASSUME Head(s).type = "packet" PROVE InOrder(past, Head(s).n, Tail(s), last)
  <2>1. /\ Head(s).n <= last
        /\ \A e \in 1..Len(past) : past[e] <= Head(s).n
        /\ \A k \in Places(s, "packet") : 1 <= k => Head(s).n <= s[k].n
    BY <1>2, <1>5 DEF InOrder
  <2>2. \A i \in Places(Tail(s), "packet") : Head(s).n <= Tail(s)[i].n
    <3>1. \A i \in Places(Tail(s), "packet") :
            i + 1 \in Places(s, "packet") /\ Tail(s)[i] = s[i + 1] /\ 1 <= i + 1
      BY <1>1
    <3> QED BY <2>1, <3>1
  <2> QED BY <1>4, <2>1, <2>2 DEF InOrder
<1> QED BY <1>4, <1>5

\* What is sent is the last command asked for, once more or for the first time.
LEMMA OrderSend ==
  ASSUME NEW past \in Seq(1..MaxCommands), NEW s \in Seq(Tokens), NEW t \in Tokens,
         NEW now \in Nat, NEW last \in Nat, NEW latest \in Nat, last <= latest,
         InOrder(past, now, s, last), t.type = "packet" => t.n = latest
  PROVE  InOrder(past, now, s \o <<t>>, latest)
<1> DEFINE u == s \o <<t>>
<1>1. /\ Len(s) \in Nat /\ Len(u) = Len(s) + 1 /\ u \in Seq(Tokens)
      /\ \A i \in 1..Len(s) : u[i] = s[i]
      /\ u[Len(s) + 1] = t
  <2>1. <<t>> \in Seq(Tokens) /\ Len(<<t>>) = 1 /\ <<t>>[1] = t OBVIOUS
  <2> QED BY <2>1, ExtendedLine
<1>2. \A e \in 1..Len(past) : past[e] \in Nat
  BY ProtocolAssumption, ElementOfSeq DEF ProtocolAssumption
<1> HIDE DEF u
<1>3. ASSUME NEW i \in Places(u, "packet")
      PROVE  /\ i \in 1..Len(s) + 1 /\ u[i].n \in Nat
             /\ i <= Len(s) => i \in Places(s, "packet") /\ u[i] = s[i]
             /\ i = Len(s) + 1 => u[i].n = latest
  <2>1. i \in 1..Len(s) + 1 /\ u[i].type = "packet" BY <1>1 DEF Places
  <2> QED BY <1>1, <2>1, NumbersOnLine DEF Places
<1>4. \A i \in Places(s, "packet") : s[i].n \in Nat /\ i <= Len(s)
  BY <1>1, NumbersOnLine
<1>5. now <= latest /\ \A e \in 1..Len(past) : past[e] <= latest
  BY <1>2 DEF InOrder
<1>6. ASSUME NEW i \in Places(u, "packet")
      PROVE  /\ now <= u[i].n /\ u[i].n <= latest
             /\ \A e \in 1..Len(past) : past[e] <= u[i].n
             /\ \A k \in Places(u, "packet") : i <= k => u[i].n <= u[k].n
  <2>1. CASE i = Len(s) + 1
    <3>1. ASSUME NEW k \in Places(u, "packet"), i <= k PROVE k = Len(s) + 1
      <4>1. k \in 1..Len(s) + 1 BY <1>3
      <4> QED BY <1>1, <2>1, <3>1, <4>1
    <3> QED BY <1>3, <1>5, <2>1, <3>1
  <2>2. CASE i <= Len(s)
    <3>1. i \in Places(s, "packet") /\ u[i].n = s[i].n BY <1>3, <2>2
    <3>2. s[i].n <= last /\ s[i].n <= latest BY <1>4, <3>1 DEF InOrder
    <3>3. ASSUME NEW k \in Places(u, "packet"), i <= k PROVE u[i].n <= u[k].n
      <4>1. CASE k = Len(s) + 1 BY <1>3, <3>1, <3>2, <4>1
      <4>2. CASE k <= Len(s) BY <1>3, <3>1, <3>3, <4>2 DEF InOrder
      <4> QED BY <1>1, <1>3, <4>1, <4>2
    <3> QED BY <3>1, <3>2, <3>3 DEF InOrder
  <2> QED BY <1>1, <1>3, <2>1, <2>2
<1>7. \A e \in 1..Len(past) - 1 : past[e] <= past[e + 1] BY DEF InOrder
<1>8. \A e \in 1..Len(past) : now # 0 => past[e] <= now BY DEF InOrder
<1>9. InOrder(past, now, u, latest) BY <1>5, <1>6, <1>7, <1>8 DEF InOrder
<1> QED BY <1>9 DEF u

\* of one whose first packet was damaged,
LEMMA OrderSpoilt ==
  ASSUME NEW past, NEW now, NEW last, NEW s \in Seq(Tokens), s # <<>>,
         Head(s).type = "packet", InOrder(past, now, s, last)
  PROVE  InOrder(past, now, Spoilt(s), last)
<1>1. Places(Spoilt(s), "packet") = Places(s, "packet") BY SpoiltLine DEF Places
<1>2. \A i \in Places(s, "packet") : Spoilt(s)[i].n = s[i].n
  BY SpoiltLine DEF Places
<1> QED BY <1>1, <1>2 DEF InOrder

\* and once the command under way is executed.
LEMMA OrderExecuted ==
  ASSUME NEW past \in Seq(1..MaxCommands), NEW now \in 1..MaxCommands,
         NEW s \in Seq(Tokens), NEW last \in Nat, InOrder(past, now, s, last)
  PROVE  InOrder(Append(past, now), 0, s, last)
<1> DEFINE more == Append(past, now)
<1>1. /\ Len(past) \in Nat /\ Len(more) = Len(past) + 1
      /\ \A e \in 1..Len(past) : more[e] = past[e] /\ past[e] \in Nat
      /\ more[Len(past) + 1] = now /\ now \in Nat
  BY AppendProperties, LenProperties, ElementOfSeq, ProtocolAssumption
     DEF ProtocolAssumption
<1> HIDE DEF more
<1>2. ASSUME NEW e \in 1..Len(more)
      PROVE  /\ more[e] <= last
             /\ \A i \in Places(s, "packet") : more[e] <= s[i].n
  <2>1. CASE e \in 1..Len(past) BY <1>1, <2>1 DEF InOrder
  <2>2. CASE e = Len(past) + 1 BY <1>1, <2>2 DEF InOrder
  <2> QED BY <1>1, <2>1, <2>2
<1>3. ASSUME NEW e \in 1..Len(more) - 1 PROVE more[e] <= more[e + 1]
  <2>1. CASE e \in 1..Len(past) - 1
    <3>1. e \in 1..Len(past) /\ e + 1 \in 1..Len(past) BY <1>1, <2>1
    <3> QED BY <1>1, <2>1, <3>1 DEF InOrder
  <2>2. CASE e = Len(past) BY <1>1, <2>2 DEF InOrder
  <2> QED BY <1>1, <2>1, <2>2
<1>4. \A i \in Places(s, "packet") :
        /\ 0 <= s[i].n /\ s[i].n <= last
        /\ \A k \in Places(s, "packet") : i <= k => s[i].n <= s[k].n
  BY NumbersOnLine DEF InOrder
<1>5. InOrder(more, 0, s, last) BY <1>2, <1>3, <1>4 DEF InOrder
<1> QED BY <1>5 DEF more

Ordered == InOrder(executed, handling, to_server, asked)

\* The server keeps the commands in order.
LEMMA ServerOrdered ==
  ASSUME Typed, Ordered, Server
  PROVE  Ordered'
<1>1. /\ executed \in Seq(1..MaxCommands) /\ to_server \in Seq(Tokens)
      /\ asked \in Nat /\ handling \in 0..MaxCommands
  BY DEF Typed, TypeOK
<1>2. ASSUME NEW type, Scans(type)
      PROVE  /\ asked' = asked /\ to_server # <<>> /\ to_server' = Tail(to_server)
             /\ InOrder(executed, 0, to_server, asked)
  BY <1>2, ScansTyped DEF Scans, Ordered
<1>3. ASSUME NEW type, Scans(type), handling' = 0, executed' = executed
      PROVE  Ordered'
  BY <1>1, <1>2, <1>3, OrderTail DEF Ordered
<1>4. CASE Plus
  <2>1. Scans("+") BY <1>4 DEF Plus
  <2> QED BY <1>3, <1>4, <2>1 DEF Plus, Scans
<1>5. CASE Minus
  <2>1. Scans("-") BY <1>5 DEF Minus
  <2> QED BY <1>3, <1>5, <2>1 DEF Minus, handles_nothing
<1>6. CASE PacketScanned
  <2>1. Scans("packet") BY <1>6 DEF PacketScanned
  <2>2. Head(to_server).type = "packet" BY <2>1, ScansTyped
  <2>3. handling' \in {0, Head(to_server).n} /\ executed' = executed
    BY <1>6 DEF PacketScanned
  <2> QED BY <1>1, <1>2, <2>1, <2>2, <2>3, OrderTail DEF Ordered
<1>7. CASE Stray
  <2>1. Scans("stray") BY <1>7 DEF Stray
  <2> QED BY <1>3, <1>7, <2>1 DEF Stray, Scans
<1>8. CASE EndOfFile
  <2>1. Scans("eof") BY <1>8 DEF EndOfFile
  <2> QED BY <1>3, <1>8, <2>1 DEF EndOfFile, Scans
<1>9. CASE Handle
  <2>1. /\ handling \in 1..MaxCommands /\ handling' = 0 /\ asked' = asked
        /\ executed' = Append(executed, handling) /\ to_server' = to_server
    BY <1>1, <1>9 DEF Handle, gdb
  <2> QED BY <1>1, <2>1, OrderExecuted DEF Ordered
<1> QED BY <1>4, <1>5, <1>6, <1>7, <1>8, <1>9 DEF Server, Scanning

\* gdb, its user and the lines keep the commands in order.
LEMMA OthersOrdered ==
  ASSUME Typed, Ordered, Ask \/ Gdb \/ Interrupt \/ Damage
  PROVE  Ordered'
<1>1. /\ executed \in Seq(1..MaxCommands) /\ to_server \in Seq(Tokens)
      /\ asked \in 0..MaxCommands /\ asked \in Nat /\ handling \in Nat
  BY DEF Typed, TypeOK
<1>2. ASSUME NEW t \in Tokens, Send(<<t>>), executed' = executed, handling' = handling,
             asked' = asked \/ asked' = asked + 1,
             t.type = "packet" => t.n = asked'
      PROVE  Ordered'
  <2>1. asked' \in Nat /\ asked <= asked' /\ to_server' = to_server \o <<t>>
    BY <1>1, <1>2 DEF Send
  <2> QED BY <1>1, <1>2, <2>1, OrderSend DEF Ordered
<1>3. ASSUME to_server' = to_server, executed' = executed, handling' = handling,
             asked' = asked
      PROVE  Ordered'
  BY <1>3 DEF Ordered
<1>4. \A type : Receives(type) =>
        executed' = executed /\ handling' = handling /\ asked' = asked
  BY DEF Receives, scanner
<1>5. /\ Ack \in Tokens /\ Nack \in Tokens /\ Byte("eof") \in Tokens
      /\ Byte("stray") \in Tokens /\ Byte("stray").type = "stray"
      /\ Ack.type = "+" /\ Nack.type = "-" /\ Byte("eof").type = "eof"
      /\ \A n \in 1..MaxCommands :
           Packet(n, TRUE) \in Tokens /\ Packet(n, TRUE).n = n
  BY TokensAre DEF Ack, Nack, Byte, Packet
<1>6. CASE Ask
  <2>1. asked + 1 \in 1..MaxCommands 
    BY <1>6, ProtocolAssumption DEF Ask, ProtocolAssumption, Typed, TypeOK
  <2>2. /\ Send(<<Packet(asked + 1, TRUE)>>) /\ asked' = asked + 1
        /\ executed' = executed /\ handling' = handling
    BY <1>6 DEF Ask, scanner
  <2> QED BY <1>2, <1>5, <2>1, <2>2
<1>7. CASE Acknowledged
  <2>1. Send(<<>>) => to_server' = to_server BY <1>1, ConcatEmptySeq DEF Send
  <2>2. executed' = executed /\ handling' = handling /\ asked' = asked
    BY <1>4, <1>7 DEF Acknowledged
  <2>3. Send(<<>>) \/ Send(<<Byte("eof")>>) BY <1>7 DEF Acknowledged
  <2> QED BY <1>2, <1>3, <1>5, <2>1, <2>2, <2>3
<1>8. CASE Refused
  <2>1. asked \in 1..MaxCommands BY <1>8 DEF Refused, Typed, TypeOK
  <2>2. executed' = executed /\ handling' = handling /\ asked' = asked
    BY <1>4, <1>8 DEF Refused
  <2>3. Send(<<Packet(asked, TRUE)>>) BY <1>8 DEF Refused
  <2> QED BY <1>2, <1>5, <2>1, <2>2, <2>3
<1>9. CASE Answered
  <2>1. executed' = executed /\ handling' = handling /\ asked' = asked
    BY <1>4, <1>9 DEF Answered
  <2>2. Send(<<Ack>>) \/ Send(<<Nack>>) BY <1>9 DEF Answered
  <2> QED BY <1>2, <1>5, <2>1, <2>2
<1>10. CASE Ignored
  <2>1. executed' = executed /\ handling' = handling /\ asked' = asked
    BY <1>4, <1>10 DEF Ignored
  <2> QED BY <1>3, <1>10, <2>1 DEF Ignored
<1>11. CASE Interrupt
  <2>1. /\ Send(<<Byte("stray")>>)
        /\ executed' = executed /\ handling' = handling /\ asked' = asked
    BY <1>11 DEF Interrupt, scanner, gdb
  <2> QED BY <1>2, <1>5, <2>1
<1>12. CASE Damage
  <2>1. executed' = executed /\ handling' = handling /\ asked' = asked
    BY <1>12 DEF Damage, scanner, gdb
  <2>2. \/ to_server' = to_server
        \/ /\ to_server # <<>> /\ Head(to_server).type = "packet"
           /\ to_server' = Spoilt(to_server)
    BY <1>12 DEF Damage, Spoilt
  <2> QED BY <1>1, <1>3, <2>1, <2>2, OrderSpoilt DEF Ordered
<1> QED BY <1>6, <1>7, <1>8, <1>9, <1>10, <1>11, <1>12 DEF Gdb

Repeats == Typed /\ Accounted /\ Ordered

\* The accounts and the order hold in every reachable state.
LEMMA RepeatsAlways == Spec => []Repeats
<1>1. Init => Repeats
  <2> SUFFICES ASSUME Init PROVE Repeats OBVIOUS
  <2>1. Typed
    BY ProtocolAssumption, EmptySeq DEF ProtocolAssumption, Init, Typed, TypeOK
  <2>2. Accounted
    BY NumberInNone DEF Init, Accounted, Owed, Executed, BeingHandled, PacketsSent,
                        StraysSent, Unexpected, Refusals
  <2>3. Places(<<>>, "packet") = {} BY DEF Places
  <2>4. Ordered BY <2>3 DEF Init, Ordered, InOrder
  <2> QED BY <2>1, <2>2, <2>4 DEF Repeats
<1>2. Repeats /\ [Next]_vars => Repeats'
  <2> SUFFICES ASSUME Repeats, [Next]_vars PROVE Repeats' OBVIOUS
  <2> USE DEF Repeats
  <2>1. CASE UNCHANGED vars
    BY <2>1 DEF vars, scanner, gdb, line, Typed, TypeOK, Accounted, Owed, Executed,
                BeingHandled, PacketsSent, StraysSent, Unexpected, Refusals, Ordered
  <2>2. CASE Server BY <2>2, ServerTyped, ServerAccounted, ServerOrdered
  <2>3. CASE Ask \/ Gdb \/ Interrupt \/ Damage
    BY <2>3, OthersTyped, OthersAccounted, OthersOrdered
  <2> QED BY <2>1, <2>2, <2>3 DEF Next
<1> QED BY <1>1, <1>2, PTL DEF Spec

\* However many stray bytes there are and packets the lines damage, no command is
\* executed after a later one, and each stray byte repeats one command at most.
THEOREM StrayBytesRepeatOne == Spec => []StrayRepeatsOne
<1>1. Repeats => StrayRepeatsOne
  <2> SUFFICES ASSUME Repeats PROVE StrayRepeatsOne OBVIOUS
  <2>1. \A i \in 1..Len(executed) - 1 : executed[i] <= executed[i + 1]
    BY DEF Repeats, Ordered, InOrder
  <2>2. Executed <= asked + strayed
    BY CountsAreNats DEF Repeats, Counts, Accounted, Owed
  <2> QED BY <2>1, <2>2 DEF StrayRepeatsOne, Executed
<1> QED BY RepeatsAlways, <1>1, PTL

-----------------------------------------------------------------------------
(* Without a stray byte. *)

FirstCalls(n) == [i \in 1..n |-> i]

Done == executed = FirstCalls(asked)
Undone == asked > 0 /\ executed = FirstCalls(asked - 1)

Serving(n) == answers = FirstCalls(n) /\ writable /\ server = "running"

\* A command, its acknowledgement and its answer are each in one place.
Resting ==
  /\ gdb_at = "nothing" /\ asked < Kill /\ Done /\ handling = 0 /\ Serving(asked)
  /\ to_server \in {<<>>, <<Ack>>} /\ to_client = <<>>

Sending ==
  /\ gdb_at = "ack" /\ Undone /\ handling = 0 /\ Serving(asked - 1)
  /\ to_client = <<>>
  /\ \/ to_server = <<Ack, Packet(asked, TRUE)>>
     \/ \E good \in BOOLEAN : to_server = <<Packet(asked, good)>>

Refusing ==
  /\ gdb_at = "ack" /\ Undone /\ handling = 0 /\ Serving(asked - 1)
  /\ to_server = <<>> /\ to_client = <<Nack>>

Handling ==
  /\ Undone /\ handling = asked /\ Serving(asked - 1)
  /\ \/ gdb_at = "ack" /\ to_server = <<>> /\ to_client = <<Ack>>
     \/ gdb_at = "answer" /\ asked < Kill /\ to_server = <<>> /\ to_client = <<>>
     \/ gdb_at = "gone" /\ asked = Kill /\ to_server = <<Byte("eof")>> /\ to_client = <<>>

Answering ==
  /\ 0 < asked /\ asked < Kill /\ Done /\ handling = 0 /\ packet = asked
  /\ Serving(asked - 1)
  /\ \/ gdb_at = "ack" /\ to_server = <<>> /\ to_client = <<Ack, Packet(asked, TRUE)>>
     \/ /\ gdb_at = "answer" /\ to_server = <<>>
        /\ \E good \in BOOLEAN : to_client = <<Packet(asked, good)>>
     \/ gdb_at = "answer" /\ to_server = <<Nack>> /\ to_client = <<>>

Killed ==
  /\ asked = Kill /\ Done /\ handling = 0
  /\ answers = FirstCalls(asked - 1) /\ ~writable /\ server = "running"
  /\ \/ gdb_at = "ack" /\ to_server = <<>> /\ to_client = <<Ack>>
     \/ gdb_at = "gone" /\ to_server = <<Byte("eof")>> /\ to_client = <<>>

Over ==
  /\ asked = Kill /\ Done /\ handling = 0 /\ gdb_at = "gone"
  /\ answers = FirstCalls(asked - 1) /\ ~writable /\ server = "ended"
  /\ to_server = <<>> /\ to_client = <<>>

Stage == Resting \/ Sending \/ Refusing \/ Handling \/ Answering \/ Killed \/ Over

Lockstep == strayed = 0 => len = 0 /\ Stage

\* The lines that hold one or two tokens.
LEMMA ShortTails ==
  /\ \A t : Head(<<t>>) = t /\ Tail(<<t>>) = <<>> /\ <<t>> # <<>>
  /\ \A t, u : Head(<<t, u>>) = t /\ Tail(<<t, u>>) = <<u>> /\ <<t, u>> # <<>>
  /\ \A t : <<>> \o <<t>> = <<t>> /\ <<t>> \o <<>> = <<t>>
  /\ \A t, u : <<t>> \o <<u>> = <<t, u>>
  /\ <<>> \o <<>> = <<>>
<1>1. \A t : Head(<<t>>) = t /\ Tail(<<t>>) = <<>> /\ <<t>> # <<>> OBVIOUS
<1>2. \A t, u : Head(<<t, u>>) = t /\ <<t, u>> # <<>> OBVIOUS
<1>3. ASSUME NEW t, NEW u PROVE Tail(<<t, u>>) = <<u>>
  <2>1. <<t, u>> \in Seq({t, u}) /\ <<u>> \in Seq({t, u}) /\ Len(<<t, u>>) = 2
    OBVIOUS
  <2>2. /\ Tail(<<t, u>>) \in Seq({t, u}) /\ Len(Tail(<<t, u>>)) = 1
        /\ \A i \in 1..1 : Tail(<<t, u>>)[i] = <<t, u>>[i + 1]
    BY <1>2, <2>1, HeadTailProperties
  <2> QED BY <2>1, <2>2, SeqEqual
<1>4. ASSUME NEW t PROVE <<>> \o <<t>> = <<t>> /\ <<t>> \o <<>> = <<t>>
  <2>1. <<t>> \in Seq({t}) OBVIOUS
  <2> QED BY <2>1, ConcatEmptySeq
<1>5. ASSUME NEW t, NEW u PROVE <<t>> \o <<u>> = <<t, u>>
  <2>1. /\ <<t, u>> \in Seq({t, u}) /\ Len(<<t, u>>) = 2
        /\ <<t>> \in Seq({t, u}) /\ Len(<<t>>) = 1
        /\ <<u>> \in Seq({t, u}) /\ Len(<<u>>) = 1
    OBVIOUS
  <2>2. /\ <<t>> \o <<u>> \in Seq({t, u}) /\ Len(<<t>> \o <<u>>) = 2
        /\ \A i \in 1..2 : (<<t>> \o <<u>>)[i] =
              IF i <= 1 THEN <<t>>[i] ELSE <<u>>[i - 1]
    BY <2>1, ConcatProperties
  <2>3. (<<t>> \o <<u>>)[1] = t /\ (<<t>> \o <<u>>)[2] = u BY <2>2
  <2>4. \A i \in 1..2 : (<<t>> \o <<u>>)[i] = <<t, u>>[i]
    <3>1. \A i \in 1..2 : i = 1 \/ i = 2 OBVIOUS
    <3> QED BY <2>3, <3>1
  <2> QED BY <2>1, <2>2, <2>4, SeqEqual
<1>6. <<>> \o <<>> = <<>> BY EmptySeq, ConcatEmptySeq
<1> QED BY <1>1, <1>2, <1>3, <1>4, <1>5, <1>6

\* The tokens by their types.
LEMMA TokenTypes ==
  /\ Ack.type = "+" /\ Nack.type = "-" /\ Byte("eof").type = "eof"
  /\ \A n, good : /\ Packet(n, good).type = "packet"
                  /\ Packet(n, good).n = n /\ Packet(n, good).good = good
BY DEF Ack, Nack, Byte, Packet

\* Damage to a line of one packet.
LEMMA SpoiltShort ==
  ASSUME NEW n, NEW good, NEW s, s = <<Packet(n, good)>>
  PROVE  Spoilt(s) = <<Packet(n, FALSE)>>
<1> DEFINE e == [s[1] EXCEPT !.good = FALSE]
<1>1. s[1] = Packet(n, good) /\ DOMAIN s = {1} OBVIOUS
<1>2. e = Packet(n, FALSE)
  <2> DEFINE spoilt == [type : {"packet"}, n : {n}, good : {FALSE}]
  <2>1. Packet(n, good) \in [type : {"packet"}, n : {n}, good : {good}] BY DEF Packet
  <2>2. e \in spoilt BY <1>1, <2>1
  <2>3. ASSUME NEW p \in spoilt PROVE p = Packet(n, FALSE)
    <3>1. p = [type |-> p.type, n |-> p.n, good |-> p.good] OBVIOUS
    <3>2. p.type = "packet" /\ p.n = n /\ p.good = FALSE OBVIOUS
    <3> QED BY <3>1, <3>2 DEF Packet
  <2> QED BY <2>2, <2>3
<1>3. Spoilt(s) = [s EXCEPT ![1] = e] BY DEF Spoilt
<1> HIDE DEF e
<1>4. [s EXCEPT ![1] = e] = <<e>> BY <1>1
<1> QED BY <1>2, <1>3, <1>4

\* The first calls and the next one are the first calls.
LEMMA NextCall ==
  ASSUME NEW n \in Nat
  PROVE  /\ Append(FirstCalls(n), n + 1) = FirstCalls(n + 1)
         /\ FirstCalls(n) \in Seq(Nat) /\ Len(FirstCalls(n)) = n
<1>1. FirstCalls(n) \in Seq(Nat) /\ FirstCalls(n + 1) \in Seq(Nat)
      /\ Len(FirstCalls(n)) = n /\ Len(FirstCalls(n + 1)) = n + 1
  BY DEF FirstCalls
<1>2. /\ Append(FirstCalls(n), n + 1) \in Seq(Nat)
      /\ Len(Append(FirstCalls(n), n + 1)) = n + 1
      /\ \A i \in 1..n : Append(FirstCalls(n), n + 1)[i] = FirstCalls(n)[i]
      /\ Append(FirstCalls(n), n + 1)[n + 1] = n + 1
  BY <1>1, AppendProperties
<1>3. \A i \in 1..n + 1 : Append(FirstCalls(n), n + 1)[i] = FirstCalls(n + 1)[i]
  BY <1>2 DEF FirstCalls
<1> QED BY <1>1, <1>2, <1>3, SeqEqual

\* What the server may read, and gdb, in each stage.
LEMMA AtServer ==
  ASSUME Stage, to_server # <<>>
  PROVE  /\ Head(to_server).type = "+" =>
              \/ Resting /\ to_server = <<Ack>>
              \/ Sending /\ to_server = <<Ack, Packet(asked, TRUE)>>
         /\ Head(to_server).type = "-" =>
              Answering /\ gdb_at = "answer" /\ to_server = <<Nack>>
         /\ Head(to_server).type = "packet" =>
              Sending /\ \E good \in BOOLEAN : to_server = <<Packet(asked, good)>>
         /\ Head(to_server).type = "eof" =>
              (Handling \/ Killed) /\ gdb_at = "gone" /\ to_server = <<Byte("eof")>>
         /\ Head(to_server).type # "stray"
<1>1. \/ Resting /\ to_server = <<Ack>>
      \/ Sending /\ to_server = <<Ack, Packet(asked, TRUE)>>
      \/ Sending /\ \E good \in BOOLEAN : to_server = <<Packet(asked, good)>>
      \/ (Handling \/ Killed) /\ gdb_at = "gone" /\ to_server = <<Byte("eof")>>
      \/ Answering /\ gdb_at = "answer" /\ to_server = <<Nack>>
  BY DEF Stage, Resting, Sending, Refusing, Handling, Answering, Killed, Over
<1>2. ASSUME NEW t, to_server = <<t>> PROVE Head(to_server) = t BY <1>2, ShortTails
<1>3. ASSUME NEW t, NEW u, to_server = <<t, u>> PROVE Head(to_server) = t
  BY <1>3, ShortTails
<1>4. CASE Resting /\ to_server = <<Ack>>
  BY <1>2, <1>4, TokenTypes
<1>5. CASE Sending /\ to_server = <<Ack, Packet(asked, TRUE)>>
  BY <1>3, <1>5, TokenTypes
<1>6. CASE Sending /\ \E good \in BOOLEAN : to_server = <<Packet(asked, good)>>
  BY <1>2, <1>6, TokenTypes
<1>7. CASE (Handling \/ Killed) /\ gdb_at = "gone" /\ to_server = <<Byte("eof")>>
  BY <1>2, <1>7, TokenTypes
<1>8. CASE Answering /\ gdb_at = "answer" /\ to_server = <<Nack>>
  BY <1>2, <1>8, TokenTypes
<1> QED BY <1>1, <1>4, <1>5, <1>6, <1>7, <1>8

\* Without stray bytes, what gdb has before it.
LEMMA AtClient ==
  ASSUME Stage, to_client # <<>>
  PROVE  /\ to_server = <<>>
         /\ Head(to_client).type = "+" =>
              /\ gdb_at = "ack"
              /\ \/ (Handling \/ Killed) /\ to_client = <<Ack>>
                 \/ Answering /\ to_client = <<Ack, Packet(asked, TRUE)>>
         /\ Head(to_client).type = "-" => Refusing
         /\ Head(to_client).type = "packet" =>
              /\ Answering /\ gdb_at = "answer"
              /\ \E good \in BOOLEAN : to_client = <<Packet(asked, good)>>
<1>1. /\ to_server = <<>>
      /\ \/ (Handling \/ Killed) /\ gdb_at = "ack" /\ to_client = <<Ack>>
         \/ Answering /\ gdb_at = "ack" /\ to_client = <<Ack, Packet(asked, TRUE)>>
         \/ Refusing /\ to_client = <<Nack>>
         \/ /\ Answering /\ gdb_at = "answer"
            /\ \E good \in BOOLEAN : to_client = <<Packet(asked, good)>>
  BY DEF Stage, Resting, Sending, Refusing, Handling, Answering, Killed, Over
<1>2. ASSUME NEW t, to_client = <<t>> PROVE Head(to_client) = t BY <1>2, ShortTails
<1>3. ASSUME NEW t, NEW u, to_client = <<t, u>> PROVE Head(to_client) = t
  BY <1>3, ShortTails
<1>4. CASE (Handling \/ Killed) /\ gdb_at = "ack" /\ to_client = <<Ack>>
  BY <1>1, <1>2, <1>4, TokenTypes
<1>5. CASE Answering /\ gdb_at = "ack" /\ to_client = <<Ack, Packet(asked, TRUE)>>
  BY <1>1, <1>3, <1>5, TokenTypes
<1>6. CASE Refusing /\ to_client = <<Nack>>
  BY <1>1, <1>2, <1>6, TokenTypes
<1>7. CASE /\ Answering /\ gdb_at = "answer"
           /\ \E good \in BOOLEAN : to_client = <<Packet(asked, good)>>
  BY <1>1, <1>2, <1>7, TokenTypes
<1> QED BY <1>1, <1>4, <1>5, <1>6, <1>7

\* Nothing unexpected has been read: the server only answers.
LEMMA NoError ==
  ASSUME len = 0
  PROVE  /\ handle_error = <<>>
         /\ handle_error \o <<>> = <<>>
         /\ \A t : handle_error \o <<t>> = <<t>>
BY ShortTails DEF handle_error

\* Each rule of the scanner keeps both ends in step: an acknowledgement,
LEMMA PlusInStep ==
  ASSUME len = 0, Stage, Plus
  PROVE  Stage'
<1>1. /\ Scans("+") /\ to_server # <<>> /\ Head(to_server).type = "+"
      /\ to_server' = Tail(to_server)
  BY DEF Plus, Scans
<1>2. UNCHANGED <<packet, handling, writable, executed, gdb_at, asked, answers>>
  BY <1>1 DEF Plus, Scans, gdb
<1>3. CASE Resting /\ to_server = <<Ack>>
  <2>1. to_server' = <<>> BY <1>1, <1>3, ShortTails
  <2>2. to_client' = <<>> /\ server' = server
    BY <1>3, NoError, ShortTails DEF Plus, Write, Resting
  <2>3. Resting' BY <1>2, <1>3, <2>1, <2>2 DEF Resting, Done, Serving
  <2> QED BY <2>3 DEF Stage
<1>4. CASE Sending /\ to_server = <<Ack, Packet(asked, TRUE)>>
  <2>1. to_server' = <<Packet(asked', TRUE)>> BY <1>1, <1>2, <1>4, ShortTails
  <2>2. to_client' = <<>> /\ server' = server
    BY <1>4, NoError, ShortTails DEF Plus, Write, Sending
  <2>3. Sending' BY <1>2, <1>4, <2>1, <2>2 DEF Sending, Undone, Serving
  <2> QED BY <2>3 DEF Stage
<1> QED BY <1>1, <1>3, <1>4, AtServer

\* a refusal, after which the last packet is sent again,
LEMMA MinusInStep ==
  ASSUME len = 0, Stage, Minus
  PROVE  Stage'
<1>1. /\ Scans("-") /\ to_server # <<>> /\ Head(to_server).type = "-"
      /\ to_server' = Tail(to_server)
  BY DEF Minus, Scans
<1>2. UNCHANGED <<packet, writable, executed, gdb_at, asked, answers>>
  BY <1>1 DEF Minus, Scans, gdb
<1>3. Answering /\ gdb_at = "answer" /\ to_server = <<Nack>> BY <1>1, AtServer
<1>4. to_server' = <<>> BY <1>1, <1>3, ShortTails
<1>5. packet # 0 /\ packet = asked /\ to_client = <<>> /\ writable
  BY <1>3, ShortTails DEF Answering, Serving
<1>6. gdb_transmit_packet = <<Packet(asked, TRUE)>>
  BY <1>5 DEF gdb_transmit_packet
<1>7. to_client' = <<Packet(asked', TRUE)>> /\ server' = server
  BY <1>2, <1>5, <1>6, NoError, ShortTails DEF Minus, Write
<1>8. handling' = 0 BY DEF Minus, handles_nothing
<1>9. Answering' BY <1>2, <1>3, <1>4, <1>7, <1>8 DEF Answering, Done, Serving
<1> QED BY <1>9 DEF Stage

\* a packet, acknowledged or refused,
LEMMA PacketInStep ==
  ASSUME len = 0, Stage, PacketScanned
  PROVE  Stage'
<1> DEFINE p == Head(to_server)
<1>1. /\ Scans("packet") /\ to_server # <<>> /\ p.type = "packet"
      /\ to_server' = Tail(to_server)
  BY DEF PacketScanned, Scans
<1>2. UNCHANGED <<packet, writable, executed, gdb_at, asked, answers>>
  BY <1>1 DEF PacketScanned, Scans, gdb
<1>3. PICK good \in BOOLEAN : Sending /\ to_server = <<Packet(asked, good)>>
  BY <1>1, AtServer
<1>4. to_server' = <<>> /\ p = Packet(asked, good) /\ p.n = asked /\ p.good = good
  BY <1>1, <1>3, ShortTails, TokenTypes
<1>5. to_client = <<>> /\ writable BY <1>3 DEF Sending, Serving
<1>6. Write(handle_error \o verdict(p)) /\ handling' = IF p.good THEN p.n ELSE 0
  BY DEF PacketScanned
<1> HIDE DEF p
<1>7. CASE good = TRUE
  <2>1. verdict(p) = <<Ack>> BY <1>4, <1>7 DEF verdict
  <2>2. to_client' = <<Ack>> /\ server' = server
    BY <1>5, <1>6, <2>1, NoError, ShortTails DEF Write
  <2>3. handling' = asked' BY <1>2, <1>4, <1>6, <1>7
  <2>4. Handling'
    BY <1>2, <1>3, <1>4, <2>2, <2>3 DEF Sending, Handling, Undone, Serving
  <2> QED BY <2>4 DEF Stage
<1>8. CASE good = FALSE
  <2>1. verdict(p) = <<Nack>> BY <1>4, <1>8 DEF verdict
  <2>2. to_client' = <<Nack>> /\ server' = server
    BY <1>5, <1>6, <2>1, NoError, ShortTails DEF Write
  <2>3. handling' = 0 BY <1>4, <1>6, <1>8
  <2>4. Refusing'
    BY <1>2, <1>3, <1>4, <2>2, <2>3 DEF Sending, Refusing, Undone, Serving
  <2> QED BY <2>4 DEF Stage
<1> QED BY <1>7, <1>8

\* and the end of the connection.
LEMMA EndInStep ==
  ASSUME len = 0, Stage, EndOfFile
  PROVE  Stage'
<1>1. /\ Scans("eof") /\ to_server # <<>> /\ Head(to_server).type = "eof"
      /\ to_server' = Tail(to_server) /\ handling = 0
  BY DEF EndOfFile, Scans
<1>2. UNCHANGED <<packet, handling, writable, executed, gdb_at, asked, answers>>
  BY <1>1 DEF EndOfFile, Scans, gdb
<1>3. (Handling \/ Killed) /\ gdb_at = "gone" /\ to_server = <<Byte("eof")>>
  BY <1>1, AtServer
<1>4. Killed BY <1>1, <1>3 DEF Handling, Undone
<1>5. to_server' = <<>> BY <1>1, <1>3, ShortTails
<1>6. to_client = <<>> BY <1>3, <1>4 DEF Killed
<1>7. server' = "ended" /\ to_client' = <<>>
  BY <1>6, NoError, ShortTails DEF EndOfFile
<1>8. Over' BY <1>2, <1>3, <1>4, <1>5, <1>7 DEF Killed, Over, Done
<1> QED BY <1>8 DEF Stage

\* The handler executes the command asked and answers.
LEMMA HandleInStep ==
  ASSUME Typed, Stage, Handle
  PROVE  Stage'
<1>1. handling # 0 /\ UNCHANGED <<to_server, gdb_at, asked, answers>>
  BY DEF Handle, gdb
<1>2. Handling
  BY <1>1 DEF Stage, Resting, Sending, Refusing, Handling, Answering, Killed, Over
<1>3. asked \in 1..MaxCommands BY <1>2 DEF Typed, TypeOK, Handling, Undone
<1>4. executed' = FirstCalls(asked')
  <2>1. asked - 1 \in Nat /\ asked - 1 + 1 = asked BY <1>3
  <2>2. Append(FirstCalls(asked - 1), asked) = FirstCalls(asked) BY <2>1, NextCall
  <2> QED BY <1>1, <1>2, <2>2 DEF Handle, Handling, Undone
<1>5. CASE asked = Kill
  <2>1. /\ writable' = FALSE /\ handling' = 0
        /\ UNCHANGED <<packet, to_client, server>>
    BY <1>2, <1>5 DEF Handle, shuts, Handling
  <2>2. ~(asked < Kill) BY <1>3, <1>5
  <2>3. \/ gdb_at = "ack" /\ to_server = <<>> /\ to_client = <<Ack>>
        \/ gdb_at = "gone" /\ to_server = <<Byte("eof")>> /\ to_client = <<>>
    BY <1>2, <2>2 DEF Handling
  <2>4. Killed'
    BY <1>1, <1>2, <1>4, <1>5, <2>1, <2>3 DEF Handling, Killed, Done, Serving
  <2> QED BY <2>4 DEF Stage
<1>6. CASE asked # Kill
  <2>1. 0 < asked /\ asked < Kill BY <1>3, <1>6, ProtocolAssumption DEF Kill, ProtocolAssumption
  <2>2. /\ packet' = asked' /\ Write(<<Packet(asked, TRUE)>>) /\ handling' = 0
        /\ writable' = writable
    BY <1>1, <1>2, <1>6 DEF Handle, shuts, Handling, Serving
  <2>3. to_client' = to_client \o <<Packet(asked, TRUE)>> /\ server' = server
    BY <1>2, <2>2 DEF Write, Handling, Serving
  <2>4. CASE gdb_at = "ack"
    <3>1. to_client = <<Ack>> /\ to_server = <<>>
      BY <1>2, <2>4 DEF Handling
    <3>2. to_client' = <<Ack, Packet(asked', TRUE)>>
      BY <1>1, <2>3, <3>1, ShortTails
    <3>3. Answering'
      BY <1>1, <1>2, <1>4, <2>1, <2>2, <2>3, <2>4, <3>1, <3>2
         DEF Handling, Answering, Done, Serving
    <3> QED BY <3>3 DEF Stage
  <2>5. CASE gdb_at = "answer"
    <3>1. to_client = <<>> /\ to_server = <<>>
      BY <1>2, <2>5 DEF Handling
    <3>2. to_client' = <<Packet(asked', TRUE)>>
      BY <1>1, <2>3, <3>1, ShortTails
    <3>3. Answering'
      BY <1>1, <1>2, <1>4, <2>1, <2>2, <2>3, <2>5, <3>1, <3>2
         DEF Handling, Answering, Done, Serving
    <3> QED BY <3>3 DEF Stage
  <2> QED BY <1>2, <1>6, <2>4, <2>5 DEF Handling
<1> QED BY <1>5, <1>6

\* The server keeps both ends in step and its error buffer empty.
LEMMA ServerInStep ==
  ASSUME Typed, len = 0, Stage, Server
  PROVE  len' = 0 /\ Stage'
<1>1. ~Stray BY AtServer DEF Stray, Scans
<1>2. len' = 0
  BY <1>1 DEF Server, Scanning, Plus, Minus, PacketScanned, EndOfFile, Handle
<1> QED BY <1>1, <1>2, PlusInStep, MinusInStep, PacketInStep, EndInStep, HandleInStep
        DEF Server, Scanning

\* gdb keeps both ends in step: a command asked,
LEMMA AskInStep ==
  ASSUME Typed, Stage, Ask
  PROVE  Stage'
<1>1. /\ gdb_at' = "ack" /\ asked' = asked + 1 /\ asked \in Nat
      /\ to_server' = to_server \o <<Packet(asked + 1, TRUE)>>
      /\ UNCHANGED <<to_client, handling, writable, server, executed, answers>>
  BY DEF Ask, Send, scanner, Typed, TypeOK
<1>2. Resting
  BY DEF Ask, Stage, Resting, Sending, Refusing, Handling, Answering, Killed, Over
<1>3. asked' > 0 /\ asked' - 1 = asked BY <1>1
<1>4. Undone' /\ Serving(asked - 1)' BY <1>1, <1>2, <1>3 DEF Undone, Resting, Done, Serving
<1>5. CASE to_server = <<>>
  <2>1. to_server' = <<Packet(asked', TRUE)>> BY <1>1, <1>5, ShortTails
  <2> QED BY <1>1, <1>2, <1>4, <2>1 DEF Resting, Sending, Stage
<1>6. CASE to_server = <<Ack>>
  <2>1. to_server' = <<Ack, Packet(asked', TRUE)>> BY <1>1, <1>6, ShortTails
  <2> QED BY <1>1, <1>2, <1>4, <2>1 DEF Resting, Sending, Stage
<1> QED BY <1>2, <1>5, <1>6 DEF Resting

\* an acknowledgement read,
LEMMA AcknowledgedInStep ==
  ASSUME Typed, Stage, Acknowledged
  PROVE  Stage'
<1>1. /\ to_client # <<>> /\ Head(to_client).type = "+" /\ to_client' = Tail(to_client)
      /\ UNCHANGED <<asked, packet, handling, writable, server, executed, answers>>
      /\ \/ asked # Kill /\ gdb_at' = "answer" /\ to_server' = to_server \o <<>>
         \/ asked = Kill /\ gdb_at' = "gone" /\ to_server' = to_server \o <<Byte("eof")>>
  BY DEF Acknowledged, Receives, Send, scanner
<1>2. to_server = <<>> BY <1>1, AtClient
<1>3. \/ asked # Kill /\ gdb_at' = "answer" /\ to_server' = <<>>
      \/ asked = Kill /\ gdb_at' = "gone" /\ to_server' = <<Byte("eof")>>
  BY <1>1, <1>2, ShortTails
<1>4. asked \in 0..MaxCommands BY DEF Typed, TypeOK
<1>5. CASE Handling /\ to_client = <<Ack>>
  <2>1. to_client' = <<>> BY <1>1, <1>5, ShortTails
  <2>2. asked # Kill => asked < Kill
    BY <1>4, ProtocolAssumption DEF Kill, ProtocolAssumption
  <2> QED BY <1>1, <1>3, <1>5, <2>1, <2>2 DEF Handling, Undone, Serving, Stage
<1>6. CASE Killed /\ to_client = <<Ack>>
  <2>1. to_client' = <<>> BY <1>1, <1>6, ShortTails
  <2> QED BY <1>1, <1>3, <1>6, <2>1 DEF Killed, Done, Stage
<1>7. CASE Answering /\ to_client = <<Ack, Packet(asked, TRUE)>>
  <2>1. to_client' = <<Packet(asked', TRUE)>> BY <1>1, <1>7, ShortTails
  <2>2. asked # Kill BY <1>4, <1>7 DEF Answering
  <2> QED BY <1>1, <1>3, <1>7, <2>1, <2>2 DEF Answering, Done, Serving, Stage
<1> QED BY <1>1, <1>5, <1>6, <1>7, AtClient

\* a refusal, after which it sends the command again,
LEMMA RefusedInStep ==
  ASSUME Stage, Refused
  PROVE  Stage'
<1>1. /\ to_client # <<>> /\ Head(to_client).type = "-" /\ to_client' = Tail(to_client)
      /\ UNCHANGED <<asked, packet, handling, writable, server, executed, answers, gdb_at>>
      /\ to_server' = to_server \o <<Packet(asked, TRUE)>>
  BY DEF Refused, Receives, Send, scanner
<1>2. Refusing BY <1>1, AtClient
<1>3. to_client' = <<>> BY <1>1, <1>2, ShortTails DEF Refusing
<1>4. to_server' = <<Packet(asked', TRUE)>> BY <1>1, <1>2, ShortTails DEF Refusing
<1> QED BY <1>1, <1>2, <1>3, <1>4 DEF Refusing, Sending, Undone, Serving, Stage

\* and an answer, acknowledged or refused.
LEMMA AnsweredInStep ==
  ASSUME Typed, Stage, Answered
  PROVE  /\ Stage' /\ Answering
         /\ UNCHANGED <<asked, executed>>
         /\ answers' = answers \/ answers' = Append(answers, asked)
<1>1. /\ to_client # <<>> /\ Head(to_client).type = "packet"
      /\ to_client' = Tail(to_client)
      /\ UNCHANGED <<asked, packet, handling, writable, server, executed>>
  BY DEF Answered, Receives, scanner
<1>2. Answering /\ to_server = <<>> BY <1>1, AtClient
<1>3. PICK good \in BOOLEAN : to_client = <<Packet(asked, good)>> BY <1>1, AtClient
<1>4. /\ to_client' = <<>>
      /\ Head(to_client).good = good /\ Head(to_client).n = asked
  BY <1>1, <1>3, ShortTails, TokenTypes
<1>5. asked - 1 \in Nat /\ asked - 1 + 1 = asked
  BY <1>2 DEF Answering, Typed, TypeOK
<1>6. CASE good = TRUE
  <2>1. /\ gdb_at' = "nothing" /\ answers' = Append(answers, asked)
        /\ to_server' = to_server \o <<Ack>>
    BY <1>4, <1>6 DEF Answered, Send
  <2>2. to_server' = <<Ack>> BY <1>2, <2>1, ShortTails
  <2>3. answers' = FirstCalls(asked')
    <3>1. Append(FirstCalls(asked - 1), asked) = FirstCalls(asked) BY <1>5, NextCall
    <3> QED BY <1>1, <1>2, <2>1, <3>1 DEF Answering, Serving
  <2>4. Resting'
    BY <1>1, <1>2, <1>4, <2>1, <2>2, <2>3 DEF Answering, Resting, Done, Serving
  <2> QED BY <1>1, <1>2, <2>1, <2>4 DEF Stage
<1>7. CASE good = FALSE
  <2>1. /\ gdb_at' = gdb_at /\ answers' = answers
        /\ to_server' = to_server \o <<Nack>>
    BY <1>4, <1>7 DEF Answered, Send
  <2>2. to_server' = <<Nack>> BY <1>2, <2>1, ShortTails
  <2>3. gdb_at = "answer" BY DEF Answered
  <2>4. Answering'
    BY <1>1, <1>2, <1>4, <2>1, <2>2, <2>3 DEF Answering, Done, Serving
  <2> QED BY <1>1, <1>2, <2>1, <2>4 DEF Stage
<1> QED BY <1>6, <1>7

\* Nothing reaches gdb that it does not wait for.
LEMMA NoneIgnored ==
  ASSUME Stage
  PROVE  ~Ignored
<1>1. ~(gdb_at = "ack" /\ Receives("packet")) BY AtClient DEF Receives
<1>2. ~(gdb_at = "answer" /\ Receives("+")) BY AtClient DEF Receives
<1>3. ~(gdb_at = "answer" /\ Receives("-")) BY AtClient DEF Receives, Refusing
<1> QED BY <1>1, <1>2, <1>3 DEF Ignored

\* A line that damages its packet keeps both ends in step.
LEMMA DamageInStep ==
  ASSUME Stage, Damage
  PROVE  Stage'
<1>1. UNCHANGED <<asked, packet, handling, writable, server, executed, answers, gdb_at>>
  BY DEF Damage, scanner, gdb
<1>2. CASE /\ to_server # <<>> /\ Head(to_server).type = "packet"
           /\ to_server' = Spoilt(to_server) /\ to_client' = to_client
  <2>1. PICK good \in BOOLEAN : Sending /\ to_server = <<Packet(asked, good)>>
    BY <1>2, AtServer
  <2>2. to_server' = <<Packet(asked', FALSE)>> BY <1>1, <1>2, <2>1, SpoiltShort
  <2> QED BY <1>1, <1>2, <2>1, <2>2 DEF Sending, Undone, Serving, Stage
<1>3. CASE /\ to_client # <<>> /\ Head(to_client).type = "packet"
           /\ to_client' = Spoilt(to_client) /\ to_server' = to_server
  <2>1. Answering /\ gdb_at = "answer" /\ to_server = <<>> BY <1>3, AtClient
  <2>2. PICK good \in BOOLEAN : to_client = <<Packet(asked, good)>> BY <1>3, AtClient
  <2>3. to_client' = <<Packet(asked', FALSE)>> BY <1>1, <1>3, <2>2, SpoiltShort
  <2> QED BY <1>1, <1>3, <2>1, <2>3 DEF Answering, Done, Serving, Stage
<1> QED BY <1>2, <1>3 DEF Damage, Spoilt

\* Every step without stray bytes keeps both ends in step.
LEMMA LockstepKept ==
  ASSUME Typed, Lockstep, [Next]_vars
  PROVE  Lockstep'
<1> SUFFICES ASSUME strayed' = 0 PROVE len' = 0 /\ Stage' BY DEF Lockstep
<1>1. strayed = 0 /\ ~Interrupt
  <2>1. strayed \in Nat BY DEF Typed, TypeOK
  <2>2. ~Interrupt BY <2>1 DEF Interrupt
  <2>3. strayed' = strayed
    BY <2>2 DEF Next, vars, line, Server, Scanning, Plus, Minus, PacketScanned, Stray, EndOfFile,
                Handle, Scans, Ask, Gdb, Acknowledged, Refused, Answered, Ignored,
                Receives, Damage
  <2> QED BY <2>2, <2>3
<1>2. len = 0 /\ Stage BY <1>1 DEF Lockstep
<1>3. CASE Server BY <1>2, <1>3, ServerInStep
<1>4. CASE UNCHANGED vars
  BY <1>2, <1>4 DEF vars, scanner, gdb, line, Stage, Resting, Sending, Refusing, Handling,
                    Answering, Killed, Over, Done, Undone, Serving
<1>5. CASE Ask \/ Gdb \/ Damage
  <2>1. len' = 0
    BY <1>2, <1>5 DEF Ask, Gdb, Acknowledged, Refused, Answered, Ignored, Receives, Damage,
                      scanner
  <2> QED
    BY <1>2, <1>5, <2>1, AskInStep, AcknowledgedInStep, RefusedInStep, AnsweredInStep,
       NoneIgnored, DamageInStep DEF Gdb
<1> QED BY <1>1, <1>3, <1>4, <1>5 DEF Next

\* Both ends are in step in every reachable state without stray bytes.
LEMMA LockstepAlways == Spec => []Lockstep
<1>1. Init => Lockstep
  BY ProtocolAssumption
     DEF ProtocolAssumption, Init, Lockstep, Stage, Resting, Done, Serving, FirstCalls, Kill
<1> QED BY TypedAlways, <1>1, LockstepKept, PTL DEF Spec

\* As long as no stray byte has arrived, the server never writes to the connection
\* it has shut: it ends with the connection.
THEOREM ServerEndsInOrder == Spec => []EndsInOrder
<1>1. Lockstep => EndsInOrder
  BY DEF Lockstep, Stage, Resting, Sending, Refusing, Handling, Answering, Killed, Over,
         Serving, EndsInOrder
<1> QED BY LockstepAlways, <1>1, PTL

-----------------------------------------------------------------------------
(* The calls. *)

\* The number of commands up to n that gdb awaits an answer to.
ButKill(n) == IF n = Kill THEN n - 1 ELSE n

\* Leaving out the last command, k, of those executed.
LEMMA BeforeKill ==
  ASSUME NEW n \in 0..MaxCommands
  PROVE  before_kill(FirstCalls(n)) = FirstCalls(ButKill(n))
<1>1. /\ Kill \in Nat \ {0} /\ MaxCommands = Kill
  BY ProtocolAssumption DEF ProtocolAssumption, Kill
<1>2. n \in Nat BY <1>1
<1>3. FirstCalls(n) \in Seq(Nat) /\ Len(FirstCalls(n)) = n BY <1>2, NextCall
<1>4. CASE n = Kill
  <2>1. FirstCalls(n) # <<>> /\ FirstCalls(n)[n] = Kill
    BY <1>1, <1>3, <1>4 DEF FirstCalls
  <2>2. n - 1 \in Nat /\ n - 1 <= n BY <1>1, <1>4
  <2>3. FirstCalls(n - 1) \in Seq(Nat) /\ Len(FirstCalls(n - 1)) = n - 1
    BY <2>2, NextCall
  <2>4. /\ SubSeq(FirstCalls(n), 1, n - 1) \in Seq(Nat)
        /\ Len(SubSeq(FirstCalls(n), 1, n - 1)) = n - 1
        /\ \A i \in 1..n - 1 : SubSeq(FirstCalls(n), 1, n - 1)[i] = FirstCalls(n)[i]
    BY <1>2, <1>3, <2>2
  <2>5. \A i \in 1..n - 1 : FirstCalls(n)[i] = FirstCalls(n - 1)[i]
    BY <1>2 DEF FirstCalls
  <2>6. SubSeq(FirstCalls(n), 1, n - 1) = FirstCalls(n - 1)
    BY <2>3, <2>4, <2>5, SeqEqual
  <2> QED BY <1>3, <1>4, <2>1, <2>6 DEF before_kill, ButKill
<1>5. CASE n # Kill
  <2>1. ~(FirstCalls(n) # <<>> /\ FirstCalls(n)[n] = Kill)
    <3>1. CASE n = 0 BY <1>3, <3>1
    <3>2. CASE n # 0 BY <1>2, <1>5, <3>2 DEF FirstCalls
    <3> QED BY <3>1, <3>2
  <2> QED BY <1>3, <1>5, <2>1 DEF before_kill, ButKill
<1> QED BY <1>4, <1>5

\* gdb asks for its next command, unless it is k.
LEMMA AskIsCall ==
  ASSUME Typed, Stage, strayed = 0, Ask
  PROVE  [Calls!Next]_Calls!vars
<1>1. /\ asked' = asked + 1 /\ asked \in Nat /\ asked < Kill
      /\ UNCHANGED <<executed, answers, strayed>>
  BY DEF Ask, scanner, line, Typed, TypeOK, Kill
<1>2. Resting
  BY DEF Ask, Stage, Resting, Sending, Refusing, Handling, Answering, Killed, Over
<1>3. Len(answers) = asked BY <1>1, <1>2, NextCall DEF Resting, Serving
<1>4. Kill \in Nat BY ProtocolAssumption DEF ProtocolAssumption, Kill
<1>5. ButKill(asked) = asked BY <1>1, <1>4 DEF ButKill
<1>6. CASE asked + 1 = Kill
  <2>1. ButKill(asked + 1) = asked BY <1>1, <1>6 DEF ButKill
  <2> QED BY <1>1, <1>5, <2>1 DEF Calls!vars, ButKill
<1>7. CASE asked + 1 # Kill
  <2>1. ButKill(asked + 1) = asked + 1 BY <1>7 DEF ButKill
  <2>2. asked < MaxCommands - 1 BY <1>1, <1>4, <1>7 DEF Kill
  <2> QED BY <1>1, <1>3, <1>5, <2>1, <2>2 DEF Calls!Next, Calls!Ask, ButKill
<1> QED BY <1>6, <1>7

\* The server executes the command gdb has asked for, unless it is k.
LEMMA HandleIsCall ==
  ASSUME Typed, Stage, strayed = 0, Handle
  PROVE  [Calls!Next]_Calls!vars
<1>1. handling # 0 /\ UNCHANGED <<asked, answers, strayed>> BY DEF Handle, gdb, line
<1>2. Handling
  BY <1>1 DEF Stage, Resting, Sending, Refusing, Handling, Answering, Killed, Over
<1>3. asked \in 1..MaxCommands BY <1>2 DEF Typed, TypeOK, Handling, Undone
<1>4. asked - 1 \in Nat /\ asked - 1 + 1 = asked BY <1>3
<1>5. /\ asked - 1 \in 0..MaxCommands /\ asked \in 0..MaxCommands
      /\ ButKill(asked - 1) = asked - 1
  BY <1>3, ProtocolAssumption DEF ButKill, Kill, ProtocolAssumption
<1>6. executed = FirstCalls(asked - 1) /\ executed' = Append(executed, asked)
  BY <1>2 DEF Handle, Handling, Undone
<1>7. executed' = FirstCalls(asked) BY <1>4, <1>6, NextCall
<1>8. /\ before_kill(executed) = FirstCalls(asked - 1)
      /\ before_kill(executed)' = FirstCalls(ButKill(asked))
  <2>1. before_kill(FirstCalls(asked - 1)) = FirstCalls(asked - 1)
    BY <1>5, BeforeKill
  <2>2. before_kill(FirstCalls(asked)) = FirstCalls(ButKill(asked))
    BY <1>5, BeforeKill
  <2>3. before_kill(executed)' = before_kill(FirstCalls(asked))
    BY <1>7 DEF before_kill, Kill
  <2> QED BY <1>6, <2>1, <2>2, <2>3
<1>9. CASE asked = Kill
  <2>1. ButKill(asked) = asked - 1 BY <1>9 DEF ButKill
  <2> QED BY <1>1, <1>8, <2>1 DEF Calls!vars, Kill
<1>10. CASE asked # Kill
  <2>1. ButKill(asked) = asked BY <1>10 DEF ButKill
  <2>2. Len(FirstCalls(asked - 1)) = asked - 1 /\ asked - 1 < asked
    BY <1>3, <1>4, NextCall
  <2>3. Append(FirstCalls(asked - 1), asked) = FirstCalls(asked) BY <1>4, NextCall
  <2>4. Calls!Execute
    BY <1>1, <1>8, <1>10, <2>1, <2>2, <2>3 DEF Calls!Execute, Kill
  <2> QED BY <2>4 DEF Calls!Next
<1> QED BY <1>9, <1>10

\* gdb takes the answer to the last command it has asked for.
LEMMA AnsweredIsCall ==
  ASSUME Typed, Stage, strayed = 0, Answered
  PROVE  [Calls!Next]_Calls!vars
<1>1. /\ Answering /\ UNCHANGED <<asked, executed, strayed>>
      /\ answers' = answers \/ answers' = Append(answers, asked)
  BY AnsweredInStep DEF Answered, Receives, line
<1>2. /\ asked \in Nat /\ asked > 0 /\ asked # Kill /\ asked \in 0..MaxCommands
      /\ executed = FirstCalls(asked) /\ answers = FirstCalls(asked - 1)
  <2>1. Kill \in Nat /\ MaxCommands = Kill
    BY ProtocolAssumption DEF ProtocolAssumption, Kill
  <2> QED BY <1>1, <2>1 DEF Typed, TypeOK, Answering, Done, Serving
<1>3. before_kill(executed) = FirstCalls(asked) /\ before_kill(executed)' = before_kill(executed)
  BY <1>1, <1>2, BeforeKill DEF ButKill
<1>4. CASE answers' = answers BY <1>1, <1>3, <1>4 DEF Calls!vars
<1>5. CASE answers' = Append(answers, asked)
  <2>1. asked - 1 \in Nat /\ asked - 1 < asked /\ asked - 1 + 1 = asked BY <1>2
  <2>2. Len(answers) = asked - 1 /\ Len(FirstCalls(asked)) = asked
    BY <1>2, <2>1, NextCall
  <2>3. FirstCalls(asked)[asked] = asked BY <1>2 DEF FirstCalls
  <2>4. /\ Len(answers) < Len(before_kill(executed))
        /\ before_kill(executed)[Len(answers) + 1] = asked
    BY <1>3, <2>1, <2>2, <2>3
  <2>5. answers' = Append(answers, before_kill(executed)[Len(answers) + 1])
    BY <1>5, <2>4
  <2>6. Calls!Answer
    BY <1>1, <1>3, <2>4, <2>5 DEF Calls!Answer, Kill
  <2> QED BY <2>6 DEF Calls!Next
<1> QED BY <1>1, <1>4, <1>5

\* The other steps leave the calls alone, as long as no stray byte comes.
LEMMA OtherIsNoCall ==
  ASSUME strayed = 0, strayed' = 0, [Next]_vars, ~(Ask \/ Handle \/ Answered)
  PROVE  UNCHANGED Calls!vars
<1>1. UNCHANGED <<asked, executed, answers>>
  BY DEF Next, vars, scanner, gdb, Server, Scanning, Plus, Minus, PacketScanned, Stray,
         EndOfFile, Scans, Gdb, Acknowledged, Refused, Ignored, Receives, Interrupt,
         Damage
<1>2. before_kill(executed)' = before_kill(executed) BY <1>1
<1> QED BY <1>1, <1>2 DEF Calls!vars, Kill

\* Every step of the transport is a step of the calls or leaves them alone.
LEMMA StepIsCall ==
  ASSUME Typed, Lockstep, [Next]_vars
  PROVE  [Calls!Next]_Calls!vars
<1>1. CASE strayed' # 0
  <2>1. Calls!OutOfStep BY <1>1 DEF Calls!OutOfStep
  <2> QED BY <2>1 DEF Calls!Next
<1>2. CASE strayed' = 0
  <2>1. strayed = 0
    BY <1>2 DEF Typed, TypeOK, Next, vars, line, Server, Scanning, Plus, Minus,
               PacketScanned, Stray, EndOfFile, Scans, Handle, Ask, Gdb, Acknowledged,
               Refused, Answered, Ignored, Receives, Interrupt, Damage
  <2>2. Stage BY <2>1 DEF Lockstep
  <2>3. CASE Ask BY <2>1, <2>2, <2>3, AskIsCall
  <2>4. CASE Handle BY <2>1, <2>2, <2>4, HandleIsCall
  <2>5. CASE Answered BY <2>1, <2>2, <2>5, AnsweredIsCall
  <2>6. CASE ~(Ask \/ Handle \/ Answered) BY <1>2, <2>1, <2>6, OtherIsNoCall
  <2> QED BY <2>3, <2>4, <2>5, <2>6
<1> QED BY <1>1, <1>2

\* The transport implements the calls, whatever packets the lines damage: until a
\* stray byte comes between, every command is executed once, in the order gdb asks,
\* and its own answer reaches gdb before the next one is asked for.
THEOREM TransportImplementsCalls == Spec => CallsSafety
<1>1. Init => Calls!Init
  <2>1. ASSUME Init
        PROVE  /\ asked = 0 /\ Kill # 0 /\ executed = <<>> /\ answers = <<>>
               /\ strayed = 0
    BY <2>1, ProtocolAssumption DEF Init, Kill, ProtocolAssumption
  <2>2. ASSUME Init PROVE before_kill(executed) = <<>> BY <2>1, <2>2 DEF before_kill
  <2> QED BY <2>1, <2>2 DEF Calls!Init
<1>2. Typed /\ Lockstep /\ [Next]_vars => [Calls!Next]_Calls!vars
  BY StepIsCall
<1> QED BY TypedAlways, LockstepAlways, <1>1, <1>2, PTL DEF Spec, CallsSafety, Calls!Safety
=============================================================================
