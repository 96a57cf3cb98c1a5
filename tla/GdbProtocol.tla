---------------------------- MODULE GdbProtocol ----------------------------
(***************************************************************************)
(* The transport of the remote protocol: the rules of scanner.l and the    *)
(* functions of gdb_protocol.c they call, at the server's end, a gdb that  *)
(* acknowledges and retransmits at the other, and between them two lines   *)
(* that keep the order of bytes but may damage a packet. It is shown to    *)
(* implement RemoteCalls as long as no stray byte reaches the scanner.     *)
(***************************************************************************)
EXTENDS Integers, Sequences

CONSTANTS
  MAX_ERROR_SIZE,  \* the size of the buffer of unexpected characters
  MaxCommands,     \* bound: commands gdb asks for
  MaxDamage,       \* bound: packets damaged
  MaxStray         \* bound: stray bytes, such as the 0x03 of a control-C

ASSUME ProtocolAssumption ==
  /\ MAX_ERROR_SIZE \in Nat \ {0, 1}
  /\ MaxCommands \in Nat \ {0} /\ MaxDamage \in Nat /\ MaxStray \in Nat

VARIABLES
  to_server,  \* the tokens on their way to the scanner
  to_client,  \* the tokens on their way to gdb
  len,        \* the number of characters in the error buffer
  packet,     \* the last packet sent: 0 none, n the answer to command n
  handling,   \* the command being handled, 0 if none
  writable,   \* FALSE once kill_request has shut the connection for writing
  server,     \* "running", "ended" or "killed" by a write to that connection
  executed,   \* the commands handled, in order
  gdb_at,     \* what gdb waits for: "nothing", "ack", "answer", or it is "gone"
  asked,      \* the command gdb sends or waits for
  answers,    \* the answers gdb has got
  damaged, strayed  \* packets damaged, stray bytes sent

scanner == <<len, packet, handling, writable, server, executed>>
gdb == <<gdb_at, asked, answers>>
line == <<damaged, strayed>>
vars == <<to_server, to_client, scanner, gdb, line>>

Packet(n, good) == [type |-> "packet", n |-> n, good |-> good]
Byte(type) == [type |-> type]
Ack == Byte("+")
Nack == Byte("-")

\* The last command gdb sends is k, which is not answered.
Kill == MaxCommands

Init ==
  /\ to_server = <<>> /\ to_client = <<>>
  /\ len = 0 /\ packet = 0 /\ handling = 0
  /\ writable = TRUE /\ server = "running" /\ executed = <<>>
  /\ gdb_at = "nothing" /\ asked = 0 /\ answers = <<>>
  /\ damaged = 0 /\ strayed = 0

-----------------------------------------------------------------------------
(* The server. *)

\* Rio_writen: a write to a connection shut for writing raises SIGPIPE.
Write(tokens) ==
  IF tokens = <<>> \/ writable
  THEN /\ to_client' = to_client \o tokens
       /\ UNCHANGED server
  ELSE /\ server' = "killed"
       /\ UNCHANGED to_client

Scans(type) ==
  /\ server = "running" /\ handling = 0
  /\ to_server # <<>> /\ Head(to_server).type = type
  /\ to_server' = Tail(to_server)
  /\ UNCHANGED <<gdb, line>>

handle_error == IF len > 0 THEN <<Nack>> ELSE <<>>

gdb_transmit_packet == IF packet = 0 THEN <<>> ELSE <<Packet(packet, TRUE)>>

Plus ==
  /\ Scans("+")
  /\ Write(handle_error)
  /\ len' = 0
  /\ UNCHANGED <<packet, handling, writable, executed>>

handles_again == packet  \* mutant: the command is handled once more
handles_nothing == 0

Minus ==
  /\ Scans("-")
  /\ Write(handle_error \o gdb_transmit_packet)
  /\ len' = 0
  /\ handling' = handles_nothing
  /\ UNCHANGED <<packet, writable, executed>>

verdict_silent(p) == IF p.good THEN <<Ack>> ELSE <<>>  \* mutant: no request
verdict(p) == IF p.good THEN <<Ack>> ELSE <<Nack>>

\* gdb_packet_analysis: the acknowledgement precedes the handler.
PacketScanned ==
  /\ Scans("packet")
  /\ LET p == Head(to_server)
     IN  /\ Write(handle_error \o verdict(p))
         /\ handling' = IF p.good THEN p.n ELSE 0
  /\ len' = 0
  /\ UNCHANGED <<packet, writable, executed>>

\* add_character_to_error, which empties a full buffer first.
full_late(n) == n > MAX_ERROR_SIZE - 1  \* mutant: no room left for the '\0'
full(n) == n > MAX_ERROR_SIZE - 2

Stray ==
  /\ Scans("stray")
  /\ IF full(len)
     THEN Write(<<Nack>>) /\ len' = 1
     ELSE Write(<<>>) /\ len' = len + 1
  /\ UNCHANGED <<packet, handling, writable, executed>>

EndOfFile ==
  /\ Scans("eof")
  /\ IF handle_error # <<>> /\ ~writable
     THEN server' = "killed" /\ UNCHANGED to_client
     ELSE server' = "ended" /\ to_client' = to_client \o handle_error
  /\ len' = 0
  /\ UNCHANGED <<packet, handling, writable, executed>>

shuts_early(n) == n >= Kill - 1  \* mutant: a command before k shuts as well
shuts(n) == n = Kill

\* The handler, and gdb_send_buffer at its end; kill_request sends nothing.
Handle ==
  /\ server = "running" /\ handling # 0
  /\ executed' = Append(executed, handling)
  /\ writable' = (writable /\ ~shuts(handling))
  /\ IF handling = Kill
     THEN UNCHANGED <<packet, to_client, server>>
     ELSE packet' = handling /\ Write(<<Packet(handling, TRUE)>>)
  /\ handling' = 0
  /\ UNCHANGED <<to_server, len, gdb, line>>

Scanning == Plus \/ Minus \/ PacketScanned \/ Stray \/ EndOfFile

Server == Scanning \/ Handle

-----------------------------------------------------------------------------
(* gdb, and the lines. *)

Send(tokens) == to_server' = to_server \o tokens

Ask ==
  /\ gdb_at = "nothing" /\ asked < MaxCommands
  /\ asked' = asked + 1
  /\ gdb_at' = "ack"
  /\ Send(<<Packet(asked + 1, TRUE)>>)
  /\ UNCHANGED <<to_client, scanner, answers, line>>

Receives(type) ==
  /\ to_client # <<>> /\ Head(to_client).type = type
  /\ to_client' = Tail(to_client)
  /\ UNCHANGED <<asked, scanner, line>>

Acknowledged ==
  /\ gdb_at = "ack" /\ Receives("+")
  /\ \/ asked # Kill /\ gdb_at' = "answer" /\ Send(<<>>)
     \/ asked = Kill /\ gdb_at' = "gone" /\ Send(<<Byte("eof")>>)
  /\ UNCHANGED answers

Refused ==
  /\ gdb_at = "ack" /\ Receives("-")
  /\ Send(<<Packet(asked, TRUE)>>)
  /\ UNCHANGED <<gdb_at, answers>>

Answered ==
  /\ gdb_at = "answer" /\ Receives("packet")
  /\ \/ /\ Head(to_client).good
        /\ gdb_at' = "nothing"
        /\ answers' = Append(answers, Head(to_client).n)
        /\ Send(<<Ack>>)
     \/ /\ ~Head(to_client).good
        /\ Send(<<Nack>>)
        /\ UNCHANGED <<gdb_at, answers>>

\* A packet instead of an acknowledgement, an acknowledgement instead of a
\* packet.
Ignored ==
  /\ \/ gdb_at = "ack" /\ Receives("packet")
     \/ gdb_at = "answer" /\ (Receives("+") \/ Receives("-"))
  /\ UNCHANGED <<to_server, gdb_at, answers>>

\* The user types control-C while gdb waits for an answer.
Interrupt ==
  /\ gdb_at = "answer" /\ strayed < MaxStray
  /\ strayed' = strayed + 1
  /\ Send(<<Byte("stray")>>)
  /\ UNCHANGED <<to_client, scanner, gdb, damaged>>

\* A line spoils the content of the packet that arrives next.
Damage ==
  /\ damaged < MaxDamage
  /\ damaged' = damaged + 1
  /\ \/ /\ to_server # <<>> /\ Head(to_server).type = "packet"
        /\ to_server' = [to_server EXCEPT ![1].good = FALSE]
        /\ UNCHANGED to_client
     \/ /\ to_client # <<>> /\ Head(to_client).type = "packet"
        /\ to_client' = [to_client EXCEPT ![1].good = FALSE]
        /\ UNCHANGED to_server
  /\ UNCHANGED <<scanner, gdb, strayed>>

Gdb == Acknowledged \/ Refused \/ Answered \/ Ignored

Next == Server \/ Ask \/ Gdb \/ Interrupt \/ Damage

\* Whatever has arrived is read; gdb need not ask, and a handler need not
\* return: cont goes on as long as its program does.
Spec == Init /\ [][Next]_vars /\ WF_vars(Scanning) /\ WF_vars(Gdb)

-----------------------------------------------------------------------------
Tokens ==
  [type : {"packet"}, n : 1..MaxCommands, good : BOOLEAN]
    \cup [type : {"+", "-", "stray", "eof"}]

\* In particular the error buffer always has room for its final '\0'.
TypeOK ==
  /\ to_server \in Seq(Tokens) /\ to_client \in Seq(Tokens)
  /\ len \in 0..MAX_ERROR_SIZE - 1
  /\ packet \in 0..MaxCommands /\ handling \in 0..MaxCommands
  /\ writable \in BOOLEAN
  /\ server \in {"running", "ended", "killed"}
  /\ executed \in Seq(1..MaxCommands)
  /\ gdb_at \in {"nothing", "ack", "answer", "gone"}
  /\ asked \in 0..MaxCommands /\ answers \in Seq(1..MaxCommands)
  /\ damaged \in 0..MaxDamage /\ strayed \in 0..MaxStray

\* gdb awaits an answer to all its commands but k, the last one.
before_kill(commands) ==
  IF commands # <<>> /\ commands[Len(commands)] = Kill
  THEN SubSeq(commands, 1, Len(commands) - 1)
  ELSE commands

Calls == INSTANCE RemoteCalls WITH
  Limit <- MaxCommands - 1,
  asked <- IF asked = Kill THEN asked - 1 ELSE asked,
  executed <- before_kill(executed),
  answered <- answers,
  in_step <- strayed = 0

\* Until a stray byte comes between, whatever packets the lines damage, in
\* either direction, every command is executed at most once and in order, and
\* the answer to each that has been reaches gdb: a request to retransmit
\* repeats the answer and never the command.
CallsSpec == Calls!Spec
CallsSafety == Calls!Safety

\* Until a stray byte comes between, the server ends with the connection and
\* not by a write to it: kill_request has been acknowledged before it shuts the
\* connection, and nothing is retransmitted or refused after it.
EndsInOrder == strayed = 0 => server # "killed"

\* Even when stray bytes make the server ask for retransmissions, which gdb
\* answers with a command it has sent already, no command is executed after a
\* later one, and each stray byte repeats one command at most.
StrayRepeatsOne ==
  /\ \A i \in 1..Len(executed) - 1 : executed[i] <= executed[i + 1]
  /\ Len(executed) <= asked + strayed

\* gdb waits for ever for an acknowledgement or an answer only if a handler
\* never returns, such as cont with a program that never stops, which no
\* control-C reaches, or if the server is gone: what the lines damage is asked
\* for again.
GdbGoesOn ==
  \/ <>[](handling # 0)
  \/ \A n \in 1..MaxCommands :
       (asked = n /\ gdb_at \in {"ack", "answer"})
         ~> (gdb_at \in {"nothing", "gone"} \/ asked > n \/ server = "killed")
=============================================================================
