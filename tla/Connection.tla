---------------------------- MODULE Connection ----------------------------
(***************************************************************************)
(* The gdb thread at the level of bytes: gdb_scanner, what the rules of    *)
(* its scanner say on the connection (scanner.l, gdb_protocol.c), and      *)
(* Rio_writen, which says it by writes that may be short, be interrupted   *)
(* or fail (csapp.c).  The thread scans on when all has been written.      *)
(***************************************************************************)
EXTENDS Scanner, SequencesExt

CONSTANTS
  Answer,         \* the bytes of the answer to a command
  MAX_ERROR_SIZE

ASSUME ConnectionAssumption ==
  /\ Answer \in Seq(STRING) \ {<<>>}
  /\ MAX_ERROR_SIZE \in Nat \ {0, 1}

VARIABLES
  len,        \* how many unexpected characters the buffer holds
  packet,     \* the last packet made by gdb_send_buffer, empty at first
  output,     \* "open", then "closing" in the handler of k, then "shut"
  messages,   \* what remains of the messages given to Rio_writen
  said,       \* the bytes of all of them, in order
  delivered   \* the bytes written

talk_vars == <<len, packet, output, messages, said, delivered>>
vars == <<scan_vars, talk_vars>>

Says(m) ==
  /\ messages' = m
  /\ said' = said \o FlattenSeq(m)
  /\ UNCHANGED delivered

handle_error == IF len > 0 THEN <<<<"-">>>> ELSE <<>>

Init ==
  /\ ScannerInit
  /\ len = 0 /\ packet = <<>> /\ output = "open"
  /\ messages = <<>> /\ said = <<>> /\ delivered = <<>>

\* Rio_writen and the handler have returned, and yylex has the thread again.
Idle == messages = <<>> /\ output # "closing"

Acknowledgement ==
  /\ Idle /\ Rule(1)
  /\ Says(handle_error) /\ len' = 0
  /\ UNCHANGED <<packet, output>>

Retransmission ==
  /\ Idle /\ Rule(2)
  /\ Says(handle_error \o IF packet = <<>> THEN <<>> ELSE <<packet>>)
  /\ len' = 0
  /\ UNCHANGED <<packet, output>>

\* gdb_packet_analysis: a packet is answered, or is k, which has no answer, or
\* its checksum is wrong.  The bytes of its class are not told apart, nor sums.
Packet ==
  /\ Idle /\ Rule(3)
  /\ \/ /\ packet' = Answer /\ Says(handle_error \o <<<<"+">>, Answer>>)
        /\ UNCHANGED output
     \/ /\ yytext[2] = Rules!Other /\ output' = IF output = "open" THEN "closing" ELSE output
        /\ Says(handle_error \o <<<<"+">>>>)
        /\ UNCHANGED packet
     \/ /\ Says(handle_error \o <<<<"-">>>>)
        /\ UNCHANGED <<packet, output>>
  /\ len' = 0

\* The handler of k, once its acknowledgement is written.
kill_request ==
  /\ phase # "dead" /\ messages = <<>> /\ output = "closing"
  /\ output' = "shut"
  /\ UNCHANGED <<scan_vars, len, packet, messages, said, delivered>>

\* A buffer that is full is given up for a request of retransmission first.
add_character_to_error ==
  /\ Idle /\ Rule(4)
  /\ \/ len <= MAX_ERROR_SIZE - 2 /\ Says(<<>>) /\ len' = len + 1
     \/ len > MAX_ERROR_SIZE - 2 /\ Says(handle_error) /\ len' = 1
  /\ UNCHANGED <<packet, output>>

\* The default rule copies a newline to the standard output.
ECHO ==
  /\ Idle /\ Rule(5)
  /\ UNCHANGED talk_vars

LastErrors ==
  /\ Idle /\ EndOfFile
  /\ Says(handle_error) /\ len' = 0
  /\ UNCHANGED <<packet, output>>

yylex ==
  /\ Idle
  /\ Scan \/ ReallyNul \/ Refill \/ ReadFails
  /\ UNCHANGED talk_vars

remaining_stuck(left, n) == SubSeq(left, 1, Len(left) - n)  \* mutant: bufp stays
remaining(left, n) == SubSeq(left, n + 1, Len(left))

\* One turn of rio_writen: n bytes are written; a write interrupted by a signal
\* changes nothing and is tried again.
rio_writen(n) ==
  /\ phase # "dead" /\ messages # <<>> /\ output # "shut"
  /\ n <= Len(Head(messages))
  /\ delivered' = delivered \o SubSeq(Head(messages), 1, n)
  /\ LET left == remaining(Head(messages), n)
     IN  messages' = IF left = <<>> THEN Tail(messages) ELSE <<left>> \o Tail(messages)
  /\ UNCHANGED <<scan_vars, len, packet, output, said>>

\* Rio_writen ends the process if a write fails, as one after kill does, if its
\* signal has not ended it before.
unix_error ==
  /\ phase # "dead" /\ messages # <<>>
  /\ phase' = "dead"
  /\ UNCHANGED <<unread, buffer, position, yy_act, tokens, talk_vars>>

Next ==
  \/ yylex
  \/ Acknowledgement \/ Retransmission \/ Packet \/ kill_request
  \/ add_character_to_error \/ ECHO \/ LastErrors
  \/ \E n \in 1..Len(Answer) : rio_writen(n)
  \/ unix_error

Spec == Init /\ [][Next]_vars

-----------------------------------------------------------------------------
\* However short the writes, what has been written is a beginning of what the
\* rules said, whole and in order, and the scanner never handles a token while a
\* message is partly written: gdb would take the next for its end.
SaidIsDelivered == delivered \o FlattenSeq(messages) = said
=============================================================================
