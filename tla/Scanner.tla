------------------------------ MODULE Scanner ------------------------------
(***************************************************************************)
(* The generated scanner (scanner.c): the compressed tables of its         *)
(* automaton, the match loop with its backing up, and the buffer it        *)
(* refills, moves and grows while a token is under way.  A byte is its     *)
(* class in yy_ec.  A NUL has the value of the end-of-buffer characters:   *)
(* the cells beyond the second of these are left out, for the scanner      *)
(* reads none of them.  It is shown to cut its input as the rules say.     *)
(***************************************************************************)
EXTENDS Integers, Sequences

CONSTANTS
  Streams,          \* the inputs, as sequences of classes of bytes
  YY_BUF_SIZE,
  YY_READ_BUF_SIZE

ASSUME ScannerAssumption ==
  /\ Streams \subseteq Seq(0..7)
  /\ YY_BUF_SIZE \in Nat \ {0, 1} /\ YY_READ_BUF_SIZE \in Nat \ {0}

VARIABLES
  unread,            \* what the peer sends before it closes the connection
  yy_ch_buf,         \* the buffer, from cell 0 to the second end character
  yy_buf_size, yy_n_chars,
  yytext_ptr,        \* where the current token begins
  yy_c_buf_p,        \* where the next one does
  yy_hold_char,      \* the byte at yy_c_buf_p, replaced there by a NUL
  yy_buffer_status,
  yy_act,            \* the action found for the token, NoAction before
  tokens, phase      \* as in Lexer

buffer == <<yy_ch_buf, yy_buf_size, yy_n_chars, yy_buffer_status>>
position == <<yytext_ptr, yy_c_buf_p, yy_hold_char>>
scan_vars == <<unread, buffer, position, yy_act, tokens, phase>>

EndOfBuffer == 0  \* the end-of-buffer character
Nul == 1          \* the class of a NUL the scanner knows to be one

NoAction == 0
YY_END_OF_BUFFER == 6
YY_STATE_EOF == 7
Jam == 13

-----------------------------------------------------------------------------
(* The tables, and the cursor that follows them.                           *)

table(s) == [i \in 0..Len(s) - 1 |-> s[i + 1]]
yy_accept == table(<<0, 0, 0, 6, 4, 5, 4, 1, 2, 0, 0, 0, 3, 0>>)
yy_meta == table(<<0, 1, 1, 1, 2, 1, 1, 1>>)
yy_base == table(<<0, 0, 0, 13, 14, 14, 9, 14, 14, 8, 3, 2, 14, 14, 7>>)
yy_def == table(<<0, 13, 1, 13, 13, 13, 14, 13, 13, 14, 13, 13, 13, 0, 13>>)
yy_nxt == table(<<0, 4, 5, 4, 6, 7, 8, 4, 9, 12, 11, 10, 10, 13, 3,
                  13, 13, 13, 13, 13, 13, 13>>)
yy_chk == table(<<0, 1, 1, 1, 1, 1, 1, 1, 14, 11, 10, 9, 6, 3, 13,
                  13, 13, 13, 13, 13, 13, 13>>)

\* A state without an entry of its own borrows those of its default, with
\* coarser classes if that is a template.
next_state[s \in 1..14] ==
  [c \in 0..7 |->
     IF yy_chk[yy_base[s] + c] = s
     THEN yy_nxt[yy_base[s] + c]
     ELSE next_state[yy_def[s]][IF yy_def[s] >= 14 THEN yy_meta[c] ELSE c]]

\* A cursor: a state, the place in the buffer, and both at the last acceptance.
Cursor(cp) == [state |-> 1, cp |-> cp, last_state |-> 1, last_cp |-> cp]

accepting(k) ==
  IF yy_accept[k.state] # 0
  THEN [k EXCEPT !.last_state = k.state, !.last_cp = k.cp]
  ELSE k

moves(k, c) == [accepting(k) EXCEPT !.state = next_state[k.state][c], !.cp = @ + 1]

stops_jammed(s) == s = Jam  \* mutant: not interactive, looks one byte ahead
stops(s) == yy_base[s] = 14

\* The cursor where the loop that starts with k stops: turns past that one, which
\* the code does not make, leave it there.
yy_match(buf, k) ==
  LET turn[i \in DOMAIN buf] ==
        IF i = 0 THEN moves(k, buf[k.cp])
        ELSE LET last == turn[i - 1]
             IN  IF stops(last.state) THEN last ELSE moves(last, buf[last.cp])
  IN  turn[CHOOSE i \in DOMAIN buf : stops(turn[i].state)]

\* The action found, and where its token ends.
yy_find_action(k) ==
  IF yy_accept[k.state] = 0
  THEN [act |-> yy_accept[k.last_state], cp |-> k.last_cp]
  ELSE [act |-> yy_accept[k.state], cp |-> k.cp]

class_of(c) == IF c = EndOfBuffer THEN Nul ELSE c

\* The cursor before cell to, the token having begun at cell from.
yy_get_previous_state(buf, from, to) ==
  LET previous[i \in 0..to - from] ==
        IF i = 0 THEN Cursor(from)
        ELSE moves(previous[i - 1], class_of(buf[from + i - 1]))
  IN  previous[to - from]

-----------------------------------------------------------------------------
(* The steps of yylex.                                                     *)

\* YY_DO_BEFORE_ACTION for the token that begins at cell yy_bp.
Found(buf, yy_bp, found) ==
  /\ yytext_ptr' = yy_bp
  /\ yy_c_buf_p' = found.cp
  /\ yy_hold_char' = buf[found.cp]
  /\ yy_ch_buf' = [buf EXCEPT ![found.cp] = EndOfBuffer]
  /\ yy_act' = found.act

restored == [yy_ch_buf EXCEPT ![yy_c_buf_p] = yy_hold_char]

Scan ==
  /\ phase = "scanning" /\ yy_act = NoAction
  /\ Found(restored, yy_c_buf_p, yy_find_action(yy_match(restored, Cursor(yy_c_buf_p))))
  /\ UNCHANGED <<unread, yy_buf_size, yy_n_chars, yy_buffer_status, tokens, phase>>

yytext == [i \in 1..yy_c_buf_p - yytext_ptr |-> yy_ch_buf[yytext_ptr + i - 1]]

Rule(n) ==
  /\ phase = "scanning" /\ yy_act = n
  /\ tokens' = Append(tokens, [rule |-> n, text |-> yytext])
  /\ yy_act' = NoAction
  /\ UNCHANGED <<unread, buffer, position, phase>>

AtEnd == phase = "scanning" /\ yy_act = YY_END_OF_BUFFER

\* A NUL of the input: scanning goes on behind it, or the token ends before it.
ReallyNul ==
  /\ AtEnd /\ yy_c_buf_p <= yy_n_chars
  /\ LET k == yy_get_previous_state(restored, yytext_ptr, yy_c_buf_p - 1)
         tried == moves(k, Nul)  \* yy_try_NUL_trans
     IN  Found(restored, yytext_ptr,
               yy_find_action(IF tried.state = Jam
                              THEN [accepting(k) EXCEPT !.cp = yy_c_buf_p - 1]
                              ELSE yy_match(restored, tried)))
  /\ yy_buffer_status' = IF yy_buffer_status = "NEW" THEN "NORMAL" ELSE yy_buffer_status
  /\ UNCHANGED <<unread, yy_buf_size, yy_n_chars, tokens, phase>>

number_to_move == yy_c_buf_p - yytext_ptr - 1
room_full(size) == size - number_to_move  \* mutant: no cell to spare
room(size) == size - number_to_move - 1

\* A size of 2 or more is large enough when it has been doubled so often.
grown(size) ==
  LET doubled[i \in 0..number_to_move] ==
        IF i = 0 THEN size
        ELSE LET last == doubled[i - 1] IN IF room(last) <= 0 THEN 2 * last ELSE last
  IN  doubled[number_to_move]

refilled_unmoved(n) ==  \* mutant: the token is not moved to the start
  [i \in 0..number_to_move + n + 1 |->
     IF i < number_to_move THEN restored[i]
     ELSE IF i < number_to_move + n THEN unread[i - number_to_move + 1]
     ELSE EndOfBuffer]

\* The token's bytes moved to the start, n bytes read, and two end characters.
refilled(n) ==
  [i \in 0..number_to_move + n + 1 |->
     IF i < number_to_move THEN restored[yytext_ptr + i]
     ELSE IF i < number_to_move + n THEN unread[i - number_to_move + 1]
     ELSE EndOfBuffer]

NeedsInput == AtEnd /\ yy_c_buf_p > yy_n_chars

\* EOB_ACT_CONTINUE_SCAN: n bytes have been read behind the token's.
ContinueScan(n) ==
  /\ NeedsInput /\ yy_buffer_status # "EOF_PENDING"
  /\ n \in 1..Len(unread) /\ n <= room(grown(yy_buf_size)) /\ n <= YY_READ_BUF_SIZE
  /\ unread' = SubSeq(unread, n + 1, Len(unread))
  /\ yy_buf_size' = grown(yy_buf_size)
  /\ yy_n_chars' = number_to_move + n
  /\ Found(refilled(n), 0,
           yy_find_action(yy_match(refilled(n),
             yy_get_previous_state(refilled(n), 0, number_to_move))))
  /\ yy_buffer_status' = "NORMAL"
  /\ UNCHANGED <<tokens, phase>>

\* EOB_ACT_LAST_MATCH: nothing is left to read behind the token's bytes.
LastMatch ==
  /\ NeedsInput /\ number_to_move > 0
  /\ unread = <<>> \/ yy_buffer_status = "EOF_PENDING"
  /\ yy_buf_size' = IF yy_buffer_status = "EOF_PENDING" THEN yy_buf_size
                    ELSE grown(yy_buf_size)
  /\ yy_n_chars' = number_to_move
  /\ Found(refilled(0), 0,
           yy_find_action(yy_get_previous_state(refilled(0), 0, number_to_move)))
  /\ yy_buffer_status' = "EOF_PENDING"
  /\ UNCHANGED <<unread, tokens, phase>>

\* The cells of the buffer that yy_flush_buffer leaves.
yy_flush_buffer == [i \in 0..1 |-> EndOfBuffer]

\* EOB_ACT_END_OF_FILE: no byte is left at all, and yyrestart flushes the buffer.
EndOfInput ==
  /\ NeedsInput /\ number_to_move = 0
  /\ unread = <<>> \/ yy_buffer_status = "EOF_PENDING"
  /\ yy_ch_buf' = yy_flush_buffer /\ yy_n_chars' = 0 /\ yy_buffer_status' = "NEW"
  /\ yytext_ptr' = 0 /\ yy_c_buf_p' = 0 /\ yy_hold_char' = EndOfBuffer
  /\ yy_act' = YY_STATE_EOF
  /\ UNCHANGED <<unread, yy_buf_size, tokens, phase>>

EndOfFile ==
  /\ phase = "scanning" /\ yy_act = YY_STATE_EOF
  /\ phase' = "ended"
  /\ UNCHANGED <<unread, buffer, position, yy_act, tokens>>

\* A read that fails for another reason than a signal is fatal.
ReadFails ==
  /\ NeedsInput /\ yy_buffer_status # "EOF_PENDING"
  /\ phase' = "dead"
  /\ UNCHANGED <<unread, buffer, position, yy_act, tokens>>

-----------------------------------------------------------------------------
\* yylex_init_extra, yyset_in and the first call of yylex.
ScannerInit ==
  /\ unread \in Streams
  /\ yy_buf_size = YY_BUF_SIZE
  /\ yy_ch_buf = yy_flush_buffer /\ yy_n_chars = 0 /\ yy_buffer_status = "NEW"
  /\ yytext_ptr = 0 /\ yy_c_buf_p = 0 /\ yy_hold_char = EndOfBuffer
  /\ yy_act = NoAction
  /\ tokens = <<>> /\ phase = "scanning"

Refill ==
  \/ \E n \in 1..YY_READ_BUF_SIZE : ContinueScan(n)
  \/ LastMatch \/ EndOfInput

ScannerNext ==
  \/ Scan \/ (\E n \in 1..5 : Rule(n))
  \/ ReallyNul \/ Refill \/ EndOfFile \/ ReadFails

-----------------------------------------------------------------------------
\* The bytes in the buffer that are in no token yet.
held ==
  LET from == IF yy_act = NoAction THEN yy_c_buf_p ELSE yytext_ptr
  IN  [i \in 1..yy_n_chars - from |-> restored[from + i - 1]]

\* In particular the end of the buffer is never missed, its characters keep their
\* room, and the extension of a buffer that is too small after a read, by which
\* yy_get_next_buffer ends, is never needed.
ScannerTypeOK ==
  /\ yy_n_chars < yy_buf_size
  /\ yy_c_buf_p \in 0..yy_n_chars + 1 /\ yytext_ptr \in 0..yy_c_buf_p
  /\ restored[yy_n_chars] = EndOfBuffer /\ restored[yy_n_chars + 1] = EndOfBuffer
  /\ yy_act \in 0..YY_STATE_EOF
  /\ yy_buffer_status \in {"NEW", "NORMAL", "EOF_PENDING"}
  /\ phase \in {"scanning", "ended", "dead"}

Rules == INSTANCE Lexer WITH input <- held \o unread

\* Whatever pieces the reads return, however a token lies across them, and
\* whatever NULs are in it, the tokens are those of the rules on the whole input:
\* no byte is lost, doubled or taken for the end when the buffer is moved.
LexerSpec == Rules!Spec

\* The scanner waits for input only when it holds nothing, the beginning of a
\* packet, or a NUL that begins a token, which is recognised one byte late: an
\* acknowledgement or a complete packet is handled before any byte that follows
\* it is waited for, since gdb sends none before it is answered.
WaitsWithinPacket ==
  LET begins_packet ==
        \E end \in {<<Rules!Hash, Rules!Hex, Rules!Hex>>, <<Rules!Hex, Rules!Hex>>, <<Rules!Hex>>} :
          Rules!packets(held \o end) = {Len(held \o end)}
  IN  NeedsInput /\ yy_buffer_status # "EOF_PENDING" =>
        held \in {<<>>, <<Rules!Nul>>} \/ begins_packet
=============================================================================
