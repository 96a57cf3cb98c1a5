---------------------------- MODULE ScannerProofs ----------------------------
(***************************************************************************)
(* For every input, every size of the buffer and of the reads, and however *)
(* the connection cuts the bytes: the generated scanner cuts its input as  *)
(* the rules of scanner.l say, waits for no byte it does not need, and     *)
(* what the rules say is written whole and in order.                       *)
(***************************************************************************)
EXTENDS Connection, SequenceTheorems, WellFoundedInduction, TLAPS

-----------------------------------------------------------------------------
(* Numbers and loops.                                                      *)

\* A set of numbers that is not empty has a least one.
LEMMA LeastNumber ==
  ASSUME NEW T, T \subseteq Nat, T # {}
  PROVE  \E n \in T : \A m \in T : n <= m
<1> DEFINE R == OpToRel(<, Nat)
<1>1. IsWellFoundedOn(R, Nat) BY NatLessThanWellFounded
<1>2. \A a \in Nat : \A c \in Nat : a < c => <<a, c>> \in R
  <2> SUFFICES ASSUME NEW a \in Nat, NEW c \in Nat, a < c
               PROVE  <<a, c>> \in {ss \in Nat \X Nat : ss[1] < ss[2]}
    BY DEF OpToRel
  <2> DEFINE pair == <<a, c>>
  <2>1. pair \in Nat \X Nat /\ pair[1] < pair[2] OBVIOUS
  <2> HIDE DEF pair
  <2>2. pair \in {ss \in Nat \X Nat : ss[1] < ss[2]} BY <2>1
  <2> QED BY <2>2 DEF pair
<1> HIDE DEF R
<1>3. PICK n \in T : \A m \in T : ~(<<m, n>> \in R) BY <1>1, WFMin
<1>4. ASSUME NEW m \in T PROVE n <= m
  <2>1. m \in Nat /\ n \in Nat OBVIOUS
  <2>2. m < n => <<m, n>> \in R BY <1>2, <2>1
  <2> QED BY <1>3, <2>1, <2>2
<1> QED BY <1>4

\* What holds of 0 and passes from each number to the next holds of all.
LEMMA Counting ==
  ASSUME NEW S, 0 \in S, \A i \in Nat : i \in S => i + 1 \in S, NEW n \in Nat
  PROVE  n \in S
<1> SUFFICES ASSUME n \notin S PROVE FALSE OBVIOUS
<1> DEFINE T == {i \in Nat : i \notin S}
<1>1. PICK least \in T : \A m \in T : least <= m
  <2>1. T \subseteq Nat /\ T # {} OBVIOUS
  <2> HIDE DEF T
  <2> QED BY <2>1, LeastNumber
<1>2. least \in Nat /\ least # 0 OBVIOUS
<1>3. least - 1 \in Nat /\ (least - 1) + 1 = least BY <1>2
<1>4. least - 1 \notin S BY <1>3
<1>5. least - 1 \in T BY <1>3, <1>4
<1>6. least <= least - 1 BY <1>1, <1>5
<1> QED BY <1>2, <1>6

\* Three sequences in a row, whichever two are joined first.
Associates(x, y, z) == (x \o y) \o z = x \o (y \o z)

\* It does not matter which are joined first.
LEMMA Associative ==
  ASSUME NEW S, NEW x \in Seq(S), NEW y \in Seq(S), NEW z \in Seq(S)
  PROVE  Associates(x, y, z)
BY ONLY ConcatAssociative DEF Associates

\* A loop of n turns that starts from u, in V, and makes steps G.
LoopOf(f, n, V, u, G) ==
  f \in [0..n -> V] /\ f[0] = u /\ \A i \in 1..n : f[i] = G[f[i - 1]]

\* A loop whose steps stay in a set exists, to any number of turns.
LEMMA LoopExists ==
  ASSUME NEW n \in Nat, NEW V, NEW u \in V, NEW G \in [V -> V]
  PROVE  \E f : LoopOf(f, n, V, u, G)
<1> DEFINE IsLoop(f, k) ==
             f \in [0..k -> V] /\ f[0] = u /\ \A i \in 1..k : f[i] = G[f[i - 1]]
           S == {k \in Nat : \E f : IsLoop(f, k)}
<1>0. \A f : IsLoop(f, n) => LoopOf(f, n, V, u, G) BY DEF LoopOf
<1>1. 0 \in S
  <2> DEFINE f == [i \in 0..0 |-> u]
  <2>1. IsLoop(f, 0) OBVIOUS
  <2> HIDE DEF IsLoop, f
  <2> QED BY <2>1
<1>2. ASSUME NEW k \in Nat, k \in S PROVE k + 1 \in S
  <2>1. PICK f : IsLoop(f, k)
    <3> HIDE DEF IsLoop
    <3> QED BY <1>2
  <2> DEFINE x == G[f[k]]
             longer == [i \in 0..k + 1 |-> IF i = k + 1 THEN x ELSE f[i]]
  <2>2. x \in V BY <2>1
  <2> HIDE DEF x
  <2>3. longer \in [0..k + 1 -> V] BY <2>1, <2>2
  <2>4. longer[k + 1] = x /\ \A i \in 0..k : longer[i] = f[i] OBVIOUS
  <2> HIDE DEF longer
  <2>5. ASSUME NEW i \in 1..k + 1 PROVE longer[i] = G[longer[i - 1]]
    <3>1. CASE i = k + 1
      <4>1. longer[k] = f[k] /\ i - 1 = k BY <2>4, <3>1
      <4> QED BY <2>4, <3>1, <4>1 DEF x
    <3>2. CASE i # k + 1
      <4>1. i \in 1..k /\ i - 1 \in 0..k BY <3>2
      <4>2. longer[i] = f[i] /\ longer[i - 1] = f[i - 1] BY <2>4, <4>1
      <4> QED BY <2>1, <4>1, <4>2
    <3> QED BY <3>1, <3>2
  <2>6. longer[0] = u BY <2>1, <2>4
  <2>7. IsLoop(longer, k + 1) BY <2>3, <2>5, <2>6
  <2> HIDE DEF IsLoop
  <2> QED BY <2>7
<1>3. n \in S
  <2> HIDE DEF S
  <2> QED BY <1>1, <1>2, Counting
<1> HIDE DEF IsLoop
<1> QED BY <1>0, <1>3

-----------------------------------------------------------------------------
(* What the states of the automaton mean, for the cells of a buffer.       *)

\* A buffer of n bytes: its cells hold classes of bytes, and two end characters
\* follow the bytes.
Buffer(b, n) ==
  /\ n \in Nat /\ b \in [0..n + 1 -> 0..7]
  /\ b[n] = EndOfBuffer /\ b[n + 1] = EndOfBuffer

\* None of the cells from i to j ends the content of a packet.
Inside(b, i, j) == \A k \in i..j : b[k] \notin {Rules!Dollar, Rules!Hash}

\* The states in which a token may yet grow, and the cells from p that lead to
\* each: none, a NUL, a '$', a '$' and content, then a '#', then a digit.
Reached(b, p, j, s) ==
  \/ s = 1 /\ j = p
  \/ s = 4 /\ j = p + 1 /\ b[p] = Rules!Nul
  \/ s = 6 /\ j = p + 1 /\ b[p] = Rules!Dollar
  \/ s = 9 /\ j > p + 1 /\ b[p] = Rules!Dollar /\ Inside(b, p + 1, j - 1)
  \/ /\ s = 10 /\ j > p + 1 /\ b[p] = Rules!Dollar
     /\ Inside(b, p + 1, j - 2) /\ b[j - 1] = Rules!Hash
  \/ /\ s = 11 /\ j > p + 2 /\ b[p] = Rules!Dollar
     /\ Inside(b, p + 1, j - 3) /\ b[j - 2] = Rules!Hash /\ b[j - 1] = Rules!Hex

\* The states the match may still go on from, and those with a '$' behind them.
Live == {1, 4, 6, 9, 10, 11}
Begun == {6, 9, 10, 11}

\* The cells from p to q - 1 are a packet.
PacketAt(b, p, q) ==
  /\ q >= p + 4 /\ b[p] = Rules!Dollar /\ Inside(b, p + 1, q - 4)
  /\ b[q - 3] = Rules!Hash /\ b[q - 2] = Rules!Hex /\ b[q - 1] = Rules!Hex

\* Cell j shows that the '$' at cell p begins no packet.
Refutes(b, p, j) ==
  \E s \in Begun :
    /\ Reached(b, p, j, s)
    /\ IF s \in {6, 9} THEN b[j] = Rules!Dollar ELSE b[j] # Rules!Hex

\* What action a found for the cells from p to q - 1 says of a buffer of n bytes.
Means(b, n, p, a, q) ==
  \/ /\ a = 6 /\ q \in p + 1..n + 1 /\ b[q - 1] = EndOfBuffer
     /\ \E s \in Live : Reached(b, p, q - 1, s)
  \/ p < n /\ q = p + 1 /\ \/ a = 1 /\ b[p] = Rules!Plus
                           \/ a = 2 /\ b[p] = Rules!Minus
                           \/ a = 5 /\ b[p] = Rules!Newline
                           \/ a = 4 /\ b[p] \in {Rules!Nul, Rules!Other, Rules!Hash, Rules!Hex}
                           \/ a = 4 /\ \E j \in p + 1..n - 1 : Refutes(b, p, j)
  \/ a = 3 /\ q \in p + 4..n /\ PacketAt(b, p, q)

\* The same when bytes u follow the buffer: if there are none, a packet that is not
\* finished is none either.
Follows(b, n, p, a, q, u) ==
  \/ Means(b, n, p, a, q)
  \/ /\ u = <<>> /\ p < n /\ q = p + 1 /\ a = 4
     /\ \E s \in Begun : Reached(b, p, n, s)

\* The invariant of the scanner.
BufferInv ==
  /\ Buffer(restored, yy_n_chars)
  /\ DOMAIN yy_ch_buf = 0..yy_n_chars + 1
  /\ yytext_ptr \in Nat /\ yy_c_buf_p \in Nat
  /\ yytext_ptr <= yy_c_buf_p /\ yy_c_buf_p <= yy_n_chars + 1
  /\ yy_buf_size \in Nat /\ yy_n_chars < yy_buf_size /\ yy_buf_size >= 2
  /\ unread \in Seq(0..7)
  /\ yy_buffer_status \in {"NEW", "NORMAL", "EOF_PENDING"}
  /\ yy_buffer_status = "EOF_PENDING" => unread = <<>>
  /\ phase \in {"scanning", "ended", "dead"}

ActionInv ==
  \/ yy_act = NoAction /\ yy_c_buf_p <= yy_n_chars
  \/ yy_act \in 1..6 /\ Follows(restored, yy_n_chars, yytext_ptr, yy_act, yy_c_buf_p, unread)
  \/ /\ yy_act = YY_STATE_EOF /\ unread = <<>>
     /\ yytext_ptr = 0 /\ yy_c_buf_p = 0 /\ yy_n_chars = 0

ScannerInv == BufferInv /\ ActionInv

-----------------------------------------------------------------------------
(* The tables, and the automaton they are of.                              *)

\* yy_accept: the action of each state (scanner.c:350).
LEMMA Accepts ==
  /\ yy_accept[0] = 0 /\ yy_accept[1] = 0 /\ yy_accept[2] = 0 /\ yy_accept[3] = 6
  /\ yy_accept[4] = 4 /\ yy_accept[5] = 5 /\ yy_accept[6] = 4 /\ yy_accept[7] = 1
  /\ yy_accept[8] = 2 /\ yy_accept[9] = 0 /\ yy_accept[10] = 0 /\ yy_accept[11] = 0
  /\ yy_accept[12] = 3 /\ yy_accept[13] = 0
BY DEF yy_accept, table

\* yy_meta: the class of each class in a template (scanner.c:388).
LEMMA Metas ==
  /\ yy_meta[0] = 0 /\ yy_meta[1] = 1 /\ yy_meta[2] = 1 /\ yy_meta[3] = 1
  /\ yy_meta[4] = 2 /\ yy_meta[5] = 1 /\ yy_meta[6] = 1 /\ yy_meta[7] = 1
BY DEF yy_meta, table

\* yy_base: where the entries of each state begin (scanner.c:393).
LEMMA Bases ==
  /\ yy_base[0] = 0 /\ yy_base[1] = 0 /\ yy_base[2] = 0 /\ yy_base[3] = 13
  /\ yy_base[4] = 14 /\ yy_base[5] = 14 /\ yy_base[6] = 9 /\ yy_base[7] = 14
  /\ yy_base[8] = 14 /\ yy_base[9] = 8 /\ yy_base[10] = 3 /\ yy_base[11] = 2
  /\ yy_base[12] = 14 /\ yy_base[13] = 14 /\ yy_base[14] = 7
BY DEF yy_base, table

\* yy_def: the state that stands in for one without an entry (scanner.c:399).
LEMMA Defaults ==
  /\ yy_def[0] = 0 /\ yy_def[1] = 13 /\ yy_def[2] = 1 /\ yy_def[3] = 13
  /\ yy_def[4] = 13 /\ yy_def[5] = 13 /\ yy_def[6] = 14 /\ yy_def[7] = 13
  /\ yy_def[8] = 13 /\ yy_def[9] = 14 /\ yy_def[10] = 13 /\ yy_def[11] = 13
  /\ yy_def[12] = 13 /\ yy_def[13] = 0 /\ yy_def[14] = 13
BY DEF yy_def, table

\* yy_nxt: the state each entry leads to (scanner.c:405).
LEMMA Nexts ==
  /\ yy_nxt[0] = 0 /\ yy_nxt[1] = 4 /\ yy_nxt[2] = 5 /\ yy_nxt[3] = 4
  /\ yy_nxt[4] = 6 /\ yy_nxt[5] = 7 /\ yy_nxt[6] = 8 /\ yy_nxt[7] = 4
  /\ yy_nxt[8] = 9 /\ yy_nxt[9] = 12 /\ yy_nxt[10] = 11 /\ yy_nxt[11] = 10
  /\ yy_nxt[12] = 10 /\ yy_nxt[13] = 13 /\ yy_nxt[14] = 3 /\ yy_nxt[15] = 13
  /\ yy_nxt[16] = 13 /\ yy_nxt[17] = 13 /\ yy_nxt[18] = 13 /\ yy_nxt[19] = 13
  /\ yy_nxt[20] = 13 /\ yy_nxt[21] = 13
BY DEF yy_nxt, table

\* yy_chk: the state each entry belongs to (scanner.c:412).
LEMMA Checks ==
  /\ yy_chk[0] = 0 /\ yy_chk[1] = 1 /\ yy_chk[2] = 1 /\ yy_chk[3] = 1
  /\ yy_chk[4] = 1 /\ yy_chk[5] = 1 /\ yy_chk[6] = 1 /\ yy_chk[7] = 1
  /\ yy_chk[8] = 14 /\ yy_chk[9] = 11 /\ yy_chk[10] = 10 /\ yy_chk[11] = 9
  /\ yy_chk[12] = 6 /\ yy_chk[13] = 3 /\ yy_chk[14] = 13 /\ yy_chk[15] = 13
  /\ yy_chk[16] = 13 /\ yy_chk[17] = 13 /\ yy_chk[18] = 13 /\ yy_chk[19] = 13
  /\ yy_chk[20] = 13 /\ yy_chk[21] = 13
BY DEF yy_chk, table

\* The automaton the tables compress.
Row(s, c) ==
  CASE s \in {1, 2} -> (CASE c = 0 -> 3 [] c = 2 -> 5 [] c = 4 -> 6 [] c = 5 -> 7
                          [] c = 6 -> 8 [] OTHER -> 4)
    [] s \in {6, 9} -> (CASE c = 0 -> 3 [] c = 3 -> 10 [] c = 4 -> 13 [] OTHER -> 9)
    [] s = 10 -> (CASE c = 0 -> 3 [] c = 7 -> 11 [] OTHER -> 13)
    [] s = 11 -> (CASE c = 0 -> 3 [] c = 7 -> 12 [] OTHER -> 13)
    [] s = 3 -> 13
    [] s = 14 -> (CASE c = 0 -> 3 [] c = 1 -> 9 [] OTHER -> 13)
    [] OTHER -> IF c = 0 THEN 3 ELSE 13

\* Where the entry of state s for class c is, and what stands in for it.
Entry(s, c) == yy_base[s] + c
Template(s, c) == IF yy_def[s] >= 14 THEN yy_meta[c] ELSE c

\* An entry of its own gives the next state, and one of its default's the same as
\* the automaton has there.
LEMMA RowsFollow ==
  ASSUME NEW s \in 1..14, NEW c \in 0..7
  PROVE  /\ yy_chk[Entry(s, c)] = s => yy_nxt[Entry(s, c)] = Row(s, c)
         /\ yy_chk[Entry(s, c)] # s =>
              /\ yy_def[s] \in 1..14 /\ Template(s, c) \in 0..7
              /\ Row(yy_def[s], Template(s, c)) = Row(s, c)
<1>1. CASE s = 1
  BY <1>1, Metas, Bases, Defaults, Nexts, Checks DEF Entry, Template, Row
<1>2. CASE s = 2
  BY <1>2, Metas, Bases, Defaults, Nexts, Checks DEF Entry, Template, Row
<1>3. CASE s = 3
  BY <1>3, Metas, Bases, Defaults, Nexts, Checks DEF Entry, Template, Row
<1>4. CASE s = 4
  BY <1>4, Metas, Bases, Defaults, Nexts, Checks DEF Entry, Template, Row
<1>5. CASE s = 5
  BY <1>5, Metas, Bases, Defaults, Nexts, Checks DEF Entry, Template, Row
<1>6. CASE s = 6
  BY <1>6, Metas, Bases, Defaults, Nexts, Checks DEF Entry, Template, Row
<1>7. CASE s = 7
  BY <1>7, Metas, Bases, Defaults, Nexts, Checks DEF Entry, Template, Row
<1>8. CASE s = 8
  BY <1>8, Metas, Bases, Defaults, Nexts, Checks DEF Entry, Template, Row
<1>9. CASE s = 9
  BY <1>9, Metas, Bases, Defaults, Nexts, Checks DEF Entry, Template, Row
<1>10. CASE s = 10
  BY <1>10, Metas, Bases, Defaults, Nexts, Checks DEF Entry, Template, Row
<1>11. CASE s = 11
  BY <1>11, Metas, Bases, Defaults, Nexts, Checks DEF Entry, Template, Row
<1>12. CASE s = 12
  BY <1>12, Metas, Bases, Defaults, Nexts, Checks DEF Entry, Template, Row
<1>13. CASE s = 13
  BY <1>13, Metas, Bases, Defaults, Nexts, Checks DEF Entry, Template, Row
<1>14. CASE s = 14
  BY <1>14, Metas, Bases, Defaults, Nexts, Checks DEF Entry, Template, Row
<1> QED BY <1>1, <1>2, <1>3, <1>4, <1>5, <1>6, <1>7, <1>8,
           <1>9, <1>10, <1>11, <1>12, <1>13, <1>14

\* The tables, decompressed as far as f has done so.
Decompressed(f) ==
  [s \in 1..14 |->
     [c \in 0..7 |->
        IF yy_chk[yy_base[s] + c] = s
        THEN yy_nxt[yy_base[s] + c]
        ELSE f[yy_def[s]][IF yy_def[s] >= 14 THEN yy_meta[c] ELSE c]]]

\* The inner loop of the match (scanner.c:748) finds the automaton in its tables.
LEMMA Automaton ==
  \A s \in 1..14, c \in 0..7 : next_state[s][c] = Row(s, c)
<1>1. \E f : f = Decompressed(f)
  <2> DEFINE W == [s \in 1..14 |-> [c \in 0..7 |-> Row(s, c)]]
  <2>1. ASSUME NEW s \in 1..14, NEW c \in 0..7
        PROVE  Row(s, c) = IF yy_chk[Entry(s, c)] = s THEN yy_nxt[Entry(s, c)]
                           ELSE W[yy_def[s]][Template(s, c)]
    <3>1. yy_chk[Entry(s, c)] # s =>
            W[yy_def[s]][Template(s, c)] = Row(yy_def[s], Template(s, c))
      <4> HAVE yy_chk[Entry(s, c)] # s
      <4>1. yy_def[s] \in 1..14 /\ Template(s, c) \in 0..7 BY RowsFollow, SMTT(30)
      <4>2. \A t \in 1..14, d \in 0..7 : W[t][d] = Row(t, d) OBVIOUS
      <4> HIDE DEF W
      <4> QED BY <4>1, <4>2, Zenon
    <3> QED BY <3>1, RowsFollow
  <2>2. W = Decompressed(W) BY <2>1, ZenonT(60) DEF Decompressed, Entry, Template
  <2> QED BY <2>2
<1>2. next_state = Decompressed(next_state)
  <2>1. next_state = CHOOSE f : f = Decompressed(f) BY DEF next_state, Decompressed
  <2> QED BY <1>1, <2>1
<1>3. ASSUME NEW s \in 1..14, NEW c \in 0..7
      PROVE  next_state[s][c] = IF yy_chk[Entry(s, c)] = s THEN yy_nxt[Entry(s, c)]
                                ELSE next_state[yy_def[s]][Template(s, c)]
  <2>1. PICK f : f = next_state OBVIOUS
  <2>2. Decompressed(f)[s][c] = IF yy_chk[Entry(s, c)] = s THEN yy_nxt[Entry(s, c)]
                                ELSE f[yy_def[s]][Template(s, c)]
    BY DEF Decompressed, Entry, Template
  <2>3. f = Decompressed(f) BY <1>2, <2>1
  <2>4. f[s][c] = Decompressed(f)[s][c] BY <2>3
  <2>5. f[s][c] = IF yy_chk[Entry(s, c)] = s THEN yy_nxt[Entry(s, c)]
                  ELSE f[yy_def[s]][Template(s, c)]
    BY <2>2, <2>4
  <2> QED BY <2>1, <2>5
<1>4. ASSUME NEW s \in 1..14, NEW c \in 0..7,
             yy_chk[Entry(s, c)] # s =>
               \A d \in 0..7 : next_state[yy_def[s]][d] = Row(yy_def[s], d)
      PROVE  next_state[s][c] = Row(s, c)
  <2>1. CASE yy_chk[Entry(s, c)] = s
    <3>1. next_state[s][c] = yy_nxt[Entry(s, c)] BY <1>3, <2>1
    <3>2. yy_nxt[Entry(s, c)] = Row(s, c) BY <2>1, RowsFollow
    <3> QED BY <3>1, <3>2
  <2>2. CASE yy_chk[Entry(s, c)] # s
    <3>1. Template(s, c) \in 0..7 /\ Row(yy_def[s], Template(s, c)) = Row(s, c)
      BY <2>2, RowsFollow
    <3> QED BY <1>3, <1>4, <2>2, <3>1
  <2> QED BY ONLY <2>1, <2>2, Zenon
<1>5. ASSUME NEW c \in 0..7 PROVE yy_chk[Entry(13, c)] = 13
  BY Bases, Checks DEF Entry
<1>6. \A c \in 0..7 : next_state[13][c] = Row(13, c)
  <2> TAKE c \in 0..7
  <2>1. 13 \in 1..14 OBVIOUS
  <2> QED BY <1>4, <1>5, <2>1, Zenon
<1>7. \A s \in {1, 3, 4, 5, 7, 8, 10, 11, 12, 14} : yy_def[s] = 13
  BY ONLY Defaults, SMTT(30)
<1>8. \A s \in {1, 3, 4, 5, 7, 8, 10, 11, 12, 14}, c \in 0..7 :
        next_state[s][c] = Row(s, c)
  <2> TAKE s \in {1, 3, 4, 5, 7, 8, 10, 11, 12, 14}, c \in 0..7
  <2>1. yy_def[s] = 13 BY <1>7
  <2>2. s \in 1..14 OBVIOUS
  <2> QED BY <1>4, <1>6, <2>1, <2>2
<1>9. yy_def[2] = 1 /\ yy_def[6] = 14 /\ yy_def[9] = 14 BY ONLY Defaults, SMTT(30)
<1>10. \A s \in {2, 6, 9}, c \in 0..7 : next_state[s][c] = Row(s, c)
  <2> TAKE s \in {2, 6, 9}, c \in 0..7
  <2>1. PICK t \in {1, 14} : t = yy_def[s] BY <1>9
  <2>2. t \in {1, 3, 4, 5, 7, 8, 10, 11, 12, 14} OBVIOUS
  <2>3. \A d \in 0..7 : next_state[t][d] = Row(t, d) BY <1>8, <2>2
  <2>4. s \in 1..14 OBVIOUS
  <2> QED BY <1>4, <2>1, <2>3, <2>4
<1>11. 1..14 = {1, 3, 4, 5, 7, 8, 10, 11, 12, 14} \cup {13} \cup {2, 6, 9} OBVIOUS
<1> QED BY <1>6, <1>8, <1>10, <1>11

\* Where the loop of the match stops: in the states nothing leads on from.
LEMMA Stopping ==
  \A s \in 1..13 : stops(s) <=> s \notin {1, 2, 3, 6, 9, 10, 11}
<1> TAKE s \in 1..13
<1> QED BY Bases DEF stops

-----------------------------------------------------------------------------
(* The moves of a cursor.                                                  *)

\* The cursor before cell j in state s, for a token that begins at cell p: from the
\* second byte of a packet on, the '$' alone is what was accepted last.
At(p, j, s) ==
  [state |-> s, cp |-> j,
   last_state |-> IF s \in {9, 10, 11} THEN 6 ELSE 1,
   last_cp |-> IF s \in {9, 10, 11} THEN p + 1 ELSE p]

\* The cursor after cell j, if the cells before it led to state s and no longer
\* token is possible.
Past(p, j, s, c) ==
  [state |-> Row(s, c), cp |-> j + 1,
   last_state |-> IF s = 1 THEN 1 ELSE IF s = 4 THEN 4 ELSE 6,
   last_cp |-> IF s = 1 THEN p ELSE p + 1]

\* A move from a live state, noting an acceptance first (scanner.c:742).
LEMMA MoveFromLive ==
  ASSUME NEW b, NEW p \in Nat, NEW j \in Nat, NEW s \in Live, Reached(b, p, j, s),
         NEW c \in 0..7
  PROVE  moves(At(p, j, s), c) = IF Row(s, c) \in Live THEN At(p, j + 1, Row(s, c))
                                 ELSE Past(p, j, s, c)
<1> DEFINE k == At(p, j, s)
           a == accepting(k)
<1>1. s \in 1..14 /\ k.state = s /\ k.cp = j BY DEF Live, At
<1>2. next_state[k.state][c] = Row(s, c) BY <1>1, Automaton
<1>3. a = [state |-> s, cp |-> j,
           last_state |-> IF s = 4 THEN 4 ELSE IF s = 1 THEN 1 ELSE 6,
           last_cp |-> IF s = 1 THEN p ELSE p + 1]
  <2>1. CASE s \in {1, 9, 10, 11}
    <3>1. yy_accept[s] = 0 BY <2>1, Accepts
    <3>2. a = k BY <1>1, <3>1 DEF accepting
    <3> QED BY <2>1, <3>2 DEF At
  <2>2. CASE s \in {4, 6}
    <3>1. yy_accept[s] # 0 /\ j = p + 1 BY <2>2, Accepts DEF Reached
    <3>2. a = [k EXCEPT !.last_state = s, !.last_cp = j] BY <1>1, <3>1 DEF accepting
    <3>3. k = [state |-> s, cp |-> j, last_state |-> 1, last_cp |-> p] BY <2>2 DEF At
    <3> HIDE DEF k
    <3>4. a = [state |-> s, cp |-> j, last_state |-> s, last_cp |-> j] BY <3>2, <3>3
    <3> QED BY <2>2, <3>1, <3>4
  <2> QED BY <2>1, <2>2 DEF Live
<1>4. moves(k, c) = [a EXCEPT !.state = Row(s, c), !.cp = j + 1]
  <2>1. a.cp = j BY <1>3
  <2> QED BY <1>2, <2>1 DEF moves
<1> HIDE DEF a
<1>5. moves(k, c) = Past(p, j, s, c) BY <1>3, <1>4 DEF Past
<1>6. Row(s, c) \in Live => Past(p, j, s, c) = At(p, j + 1, Row(s, c))
  <2>1. CASE s = 1 BY <2>1 DEF Row, Live, Past, At
  <2>2. CASE s = 4 BY <2>2 DEF Row, Live, Past, At
  <2>3. CASE s \in {6, 9} BY <2>3 DEF Row, Live, Past, At
  <2>4. CASE s = 10 BY <2>4 DEF Row, Live, Past, At
  <2>5. CASE s = 11 BY <2>5 DEF Row, Live, Past, At
  <2> QED BY <2>1, <2>2, <2>3, <2>4, <2>5 DEF Live
<1> QED BY <1>5, <1>6

\* A byte that keeps a packet possible leads to the state of the longer beginning.
LEMMA ReachedNext ==
  ASSUME NEW b, NEW p \in Nat, NEW j \in Nat, NEW s \in Live, Reached(b, p, j, s),
         b[j] \in 0..7, Row(s, class_of(b[j])) \in Begun
  PROVE  Reached(b, p, j + 1, Row(s, class_of(b[j])))
<1> DEFINE c == class_of(b[j])
<1>1. c \in 1..7 /\ (c \in 2..7 => b[j] = c) /\ (c = 1 => b[j] \in {0, 1})
  BY DEF class_of, EndOfBuffer, Nul
<1> HIDE DEF c
<1>2. CASE s = 1
  <2>1. Row(1, c) \in Begun <=> c = 4
    <3>1. c \in {1, 2, 3, 4, 5, 6, 7} BY <1>1
    <3> QED BY <3>1 DEF Row, Begun
  <2>2. c = 4 /\ Row(s, c) = 6 BY <1>2, <2>1 DEF Row, c
  <2> QED BY <1>1, <1>2, <2>2 DEF Reached, Rules!Dollar, c
<1>3. CASE s = 4 BY <1>1, <1>3 DEF Row, Begun, c
<1>4. CASE s \in {6, 9}
  <2>1. c # 4 /\ Row(s, c) = IF c = 3 THEN 10 ELSE 9 BY <1>1, <1>4 DEF Row, Begun, c
  <2>2. j > p /\ b[p] = Rules!Dollar /\ Inside(b, p + 1, j - 1)
    BY <1>4 DEF Reached, Inside
  <2>3. c # 3 => Inside(b, p + 1, j)
    <3>1. c # 3 => b[j] \notin {Rules!Dollar, Rules!Hash}
      BY <1>1, <2>1 DEF Rules!Dollar, Rules!Hash
    <3>2. \A i \in p + 1..j : i \in p + 1..j - 1 \/ i = j OBVIOUS
    <3> QED BY <2>2, <3>1, <3>2 DEF Inside
  <2>4. (j + 1) - 1 = j /\ (j + 1) - 2 = j - 1 OBVIOUS
  <2>5. CASE c = 3
    BY <1>1, <2>1, <2>2, <2>4, <2>5 DEF Reached, Rules!Hash, c
  <2>6. CASE c # 3 BY <2>1, <2>2, <2>3, <2>4, <2>6 DEF Reached, c
  <2> QED BY <2>5, <2>6
<1>5. CASE s = 10
  <2>1. c = 7 /\ Row(s, c) = 11 BY <1>1, <1>5 DEF Row, Begun, c
  <2>2. (j + 1) - 1 = j /\ (j + 1) - 2 = j - 1 /\ (j + 1) - 3 = j - 2 OBVIOUS
  <2> QED BY <1>1, <1>5, <2>1, <2>2 DEF Reached, Rules!Hex, c
<1>6. CASE s = 11 BY <1>1, <1>6 DEF Row, Begun, c
<1> QED BY <1>2, <1>3, <1>4, <1>5, <1>6 DEF Live

-----------------------------------------------------------------------------
(* The loop of the match, from a cursor that is live before a cell the      *)
(* buffer holds.                                                           *)

Cursors == [state : 1..13, cp : Nat, last_state : 1..13, last_cp : Nat]

\* What a cursor the loop has moved can be: inside a packet, behind an end
\* character, or stopped with an action that is right.
Running(b, n, p, m) ==
  \E j \in p + 1..n, s \in Begun : Reached(b, p, j, s) /\ m = At(p, j, s)
Pending(b, n, p, m) ==
  \E j \in p..n, s \in Live :
    Reached(b, p, j, s) /\ b[j] = EndOfBuffer /\ m = Past(p, j, s, EndOfBuffer)
Halted(b, n, p, m) ==
  /\ stops(m.state)
  /\ Means(b, n, p, yy_find_action(m).act, yy_find_action(m).cp)
Turned(b, n, p, m) ==
  Running(b, n, p, m) \/ Pending(b, n, p, m) \/ Halted(b, n, p, m)

\* The loop goes on while it is inside a packet or behind an end character, and
\* is within the buffer then.
LEMMA Unstopped ==
  ASSUME NEW b, NEW n \in Nat, NEW p \in Nat, NEW m, Turned(b, n, p, m), ~stops(m.state)
  PROVE  /\ Running(b, n, p, m) \/ Pending(b, n, p, m)
         /\ m.cp \in p + 1..n + 1
<1>1. ASSUME Running(b, n, p, m) PROVE m.cp \in p + 1..n + 1
  BY <1>1 DEF Running, At
<1>2. ASSUME Pending(b, n, p, m) PROVE m.cp \in p + 1..n + 1
  BY <1>2 DEF Pending, Past
<1> QED BY <1>1, <1>2 DEF Turned, Halted

\* One turn from a live cursor: the byte goes into a packet, ends the buffer or
\* decides the action.
LEMMA TurnFromLive ==
  ASSUME NEW b, NEW n, Buffer(b, n), NEW p \in Nat, NEW j \in p..n, NEW s \in Live,
         Reached(b, p, j, s)
  PROVE  /\ moves(At(p, j, s), b[j]) \in Cursors
         /\ moves(At(p, j, s), b[j]).cp = j + 1
         /\ Turned(b, n, p, moves(At(p, j, s), b[j]))
<1> DEFINE c == b[j]
           m == moves(At(p, j, s), c)
<1>1. n \in Nat /\ j \in Nat /\ c \in 0..7 BY DEF Buffer
<1>2. m = IF Row(s, c) \in Live THEN At(p, j + 1, Row(s, c)) ELSE Past(p, j, s, c)
  BY <1>1, MoveFromLive
<1>3. Row(s, c) \in 1..13 BY <1>1 DEF Row, Live
<1> HIDE DEF m
<1>4. m \in Cursors /\ m.cp = j + 1
  <2>1. CASE Row(s, c) \in Live BY <1>1, <1>2, <1>3, <2>1 DEF At, Cursors
  <2>2. CASE Row(s, c) \notin Live BY <1>1, <1>2, <1>3, <2>2 DEF Past, Cursors
  <2> QED BY <2>1, <2>2
<1>5. CASE c = EndOfBuffer
  <2>1. Row(s, c) = 3 BY <1>5 DEF Row, Live, EndOfBuffer
  <2>2. m = Past(p, j, s, EndOfBuffer) BY <1>2, <1>5, <2>1 DEF Live
  <2>3. Pending(b, n, p, m) BY <1>5, <2>2 DEF Pending
  <2> QED BY <1>4, <2>3 DEF Turned, m
<1>6. CASE c # EndOfBuffer
  <2>1. c \in 1..7 /\ class_of(c) = c BY <1>1, <1>6 DEF EndOfBuffer, class_of
  <2>2. j # n /\ j + 1 \in p + 1..n BY <1>1, <1>6 DEF Buffer
  <2>3. CASE Row(s, c) \in Begun
    <3>1. Reached(b, p, j + 1, Row(s, c)) BY <1>1, <2>1, <2>3, ReachedNext
    <3>2. m = At(p, j + 1, Row(s, c)) BY <1>2, <2>3 DEF Live, Begun
    <3>3. Running(b, n, p, m) BY <2>2, <2>3, <3>1, <3>2 DEF Running
    <3> QED BY <1>4, <3>3 DEF Turned, m
  <2>4. CASE Row(s, c) \notin Begun
    <3> SUFFICES Halted(b, n, p, m) BY <1>4 DEF Turned, m
    <3>1. CASE s = 1
      <4>1. c \in {1, 2, 3, 5, 6, 7} BY <2>1, <2>4, <3>1 DEF Row, Begun
      <4>2. j = p /\ p < n BY <1>1, <2>2, <3>1 DEF Reached
      <4>3. Row(s, c) \in {4, 5, 7, 8} BY <3>1, <4>1 DEF Row
      <4>4. m.state = Row(s, c)
        <5>1. CASE Row(s, c) \in Live BY <1>2, <5>1 DEF At
        <5>2. CASE Row(s, c) \notin Live BY <1>2, <5>2 DEF Past
        <5> QED BY <5>1, <5>2
      <4>5. yy_find_action(m) = [act |-> yy_accept[Row(s, c)], cp |-> p + 1]
        BY <1>4, <4>2, <4>3, <4>4, Accepts DEF yy_find_action
      <4>6. stops(m.state) BY <4>3, <4>4, Stopping
      <4>7. CASE c \in {1, 3, 7}
        <5>1. yy_accept[Row(s, c)] = 4 BY <3>1, <4>7, Accepts DEF Row
        <5>2. b[p] \in {Rules!Nul, Rules!Other, Rules!Hash, Rules!Hex}
          BY <4>2, <4>7 DEF Rules!Nul, Rules!Other, Rules!Hash, Rules!Hex
        <5> QED BY <4>2, <4>5, <4>6, <5>1, <5>2 DEF Halted, Means
      <4>8. CASE c \in {2, 5, 6}
        <5>1. yy_accept[Row(s, c)] = IF c = 2 THEN 5 ELSE IF c = 5 THEN 1 ELSE 2
          BY <3>1, <4>8, Accepts DEF Row
        <5>2. \/ c = 2 /\ b[p] = Rules!Newline
              \/ c = 5 /\ b[p] = Rules!Plus
              \/ c = 6 /\ b[p] = Rules!Minus
          BY <4>2, <4>8 DEF Rules!Newline, Rules!Plus, Rules!Minus
        <5> QED BY <4>2, <4>5, <4>6, <5>1, <5>2 DEF Halted, Means
      <4> QED BY <4>1, <4>7, <4>8
    <3>2. CASE s = 4
      <4>1. Row(s, c) = 13 BY <2>1, <3>2 DEF Row
      <4>2. m = Past(p, j, s, c) BY <1>2, <4>1 DEF Live
      <4>3. yy_find_action(m) = [act |-> 4, cp |-> p + 1]
        BY <3>2, <4>1, <4>2, Accepts DEF yy_find_action, Past
      <4>4. stops(m.state) BY <4>1, <4>2, Stopping DEF Past
      <4>5. b[p] = Rules!Nul /\ p < n BY <1>1, <2>2, <3>2 DEF Reached
      <4> QED BY <4>3, <4>4, <4>5 DEF Halted, Means
    <3>3. CASE s \in Begun /\ Row(s, c) = 13
      <4>1. m = Past(p, j, s, c) BY <1>2, <3>3 DEF Live
      <4>2. yy_find_action(m) = [act |-> 4, cp |-> p + 1]
        BY <3>3, <4>1, Accepts DEF yy_find_action, Past, Begun
      <4>3. stops(m.state) BY <3>3, <4>1, Stopping DEF Past
      <4>4. IF s \in {6, 9} THEN c = Rules!Dollar ELSE c # Rules!Hex
        BY <2>1, <3>3 DEF Row, Begun, Rules!Dollar, Rules!Hex
      <4>5. Refutes(b, p, j) BY <3>3, <4>4 DEF Refutes
      <4>6. j \in p + 1..n - 1 BY <1>1, <2>2, <3>3 DEF Reached, Begun
      <4>7. p < n /\ \E i \in p + 1..n - 1 : Refutes(b, p, i) BY <1>1, <4>5, <4>6
      <4> QED BY <4>2, <4>3, <4>7 DEF Halted, Means
    <3>4. CASE s \in Begun /\ Row(s, c) # 13
      <4>1. s = 11 /\ c = 7 /\ Row(s, c) = 12 BY <2>1, <2>4, <3>4 DEF Row, Begun
      <4>2. m = Past(p, j, s, c) BY <1>2, <4>1 DEF Live
      <4>3. yy_find_action(m) = [act |-> 3, cp |-> j + 1]
        BY <4>1, <4>2, Accepts DEF yy_find_action, Past
      <4>4. stops(m.state) BY <4>1, <4>2, Stopping DEF Past
      <4>5. /\ (j + 1) - 1 = j /\ (j + 1) - 2 = j - 1 /\ (j + 1) - 3 = j - 2
            /\ (j + 1) - 4 = j - 3
        BY <1>1
      <4>6. PacketAt(b, p, j + 1)
        BY <1>1, <4>1, <4>5 DEF PacketAt, Reached, Rules!Hex
      <4>7. j + 1 \in p + 4..n BY <1>1, <2>2, <4>6 DEF PacketAt
      <4> QED BY <4>3, <4>4, <4>6, <4>7 DEF Halted, Means
    <3> QED BY <3>1, <3>2, <3>3, <3>4 DEF Live, Begun
  <2> QED BY <2>3, <2>4
<1> QED BY <1>5, <1>6

\* One more turn of a loop that has not stopped.
LEMMA TurnGoesOn ==
  ASSUME NEW b, NEW n, Buffer(b, n), NEW p \in Nat, NEW m, Turned(b, n, p, m),
         ~stops(m.state)
  PROVE  /\ moves(m, b[m.cp]) \in Cursors
         /\ moves(m, b[m.cp]).cp = m.cp + 1
         /\ Turned(b, n, p, moves(m, b[m.cp]))
<1>1. n \in Nat BY DEF Buffer
<1>2. CASE Running(b, n, p, m)
  <2>1. PICK j \in p + 1..n, s \in Begun : Reached(b, p, j, s) /\ m = At(p, j, s)
    BY <1>2 DEF Running
  <2>2. j \in p..n /\ s \in Live /\ m.cp = j BY <1>1, <2>1 DEF Begun, Live, At
  <2> QED BY <2>1, <2>2, TurnFromLive
<1>3. CASE Pending(b, n, p, m)
  <2>1. PICK j \in p..n, s \in Live :
          Reached(b, p, j, s) /\ b[j] = EndOfBuffer /\ m = Past(p, j, s, EndOfBuffer)
    BY <1>3 DEF Pending
  <2>2. Row(s, EndOfBuffer) = 3 BY DEF Row, Live, EndOfBuffer
  <2>3. m = [state |-> 3, cp |-> j + 1,
             last_state |-> IF s = 1 THEN 1 ELSE IF s = 4 THEN 4 ELSE 6,
             last_cp |-> IF s = 1 THEN p ELSE p + 1]
    BY <2>1, <2>2 DEF Past
  <2>4. j \in Nat /\ b[j + 1] \in 0..7 BY <1>1 DEF Buffer
  <2>5. next_state[3][b[j + 1]] = 13
    <3>1. Row(3, b[j + 1]) = 13 BY DEF Row
    <3> QED BY <2>4, <3>1, Automaton
  <2>6. accepting(m) = [state |-> 3, cp |-> j + 1, last_state |-> 3, last_cp |-> j + 1]
    <3>1. accepting(m) = [m EXCEPT !.last_state = 3, !.last_cp = j + 1]
      BY <2>3, Accepts DEF accepting
    <3> QED BY <2>3, <3>1
  <2>7. moves(m, b[m.cp]) =
          [state |-> 13, cp |-> j + 2, last_state |-> 3, last_cp |-> j + 1]
    <3>1. m.cp = j + 1 /\ m.state = 3 BY <2>3
    <3>2. PICK a : a = accepting(m) OBVIOUS
    <3>3. a = [state |-> 3, cp |-> j + 1, last_state |-> 3, last_cp |-> j + 1]
      BY <2>6, <3>2
    <3>4. moves(m, b[m.cp]) = [a EXCEPT !.state = 13, !.cp = a.cp + 1]
      BY <2>5, <3>1, <3>2 DEF moves
    <3>5. a.cp + 1 = j + 2 BY <2>4, <3>3
    <3> QED BY <3>3, <3>4, <3>5
  <2>8. yy_find_action(moves(m, b[m.cp])) = [act |-> 6, cp |-> j + 1]
    BY <2>7, Accepts DEF yy_find_action
  <2>9. stops(13) BY Stopping
  <2>10. Means(b, n, p, 6, j + 1)
    <3>1. (j + 1) - 1 = j /\ j + 1 \in p + 1..n + 1 BY <1>1
    <3> QED BY <2>1, <3>1 DEF Means
  <2>11. Halted(b, n, p, moves(m, b[m.cp]))
    <3>1. PICK h : h = moves(m, b[m.cp]) OBVIOUS
    <3>2. h.state = 13 BY <2>7, <3>1
    <3>3. yy_find_action(h).act = 6 /\ yy_find_action(h).cp = j + 1 BY <2>8, <3>1
    <3>4. Halted(b, n, p, h) BY <2>9, <2>10, <3>2, <3>3 DEF Halted
    <3> QED BY <3>1, <3>4
  <2>12. moves(m, b[m.cp]) \in Cursors /\ moves(m, b[m.cp]).cp = m.cp + 1
    BY <2>3, <2>4, <2>7 DEF Cursors
  <2> QED BY <2>11, <2>12 DEF Turned
<1> QED BY <1>1, <1>2, <1>3, Unstopped

\* The turns of the match loop on buffer b from cursor k, as far as f has made them.
Turns(f, b, k) ==
  [i \in DOMAIN b |->
     IF i = 0 THEN moves(k, b[k.cp])
     ELSE LET last == f[i - 1]
          IN  IF stops(last.state) THEN last ELSE moves(last, b[last.cp])]

\* A cursor inside a packet or behind an end character has not stopped.
LEMMA StoppedIsHalted ==
  ASSUME NEW b, NEW n, NEW p, NEW m, Turned(b, n, p, m), stops(m.state)
  PROVE  Halted(b, n, p, m)
<1>1. ASSUME Running(b, n, p, m) PROVE FALSE
  <2>1. m.state \in Begun BY <1>1 DEF Running, At
  <2> QED BY <2>1, Stopping DEF Begun
<1>2. ASSUME Pending(b, n, p, m) PROVE FALSE
  <2>1. PICK s \in Live : m.state = Row(s, EndOfBuffer) BY <1>2 DEF Pending, Past
  <2>2. Row(s, EndOfBuffer) = 3 BY DEF Row, Live, EndOfBuffer
  <2> QED BY <2>1, <2>2, Stopping
<1> QED BY <1>1, <1>2 DEF Turned

\* From a live cursor the loop ends within the buffer (scanner.c:739), and the
\* action it finds is right.
LEMMA MatchHalts ==
  ASSUME NEW b, NEW n, Buffer(b, n), NEW p \in Nat, NEW j \in p..n, NEW s \in Live,
         Reached(b, p, j, s)
  PROVE  Halted(b, n, p, yy_match(b, At(p, j, s)))
<1> DEFINE k == At(p, j, s)
           u == moves(k, b[k.cp])
           V == {m \in Cursors : Turned(b, n, p, m)}
           G == [m \in V |-> IF stops(m.state) THEN m ELSE moves(m, b[m.cp])]
<1>1. n \in Nat /\ j \in Nat /\ n + 1 \in Nat /\ DOMAIN b = 0..n + 1 BY DEF Buffer
<1>2. k.cp = j BY DEF At
<1> HIDE DEF k
<1>3. u \in V /\ u.cp = j + 1 BY <1>2, TurnFromLive DEF k
<1>4. ASSUME NEW m \in V, ~stops(m.state)
      PROVE  moves(m, b[m.cp]) \in V /\ moves(m, b[m.cp]).cp = m.cp + 1
  BY <1>4, TurnGoesOn
<1>5. G \in [V -> V] BY <1>4
<1> HIDE DEF u, V
<1>6. PICK f : f \in [0..n + 1 -> V] /\ f[0] = u /\ \A i \in 1..n + 1 : f[i] = G[f[i - 1]]
  <2> HIDE DEF G
  <2>1. PICK f : LoopOf(f, n + 1, V, u, G) BY <1>1, <1>3, <1>5, LoopExists
  <2> QED BY <2>1 DEF LoopOf
<1>7. \E turn : turn = Turns(turn, b, k)
  <2>1. ASSUME NEW i \in 0..n + 1 PROVE f[i] = Turns(f, b, k)[i]
    <3>1. CASE i = 0 BY <1>1, <1>6, <3>1 DEF Turns, u
    <3>2. CASE i # 0
      <4>1. i \in 1..n + 1 /\ i - 1 \in 0..n + 1 BY <1>1, <3>2
      <4>2. f[i] = G[f[i - 1]] /\ f[i - 1] \in V BY <1>6, <4>1
      <4>3. f[i] = IF stops(f[i - 1].state) THEN f[i - 1]
                   ELSE moves(f[i - 1], b[f[i - 1].cp])
        BY <4>2
      <4> QED BY <1>1, <3>2, <4>3 DEF Turns
    <3> QED BY <3>1, <3>2
  <2>2. DOMAIN Turns(f, b, k) = 0..n + 1 BY <1>1 DEF Turns
  <2>3. Turns(f, b, k) = [i \in 0..n + 1 |-> Turns(f, b, k)[i]]
    BY <1>1 DEF Turns
  <2>4. f = [i \in 0..n + 1 |-> f[i]] BY <1>6
  <2>5. f = Turns(f, b, k) BY <2>1, <2>3, <2>4
  <2> QED BY <2>5
<1>8. PICK turn : /\ turn = Turns(turn, b, k)
                  /\ yy_match(b, k) = turn[CHOOSE i \in DOMAIN b : stops(turn[i].state)]
  <2>1. PICK turn : turn = CHOOSE t : t = Turns(t, b, k) OBVIOUS
  <2>2. turn = Turns(turn, b, k) BY <1>7, <2>1
  <2>3. yy_match(b, k) = turn[CHOOSE i \in DOMAIN b : stops(turn[i].state)]
    BY <2>1 DEF yy_match, Turns
  <2> QED BY <2>2, <2>3
<1>9. turn[0] = u
  <2>1. Turns(turn, b, k)[0] = u BY <1>1 DEF Turns, u
  <2> QED BY <1>8, <2>1
<1>10. ASSUME NEW i \in 1..n + 1
       PROVE  turn[i] = IF stops(turn[i - 1].state) THEN turn[i - 1]
                        ELSE moves(turn[i - 1], b[turn[i - 1].cp])
  <2>1. PICK t : t = turn OBVIOUS
  <2>2. Turns(t, b, k)[i] = IF stops(t[i - 1].state) THEN t[i - 1]
                            ELSE moves(t[i - 1], b[t[i - 1].cp])
    BY <1>1 DEF Turns
  <2>3. t = Turns(t, b, k) BY <1>8, <2>1
  <2>4. t[i] = Turns(t, b, k)[i] BY <2>3
  <2>5. t[i] = IF stops(t[i - 1].state) THEN t[i - 1]
               ELSE moves(t[i - 1], b[t[i - 1].cp])
    BY <2>2, <2>4
  <2> QED BY <2>1, <2>5
<1> DEFINE S == {i \in Nat : i <= n + 1 =>
                   turn[i] \in V /\ (stops(turn[i].state) \/ turn[i].cp = (j + i) + 1)}
<1>11. 0 \in S BY <1>1, <1>3, <1>9
<1>12. ASSUME NEW i \in Nat, i \in S PROVE i + 1 \in S
  <2> SUFFICES ASSUME i + 1 <= n + 1
               PROVE  /\ turn[i + 1] \in V
                      /\ stops(turn[i + 1].state) \/ turn[i + 1].cp = (j + (i + 1)) + 1
    OBVIOUS
  <2>1. i + 1 \in 1..n + 1 /\ (i + 1) - 1 = i /\ i <= n + 1 BY <1>1
  <2>2. turn[i] \in V /\ (stops(turn[i].state) \/ turn[i].cp = (j + i) + 1)
    BY <1>12, <2>1
  <2>3. turn[i + 1] = IF stops(turn[i].state) THEN turn[i] ELSE moves(turn[i], b[turn[i].cp])
    BY <1>10, <2>1
  <2>4. CASE stops(turn[i].state) BY <2>2, <2>3, <2>4
  <2>5. CASE ~stops(turn[i].state)
    <3>1. turn[i + 1] \in V /\ turn[i + 1].cp = turn[i].cp + 1
      BY <1>4, <2>2, <2>3, <2>5
    <3>2. ((j + i) + 1) + 1 = (j + (i + 1)) + 1 BY <1>1
    <3> QED BY <2>2, <2>5, <3>1, <3>2
  <2> QED BY <2>4, <2>5
<1>13. \A i \in Nat : i \in S
  <2> HIDE DEF S
  <2> QED BY <1>11, <1>12, Counting
<1>14. \A i \in 0..n + 1 :
         turn[i] \in V /\ (stops(turn[i].state) \/ turn[i].cp = (j + i) + 1)
  BY <1>1, <1>13
<1>15. stops(turn[n + 1].state)
  <2> SUFFICES ASSUME ~stops(turn[n + 1].state) PROVE FALSE OBVIOUS
  <2>1. n + 1 \in 0..n + 1 BY <1>1
  <2>2. turn[n + 1].cp = (j + (n + 1)) + 1 BY <1>14, <2>1
  <2>3. Turned(b, n, p, turn[n + 1]) BY <1>14, <2>1 DEF V
  <2>4. turn[n + 1].cp \in p + 1..n + 1 BY <1>1, <2>3, Unstopped
  <2> QED BY <1>1, <2>2, <2>4
<1>16. PICK i \in 0..n + 1 : yy_match(b, k) = turn[i] /\ stops(turn[i].state)
  <2>1. n + 1 \in DOMAIN b BY <1>1
  <2>2. PICK i : i = CHOOSE x \in DOMAIN b : stops(turn[x].state) OBVIOUS
  <2>3. i \in DOMAIN b /\ stops(turn[i].state) BY <1>15, <2>1, <2>2
  <2> QED BY <1>1, <1>8, <2>2, <2>3
<1>17. Turned(b, n, p, turn[i]) BY <1>14 DEF V
<1>18. Halted(b, n, p, turn[i]) BY <1>16, <1>17, StoppedIsHalted
<1> QED BY <1>16, <1>18 DEF k

-----------------------------------------------------------------------------
(* The reconstruction of the state before the end of the buffer.           *)

\* The byte behind a live beginning leads to the state of the longer one.
LEMMA ReachedStep ==
  ASSUME NEW b, NEW p \in Nat, NEW j \in Nat, NEW s \in Live, NEW t \in Live,
         Reached(b, p, j, s), Reached(b, p, j + 1, t), b[j] \in 0..7
  PROVE  Row(s, class_of(b[j])) = t
<1> DEFINE c == class_of(b[j])
<1>1. /\ (j + 1) - 1 = j /\ (j + 1) - 2 = j - 1 /\ (j + 1) - 3 = j - 2
      /\ j >= p
  BY DEF Reached
<1>2. CASE t \in {1, 4, 6}
  <2>1. j = p /\ s = 1 BY <1>1, <1>2 DEF Reached
  <2>2. c = IF t = 4 THEN 1 ELSE 4
    BY <1>1, <1>2, <2>1
       DEF Reached, class_of, EndOfBuffer, Nul, Rules!Nul, Rules!Dollar
  <2> QED BY <1>1, <1>2, <2>1, <2>2 DEF Row, Reached
<1>3. CASE t \in {9, 10}
  <2>1. j > p /\ b[p] = Rules!Dollar /\ Inside(b, p + 1, j - 1)
    BY <1>1, <1>3 DEF Reached, Inside
  <2>2. s \in {6, 9}
    <3>1. s \notin {1, 4} BY <2>1 DEF Reached, Rules!Dollar, Rules!Nul
    <3>2. s # 10
      <4> SUFFICES ASSUME s = 10 PROVE FALSE OBVIOUS
      <4>1. j - 1 \in p + 1..j - 1 /\ b[j - 1] = Rules!Hash BY DEF Reached
      <4> QED BY <2>1, <4>1 DEF Inside
    <3>3. s # 11
      <4> SUFFICES ASSUME s = 11 PROVE FALSE OBVIOUS
      <4>1. j - 2 \in p + 1..j - 1 /\ b[j - 2] = Rules!Hash BY DEF Reached
      <4> QED BY <2>1, <4>1 DEF Inside
    <3> QED BY <3>1, <3>2, <3>3 DEF Live
  <2>3. CASE t = 9
    <3>1. j \in p + 1..j BY <2>1
    <3>2. b[j] \notin {Rules!Dollar, Rules!Hash} BY <1>1, <2>3, <3>1 DEF Reached, Inside
    <3>3. c \in {1, 2, 5, 6, 7}
      BY <3>2 DEF class_of, EndOfBuffer, Nul, Rules!Dollar, Rules!Hash
    <3> QED BY <2>2, <2>3, <3>3 DEF Row
  <2>4. CASE t = 10
    <3>1. c = 3 BY <1>1, <2>4 DEF Reached, class_of, EndOfBuffer, Rules!Hash
    <3> QED BY <2>2, <2>4, <3>1 DEF Row
  <2> QED BY <1>3, <2>3, <2>4
<1>4. CASE t = 11
  <2>1. /\ j > p + 1 /\ b[p] = Rules!Dollar /\ Inside(b, p + 1, j - 2)
        /\ b[j - 1] = Rules!Hash /\ b[j] = Rules!Hex
    BY <1>1, <1>4 DEF Reached
  <2>2. s \notin {1, 4, 6} BY <2>1 DEF Reached
  <2>3. s # 9
    <3> SUFFICES ASSUME s = 9 PROVE FALSE OBVIOUS
    <3>1. j - 1 \in p + 1..j - 1 BY <2>1
    <3> QED BY <2>1, <3>1 DEF Reached, Inside
  <2>4. s # 11
    <3> SUFFICES ASSUME s = 11 PROVE FALSE OBVIOUS
    <3>1. j - 2 \in p + 1..j - 2 /\ b[j - 2] = Rules!Hash BY DEF Reached
    <3> QED BY <2>1, <3>1 DEF Inside
  <2>5. s = 10 /\ c = 7
    BY <2>1, <2>2, <2>3, <2>4 DEF Live, class_of, EndOfBuffer, Rules!Hex
  <2> QED BY <1>4, <2>5 DEF Row
<1> QED BY <1>2, <1>3, <1>4 DEF Live

\* A live beginning without its last byte is one as well.
LEMMA ReachedBefore ==
  ASSUME NEW b, NEW p \in Nat, NEW j \in Nat, j >= p, NEW t \in Live, Reached(b, p, j + 1, t)
  PROVE  \E s \in Live : Reached(b, p, j, s)
<1>1. (j + 1) - 1 = j /\ (j + 1) - 2 = j - 1 /\ (j + 1) - 3 = j - 2 OBVIOUS
<1>2. CASE t \in {1, 4, 6} BY <1>2 DEF Reached, Live
<1>3. CASE t \in {9, 10}
  <2>1. j > p /\ b[p] = Rules!Dollar /\ Inside(b, p + 1, j - 1)
    BY <1>1, <1>3 DEF Reached, Inside
  <2>2. CASE j = p + 1
    <3>1. Reached(b, p, j, 6) BY <2>1, <2>2 DEF Reached
    <3> QED BY <3>1 DEF Live
  <2>3. CASE j # p + 1
    <3>1. j > p + 1 BY <2>1, <2>3
    <3>2. Reached(b, p, j, 9) BY <2>1, <3>1 DEF Reached
    <3> QED BY <3>2 DEF Live
  <2> QED BY <2>2, <2>3
<1>4. CASE t = 11
  <2>1. j > p + 1 BY <1>4 DEF Reached
  <2>2. Reached(b, p, j, 10) BY <1>1, <1>4, <2>1 DEF Reached
  <2> QED BY <2>2 DEF Live
<1> QED BY <1>2, <1>3, <1>4 DEF Live

\* So are all the shorter ones.
LEMMA ReachedAllBefore ==
  ASSUME NEW b, NEW p \in Nat, NEW to \in Nat, NEW t \in Live, Reached(b, p, to, t),
         NEW j \in p..to
  PROVE  \E s \in Live : Reached(b, p, j, s)
<1> DEFINE S == {d \in Nat : d <= to - p => \E s \in Live : Reached(b, p, to - d, s)}
<1>1. 0 \in S
  <2>1. to - 0 = to OBVIOUS
  <2> QED BY <2>1
<1>2. ASSUME NEW d \in Nat, d \in S PROVE d + 1 \in S
  <2> SUFFICES ASSUME d + 1 <= to - p
               PROVE  \E s \in Live : Reached(b, p, to - (d + 1), s)
    OBVIOUS
  <2>1. PICK s \in Live : Reached(b, p, to - d, s) BY <1>2
  <2>2. PICK i \in Nat : i = to - (d + 1) OBVIOUS
  <2>3. i >= p /\ i + 1 = to - d BY <2>2
  <2>4. Reached(b, p, i + 1, s) BY <2>1, <2>3
  <2> QED BY <2>2, <2>3, <2>4, ReachedBefore
<1>3. to - j \in S
  <2>1. to - j \in Nat OBVIOUS
  <2> HIDE DEF S
  <2> QED BY <1>1, <1>2, <2>1, Counting
<1>4. to - j <= to - p /\ to - (to - j) = j OBVIOUS
<1> QED BY <1>3, <1>4

\* The cursor before each cell, as far as f has come.
Previous(f, b, p, to) ==
  [i \in 0..to - p |-> IF i = 0 THEN Cursor(p) ELSE moves(f[i - 1], class_of(b[p + i - 1]))]

\* For a live beginning, the reconstruction gives the cursor the match had there, NULs
\* included (scanner.c:1096).
LEMMA PreviousState ==
  ASSUME NEW b, NEW p \in Nat, NEW to \in Nat, p <= to, NEW t \in Live,
         Reached(b, p, to, t), \A i \in p..to - 1 : b[i] \in 0..7
  PROVE  yy_get_previous_state(b, p, to) = At(p, to, t)
<1> DEFINE Reach(i, s) == s \in Live /\ Reached(b, p, p + i, s)
<1>1. PICK N \in Nat : N = to - p OBVIOUS
<1>2. \A i \in 0..N : \E s : Reach(i, s)
  <2> TAKE i \in 0..N
  <2>1. p + i \in p..to BY <1>1
  <2> QED BY <2>1, ReachedAllBefore
<1>3. ASSUME NEW i \in 1..N, NEW r, NEW s, Reach(i - 1, r), Reach(i, s)
      PROVE  moves(At(p, p + (i - 1), r), class_of(b[p + i - 1])) = At(p, p + i, s)
  <2>1. PICK j \in Nat : j = p + (i - 1) BY <1>1
  <2>2. j \in p..to - 1 /\ j + 1 = p + i /\ p + i - 1 = j BY <1>1, <2>1
  <2>3. b[j] \in 0..7 BY <2>2
  <2>4. Row(r, class_of(b[j])) = s BY <1>3, <2>1, <2>2, <2>3, ReachedStep
  <2>5. class_of(b[j]) \in 0..7 BY <2>3 DEF class_of, Nul
  <2>6. moves(At(p, j, r), class_of(b[j])) = At(p, j + 1, s)
    BY <1>3, <2>1, <2>4, <2>5, MoveFromLive
  <2> QED BY <2>1, <2>2, <2>6
<1>4. ASSUME NEW r, Reach(0, r) PROVE At(p, p + 0, r) = Cursor(p)
  <2>1. r = 1 BY <1>4 DEF Reached
  <2>2. p + 0 = p OBVIOUS
  <2> QED BY <2>1, <2>2 DEF At, Cursor
<1> HIDE DEF Reach
<1>5. \E f : f = Previous(f, b, p, to)
  <2> DEFINE W == [i \in 0..N |-> At(p, p + i, CHOOSE s : Reach(i, s))]
  <2>1. \A i \in 0..N : \E s : Reach(i, s) /\ W[i] = At(p, p + i, s)
    <3> TAKE i \in 0..N
    <3>1. PICK s : s = CHOOSE x : Reach(i, x) OBVIOUS
    <3>2. Reach(i, s) BY <1>2, <3>1
    <3>3. W[i] = At(p, p + i, s) BY <3>1
    <3> QED BY <3>2, <3>3
  <2>2. W = [i \in 0..N |-> W[i]] OBVIOUS
  <2> HIDE DEF W
  <2>3. ASSUME NEW i \in 0..N PROVE W[i] = Previous(W, b, p, to)[i]
    <3>1. PICK s : Reach(i, s) /\ W[i] = At(p, p + i, s) BY <2>1
    <3>2. CASE i = 0
      <4>1. W[0] = Cursor(p) BY <1>4, <3>1, <3>2
      <4> QED BY <1>1, <3>2, <4>1 DEF Previous
    <3>3. CASE i # 0
      <4>1. i \in 1..N /\ i - 1 \in 0..N BY <3>3
      <4>2. PICK r : Reach(i - 1, r) /\ W[i - 1] = At(p, p + (i - 1), r) BY <2>1, <4>1
      <4>3. W[i] = moves(W[i - 1], class_of(b[p + i - 1])) BY <1>3, <3>1, <4>1, <4>2
      <4> QED BY <1>1, <3>3, <4>3 DEF Previous
    <3> QED BY <3>2, <3>3
  <2>4. Previous(W, b, p, to) = [i \in 0..N |-> Previous(W, b, p, to)[i]]
    BY <1>1 DEF Previous
  <2>5. W = Previous(W, b, p, to) BY <2>2, <2>3, <2>4
  <2> QED BY <2>5
<1>6. PICK previous : /\ previous = Previous(previous, b, p, to)
                      /\ yy_get_previous_state(b, p, to) = previous[N]
  <2>1. PICK previous : previous = CHOOSE f : f = Previous(f, b, p, to) OBVIOUS
  <2>2. previous = Previous(previous, b, p, to) BY <1>5, <2>1
  <2>3. yy_get_previous_state(b, p, to) = previous[N]
    BY <1>1, <2>1 DEF yy_get_previous_state, Previous
  <2> QED BY <2>2, <2>3
<1>7. ASSUME NEW i \in 0..N
      PROVE  previous[i] = IF i = 0 THEN Cursor(p)
                           ELSE moves(previous[i - 1], class_of(b[p + i - 1]))
  <2>1. PICK f : f = previous OBVIOUS
  <2>2. Previous(f, b, p, to)[i] = IF i = 0 THEN Cursor(p)
                                   ELSE moves(f[i - 1], class_of(b[p + i - 1]))
    BY <1>1 DEF Previous
  <2>3. f = Previous(f, b, p, to) BY <1>6, <2>1
  <2>4. f[i] = Previous(f, b, p, to)[i] BY <2>3
  <2>5. f[i] = IF i = 0 THEN Cursor(p) ELSE moves(f[i - 1], class_of(b[p + i - 1]))
    BY <2>2, <2>4
  <2> QED BY <2>1, <2>5
<1> DEFINE S == {i \in Nat : i <= N =>
                   \A s : Reach(i, s) => previous[i] = At(p, p + i, s)}
<1>8. 0 \in S BY <1>1, <1>4, <1>7
<1>9. ASSUME NEW i \in Nat, i \in S PROVE i + 1 \in S
  <2> SUFFICES ASSUME i + 1 <= N, NEW s, Reach(i + 1, s)
               PROVE  previous[i + 1] = At(p, p + (i + 1), s)
    OBVIOUS
  <2>1. i + 1 \in 1..N /\ (i + 1) - 1 = i /\ i \in 0..N /\ i + 1 # 0 BY <1>1
  <2>2. PICK r : Reach(i, r) BY <1>2, <2>1
  <2>3. previous[i] = At(p, p + i, r) BY <1>9, <2>1, <2>2
  <2>4. previous[i + 1] = moves(previous[i], class_of(b[p + (i + 1) - 1]))
    BY <1>7, <2>1
  <2> QED BY <1>3, <2>1, <2>2, <2>3, <2>4
<1>10. N \in S
  <2> HIDE DEF S
  <2> QED BY <1>1, <1>8, <1>9, Counting
<1>11. p + N = to BY <1>1
<1>12. Reach(N, t) BY <1>11 DEF Reach
<1>13. previous[N] = At(p, to, t) BY <1>1, <1>10, <1>11, <1>12
<1> QED BY <1>6, <1>13

-----------------------------------------------------------------------------
(* The buffer.                                                             *)

\* The doubled sizes, as far as f has come.
Doubled(f, size) ==
  [i \in 0..number_to_move |->
     IF i = 0 THEN size
     ELSE LET last == f[i - 1] IN IF room(last) <= 0 THEN 2 * last ELSE last]

\* Doubling ends with room for a byte behind the token's, and one more (scanner.c:1007).
LEMMA GrownSuffices ==
  ASSUME number_to_move \in Nat, NEW size \in Nat, size >= 2
  PROVE  grown(size) \in Nat /\ grown(size) >= size /\ room(grown(size)) > 0
<1>1. PICK N \in Nat : N = number_to_move OBVIOUS
<1>2. \A x \in Nat : room(x) <= 0 <=> x <= N + 1 BY <1>1 DEF room
<1> DEFINE G == [x \in Nat |-> IF room(x) <= 0 THEN 2 * x ELSE x]
<1>3. G \in [Nat -> Nat] OBVIOUS
<1>4. PICK f : f \in [0..N -> Nat] /\ f[0] = size /\ \A i \in 1..N : f[i] = G[f[i - 1]]
  <2> HIDE DEF G
  <2>1. PICK f : LoopOf(f, N, Nat, size, G) BY <1>1, <1>3, LoopExists
  <2> QED BY <2>1 DEF LoopOf
<1>5. \E g : g = Doubled(g, size)
  <2>1. ASSUME NEW i \in 0..N PROVE f[i] = Doubled(f, size)[i]
    <3>1. CASE i = 0 BY <1>1, <1>4, <3>1 DEF Doubled
    <3>2. CASE i # 0
      <4>1. i \in 1..N /\ i - 1 \in 0..N BY <1>1, <3>2
      <4>2. f[i] = G[f[i - 1]] /\ f[i - 1] \in Nat BY <1>4, <4>1
      <4>3. f[i] = IF room(f[i - 1]) <= 0 THEN 2 * f[i - 1] ELSE f[i - 1] BY <4>2
      <4> QED BY <1>1, <3>2, <4>3 DEF Doubled
    <3> QED BY <3>1, <3>2
  <2>2. Doubled(f, size) = [i \in 0..N |-> Doubled(f, size)[i]] BY <1>1 DEF Doubled
  <2>3. f = [i \in 0..N |-> f[i]] BY <1>4
  <2>4. f = Doubled(f, size) BY <2>1, <2>2, <2>3
  <2> QED BY <2>4
<1>6. PICK doubled : doubled = Doubled(doubled, size) /\ grown(size) = doubled[N]
  <2>1. PICK doubled : doubled = CHOOSE g : g = Doubled(g, size) OBVIOUS
  <2>2. doubled = Doubled(doubled, size) BY <1>5, <2>1
  <2>3. grown(size) = doubled[N] BY <1>1, <2>1 DEF grown, Doubled
  <2> QED BY <2>2, <2>3
<1>7. ASSUME NEW i \in 0..N
      PROVE  doubled[i] = IF i = 0 THEN size
                          ELSE IF room(doubled[i - 1]) <= 0 THEN 2 * doubled[i - 1]
                               ELSE doubled[i - 1]
  <2>1. PICK g : g = doubled OBVIOUS
  <2>2. Doubled(g, size)[i] = IF i = 0 THEN size
                              ELSE IF room(g[i - 1]) <= 0 THEN 2 * g[i - 1] ELSE g[i - 1]
    BY <1>1 DEF Doubled
  <2>3. g = Doubled(g, size) BY <1>6, <2>1
  <2>4. g[i] = Doubled(g, size)[i] BY <2>3
  <2> QED BY <2>1, <2>2, <2>4
<1> DEFINE S == {i \in Nat : i <= N => /\ doubled[i] \in Nat /\ doubled[i] >= size
                                       /\ doubled[i] > N + 1 \/ doubled[i] >= i + 2}
<1>8. 0 \in S BY <1>7
<1>9. ASSUME NEW i \in Nat, i \in S PROVE i + 1 \in S
  <2> SUFFICES ASSUME i + 1 <= N
               PROVE  /\ doubled[i + 1] \in Nat /\ doubled[i + 1] >= size
                      /\ doubled[i + 1] > N + 1 \/ doubled[i + 1] >= (i + 1) + 2
    OBVIOUS
  <2>1. i + 1 \in 0..N /\ (i + 1) - 1 = i /\ i + 1 # 0 BY <1>1
  <2>2. PICK x \in Nat : x = doubled[i] BY <1>9, <2>1
  <2>3. x >= size /\ (x > N + 1 \/ x >= i + 2) BY <1>9, <2>1, <2>2
  <2>4. doubled[i + 1] = IF x <= N + 1 THEN 2 * x ELSE x BY <1>2, <1>7, <2>1, <2>2
  <2>5. CASE x <= N + 1 BY <2>3, <2>4, <2>5
  <2>6. CASE ~(x <= N + 1) BY <2>3, <2>4, <2>6
  <2> QED BY <2>5, <2>6
<1>10. N \in S
  <2> HIDE DEF S
  <2> QED BY <1>8, <1>9, Counting
<1>11. doubled[N] \in Nat /\ doubled[N] >= size /\ doubled[N] > N + 1 BY <1>10
<1> QED BY <1>2, <1>6, <1>11 DEF room

-----------------------------------------------------------------------------
(* The steps.  Each keeps the invariant, and the input that is in no token  *)
(* yet; a rule takes the bytes of its token from it.                       *)

\* Where the end of the token is that an action was found for.
LEMMA FoundPlace ==
  ASSUME NEW b, NEW n \in Nat, NEW p \in Nat, p <= n, NEW a, NEW q, NEW u,
         Follows(b, n, p, a, q, u)
  PROVE  /\ a \in 1..6 /\ q \in p + 1..n + 1
         /\ a # 6 => q <= n
BY DEF Follows, Means

\* After YY_DO_BEFORE_ACTION the buffer restored is the one before.
LEMMA FoundRestores ==
  ASSUME NEW b, NEW n, Buffer(b, n), NEW p, NEW found, found.cp \in 0..n + 1,
         Found(b, p, found)
  PROVE  restored' = b /\ DOMAIN yy_ch_buf' = 0..n + 1
<1>1. PICK q : q = found.cp OBVIOUS
<1>2. q \in DOMAIN b /\ DOMAIN b = 0..n + 1 BY <1>1 DEF Buffer
<1>3. yy_ch_buf' = [b EXCEPT ![q] = EndOfBuffer] /\ yy_hold_char' = b[q] /\ yy_c_buf_p' = q
  BY <1>1 DEF Found
<1>4. restored' = [yy_ch_buf' EXCEPT ![yy_c_buf_p'] = yy_hold_char'] BY DEF restored
<1>5. [[b EXCEPT ![q] = EndOfBuffer] EXCEPT ![q] = b[q]] = b BY <1>2 DEF Buffer
<1> QED BY <1>2, <1>3, <1>4, <1>5

\* The part of the buffer a found action leaves to the next step.
Settled(b, n, p, found, u) ==
  /\ restored' = b /\ DOMAIN yy_ch_buf' = 0..n + 1
  /\ yytext_ptr' = p /\ yy_c_buf_p' = found.cp /\ yy_act' = found.act
  /\ found.cp \in p + 1..n + 1 /\ found.act \in 1..6
  /\ Follows(b, n, p, found.act, found.cp, u)

\* An action that is right, when its token has been set up, is settled.
LEMMA FoundSettles ==
  ASSUME NEW b, NEW n, Buffer(b, n), NEW p \in Nat, p <= n, NEW found,
         Found(b, p, found), NEW u, Follows(b, n, p, found.act, found.cp, u)
  PROVE  Settled(b, n, p, found, u)
<1>1. n \in Nat BY DEF Buffer
<1>2. found.act \in 1..6 /\ found.cp \in p + 1..n + 1 BY <1>1, FoundPlace
<1>3. found.cp \in 0..n + 1 BY <1>1, <1>2
<1> QED BY <1>2, <1>3, FoundRestores DEF Settled, Found

\* Such an action keeps the invariant, if the rest of the scanner's state does.
LEMMA SettledKeeps ==
  ASSUME NEW b, NEW n, Buffer(b, n), NEW p \in Nat, NEW found,
         yy_n_chars' = n, Settled(b, n, p, found, unread'),
         yy_buf_size' \in Nat, n < yy_buf_size', yy_buf_size' >= 2,
         unread' \in Seq(0..7),
         yy_buffer_status' \in {"NEW", "NORMAL", "EOF_PENDING"},
         yy_buffer_status' = "EOF_PENDING" => unread' = <<>>,
         phase' \in {"scanning", "ended", "dead"}
  PROVE  ScannerInv'
<1>1. n \in Nat BY DEF Buffer
<1>2. BufferInv' BY <1>1 DEF BufferInv, Settled
<1>3. ActionInv'
  <2>1. yy_act' \in 1..6 BY DEF Settled
  <2>2. Follows(restored, yy_n_chars, yytext_ptr, yy_act, yy_c_buf_p, unread)'
    BY DEF Settled
  <2> QED BY <2>1, <2>2 DEF ActionInv
<1> QED BY <1>2, <1>3 DEF ScannerInv

\* The bytes of the cells from i to n - 1.
Cells(b, i, n) == [k \in 1..n - i |-> b[i + k - 1]]

Input == held \o unread

\* Where the bytes that are in no token begin.
LEMMA HeldIs ==
  /\ yy_act = NoAction => held = Cells(restored, yy_c_buf_p, yy_n_chars)
  /\ yy_act # NoAction => held = Cells(restored, yytext_ptr, yy_n_chars)
BY DEF held, Cells

\* The same of the next state.
LEMMA NextHeldIs ==
  /\ yy_act' = NoAction => held' = Cells(restored', yy_c_buf_p', yy_n_chars')
  /\ yy_act' # NoAction => held' = Cells(restored', yytext_ptr', yy_n_chars')
BY DEF held, Cells

\* The cells of a buffer are a sequence of classes of bytes.
LEMMA CellsAreBytes ==
  ASSUME NEW b, NEW n, Buffer(b, n), NEW i \in 0..n
  PROVE  /\ Cells(b, i, n) \in Seq(0..7) /\ Len(Cells(b, i, n)) = n - i
         /\ \A k \in 1..n - i : Cells(b, i, n)[k] = b[i + k - 1]
<1>1. PICK N \in Nat : N = n - i BY DEF Buffer
<1>2. \A k \in 1..N : b[i + k - 1] \in 0..7
  <2> TAKE k \in 1..N
  <2>1. i + k - 1 \in 0..n + 1 BY <1>1 DEF Buffer
  <2> QED BY <2>1 DEF Buffer
<1>3. Cells(b, i, n) \in [1..N -> 0..7] BY <1>1, <1>2 DEF Cells
<1>4. Cells(b, i, n) \in Seq(0..7) /\ Len(Cells(b, i, n)) = N BY <1>1, <1>3
<1> QED BY <1>1, <1>4 DEF Cells

\* An action found where the token begins leaves the bytes that are in none.
LEMMA SettledHolds ==
  ASSUME NEW b, NEW n, Buffer(b, n), NEW p, NEW found, NEW u, yy_n_chars' = n,
         Settled(b, n, p, found, u)
  PROVE  held' = Cells(b, p, n)
<1>1. yy_act' # NoAction BY DEF Settled, NoAction
<1> QED BY <1>1, NextHeldIs DEF Settled

\* What the loop of the match makes of a live cursor is settled.
LEMMA MatchSettles ==
  ASSUME NEW b, NEW n, Buffer(b, n), NEW p \in Nat, NEW j \in p..n, NEW s \in Live,
         Reached(b, p, j, s), NEW u,
         Found(b, p, yy_find_action(yy_match(b, At(p, j, s))))
  PROVE  Settled(b, n, p, yy_find_action(yy_match(b, At(p, j, s))), u)
<1>1. PICK found : found = yy_find_action(yy_match(b, At(p, j, s))) OBVIOUS
<1>2. Follows(b, n, p, found.act, found.cp, u)
  <2>1. Means(b, n, p, found.act, found.cp) BY <1>1, MatchHalts DEF Halted
  <2> QED BY <2>1 DEF Follows
<1>3. p <= n BY DEF Buffer
<1> QED BY <1>1, <1>2, <1>3, FoundSettles

\* The beginning of a token: the match begins where the last token ended.
LEMMA ScanStep ==
  ASSUME ScannerInv, Scan
  PROVE  ScannerInv' /\ Input' = Input
<1> DEFINE b == restored
           n == yy_n_chars
           q == yy_c_buf_p
           found == yy_find_action(yy_match(b, Cursor(q)))
<1>1. Buffer(b, n) /\ n \in Nat BY DEF ScannerInv, BufferInv, Buffer
<1>2. q \in 0..n BY DEF ScannerInv, BufferInv, ActionInv, Scan, NoAction, YY_STATE_EOF
<1>3. Cursor(q) = At(q, q, 1) BY DEF Cursor, At
<1>4. Reached(b, q, q, 1) /\ 1 \in Live BY DEF Reached, Live
<1>5. Found(b, q, found) BY DEF Scan
<1> HIDE DEF b, n, q
<1>6. \A u : Settled(b, n, q, found, u)
  <2> TAKE u
  <2>1. q \in Nat /\ q \in q..n BY <1>1, <1>2
  <2> QED BY <1>1, <1>3, <1>4, <1>5, <2>1, MatchSettles
<1> HIDE DEF found
<1>7. ScannerInv'
  <2>1. /\ yy_n_chars' = n /\ yy_buf_size' \in Nat /\ n < yy_buf_size' /\ yy_buf_size' >= 2
        /\ unread' \in Seq(0..7)
        /\ yy_buffer_status' \in {"NEW", "NORMAL", "EOF_PENDING"}
        /\ yy_buffer_status' = "EOF_PENDING" => unread' = <<>>
        /\ phase' \in {"scanning", "ended", "dead"}
    BY DEF ScannerInv, BufferInv, Scan, n
  <2>3. q \in Nat BY <1>1, <1>2
  <2> QED BY <1>1, <1>6, <2>1, <2>3, SettledKeeps
<1>8. held' = held
  <2>1. yy_n_chars' = n BY DEF Scan, n
  <2>2. held' = Cells(b, q, n) BY <1>1, <1>6, <2>1, SettledHolds
  <2>3. held = Cells(b, q, n) BY HeldIs DEF Scan, b, q, n
  <2> QED BY <2>2, <2>3
<1>9. unread' = unread BY DEF Scan
<1> QED BY <1>7, <1>8, <1>9 DEF Input

\* What the action at the end of the buffer is reached with.
LEMMA AtEndIs ==
  ASSUME ScannerInv, AtEnd
  PROVE  /\ Buffer(restored, yy_n_chars) /\ yy_n_chars \in Nat
         /\ yytext_ptr \in Nat /\ yy_c_buf_p \in yytext_ptr + 1..yy_n_chars + 1
         /\ restored[yy_c_buf_p - 1] = EndOfBuffer
         /\ \E s \in Live : Reached(restored, yytext_ptr, yy_c_buf_p - 1, s)
         /\ held = Cells(restored, yytext_ptr, yy_n_chars)
<1>1. yy_act = 6 /\ yy_act # NoAction
  BY DEF AtEnd, YY_END_OF_BUFFER, NoAction
<1>2. Follows(restored, yy_n_chars, yytext_ptr, 6, yy_c_buf_p, unread)
  BY <1>1 DEF ScannerInv, ActionInv, YY_STATE_EOF
<1>3. held = Cells(restored, yytext_ptr, yy_n_chars) BY <1>1, HeldIs
<1>4. /\ yy_c_buf_p \in yytext_ptr + 1..yy_n_chars + 1
      /\ restored[yy_c_buf_p - 1] = EndOfBuffer
      /\ \E s \in Live : Reached(restored, yytext_ptr, yy_c_buf_p - 1, s)
  BY <1>2 DEF Follows, Means
<1> QED BY <1>3, <1>4 DEF ScannerInv, BufferInv, Buffer

\* A NUL the automaton cannot follow ends the token before it (scanner.c:881).
LEMMA NulJams ==
  ASSUME NEW b, NEW n \in Nat, NEW p \in Nat, NEW j \in p..n - 1, NEW s \in {4, 10, 11},
         Reached(b, p, j, s), b[j] = EndOfBuffer,
         NEW found, found = yy_find_action([accepting(At(p, j, s)) EXCEPT !.cp = j])
  PROVE  Means(b, n, p, found.act, found.cp)
<1>1. PICK k : k = At(p, j, s) OBVIOUS
<1>2. k.state = s /\ k.cp = j BY <1>1 DEF At
<1>3. PICK e : e = [accepting(k) EXCEPT !.cp = j] OBVIOUS
<1>4. found = yy_find_action(e) BY <1>1, <1>3
<1>5. CASE s = 4
  <2>1. j = p + 1 /\ b[p] = Rules!Nul /\ p < n BY <1>5 DEF Reached
  <2>2. k = [state |-> 4, cp |-> j, last_state |-> 1, last_cp |-> p]
    BY <1>1, <1>5 DEF At
  <2>3. accepting(k) = [state |-> 4, cp |-> j, last_state |-> 4, last_cp |-> j]
    <3>1. accepting(k) = [k EXCEPT !.last_state = 4, !.last_cp = j]
      BY <1>2, <1>5, Accepts DEF accepting
    <3> QED BY <2>2, <3>1
  <2>4. e.state = 4 /\ e.cp = j BY <1>3, <2>3
  <2>5. found = [act |-> 4, cp |-> p + 1]
    BY <1>4, <2>1, <2>4, Accepts DEF yy_find_action
  <2>6. Means(b, n, p, 4, p + 1) BY <2>1 DEF Means
  <2>7. found.act = 4 /\ found.cp = p + 1 BY <2>5
  <2> QED BY <2>6, <2>7
<1>6. CASE s \in {10, 11}
  <2>1. j > p BY <1>6 DEF Reached
  <2>2. accepting(k) = k BY <1>2, <1>6, Accepts DEF accepting
  <2>3. k = [state |-> s, cp |-> j, last_state |-> 6, last_cp |-> p + 1]
    BY <1>1, <1>6 DEF At
  <2>4. e.state = s /\ e.last_state = 6 /\ e.last_cp = p + 1 BY <1>3, <2>2, <2>3
  <2>5. found = [act |-> 4, cp |-> p + 1]
    BY <1>4, <1>6, <2>4, Accepts DEF yy_find_action
  <2>6. Refutes(b, p, j)
    BY <1>6 DEF Refutes, Begun, EndOfBuffer, Rules!Hex
  <2>7. p < n /\ \E i \in p + 1..n - 1 : Refutes(b, p, i) BY <2>1, <2>6
  <2>8. Means(b, n, p, 4, p + 1) BY <2>7 DEF Means
  <2>9. found.act = 4 /\ found.cp = p + 1 BY <2>5
  <2> QED BY <2>8, <2>9
<1> QED BY <1>5, <1>6

\* A NUL of the input at the end of a live beginning.
LEMMA ReallyNulStep ==
  ASSUME ScannerInv, ReallyNul
  PROVE  ScannerInv' /\ Input' = Input
<1>1. PICK b : b = restored OBVIOUS
<1>2. PICK n \in Nat : n = yy_n_chars BY DEF ScannerInv, BufferInv, Buffer
<1>3. PICK p \in Nat : p = yytext_ptr BY DEF ScannerInv, BufferInv
<1>4. /\ Buffer(b, n) /\ yy_c_buf_p \in p + 1..n + 1 /\ b[yy_c_buf_p - 1] = EndOfBuffer
      /\ \E s \in Live : Reached(b, p, yy_c_buf_p - 1, s)
      /\ held = Cells(b, p, n)
  BY <1>1, <1>2, <1>3, AtEndIs DEF ReallyNul
<1>5. PICK j \in p..n - 1 : yy_c_buf_p = j + 1 /\ j = yy_c_buf_p - 1
  <2>1. yy_c_buf_p <= n BY <1>2 DEF ReallyNul
  <2>2. yy_c_buf_p - 1 \in p..n - 1 /\ yy_c_buf_p = (yy_c_buf_p - 1) + 1 BY <1>4, <2>1
  <2> QED BY <2>2
<1>6. PICK s \in Live : Reached(b, p, j, s) /\ b[j] = EndOfBuffer BY <1>4, <1>5
<1>7. yy_get_previous_state(b, p, j) = At(p, j, s)
  <2>1. \A i \in p..j - 1 : b[i] \in 0..7 BY <1>4 DEF Buffer
  <2>2. j \in Nat /\ p <= j OBVIOUS
  <2> QED BY <1>6, <2>1, <2>2, PreviousState
<1>8. j \in Nat /\ j + 1 \in p..n OBVIOUS
<1>9. PICK k : k = At(p, j, s) OBVIOUS
<1>10. moves(k, Nul) = IF Row(s, 1) \in Live THEN At(p, j + 1, Row(s, 1))
                       ELSE Past(p, j, s, 1)
  BY <1>6, <1>8, <1>9, MoveFromLive DEF Nul
<1>11. PICK found :
         /\ found = yy_find_action(IF moves(k, Nul).state = Jam
                                   THEN [accepting(k) EXCEPT !.cp = j]
                                   ELSE yy_match(b, moves(k, Nul)))
         /\ Found(b, p, found)
  BY <1>1, <1>3, <1>5, <1>7, <1>9 DEF ReallyNul
<1>12. \A u : Settled(b, n, p, found, u)
  <2> TAKE u
  <2>1. CASE s \in {4, 10, 11}
    <3>1. Row(s, 1) = 13 BY <2>1 DEF Row
    <3>2. moves(k, Nul).state = Jam BY <1>10, <3>1 DEF Live, Past, Jam
    <3>3. found = yy_find_action([accepting(At(p, j, s)) EXCEPT !.cp = j])
      BY <1>9, <1>11, <3>2
    <3>4. Means(b, n, p, found.act, found.cp) BY <1>6, <2>1, <3>3, NulJams
    <3>5. Follows(b, n, p, found.act, found.cp, u) BY <3>4 DEF Follows
    <3> QED BY <1>4, <1>8, <1>11, <3>5, FoundSettles
  <2>2. CASE s \in {1, 6, 9}
    <3>1. PICK t \in Live : t = Row(s, 1) /\ t # 13 BY <2>2 DEF Row, Live
    <3>2. moves(k, Nul) = At(p, j + 1, t) BY <1>10, <3>1
    <3>3. moves(k, Nul).state # Jam BY <3>1, <3>2 DEF At, Jam
    <3>4. Reached(b, p, j + 1, t)
      <4>1. class_of(b[j]) = 1 /\ b[j] \in 0..7 BY <1>6 DEF class_of, EndOfBuffer, Nul
      <4>2. CASE s = 1
        BY <1>6, <3>1, <4>2 DEF Row, Reached, EndOfBuffer, Rules!Nul
      <4>3. CASE s \in {6, 9}
        <5>1. Row(s, class_of(b[j])) \in Begun /\ Row(s, class_of(b[j])) = t
          BY <3>1, <4>1, <4>3 DEF Row, Begun
        <5> QED BY <1>6, <1>8, <4>1, <5>1, ReachedNext
      <4> QED BY <2>2, <4>2, <4>3
    <3>5. found = yy_find_action(yy_match(b, At(p, j + 1, t))) BY <1>11, <3>2, <3>3
    <3> QED BY <1>4, <1>8, <1>11, <3>4, <3>5, MatchSettles
  <2> QED BY <2>1, <2>2 DEF Live
<1>13. ScannerInv'
  <2>1. /\ yy_n_chars' = n /\ yy_buf_size' \in Nat /\ n < yy_buf_size' /\ yy_buf_size' >= 2
        /\ unread' \in Seq(0..7)
        /\ yy_buffer_status' \in {"NEW", "NORMAL", "EOF_PENDING"}
        /\ yy_buffer_status' = "EOF_PENDING" => unread' = <<>>
        /\ phase' \in {"scanning", "ended", "dead"}
    BY <1>2 DEF ScannerInv, BufferInv, ReallyNul
  <2> QED BY <1>4, <1>12, <2>1, SettledKeeps
<1>14. held' = held
  <2>1. yy_n_chars' = n BY <1>2 DEF ReallyNul
  <2> QED BY <1>4, <1>12, <2>1, SettledHolds
<1>15. unread' = unread BY DEF ReallyNul
<1> QED BY <1>13, <1>14, <1>15 DEF Input

-----------------------------------------------------------------------------
(* The steps that read.                                                    *)

\* What a beginning leads to does not depend on where its cells are.
LEMMA ReachedShift ==
  ASSUME NEW b, NEW p \in Nat, NEW r, NEW o \in Nat, NEW N \in Nat, NEW s \in Live,
         Reached(b, p, p + N, s), \A i \in 0..N - 1 : r[o + i] = b[p + i]
  PROVE  Reached(r, o, o + N, s)
<1>1. ASSUME NEW d \in Nat, d >= 1, d <= N PROVE r[(o + N) - d] = b[(p + N) - d]
  <2>1. N - d \in 0..N - 1 /\ o + (N - d) = (o + N) - d /\ p + (N - d) = (p + N) - d
    BY <1>1
  <2> QED BY <2>1
<1>2. N > 0 => r[o] = b[p]
  <2>1. o + 0 = o /\ p + 0 = p OBVIOUS
  <2>2. N > 0 => 0 \in 0..N - 1 OBVIOUS
  <2> QED BY <2>1, <2>2
<1>3. ASSUME NEW d \in Nat, d >= 1, Inside(b, p + 1, (p + N) - d)
      PROVE  Inside(r, o + 1, (o + N) - d)
  <2> SUFFICES ASSUME NEW k \in o + 1..(o + N) - d
               PROVE  r[k] \notin {Rules!Dollar, Rules!Hash}
    BY DEF Inside
  <2>1. PICK i \in 1..N - d : i = k - o OBVIOUS
  <2>2. i \in 0..N - 1 /\ o + i = k /\ p + i \in p + 1..(p + N) - d BY <1>3, <2>1
  <2>3. r[k] = b[p + i] BY <2>2
  <2> QED BY <1>3, <2>2, <2>3 DEF Inside
<1>4. CASE s = 1 BY <1>4 DEF Reached
<1>5. CASE s \in {4, 6} BY <1>2, <1>5 DEF Reached
<1>6. CASE s = 9
  <2>1. p + N > p + 1 /\ b[p] = Rules!Dollar /\ Inside(b, p + 1, (p + N) - 1)
    BY <1>6 DEF Reached
  <2>2. N > 0 /\ o + N > o + 1 BY <2>1
  <2> QED BY <1>2, <1>3, <1>6, <2>1, <2>2 DEF Reached
<1>7. CASE s = 10
  <2>1. /\ p + N > p + 1 /\ b[p] = Rules!Dollar /\ Inside(b, p + 1, (p + N) - 2)
        /\ b[(p + N) - 1] = Rules!Hash
    BY <1>7 DEF Reached
  <2>2. N > 0 /\ o + N > o + 1 BY <2>1
  <2>3. r[(o + N) - 1] = Rules!Hash BY <1>1, <2>1, <2>2
  <2> QED BY <1>2, <1>3, <1>7, <2>1, <2>2, <2>3 DEF Reached
<1>8. CASE s = 11
  <2>1. /\ p + N > p + 2 /\ b[p] = Rules!Dollar /\ Inside(b, p + 1, (p + N) - 3)
        /\ b[(p + N) - 2] = Rules!Hash /\ b[(p + N) - 1] = Rules!Hex
    BY <1>8 DEF Reached
  <2>2. N > 1 /\ o + N > o + 2 BY <2>1
  <2>3. r[(o + N) - 2] = Rules!Hash /\ r[(o + N) - 1] = Rules!Hex BY <1>1, <2>1, <2>2
  <2> QED BY <1>2, <1>3, <1>8, <2>1, <2>2, <2>3 DEF Reached
<1> QED BY <1>4, <1>5, <1>6, <1>7, <1>8 DEF Live

\* When input is needed, the token under way fills the buffer from where it begins.
LEMMA NeedsInputIs ==
  ASSUME ScannerInv, NeedsInput
  PROVE  /\ Buffer(restored, yy_n_chars) /\ yy_n_chars \in Nat /\ yytext_ptr \in Nat
         /\ number_to_move \in Nat /\ yytext_ptr + number_to_move = yy_n_chars
         /\ \E s \in Live : Reached(restored, yytext_ptr, yy_n_chars, s)
         /\ held = Cells(restored, yytext_ptr, yy_n_chars)
<1>1. PICK n \in Nat : n = yy_n_chars BY DEF ScannerInv, BufferInv, Buffer
<1>2. PICK p \in Nat : p = yytext_ptr BY DEF ScannerInv, BufferInv
<1>3. /\ Buffer(restored, n) /\ yy_c_buf_p \in p + 1..n + 1
      /\ \E s \in Live : Reached(restored, p, yy_c_buf_p - 1, s)
      /\ held = Cells(restored, p, n)
  BY <1>1, <1>2, AtEndIs DEF NeedsInput
<1>4. yy_c_buf_p = n + 1 /\ yy_c_buf_p - 1 = n BY <1>1, <1>3 DEF NeedsInput
<1>5. number_to_move = n - p /\ n - p \in Nat /\ p + (n - p) = n
  BY <1>1, <1>2, <1>3, <1>4 DEF number_to_move
<1> QED BY <1>1, <1>2, <1>3, <1>4, <1>5

\* The refilled buffer holds the token's bytes and the first ones of the rest
\* (scanner.c:1048).
LEMMA RefilledIs ==
  ASSUME ScannerInv, NeedsInput, NEW k \in 0..Len(unread)
  PROVE  /\ Buffer(refilled(k), number_to_move + k)
         /\ Cells(refilled(k), 0, number_to_move + k) = held \o SubSeq(unread, 1, k)
         /\ \A s \in Live : Reached(restored, yytext_ptr, yy_n_chars, s) =>
              Reached(refilled(k), 0, number_to_move, s)
<1>0. PICK b : b = restored OBVIOUS
<1>1. PICK p \in Nat, n \in Nat, N \in Nat :
        /\ p = yytext_ptr /\ n = yy_n_chars /\ N = number_to_move
        /\ Buffer(b, n) /\ p + N = n /\ held = Cells(b, p, n)
  BY <1>0, NeedsInputIs
<1>2. unread \in Seq(0..7) /\ Len(unread) \in Nat /\ k \in Nat
  BY DEF ScannerInv, BufferInv
<1>3. \A i \in 1..Len(unread) : unread[i] \in 0..7 BY <1>2
<1>4. PICK r : r = refilled(k) OBVIOUS
<1>5. r = [i \in 0..N + k + 1 |-> IF i < N THEN b[p + i]
                                 ELSE IF i < N + k THEN unread[i - N + 1] ELSE EndOfBuffer]
  BY <1>0, <1>1, <1>4 DEF refilled
<1>6. \A i \in 0..N - 1 : r[0 + i] = b[p + i] BY <1>2, <1>5
<1>7. \A i \in 0..N - 1 : r[i] = b[p + i] /\ p + i \in 0..n + 1 BY <1>1, <1>2, <1>5
<1>8. \A i \in N..(N + k) - 1 : r[i] = unread[i - N + 1] /\ i - N + 1 \in 1..Len(unread)
  BY <1>2, <1>5
<1>9. r[N + k] = EndOfBuffer /\ r[(N + k) + 1] = EndOfBuffer BY <1>2, <1>5
<1>10. Buffer(r, N + k)
  <2>1. ASSUME NEW i \in 0..(N + k) + 1 PROVE r[i] \in 0..7
    <3>1. CASE i \in 0..N - 1 BY <1>1, <1>7, <3>1 DEF Buffer
    <3>2. CASE i \in N..(N + k) - 1 BY <1>3, <1>8, <3>2
    <3>3. CASE i = N + k \/ i = (N + k) + 1 BY <1>9, <3>3, SMTT(30) DEF EndOfBuffer
    <3> QED BY <1>2, <3>1, <3>2, <3>3
  <2>2. DOMAIN r = 0..(N + k) + 1 /\ r = [i \in 0..(N + k) + 1 |-> r[i]] BY <1>2, <1>5
  <2>3. r \in [0..(N + k) + 1 -> 0..7] BY <2>1, <2>2
  <2> QED BY <1>2, <1>9, <2>3 DEF Buffer
<1>11. Cells(r, 0, N + k) = held \o SubSeq(unread, 1, k)
  <2>1. 0 \in 0..N + k /\ (N + k) - 0 = N + k /\ p \in 0..n /\ n - p = N BY <1>1, <1>2
  <2>2. /\ Cells(r, 0, N + k) \in Seq(0..7) /\ Len(Cells(r, 0, N + k)) = N + k
        /\ \A i \in 1..N + k : Cells(r, 0, N + k)[i] = r[0 + i - 1]
    BY <1>10, <2>1, CellsAreBytes
  <2>3. /\ held \in Seq(0..7) /\ Len(held) = N
        /\ \A i \in 1..N : held[i] = b[p + i - 1]
    <3>1. PICK h : h = Cells(b, p, n) OBVIOUS
    <3>2. h \in Seq(0..7) /\ Len(h) = n - p /\ \A i \in 1..n - p : h[i] = b[p + i - 1]
      <4>1. Cells(b, p, n) \in Seq(0..7) /\ Len(Cells(b, p, n)) = n - p
        BY <1>1, <2>1, CellsAreBytes
      <4>2. \A i \in 1..n - p : Cells(b, p, n)[i] = b[p + i - 1] BY DEF Cells
      <4> QED BY <3>1, <4>1, <4>2
    <3>3. held = h BY <1>1, <3>1
    <3> QED BY <2>1, <3>2, <3>3
  <2>4. PICK t : t = SubSeq(unread, 1, k) OBVIOUS
  <2>5. t \in Seq(0..7) /\ Len(t) = k /\ \A i \in 1..k : t[i] = unread[i]
    BY <1>2, <2>4
  <2>6. /\ held \o t \in Seq(0..7) /\ Len(held \o t) = N + k
        /\ \A i \in 1..N + k : (held \o t)[i] = IF i <= N THEN held[i] ELSE t[i - N]
    <3>1. /\ held \o t \in Seq(0..7) /\ Len(held \o t) = Len(held) + Len(t)
          /\ \A i \in 1..Len(held) + Len(t) :
               (held \o t)[i] = IF i <= Len(held) THEN held[i] ELSE t[i - Len(held)]
      <4>1. held \in Seq(0..7) /\ t \in Seq(0..7) BY <2>3, <2>5
      <4> QED BY ONLY <4>1, ConcatProperties
    <3>2. Len(held) = N /\ Len(t) = k BY <2>3, <2>5
    <3> QED BY ONLY <3>1, <3>2
  <2>7. ASSUME NEW i \in 1..N + k PROVE Cells(r, 0, N + k)[i] = (held \o t)[i]
    <3>1. Cells(r, 0, N + k)[i] = r[i - 1] BY <2>2
    <3>2. CASE i <= N
      <4>1. i - 1 \in 0..N - 1 /\ p + (i - 1) = p + i - 1 /\ i \in 1..N BY <3>2
      <4>2. r[i - 1] = b[p + i - 1] BY <1>7, <4>1
      <4> QED BY <2>3, <2>6, <3>1, <3>2, <4>1, <4>2
    <3>3. CASE i > N
      <4>1. i - 1 \in N..(N + k) - 1 /\ (i - 1) - N + 1 = i - N /\ i - N \in 1..k
        BY <1>2, <3>3
      <4>2. r[i - 1] = unread[i - N] BY <1>8, <4>1
      <4>3. t[i - N] = unread[i - N] BY <2>5, <4>1
      <4>4. (held \o t)[i] = t[i - N] BY <2>6, <3>3
      <4> QED BY <3>1, <4>2, <4>3, <4>4
    <3>4. i <= N \/ i > N OBVIOUS
    <3> QED BY <3>2, <3>3, <3>4
  <2>8. Cells(r, 0, N + k) = held \o t
    <3>1. PICK c \in Seq(0..7) : c = Cells(r, 0, N + k) BY <2>2
    <3>2. PICK d \in Seq(0..7) : d = held \o t BY <2>6
    <3>3. Len(c) = N + k /\ Len(d) = N + k /\ \A i \in 1..N + k : c[i] = d[i]
      BY <2>2, <2>6, <2>7, <3>1, <3>2
    <3>4. c = d BY <3>3, SeqEqual
    <3> QED BY <3>1, <3>2, <3>4
  <2> QED BY <2>4, <2>8
<1>12. ASSUME NEW s \in Live, Reached(b, p, n, s) PROVE Reached(r, 0, N, s)
  <2>1. 0 + N = N /\ Reached(b, p, p + N, s) BY <1>1, <1>12
  <2>2. Reached(r, 0, 0 + N, s) BY <1>6, <2>1, ReachedShift
  <2> QED BY <2>1, <2>2
<1> QED BY <1>0, <1>1, <1>4, <1>10, <1>11, <1>12

\* Bytes have been read: the match goes on behind the beginning, in the buffer it was
\* moved to (scanner.c:919).
LEMMA ContinueScanStep ==
  ASSUME ScannerInv, NEW k \in Nat, ContinueScan(k)
  PROVE  ScannerInv' /\ Input' = Input
<1>1. NeedsInput /\ k \in 0..Len(unread) BY DEF ContinueScan
<1>2. PICK p \in Nat, n \in Nat, N \in Nat :
        p = yytext_ptr /\ n = yy_n_chars /\ N = number_to_move
  BY <1>1, NeedsInputIs
<1>3. PICK s \in Live : Reached(restored, p, n, s) BY <1>1, <1>2, NeedsInputIs
<1>4. PICK r : r = refilled(k) OBVIOUS
<1>5. /\ Buffer(r, N + k) /\ Reached(r, 0, N, s)
      /\ Cells(r, 0, N + k) = held \o SubSeq(unread, 1, k)
  BY <1>1, <1>2, <1>3, <1>4, RefilledIs
<1>6. yy_get_previous_state(r, 0, N) = At(0, N, s)
  <2>1. \A i \in 0..N - 1 : r[i] \in 0..7 BY <1>5 DEF Buffer
  <2>2. 0 \in Nat /\ 0 <= N OBVIOUS
  <2> QED BY <1>5, <2>1, <2>2, PreviousState
<1>7. PICK found : /\ found = yy_find_action(yy_match(r, At(0, N, s)))
                   /\ Found(r, 0, found)
  BY <1>2, <1>4, <1>6 DEF ContinueScan
<1>8. N + k \in Nat /\ N \in 0..N + k BY <1>1
<1>9. \A u : Settled(r, N + k, 0, found, u)
  BY <1>5, <1>7, <1>8, MatchSettles
<1>10. yy_n_chars' = N + k BY <1>2 DEF ContinueScan
<1>11. unread \in Seq(0..7) /\ unread' = SubSeq(unread, k + 1, Len(unread))
  BY DEF ScannerInv, BufferInv, ContinueScan
<1>12. unread' \in Seq(0..7) /\ SubSeq(unread, 1, k) \in Seq(0..7)
       /\ SubSeq(unread, 1, k) \o unread' = unread
  <2>1. /\ SubSeq(unread, 1, k) \in Seq(0..7) /\ Len(SubSeq(unread, 1, k)) = k
        /\ \A i \in 1..k : SubSeq(unread, 1, k)[i] = unread[i]
    BY <1>1, <1>11
  <2>2. PICK L \in Nat : L = Len(unread) /\ k <= L BY <1>1, <1>11
  <2>3. /\ unread' \in Seq(0..7) /\ Len(unread') = L - k
        /\ \A i \in 1..L - k : unread'[i] = unread[k + i]
    <3>1. PICK t : t = SubSeq(unread, k + 1, L) OBVIOUS
    <3>2. t \in Seq(0..7) /\ Len(t) = L - k /\ \A i \in 1..L - k : t[i] = unread[k + i]
      BY <1>11, <2>2, <3>1
    <3>3. unread' = t BY <1>11, <2>2, <3>1
    <3> QED BY <3>2, <3>3
  <2>4. PICK c : c = SubSeq(unread, 1, k) \o unread' OBVIOUS
  <2>5. /\ c \in Seq(0..7) /\ Len(c) = L
        /\ \A i \in 1..L : c[i] = IF i <= k THEN SubSeq(unread, 1, k)[i] ELSE unread'[i - k]
    BY <2>1, <2>2, <2>3, <2>4, ConcatProperties
  <2>6. ASSUME NEW i \in 1..L PROVE c[i] = unread[i]
    <3>1. CASE i <= k BY <2>1, <2>5, <3>1
    <3>2. CASE i > k
      <4>1. i - k \in 1..L - k /\ k + (i - k) = i /\ ~(i <= k) BY <2>2, <3>2
      <4>2. unread'[i - k] = unread[k + (i - k)] BY <2>3, <4>1
      <4>3. c[i] = unread'[i - k] BY <2>5, <4>1
      <4> QED BY <4>1, <4>2, <4>3
    <3> QED BY <3>1, <3>2
  <2>7. c = unread BY <1>11, <2>2, <2>5, <2>6, SeqEqual
  <2> QED BY <2>1, <2>3, <2>4, <2>7
<1>13. ScannerInv'
  <2>1. PICK size : size = grown(yy_buf_size) OBVIOUS
  <2>2. size \in Nat /\ size >= 2
    BY <1>2, <2>1, GrownSuffices DEF ScannerInv, BufferInv
  <2>3. k <= room(size) /\ yy_buf_size' = size BY <2>1 DEF ContinueScan
  <2>4. room(size) = (size - N) - 1 BY <1>2 DEF room
  <2>5. N + k < size BY <2>2, <2>3, <2>4
  <2>6. yy_buffer_status' = "NORMAL" /\ phase' \in {"scanning", "ended", "dead"}
    BY DEF ContinueScan, ScannerInv, BufferInv
  <2>8. Settled(r, N + k, 0, found, unread') BY <1>9
  <2> QED BY <1>5, <1>10, <1>12, <2>2, <2>3, <2>5, <2>6, <2>8, SettledKeeps
<1>14. held' = held \o SubSeq(unread, 1, k)
  BY <1>5, <1>9, <1>10, SettledHolds
<1>15. held \in Seq(0..7) BY <1>1, NeedsInputIs, CellsAreBytes
<1>16. PICK t \in Seq(0..7) : t = SubSeq(unread, 1, k) BY <1>12
<1>17. (held \o t) \o unread' = held \o (t \o unread')
  <2>1. Associates(held, t, unread') BY <1>12, <1>15, Associative
  <2> QED BY <2>1 DEF Associates
<1>18. held' \o unread' = held \o unread BY <1>12, <1>14, <1>16, <1>17
<1> QED BY <1>13, <1>18 DEF Input

\* When no byte follows, a beginning ends as the single byte it begins with
\* (scanner.c:929).
LEMMA LastFinds ==
  ASSUME NEW r, NEW N \in Nat, N > 0, NEW s \in Live, Reached(r, 0, N, s),
         NEW found, found = yy_find_action(At(0, N, s))
  PROVE  Follows(r, N, 0, found.act, found.cp, <<>>)
<1>1. s # 1 BY DEF Reached
<1>2. PICK k : k = At(0, N, s) OBVIOUS
<1>3. found = yy_find_action(k) BY <1>2
<1>4. found.act = 4 /\ found.cp = 1
  <2>1. CASE s \in {4, 6}
    <3>1. N = 1 BY <2>1 DEF Reached
    <3>2. k.state = s /\ k.cp = 1 BY <1>2, <3>1 DEF At
    <3>3. found = [act |-> 4, cp |-> 1] BY <1>3, <2>1, <3>2, Accepts DEF yy_find_action
    <3> QED BY <3>3
  <2>2. CASE s \in {9, 10, 11}
    <3>1. k.state = s /\ k.last_state = 6 /\ k.last_cp = 1 BY <1>2, <2>2 DEF At
    <3>2. found = [act |-> 4, cp |-> 1] BY <1>3, <2>2, <3>1, Accepts DEF yy_find_action
    <3> QED BY <3>2
  <2> QED BY <1>1, <2>1, <2>2 DEF Live
<1>5. Follows(r, N, 0, 4, 1, <<>>)
  <2>1. CASE s = 4 BY <2>1 DEF Reached, Follows, Means
  <2>2. CASE s # 4
    <3>1. s \in Begun BY <1>1, <2>2 DEF Live, Begun
    <3> QED BY <3>1 DEF Follows
  <2> QED BY <2>1, <2>2
<1> QED BY <1>4, <1>5

\* Nothing is left to read behind a beginning.
LEMMA LastMatchStep ==
  ASSUME ScannerInv, LastMatch
  PROVE  ScannerInv' /\ Input' = Input
<1>1. NeedsInput /\ 0 \in 0..Len(unread) /\ unread \in Seq(0..7)
  BY DEF LastMatch, ScannerInv, BufferInv
<1>2. PICK p \in Nat, n \in Nat, N \in Nat :
        p = yytext_ptr /\ n = yy_n_chars /\ N = number_to_move /\ N > 0
  BY <1>1, NeedsInputIs DEF LastMatch
<1>3. PICK s \in Live : Reached(restored, p, n, s) BY <1>1, <1>2, NeedsInputIs
<1>4. PICK r : r = refilled(0) OBVIOUS
<1>5. N + 0 = N OBVIOUS
<1>6. /\ Buffer(r, N) /\ Reached(r, 0, N, s)
      /\ Cells(r, 0, N) = held \o SubSeq(unread, 1, 0)
  BY <1>1, <1>2, <1>3, <1>4, <1>5, RefilledIs
<1>7. yy_get_previous_state(r, 0, N) = At(0, N, s)
  <2>1. \A i \in 0..N - 1 : r[i] \in 0..7 BY <1>6 DEF Buffer
  <2>2. 0 \in Nat /\ 0 <= N OBVIOUS
  <2> QED BY <1>6, <2>1, <2>2, PreviousState
<1>8. PICK found : found = yy_find_action(At(0, N, s)) /\ Found(r, 0, found)
  BY <1>2, <1>4, <1>7 DEF LastMatch
<1>9. unread = <<>> /\ unread' = <<>> BY DEF LastMatch, ScannerInv, BufferInv
<1>10. Settled(r, N, 0, found, <<>>)
  <2>1. Follows(r, N, 0, found.act, found.cp, <<>>) BY <1>2, <1>6, <1>8, LastFinds
  <2>2. 0 \in Nat /\ 0 <= N OBVIOUS
  <2> QED BY <1>6, <1>8, <2>1, <2>2, FoundSettles
<1>11. yy_n_chars' = N BY <1>2 DEF LastMatch
<1>12. ScannerInv'
  <2>3. Settled(r, N, 0, found, unread') BY <1>9, <1>10
  <2>4. PICK size : size = yy_buf_size' OBVIOUS
  <2>5. size \in Nat /\ N < size /\ size >= 2
    <3>1. CASE yy_buffer_status = "EOF_PENDING"
      <4>1. size = yy_buf_size BY <2>4, <3>1 DEF LastMatch
      <4>2. N <= n BY <1>1, <1>2, NeedsInputIs
      <4> QED BY <1>2, <4>1, <4>2 DEF ScannerInv, BufferInv
    <3>2. CASE yy_buffer_status # "EOF_PENDING"
      <4>1. size = grown(yy_buf_size) BY <2>4, <3>2 DEF LastMatch
      <4>2. size \in Nat /\ size >= 2 /\ room(size) > 0
        BY <1>2, <4>1, GrownSuffices DEF ScannerInv, BufferInv
      <4>3. room(size) = (size - N) - 1 BY <1>2 DEF room
      <4> QED BY <4>2, <4>3
    <3> QED BY <3>1, <3>2
  <2>6. yy_buffer_status' = "EOF_PENDING" /\ phase' \in {"scanning", "ended", "dead"}
    BY DEF LastMatch, ScannerInv, BufferInv
  <2>7. unread' \in Seq(0..7) BY <1>9
  <2> QED BY <1>6, <1>9, <1>11, <2>3, <2>4, <2>5, <2>6, <2>7, SettledKeeps
<1>13. held' = held \o SubSeq(unread, 1, 0) BY <1>6, <1>10, <1>11, SettledHolds
<1>14. held \in Seq(0..7) BY <1>1, NeedsInputIs, CellsAreBytes
<1>15. SubSeq(unread, 1, 0) = <<>> BY <1>9
<1>16. held' = held BY <1>13, <1>14, <1>15, ConcatEmptySeq
<1>17. unread' = unread BY <1>9
<1> QED BY <1>12, <1>16, <1>17 DEF Input

\* No cell is none.
LEMMA NoCells ==
  ASSUME NEW b, NEW n, Buffer(b, n)
  PROVE  Cells(b, n, n) = <<>>
<1>1. n \in Nat /\ n \in 0..n /\ n - n = 0 BY DEF Buffer
<1>2. Cells(b, n, n) \in Seq(0..7) /\ Len(Cells(b, n, n)) = 0 BY <1>1, CellsAreBytes
<1> QED BY <1>2, EmptySeq

\* No byte is left at all: the buffer is flushed (scanner.c:1238).
LEMMA EndOfInputStep ==
  ASSUME ScannerInv, EndOfInput
  PROVE  ScannerInv' /\ Input' = Input
<1>1. NeedsInput BY DEF EndOfInput
<1>2. held = <<>>
  <2>1. PICK n \in Nat : n = yy_n_chars /\ Buffer(restored, n)
    BY <1>1, NeedsInputIs
  <2>2. yytext_ptr = n BY <1>1, <2>1, NeedsInputIs DEF EndOfInput
  <2> QED BY <1>1, <2>1, <2>2, NeedsInputIs, NoCells
<1>3. unread = <<>> /\ unread' = unread BY DEF EndOfInput, ScannerInv, BufferInv
<1>4. restored' = [i \in 0..1 |-> EndOfBuffer]
  <2>1. restored' = [yy_ch_buf' EXCEPT ![yy_c_buf_p'] = yy_hold_char'] BY DEF restored
  <2>2. PICK f : f = [i \in 0..1 |-> EndOfBuffer] OBVIOUS
  <2>3. restored' = [f EXCEPT ![0] = EndOfBuffer]
    BY <2>1, <2>2 DEF EndOfInput, yy_flush_buffer
  <2>4. [f EXCEPT ![0] = EndOfBuffer] = f BY <2>2
  <2> QED BY <2>2, <2>3, <2>4
<1>5. Buffer(restored', 0)
  <2>1. PICK f : f = restored' OBVIOUS
  <2>2. f = [i \in 0..1 |-> 0] BY <1>4, <2>1 DEF EndOfBuffer
  <2>3. f \in [0..1 -> 0..7] /\ f[0] = 0 /\ f[1] = 0 BY <2>2
  <2>4. Buffer(f, 0) BY <2>3 DEF Buffer, EndOfBuffer
  <2> QED BY <2>1, <2>4
<1>6. /\ yytext_ptr' = 0 /\ yy_c_buf_p' = 0 /\ yy_n_chars' = 0 /\ yy_act' = 7
      /\ yy_buffer_status' = "NEW" /\ yy_buf_size' = yy_buf_size /\ phase' = phase
  BY DEF EndOfInput, YY_STATE_EOF
<1>7. DOMAIN yy_ch_buf' = 0..0 + 1 BY DEF EndOfInput, yy_flush_buffer
<1>8. BufferInv' BY <1>3, <1>5, <1>6, <1>7 DEF ScannerInv, BufferInv
<1>9. ActionInv' BY <1>3, <1>6 DEF ActionInv, YY_STATE_EOF
<1>10. held' = <<>>
  <2>1. yy_act' # NoAction BY <1>6 DEF NoAction
  <2>2. held' = Cells(restored', 0, 0) BY <1>6, <2>1, NextHeldIs
  <2> QED BY <1>5, <2>2, NoCells
<1> QED BY <1>2, <1>3, <1>8, <1>9, <1>10 DEF Input, ScannerInv

\* What keeps the buffer keeps the invariant, whatever becomes of the phase.
LEMMA StillStep ==
  ASSUME ScannerInv, UNCHANGED <<unread, buffer, position, yy_act>>,
         phase' \in {"scanning", "ended", "dead"}
  PROVE  ScannerInv' /\ Input' = Input
<1>1. /\ unread' = unread /\ yy_ch_buf' = yy_ch_buf /\ yy_buf_size' = yy_buf_size
      /\ yy_n_chars' = yy_n_chars /\ yy_buffer_status' = yy_buffer_status
      /\ yytext_ptr' = yytext_ptr /\ yy_c_buf_p' = yy_c_buf_p
      /\ yy_hold_char' = yy_hold_char /\ yy_act' = yy_act
  BY DEF buffer, position
<1>2. restored' = restored BY <1>1 DEF restored
<1>3. held' = held BY <1>1, <1>2 DEF held
<1>4. BufferInv' BY <1>1, <1>2 DEF ScannerInv, BufferInv
<1>5. ActionInv' BY <1>1, <1>2 DEF ScannerInv, ActionInv
<1> QED BY <1>1, <1>3, <1>4, <1>5 DEF ScannerInv, Input

-----------------------------------------------------------------------------
(* The rules, on the sequence of the bytes that are in no token.           *)

\* What refutes a packet does not depend on where its cells are.
LEMMA RefutesShift ==
  ASSUME NEW b, NEW p \in Nat, NEW r, NEW o \in Nat, NEW N \in Nat, Refutes(b, p, p + N),
         \A i \in 0..N : r[o + i] = b[p + i]
  PROVE  Refutes(r, o, o + N)
<1>1. PICK s \in Begun :
        /\ Reached(b, p, p + N, s)
        /\ IF s \in {6, 9} THEN b[p + N] = Rules!Dollar ELSE b[p + N] # Rules!Hex
  BY DEF Refutes
<1>2. r[o + N] = b[p + N] /\ s \in Live BY <1>1 DEF Begun, Live
<1>3. Reached(r, o, o + N, s)
  <2>1. \A i \in 0..N - 1 : r[o + i] = b[p + i] OBVIOUS
  <2> QED BY <1>1, <1>2, <2>1, ReachedShift
<1> QED BY <1>1, <1>2, <1>3 DEF Refutes

\* The same of a packet.
LEMMA PacketShift ==
  ASSUME NEW b, NEW p \in Nat, NEW r, NEW o \in Nat, NEW N \in Nat, PacketAt(b, p, p + N),
         \A i \in 0..N - 1 : r[o + i] = b[p + i]
  PROVE  PacketAt(r, o, o + N)
<1>1. /\ p + N >= p + 4 /\ b[p] = Rules!Dollar /\ Inside(b, p + 1, (p + N) - 4)
      /\ b[(p + N) - 3] = Rules!Hash /\ b[(p + N) - 2] = Rules!Hex
      /\ b[(p + N) - 1] = Rules!Hex
  BY DEF PacketAt
<1>2. N >= 4 BY <1>1
<1>3. ASSUME NEW d \in 1..4 PROVE r[(o + N) - d] = b[(p + N) - d]
  <2>1. N - d \in 0..N - 1 /\ o + (N - d) = (o + N) - d /\ p + (N - d) = (p + N) - d
    BY <1>2
  <2> QED BY <2>1
<1>4. r[o] = b[p]
  <2>1. o + 0 = o /\ p + 0 = p /\ 0 \in 0..N - 1 BY <1>2
  <2> QED BY <2>1
<1>5. Inside(r, o + 1, (o + N) - 4)
  <2> SUFFICES ASSUME NEW k \in o + 1..(o + N) - 4
               PROVE  r[k] \notin {Rules!Dollar, Rules!Hash}
    BY DEF Inside
  <2>1. PICK i \in 1..N - 4 : i = k - o BY <1>2
  <2>2. i \in 0..N - 1 /\ o + i = k /\ p + i \in p + 1..(p + N) - 4 BY <2>1
  <2>3. r[k] = b[p + i] BY <2>2
  <2> QED BY <1>1, <2>2, <2>3 DEF Inside
<1>6. o + N >= o + 4 BY <1>2
<1>7. r[(o + N) - 3] = Rules!Hash /\ r[(o + N) - 2] = Rules!Hex /\ r[(o + N) - 1] = Rules!Hex
  <2>1. 1 \in 1..4 /\ 2 \in 1..4 /\ 3 \in 1..4 OBVIOUS
  <2> QED BY <1>1, <1>3, <2>1
<1> QED BY <1>1, <1>4, <1>5, <1>6, <1>7 DEF PacketAt

\* What the rules call a packet, in the terms of the cells.
LEMMA PacketsAre ==
  ASSUME NEW s, NEW N, N \in Rules!packets(s), Len(s) \in Nat
  PROVE  /\ N \in 4..Len(s) /\ s[1] = Rules!Dollar
         /\ s[N - 2] = Rules!Hash /\ s[N - 1] = Rules!Hex /\ s[N] = Rules!Hex
         /\ \A i \in 2..N - 3 : s[i] # Rules!Dollar /\ s[i] # Rules!Hash
BY DEF Rules!packets

\* A packet has one length: no other '#' is in it.
LEMMA PacketIsOne ==
  ASSUME NEW s, Len(s) \in Nat, NEW N \in 4..Len(s), PacketAt(s, 1, N + 1)
  PROVE  Rules!packets(s) = {N}
<1>1. /\ (N + 1) - 4 = N - 3 /\ (N + 1) - 3 = N - 2 /\ (N + 1) - 2 = N - 1
      /\ (N + 1) - 1 = N /\ 1 + 1 = 2
  OBVIOUS
<1>2. /\ s[1] = Rules!Dollar /\ s[N - 2] = Rules!Hash /\ s[N - 1] = Rules!Hex
      /\ s[N] = Rules!Hex
      /\ \A i \in 2..N - 3 : s[i] \notin {Rules!Dollar, Rules!Hash}
  BY <1>1 DEF PacketAt, Inside
<1>3. N \in Rules!packets(s) BY <1>2 DEF Rules!packets
<1>4. ASSUME NEW M \in Rules!packets(s) PROVE M = N
  <2>1. /\ M \in 4..Len(s) /\ s[M - 2] = Rules!Hash
        /\ \A i \in 2..M - 3 : s[i] # Rules!Dollar /\ s[i] # Rules!Hash
    BY PacketsAre
  <2>2. ~(M < N)
    <3> SUFFICES ASSUME M < N PROVE FALSE OBVIOUS
    <3>1. M - 2 \in 2..N - 3 BY <2>1
    <3> QED BY <1>2, <2>1, <3>1
  <2>3. ~(M > N)
    <3> SUFFICES ASSUME M > N PROVE FALSE OBVIOUS
    <3>1. N - 2 \in 2..M - 3 BY <2>1
    <3> QED BY <1>2, <2>1, <3>1
  <2> QED BY <2>1, <2>2, <2>3
<1> QED BY <1>3, <1>4

\* A refuted '$' begins no packet.
LEMMA RefutedIsNone ==
  ASSUME NEW s, Len(s) \in Nat, NEW j \in 1..Len(s), Refutes(s, 1, j)
  PROVE  Rules!packets(s) = {}
<1> SUFFICES ASSUME NEW M \in Rules!packets(s) PROVE FALSE OBVIOUS
<1>1. /\ M \in 4..Len(s) /\ s[M - 2] = Rules!Hash /\ s[M - 1] = Rules!Hex
      /\ s[M] = Rules!Hex
      /\ \A i \in 2..M - 3 : s[i] # Rules!Dollar /\ s[i] # Rules!Hash
  BY PacketsAre
<1>2. PICK t \in Begun :
        /\ Reached(s, 1, j, t)
        /\ IF t \in {6, 9} THEN s[j] = Rules!Dollar ELSE s[j] # Rules!Hex
  BY DEF Refutes
<1>3. Rules!Dollar # Rules!Hash /\ 1 + 1 = 2 /\ 1 + 2 = 3 BY DEF Rules!Dollar, Rules!Hash
<1>4. CASE t \in {6, 9}
  <2>1. j >= 2 /\ Inside(s, 2, j - 1) BY <1>2, <1>3, <1>4 DEF Reached, Inside
  <2>2. ~(M - 2 < j)
    <3> SUFFICES ASSUME M - 2 < j PROVE FALSE OBVIOUS
    <3>1. M - 2 \in 2..j - 1 BY <1>1
    <3> QED BY <1>1, <2>1, <3>1 DEF Inside
  <2>3. M - 2 # j BY <1>1, <1>2, <1>3, <1>4
  <2>4. j \in 2..M - 3 BY <1>1, <2>1, <2>2, <2>3
  <2> QED BY <1>1, <1>2, <1>4, <2>4
<1>5. CASE t = 10
  <2>1. j > 2 /\ Inside(s, 2, j - 2) /\ s[j - 1] = Rules!Hash
    BY <1>2, <1>3, <1>5 DEF Reached
  <2>2. ~(M - 2 < j - 1)
    <3> SUFFICES ASSUME M - 2 < j - 1 PROVE FALSE OBVIOUS
    <3>1. M - 2 \in 2..j - 2 BY <1>1
    <3> QED BY <1>1, <2>1, <3>1 DEF Inside
  <2>3. ~(M - 2 > j - 1)
    <3> SUFFICES ASSUME M - 2 > j - 1 PROVE FALSE OBVIOUS
    <3>1. j - 1 \in 2..M - 3 BY <1>1, <2>1
    <3> QED BY <1>1, <2>1, <3>1
  <2>4. M - 1 = j BY <1>1, <2>2, <2>3
  <2> QED BY <1>1, <1>2, <1>5, <2>4
<1>6. CASE t = 11
  <2>1. j > 3 /\ Inside(s, 2, j - 3) /\ s[j - 2] = Rules!Hash
    BY <1>2, <1>3, <1>6 DEF Reached
  <2>2. ~(M - 2 < j - 2)
    <3> SUFFICES ASSUME M - 2 < j - 2 PROVE FALSE OBVIOUS
    <3>1. M - 2 \in 2..j - 3 BY <1>1
    <3> QED BY <1>1, <2>1, <3>1 DEF Inside
  <2>3. ~(M - 2 > j - 2)
    <3> SUFFICES ASSUME M - 2 > j - 2 PROVE FALSE OBVIOUS
    <3>1. j - 2 \in 2..M - 3 BY <1>1, <2>1
    <3> QED BY <1>1, <2>1, <3>1
  <2>4. M = j BY <1>1, <2>2, <2>3
  <2> QED BY <1>1, <1>2, <1>6, <2>4
<1> QED BY <1>4, <1>5, <1>6 DEF Begun

\* Nor does one whose packet is not finished when the input is.
LEMMA UnfinishedIsNone ==
  ASSUME NEW s, Len(s) \in Nat, NEW t \in Begun, Reached(s, 1, Len(s) + 1, t)
  PROVE  Rules!packets(s) = {}
<1> SUFFICES ASSUME NEW M \in Rules!packets(s) PROVE FALSE OBVIOUS
<1>1. /\ M \in 4..Len(s) /\ s[M - 2] = Rules!Hash /\ s[M - 1] = Rules!Hex
      /\ s[M] = Rules!Hex
      /\ \A i \in 2..M - 3 : s[i] # Rules!Dollar /\ s[i] # Rules!Hash
  BY PacketsAre
<1>2. PICK L \in Nat : L = Len(s) OBVIOUS
<1>3. /\ (L + 1) - 1 = L /\ (L + 1) - 2 = L - 1 /\ (L + 1) - 3 = L - 2
      /\ 1 + 1 = 2 /\ 1 + 2 = 3
  OBVIOUS
<1>4. t # 6 BY <1>1, <1>2 DEF Reached
<1>5. CASE t = 9
  <2>1. Inside(s, 2, L) BY <1>2, <1>3, <1>5 DEF Reached
  <2>2. M - 2 \in 2..L BY <1>1, <1>2
  <2> QED BY <1>1, <2>1, <2>2 DEF Inside
<1>6. CASE t = 10
  <2>1. Inside(s, 2, L - 1) BY <1>2, <1>3, <1>6 DEF Reached
  <2>2. M - 2 \in 2..L - 1 BY <1>1, <1>2
  <2> QED BY <1>1, <2>1, <2>2 DEF Inside
<1>7. CASE t = 11
  <2>1. /\ Inside(s, 2, L - 2) /\ s[L - 1] = Rules!Hash
        /\ s[L] = Rules!Hex
    BY <1>2, <1>3, <1>7 DEF Reached
  <2>2. M - 2 \in 2..L - 2 BY <1>1, <1>2
  <2> QED BY <1>1, <2>1, <2>2 DEF Inside
<1> QED BY <1>4, <1>5, <1>6, <1>7 DEF Begun

\* What begins with something else is not a packet either.
LEMMA OtherIsNone ==
  ASSUME NEW s, Len(s) \in Nat, s[1] # Rules!Dollar
  PROVE  Rules!packets(s) = {}
<1> SUFFICES ASSUME NEW M \in Rules!packets(s) PROVE FALSE OBVIOUS
<1> QED BY PacketsAre

\* Sequence s begins with the cells from p on, and goes on with u.
Continues(s, b, p, n, u) ==
  /\ s \in Seq(0..7) /\ Len(s) = (n - p) + Len(u)
  /\ \A i \in 0..(n - p) - 1 : s[1 + i] = b[p + i]

\* The bytes of the cells from p on, and of what follows the buffer.
LEMMA InputIs ==
  ASSUME NEW b, NEW n, Buffer(b, n), NEW p \in 0..n, NEW u \in Seq(0..7)
  PROVE  Continues(Cells(b, p, n) \o u, b, p, n, u)
<1>1. PICK N \in Nat : N = n - p BY DEF Buffer
<1>2. PICK c : c = Cells(b, p, n) OBVIOUS
<1>3. c \in Seq(0..7) /\ Len(c) = N BY <1>1, <1>2, CellsAreBytes
<1>4. \A i \in 1..N : c[i] = b[p + i - 1] BY <1>1, <1>2 DEF Cells
<1>5. PICK s \in Seq(0..7) : /\ s = c \o u
                             /\ Len(s) = N + Len(u) /\ \A i \in 1..N : s[i] = c[i]
  <2>1. /\ c \o u \in Seq(0..7) /\ Len(c \o u) = Len(c) + Len(u)
        /\ \A i \in 1..Len(c) + Len(u) :
             (c \o u)[i] = IF i <= Len(c) THEN c[i] ELSE u[i - Len(c)]
    BY <1>3, ConcatProperties
  <2>2. \A i \in 1..N : i \in 1..Len(c) + Len(u) /\ i <= Len(c) BY <1>3
  <2> QED BY <1>3, <2>1, <2>2
<1>6. ASSUME NEW i \in 0..N - 1 PROVE s[1 + i] = b[p + i]
  <2>1. 1 + i \in 1..N /\ p + (1 + i) - 1 = p + i BY DEF Buffer
  <2> QED BY <1>4, <1>5, <2>1
<1>7. Continues(s, b, p, n, u) BY <1>1, <1>5, <1>6 DEF Continues
<1>8. s = Cells(b, p, n) \o u BY <1>2, <1>5
<1> QED BY <1>7, <1>8

\* An action found, other than the end of the buffer, is the one of the rules on the
\* whole input, and so is the length of its token.
LEMMA RuleFollows ==
  ASSUME NEW b, NEW n, Buffer(b, n), NEW p \in Nat, p <= n, NEW a \in 1..5, NEW q,
         NEW u \in Seq(0..7), NEW s, Continues(s, b, p, n, u),
         Follows(b, n, p, a, q, u)
  PROVE  Rules!rule(s) = a /\ Rules!length(s) = q - p
<1>1. n \in Nat /\ p \in 0..n BY DEF Buffer
<1>2. /\ s \in Seq(0..7) /\ Len(s) \in Nat /\ Len(s) = (n - p) + Len(u)
      /\ \A i \in 0..(n - p) - 1 : s[1 + i] = b[p + i]
  BY DEF Continues
<1>3. p < n => s[1] = b[p]
  <2>1. p < n => 0 \in 0..(n - p) - 1 BY <1>1
  <2>2. 1 + 0 = 1 /\ p + 0 = p OBVIOUS
  <2> QED BY <1>2, <2>1, <2>2
<1>4. ASSUME p < n, q = p + 1, Rules!packets(s) = {},
             \/ a = 1 /\ s[1] = Rules!Plus
             \/ a = 2 /\ s[1] = Rules!Minus
             \/ a = 5 /\ s[1] = Rules!Newline
             \/ a = 4 /\ s[1] \notin {Rules!Plus, Rules!Minus, Rules!Newline}
      PROVE  Rules!rule(s) = a /\ Rules!length(s) = q - p
  <2>1. Rules!rule(s) = a
    BY <1>4 DEF Rules!rule, Rules!Plus, Rules!Minus, Rules!Newline
  <2>2. Rules!length(s) = 1 BY <1>4 DEF Rules!length
  <2> QED BY <1>4, <2>1, <2>2
<1>5. ASSUME p < n, q = p + 1, a = 4, b[p] = Rules!Dollar, Rules!packets(s) = {}
      PROVE  Rules!rule(s) = a /\ Rules!length(s) = q - p
  <2>1. s[1] \notin {Rules!Plus, Rules!Minus, Rules!Newline}
    BY <1>1, <1>3, <1>5 DEF Rules!Plus, Rules!Minus, Rules!Newline, Rules!Dollar
  <2> QED BY <1>4, <1>5, <2>1
<1>6. CASE /\ p < n /\ q = p + 1
           /\ \/ a = 1 /\ b[p] = Rules!Plus
              \/ a = 2 /\ b[p] = Rules!Minus
              \/ a = 5 /\ b[p] = Rules!Newline
              \/ a = 4 /\ b[p] \in {Rules!Nul, Rules!Other, Rules!Hash, Rules!Hex}
  <2>1. s[1] # Rules!Dollar
    BY <1>1, <1>3, <1>6 DEF Rules!Plus, Rules!Minus, Rules!Newline, Rules!Dollar, Rules!Nul,
                      Rules!Other, Rules!Hash, Rules!Hex
  <2>2. Rules!packets(s) = {} BY <1>2, <2>1, OtherIsNone
  <2>3. a = 4 => s[1] \notin {Rules!Plus, Rules!Minus, Rules!Newline}
    BY <1>1, <1>3, <1>6 DEF Rules!Plus, Rules!Minus, Rules!Newline, Rules!Nul,
                      Rules!Other, Rules!Hash, Rules!Hex
  <2> QED BY <1>3, <1>4, <1>6, <2>2, <2>3
<1>7. CASE p < n /\ q = p + 1 /\ a = 4 /\ \E j \in p + 1..n - 1 : Refutes(b, p, j)
  <2>1. PICK j \in p + 1..n - 1 : Refutes(b, p, j) BY <1>7
  <2>2. PICK N \in Nat : N = j - p BY <2>1
  <2>3. p + N = j /\ \A i \in 0..N : i \in 0..(n - p) - 1 BY <1>1, <2>2
  <2>4. Refutes(s, 1, 1 + N)
    <3>1. Refutes(b, p, p + N) BY <2>1, <2>3
    <3>2. \A i \in 0..N : s[1 + i] = b[p + i] BY <1>2, <2>3
    <3> QED BY <3>1, <3>2, RefutesShift
  <2>5. 1 + N \in 1..Len(s) BY <1>1, <1>2, <2>2
  <2>6. Rules!packets(s) = {} BY <1>2, <2>4, <2>5, RefutedIsNone
  <2>7. b[p] = Rules!Dollar BY <2>1 DEF Refutes, Reached, Begun
  <2> QED BY <1>5, <1>7, <2>6, <2>7
<1>8. CASE /\ p < n /\ q = p + 1 /\ a = 4
           /\ u = <<>> /\ \E t \in Begun : Reached(b, p, n, t)
  <2>1. PICK t \in Begun : Reached(b, p, n, t) BY <1>8
  <2>2. PICK N \in Nat : N = n - p BY <1>1
  <2>3. p + N = n /\ t \in Live /\ \A i \in 0..N - 1 : i \in 0..(n - p) - 1
    BY <1>1, <2>2 DEF Begun, Live
  <2>4. Reached(s, 1, 1 + N, t)
    <3>1. Reached(b, p, p + N, t) /\ t \in Live BY <2>1, <2>3
    <3>2. \A i \in 0..N - 1 : s[1 + i] = b[p + i] BY <1>2, <2>3
    <3> QED BY <3>1, <3>2, ReachedShift
  <2>5. Len(u) = 0 BY <1>8
  <2>6. Len(s) + 1 = 1 + N BY <1>2, <2>2, <2>5
  <2>7. Rules!packets(s) = {} BY <1>2, <2>4, <2>6, UnfinishedIsNone
  <2>8. b[p] = Rules!Dollar BY <2>1 DEF Reached, Begun
  <2> QED BY <1>5, <1>8, <2>7, <2>8
<1>9. CASE a = 3 /\ q \in p + 4..n /\ PacketAt(b, p, q)
  <2>1. PICK N \in Nat : N = q - p BY <1>1, <1>9
  <2>2. p + N = q /\ \A i \in 0..N - 1 : i \in 0..(n - p) - 1 BY <1>1, <1>9, <2>1
  <2>3. PacketAt(s, 1, 1 + N) BY <1>2, <1>9, <2>2, PacketShift
  <2>4. N \in 4..Len(s) /\ 1 + N = N + 1 BY <1>1, <1>2, <1>9, <2>1
  <2>5. Rules!packets(s) = {N} BY <1>2, <2>3, <2>4, PacketIsOne
  <2>6. s[1] = Rules!Dollar BY <2>3 DEF PacketAt
  <2>7. Rules!rule(s) = 3
    BY <2>5, <2>6 DEF Rules!rule, Rules!Plus, Rules!Minus, Rules!Newline, Rules!Dollar
  <2>8. Rules!length(s) = N
    <3>1. Rules!length(s) = CHOOSE m \in {N} : TRUE BY <2>5 DEF Rules!length
    <3> QED BY <3>1
  <2> QED BY <1>9, <2>1, <2>7, <2>8
<1> QED BY <1>6, <1>7, <1>8, <1>9 DEF Follows, Means

\* A concatenation can be cut where it was made.
LEMMA CutAgain ==
  ASSUME NEW S, NEW y \in Seq(S), NEW t \in Seq(S), NEW s, s = y \o t
  PROVE  /\ SubSeq(s, 1, Len(y)) = y
         /\ SubSeq(s, Len(y) + 1, Len(s)) = t
         /\ Len(s) = Len(y) + Len(t)
<1>1. PICK M \in Nat, L \in Nat : M = Len(y) /\ L = Len(t) OBVIOUS
<1>2. /\ s \in Seq(S) /\ Len(s) = M + L
      /\ \A i \in 1..M + L : s[i] = IF i <= M THEN y[i] ELSE t[i - M]
  BY <1>1, ConcatProperties
<1>3. SubSeq(s, 1, M) = y
  <2>1. PICK c : c = SubSeq(s, 1, M) OBVIOUS
  <2>2. c \in Seq(S) /\ Len(c) = M /\ \A i \in 1..M : c[i] = s[i]
    BY <1>2, <2>1
  <2>3. ASSUME NEW i \in 1..M PROVE c[i] = y[i]
    <3>1. i \in 1..M + L /\ i <= M OBVIOUS
    <3> QED BY <1>2, <2>2, <3>1
  <2> QED BY <1>1, <2>1, <2>2, <2>3, SeqEqual
<1>4. SubSeq(s, M + 1, M + L) = t
  <2>1. PICK c : c = SubSeq(s, M + 1, M + L) OBVIOUS
  <2>2. c \in Seq(S) /\ Len(c) = L /\ \A i \in 1..L : c[i] = s[M + i]
    BY <1>2, <2>1
  <2>3. ASSUME NEW i \in 1..L PROVE c[i] = t[i]
    <3>1. M + i \in 1..M + L /\ ~(M + i <= M) /\ (M + i) - M = i OBVIOUS
    <3> QED BY <1>2, <2>2, <3>1
  <2> QED BY <1>1, <2>1, <2>2, <2>3, SeqEqual
<1> QED BY <1>1, <1>2, <1>3, <1>4

\* The cells of a buffer can be cut anywhere.
LEMMA CellsSplit ==
  ASSUME NEW b, NEW n, Buffer(b, n), NEW p \in 0..n, NEW q \in p..n
  PROVE  /\ Cells(b, p, q) \in Seq(0..7) /\ Len(Cells(b, p, q)) = q - p
         /\ Cells(b, p, n) = Cells(b, p, q) \o Cells(b, q, n)
<1>1. n \in Nat /\ p \in Nat /\ q \in 0..n /\ q \in Nat BY DEF Buffer
<1>2. PICK M \in Nat, L \in Nat : M = q - p /\ L = n - q BY <1>1
<1>3. PICK c : c = Cells(b, p, n) OBVIOUS
<1>4. c \in Seq(0..7) /\ Len(c) = M + L
  <2>1. Cells(b, p, n) \in Seq(0..7) /\ Len(Cells(b, p, n)) = n - p BY CellsAreBytes
  <2> QED BY <1>1, <1>2, <1>3, <2>1
<1>5. \A i \in 1..M + L : c[i] = b[p + i - 1] BY <1>1, <1>2, <1>3 DEF Cells
<1>6. PICK y : y = Cells(b, p, q) OBVIOUS
<1>7. y = [i \in 1..M |-> b[p + i - 1]] BY <1>2, <1>6 DEF Cells
<1>8. y \in Seq(0..7) /\ Len(y) = M
  <2>1. ASSUME NEW i \in 1..M PROVE b[p + i - 1] \in 0..7
    <3>1. p + i - 1 \in 0..n + 1 BY <1>1, <1>2
    <3> QED BY <3>1 DEF Buffer
  <2>2. y \in [1..M -> 0..7] BY <1>7, <2>1
  <2> QED BY <2>2
<1>9. PICK z : z = Cells(b, q, n) OBVIOUS
<1>10. z \in Seq(0..7) /\ Len(z) = L
  <2>1. Cells(b, q, n) \in Seq(0..7) /\ Len(Cells(b, q, n)) = n - q
    BY <1>1, CellsAreBytes
  <2> QED BY <1>2, <1>9, <2>1
<1>11. \A i \in 1..L : z[i] = b[q + i - 1] BY <1>1, <1>2, <1>9 DEF Cells
<1>12. PICK d : d = y \o z OBVIOUS
<1>13. /\ d \in Seq(0..7) /\ Len(d) = M + L
       /\ \A i \in 1..M + L : d[i] = IF i <= M THEN y[i] ELSE z[i - M]
  <2>1. /\ y \o z \in Seq(0..7) /\ Len(y \o z) = Len(y) + Len(z)
        /\ \A i \in 1..Len(y) + Len(z) :
             (y \o z)[i] = IF i <= Len(y) THEN y[i] ELSE z[i - Len(y)]
    <3>1. y \in Seq(0..7) /\ z \in Seq(0..7) BY <1>8, <1>10
    <3> QED BY ONLY <3>1, ConcatProperties
  <2> QED BY <1>8, <1>10, <1>12, <2>1
<1>14. ASSUME NEW i \in 1..M + L PROVE c[i] = d[i]
  <2>1. CASE i <= M BY <1>5, <1>7, <1>13, <2>1
  <2>2. CASE ~(i <= M)
    <3>1. i - M \in 1..L /\ q + (i - M) - 1 = p + i - 1 BY <1>1, <1>2, <2>2
    <3>2. z[i - M] = b[p + i - 1] BY <1>11, <3>1
    <3> QED BY <1>5, <1>13, <2>2, <3>2
  <2> QED BY <2>1, <2>2
<1>15. c = d BY <1>4, <1>13, <1>14, SeqEqual
<1> QED BY <1>2, <1>3, <1>6, <1>8, <1>9, <1>12, <1>15

\* The text of the token is that of the input: the NUL behind it is not in it.
LEMMA TextIs ==
  ASSUME ScannerInv
  PROVE  yytext = Cells(restored, yytext_ptr, yy_c_buf_p)
<1>1. PICK p \in Nat, q \in Nat : p = yytext_ptr /\ q = yy_c_buf_p
  BY DEF ScannerInv, BufferInv
<1>2. PICK b : b = restored OBVIOUS
<1>3. ASSUME NEW i \in 1..q - p PROVE yy_ch_buf[p + i - 1] = b[p + i - 1]
  <2>1. p + i - 1 # q OBVIOUS
  <2>2. p + i - 1 \in 0..yy_n_chars + 1 /\ p + i - 1 \in DOMAIN yy_ch_buf
    BY <1>1 DEF ScannerInv, BufferInv, Buffer
  <2>3. b = [yy_ch_buf EXCEPT ![q] = yy_hold_char] BY <1>1, <1>2 DEF restored
  <2> QED BY <2>1, <2>2, <2>3
<1>4. yytext = [i \in 1..q - p |-> b[p + i - 1]]
  <2>1. yytext = [i \in 1..q - p |-> yy_ch_buf[p + i - 1]] BY <1>1 DEF yytext
  <2> QED BY <1>3, <2>1
<1> QED BY <1>1, <1>2, <1>4 DEF Cells

\* A rule takes the bytes of its token from the input, and is the right one.
LEMMA RuleStep ==
  ASSUME ScannerInv, NEW k \in 1..5, Rule(k)
  PROVE  /\ ScannerInv'
         /\ Input # <<>> /\ Rules!rule(Input) = k
         /\ yytext = SubSeq(Input, 1, Rules!length(Input))
         /\ Input' = SubSeq(Input, Rules!length(Input) + 1, Len(Input))
<1>1. yy_act = k /\ yy_act' = 0 BY DEF Rule, NoAction
<1>2. PICK b : b = restored OBVIOUS
<1>3. PICK n \in Nat, p \in Nat, q \in Nat :
        n = yy_n_chars /\ p = yytext_ptr /\ q = yy_c_buf_p
  BY DEF ScannerInv, BufferInv, Buffer
<1>4. Buffer(b, n) /\ p <= q /\ unread \in Seq(0..7)
  BY <1>2, <1>3 DEF ScannerInv, BufferInv
<1>6. Follows(b, n, p, k, q, unread)
  <2>1. yy_act \in 1..5 /\ yy_act # 0 /\ yy_act # 7 BY <1>1
  <2>2. Follows(restored, yy_n_chars, yytext_ptr, yy_act, yy_c_buf_p, unread)
    BY <2>1 DEF ScannerInv, ActionInv, NoAction, YY_STATE_EOF
  <2> QED BY <1>1, <1>2, <1>3, <2>2
<1>7. q \in p + 1..n
  <2>1. CASE k = 3 /\ q \in p + 4..n BY <2>1
  <2>2. CASE p < n /\ q = p + 1 BY <2>2
  <2> QED BY <1>6, <2>1, <2>2 DEF Follows, Means
<1>8. /\ unread' = unread /\ yy_ch_buf' = yy_ch_buf /\ yy_buf_size' = yy_buf_size
      /\ yy_n_chars' = yy_n_chars /\ yy_buffer_status' = yy_buffer_status
      /\ yytext_ptr' = yytext_ptr /\ yy_c_buf_p' = yy_c_buf_p
      /\ yy_hold_char' = yy_hold_char /\ phase' = phase
  BY DEF Rule, buffer, position
<1>9. restored' = restored BY <1>8 DEF restored
<1>10. ScannerInv'
  <2>1. BufferInv' BY <1>8, <1>9 DEF ScannerInv, BufferInv
  <2>2. ActionInv' BY <1>1, <1>3, <1>7, <1>8 DEF ActionInv, NoAction
  <2> QED BY <2>1, <2>2 DEF ScannerInv
<1>11. held = Cells(b, p, n) /\ held' = Cells(b, q, n)
  <2>1. yy_act # NoAction /\ yy_act' = NoAction BY <1>1 DEF NoAction
  <2>2. held = Cells(restored, yytext_ptr, yy_n_chars) BY <2>1, HeldIs
  <2>3. held' = Cells(restored', yy_c_buf_p', yy_n_chars') BY <2>1, NextHeldIs
  <2> QED BY <1>2, <1>3, <1>8, <1>9, <2>2, <2>3
<1>12. p \in 0..n /\ q \in p..n /\ q \in 0..n /\ p <= n BY <1>7
<1>13. PICK s : s = Cells(b, p, n) \o unread OBVIOUS
<1>14. s = Input BY <1>11, <1>13 DEF Input
<1>15. Rules!rule(s) = k /\ Rules!length(s) = q - p
  <2>2. Continues(s, b, p, n, unread) BY <1>4, <1>12, <1>13, InputIs
  <2> QED BY <1>4, <1>6, <1>12, <2>2, RuleFollows
<1>16. PICK y \in Seq(0..7) : y = Cells(b, p, q) /\ Len(y) = q - p
  BY <1>4, <1>12, CellsSplit
<1>17. PICK z \in Seq(0..7) : z = Cells(b, q, n) BY <1>4, <1>12, CellsAreBytes
<1>18. s = y \o (z \o unread)
  <2>1. Cells(b, p, n) = y \o z BY <1>4, <1>12, <1>16, <1>17, CellsSplit
  <2>2. s = (y \o z) \o unread BY <1>13, <2>1
  <2>3. Associates(y, z, unread) BY <1>4, Associative
  <2> QED BY <2>2, <2>3 DEF Associates
<1>19. PICK t \in Seq(0..7) : t = z \o unread BY <1>4, ConcatProperties
<1>20. s = y \o t BY <1>18, <1>19
<1>21. SubSeq(s, 1, Len(y)) = y /\ SubSeq(s, Len(y) + 1, Len(s)) = t
       /\ Len(s) = Len(y) + Len(t)
  BY <1>20, CutAgain
<1>22. Input' = t BY <1>8, <1>11, <1>17, <1>19 DEF Input
<1>23. yytext = y BY <1>2, <1>3, <1>16, TextIs
<1>24. s # <<>>
  <2>1. Len(s) > 0 BY <1>7, <1>16, <1>21
  <2> QED BY <2>1
<1> QED BY <1>10, <1>14, <1>15, <1>16, <1>21, <1>22, <1>23, <1>24

-----------------------------------------------------------------------------
(* The theorems about the scanner.                                         *)

\* The first call of yylex finds an empty buffer.
LEMMA ScannerStarts ==
  ASSUME ScannerAssumption, ScannerInit
  PROVE  ScannerInv /\ Input = unread /\ unread \in Streams
<1>1. /\ yy_ch_buf = [i \in 0..1 |-> 0] /\ yy_n_chars = 0 /\ yy_buffer_status = "NEW"
      /\ yytext_ptr = 0 /\ yy_c_buf_p = 0 /\ yy_hold_char = 0 /\ yy_act = 0
      /\ unread \in Streams /\ phase = "scanning" /\ yy_buf_size = YY_BUF_SIZE
  BY DEF ScannerInit, yy_flush_buffer, EndOfBuffer, NoAction
<1>2. unread \in Seq(0..7) /\ yy_buf_size \in Nat /\ yy_buf_size >= 2
  BY <1>1 DEF ScannerAssumption
<1>3. restored = [i \in 0..1 |-> 0]
  <2>1. PICK f : f = [i \in 0..1 |-> 0] OBVIOUS
  <2>2. restored = [f EXCEPT ![0] = 0] BY <1>1, <2>1 DEF restored
  <2>3. [f EXCEPT ![0] = 0] = f BY <2>1
  <2> QED BY <2>1, <2>2, <2>3
<1>4. Buffer(restored, 0)
  <2>1. PICK f : f = restored OBVIOUS
  <2>2. f \in [0..1 -> 0..7] /\ f[0] = 0 /\ f[1] = 0 BY <1>3, <2>1
  <2>3. Buffer(f, 0) BY <2>2 DEF Buffer, EndOfBuffer
  <2> QED BY <2>1, <2>3
<1>5. DOMAIN yy_ch_buf = 0..0 + 1 BY <1>1
<1>6. BufferInv BY <1>1, <1>2, <1>4, <1>5 DEF BufferInv
<1>7. ActionInv BY <1>1 DEF ActionInv, NoAction
<1>8. held = <<>>
  <2>1. yy_act = NoAction BY <1>1 DEF NoAction
  <2>2. held = Cells(restored, 0, 0) BY <1>1, <2>1, HeldIs
  <2> QED BY <1>4, <2>2, NoCells
<1>9. Input = unread BY <1>2, <1>8, ConcatEmptySeq DEF Input
<1> QED BY <1>1, <1>6, <1>7, <1>9 DEF ScannerInv

\* What a step of the thread is for the scanner.
Scans ==
  \/ Scan \/ ReallyNul \/ LastMatch \/ EndOfInput \/ \E k \in Nat : ContinueScan(k)
Stays == UNCHANGED scan_vars
Dies == phase' = "dead" /\ UNCHANGED <<unread, buffer, position, yy_act, tokens>>

\* A step of the thread scans, runs a rule, ends or leaves the scanner as it is.
LEMMA ThreadSteps ==
  ASSUME [Next]_vars
  PROVE  Scans \/ (\E k \in 1..5 : Rule(k)) \/ EndOfFile \/ Dies \/ Stays
<1>1. CASE yylex
  <2>1. Refill => Scans
    <3>1. ASSUME NEW k \in 1..YY_READ_BUF_SIZE, ContinueScan(k) PROVE Scans
      <4>1. k \in Nat BY <3>1
      <4> QED BY <3>1, <4>1 DEF Scans
    <3> QED BY <3>1 DEF Refill, Scans
  <2>2. ReadFails => Dies BY DEF ReadFails, Dies
  <2> QED BY <1>1, <2>1, <2>2 DEF yylex, Scans
<1>2. CASE Acknowledgement BY <1>2 DEF Acknowledgement
<1>3. CASE Retransmission BY <1>3 DEF Retransmission
<1>4. CASE Packet BY <1>4 DEF Packet
<1>5. CASE add_character_to_error BY <1>5 DEF add_character_to_error
<1>6. CASE ECHO BY <1>6 DEF ECHO
<1>7. CASE LastErrors BY <1>7 DEF LastErrors
<1>8. CASE \E n \in 1..Len(Answer) : rio_writen(n) BY <1>8 DEF rio_writen, Stays
<1>9. CASE unix_error BY <1>9 DEF unix_error, Dies
<1>10. CASE UNCHANGED vars BY <1>10 DEF vars, Stays
<1>11. CASE kill_request BY <1>11 DEF kill_request, Stays
<1> QED BY <1>1, <1>2, <1>3, <1>4, <1>5, <1>6, <1>7, <1>8, <1>9, <1>10, <1>11 DEF Next

\* A step that scans neither takes from the input nor ends.
LEMMA ScansStep ==
  ASSUME ScannerInv, Scans
  PROVE  ScannerInv' /\ Input' = Input /\ tokens' = tokens /\ phase' = phase
<1>1. CASE Scan BY <1>1, ScanStep DEF Scan
<1>2. CASE ReallyNul BY <1>2, ReallyNulStep DEF ReallyNul
<1>3. CASE LastMatch BY <1>3, LastMatchStep DEF LastMatch
<1>4. CASE EndOfInput BY <1>4, EndOfInputStep DEF EndOfInput
<1>5. CASE \E k \in Nat : ContinueScan(k)
  <2>1. PICK k \in Nat : ContinueScan(k) BY <1>5
  <2> QED BY <2>1, ContinueScanStep DEF ContinueScan
<1> QED BY <1>1, <1>2, <1>3, <1>4, <1>5 DEF Scans

\* Nor does one that dies, ends or leaves the scanner.
LEMMA OtherSteps ==
  ASSUME ScannerInv, EndOfFile \/ Dies \/ Stays
  PROVE  ScannerInv' /\ Input' = Input /\ tokens' = tokens
<1>1. UNCHANGED <<unread, buffer, position, yy_act>> /\ tokens' = tokens
  BY DEF EndOfFile, Dies, Stays, scan_vars
<1>2. phase' \in {"scanning", "ended", "dead"}
  <2>1. CASE EndOfFile BY <2>1 DEF EndOfFile
  <2>2. CASE Dies BY <2>2 DEF Dies
  <2>3. CASE Stays BY <2>3 DEF Stays, scan_vars, ScannerInv, BufferInv
  <2> QED BY <2>1, <2>2, <2>3
<1> QED BY <1>1, <1>2, StillStep

\* ScannerInv is inductive for the gdb thread.
THEOREM ScannerInvariant == Spec => []ScannerInv
<1>1. Init => ScannerInv BY ScannerAssumption, ScannerStarts DEF Init
<1>2. ASSUME ScannerInv, [Next]_vars PROVE ScannerInv'
  <2>1. CASE Scans BY <1>2, <2>1, ScansStep
  <2>2. CASE \E k \in 1..5 : Rule(k) BY <1>2, <2>2, RuleStep
  <2>3. CASE EndOfFile \/ Dies \/ Stays BY <1>2, <2>3, OtherSteps
  <2> QED BY <1>2, <2>1, <2>2, <2>3, ThreadSteps
<1> QED BY <1>1, <1>2, PTL DEF Spec

\* In the states of the invariant the buffer, the token and the action are right.
LEMMA ScannerTyped ==
  ASSUME ScannerInv
  PROVE  ScannerTypeOK
<1>1. PICK n \in Nat, p \in Nat, q \in Nat :
        n = yy_n_chars /\ p = yytext_ptr /\ q = yy_c_buf_p /\ Buffer(restored, n)
  BY DEF ScannerInv, BufferInv, Buffer
<1>2. n < yy_buf_size /\ p <= q /\ q <= n + 1 BY <1>1 DEF ScannerInv, BufferInv
<1>3. q \in 0..n + 1 /\ p \in 0..q BY <1>2
<1>4. restored[n] = EndOfBuffer /\ restored[n + 1] = EndOfBuffer BY <1>1 DEF Buffer
<1>5. yy_act \in 0..YY_STATE_EOF BY DEF ScannerInv, ActionInv, NoAction, YY_STATE_EOF
<1>6. /\ yy_buffer_status \in {"NEW", "NORMAL", "EOF_PENDING"}
      /\ phase \in {"scanning", "ended", "dead"}
  BY DEF ScannerInv, BufferInv
<1> QED BY <1>1, <1>2, <1>3, <1>4, <1>5, <1>6 DEF ScannerTypeOK

\* The buffer of the scanner never overflows, its end characters stand behind its
\* bytes, and the token lies within it: yy_get_next_buffer reads no more than there
\* is room for behind the bytes it has moved (scanner.c:1004).
THEOREM ScannerTypeCorrect == Spec => []ScannerTypeOK
<1>1. ScannerInv => ScannerTypeOK BY ScannerTyped
<1> QED BY <1>1, ScannerInvariant, PTL

\* The bytes that end a packet of which state s has seen the beginning.
Ends(end, s) == end = IF s \in {6, 9} THEN <<3, 7, 7>> ELSE IF s = 10 THEN <<7, 7>> ELSE <<7>>

\* A beginning of a packet, with the bytes that end it, is a packet of that length.
LEMMA EndCompletes ==
  ASSUME NEW h \in Seq(0..7), NEW end \in Seq(0..7), NEW N \in Nat, N = Len(h),
         NEW s \in Begun, Reached(h, 1, 1 + N, s), Ends(end, s)
  PROVE  Rules!packets(h \o end) = {Len(h \o end)}
<1>1. PICK e : e = IF s \in {6, 9} THEN 3 ELSE IF s = 10 THEN 2 ELSE 1 OBVIOUS
<1>2. /\ e \in 1..3 /\ Len(end) = e
      /\ s \in {6, 9} => e = 3 /\ end[1] = 3 /\ end[2] = 7 /\ end[3] = 7
      /\ s = 10 => e = 2 /\ end[1] = 7 /\ end[2] = 7
      /\ s = 11 => e = 1 /\ end[1] = 7
  BY <1>1 DEF Begun, Ends
<1>3. PICK c : c = h \o end OBVIOUS
<1>4. /\ c \in Seq(0..7) /\ Len(c) = N + e
      /\ \A i \in 1..N + e : c[i] = IF i <= N THEN h[i] ELSE end[i - N]
  BY <1>2, <1>3, ConcatProperties
<1>5. \A i \in 1..N : c[i] = h[i]
  <2> TAKE i \in 1..N
  <2>1. i \in 1..N + e /\ i <= N BY <1>2
  <2> QED BY <1>4, <2>1
<1>6. \A d \in 1..e : c[N + d] = end[d]
  <2> TAKE d \in 1..e
  <2>1. N + d \in 1..N + e /\ ~(N + d <= N) /\ (N + d) - N = d BY <1>2
  <2> QED BY <1>4, <2>1
<1>7. /\ (1 + N) - 1 = N /\ (1 + N) - 2 = N - 1 /\ (1 + N) - 3 = N - 2 /\ 1 + 1 = 2
      /\ 1 + 2 = 3
  OBVIOUS
<1> DEFINE M == N + e
<1>8. /\ M >= 4 /\ c[1] = Rules!Dollar
      /\ c[M - 2] = Rules!Hash /\ c[M - 1] = Rules!Hex /\ c[M] = Rules!Hex
      /\ \A i \in 2..M - 3 : c[i] \notin {Rules!Dollar, Rules!Hash}
  <2>1. CASE s \in {6, 9}
    <3>1. N >= 1 /\ h[1] = Rules!Dollar /\ Inside(h, 2, N)
      BY <1>7, <2>1 DEF Reached, Inside
    <3>2. e = 3 /\ M = N + 3 /\ M - 3 = N /\ M - 2 = N + 1 /\ M - 1 = N + 2
      BY <1>2, <2>1
    <3>3. c[N + 1] = 3 /\ c[N + 2] = 7 /\ c[N + 3] = 7
      <4>1. 1 \in 1..e /\ 2 \in 1..e /\ 3 \in 1..e BY <3>2
      <4> QED BY <1>2, <1>6, <2>1, <4>1
    <3>4. c[1] = h[1] /\ \A i \in 2..N : c[i] = h[i] BY <1>5, <3>1
    <3> HIDE DEF M
    <3> QED BY <3>1, <3>2, <3>3, <3>4 DEF Inside, Rules!Hash, Rules!Hex
  <2>2. CASE s = 10
    <3>1. N > 1 /\ h[1] = Rules!Dollar /\ Inside(h, 2, N - 1) /\ h[N] = Rules!Hash
      BY <1>7, <2>2 DEF Reached
    <3>2. e = 2 /\ M = N + 2 /\ M - 3 = N - 1 /\ M - 2 = N /\ M - 1 = N + 1
      BY <1>2, <2>2
    <3>3. c[N + 1] = 7 /\ c[N + 2] = 7
      <4>1. 1 \in 1..e /\ 2 \in 1..e BY <3>2
      <4> QED BY <1>2, <1>6, <2>2, <4>1
    <3>4. c[1] = h[1] /\ c[N] = h[N] /\ \A i \in 2..N - 1 : c[i] = h[i]
      <4>1. 1 \in 1..N /\ N \in 1..N /\ \A i \in 2..N - 1 : i \in 1..N BY <3>1
      <4> QED BY <1>5, <4>1
    <3> HIDE DEF M
    <3> QED BY <3>1, <3>2, <3>3, <3>4 DEF Inside, Rules!Hex
  <2>3. CASE s = 11
    <3>1. /\ N > 2 /\ h[1] = Rules!Dollar /\ Inside(h, 2, N - 2)
          /\ h[N - 1] = Rules!Hash /\ h[N] = Rules!Hex
      BY <1>7, <2>3 DEF Reached
    <3>2. e = 1 /\ M = N + 1 /\ M - 3 = N - 2 /\ M - 2 = N - 1 /\ M - 1 = N
      BY <1>2, <2>3
    <3>3. c[N + 1] = 7
      <4>1. 1 \in 1..e BY <3>2
      <4> QED BY <1>2, <1>6, <2>3, <4>1
    <3>4. c[1] = h[1] /\ c[N] = h[N] /\ c[N - 1] = h[N - 1] /\ \A i \in 2..N - 2 : c[i] = h[i]
      <4>1. /\ 1 \in 1..N /\ N \in 1..N /\ N - 1 \in 1..N
            /\ \A i \in 2..N - 2 : i \in 1..N
        BY <3>1
      <4> QED BY <1>5, <4>1
    <3> HIDE DEF M
    <3> QED BY <3>1, <3>2, <3>3, <3>4 DEF Inside, Rules!Hex
  <2> QED BY <2>1, <2>2, <2>3 DEF Begun
<1>9. M \in Nat /\ M = Len(c) BY <1>2, <1>4
<1> HIDE DEF M
<1>10. PacketAt(c, 1, M + 1)
  <2>1. /\ (M + 1) - 4 = M - 3 /\ (M + 1) - 3 = M - 2 /\ (M + 1) - 2 = M - 1
        /\ (M + 1) - 1 = M /\ M + 1 >= 1 + 4
    BY <1>8, <1>9
  <2> QED BY <1>7, <1>8, <2>1 DEF PacketAt, Inside
<1>11. Len(c) \in Nat /\ M \in 4..Len(c) BY <1>8, <1>9
<1>12. Rules!packets(c) = {M} BY <1>10, <1>11, PacketIsOne
<1> QED BY <1>3, <1>9, <1>12

\* The scanner waits for input only when no token could be recognised without it.
LEMMA WaitsRightly ==
  ASSUME ScannerInv, NeedsInput
  PROVE  \/ held \in {<<>>, <<Rules!Nul>>}
         \/ \E end \in {<<Rules!Hash, Rules!Hex, Rules!Hex>>, <<Rules!Hex, Rules!Hex>>,
                        <<Rules!Hex>>} :
              Rules!packets(held \o end) = {Len(held \o end)}
<1>1. PICK p \in Nat, n \in Nat, N \in Nat :
        /\ p = yytext_ptr /\ n = yy_n_chars /\ N = number_to_move
        /\ Buffer(restored, n) /\ p + N = n /\ held = Cells(restored, p, n)
  BY NeedsInputIs
<1>2. PICK b : b = restored OBVIOUS
<1>3. PICK s \in Live : Reached(b, p, n, s) BY <1>1, <1>2, NeedsInputIs
<1>4. PICK h : h = held OBVIOUS
<1>5. h \in Seq(0..7) /\ Len(h) = N
  <2>1. p \in 0..n /\ n - p = N BY <1>1
  <2>2. Cells(b, p, n) \in Seq(0..7) /\ Len(Cells(b, p, n)) = n - p
    BY <1>1, <1>2, <2>1, CellsAreBytes
  <2> QED BY <1>1, <1>2, <1>4, <2>1, <2>2
<1>6. \A i \in 0..N - 1 : h[1 + i] = b[p + i]
  <2> TAKE i \in 0..N - 1
  <2>1. 1 + i \in 1..n - p /\ p + (1 + i) - 1 = p + i BY <1>1
  <2>2. Cells(b, p, n)[1 + i] = b[p + i] BY <2>1 DEF Cells
  <2> QED BY <1>1, <1>2, <1>4, <2>2
<1>7. Reached(h, 1, 1 + N, s)
  <2>1. Reached(b, p, p + N, s) BY <1>1, <1>3
  <2> QED BY <1>6, <2>1, ReachedShift
<1>8. CASE s = 1
  <2>1. N = 0 BY <1>7, <1>8 DEF Reached
  <2>2. h = <<>> BY <1>5, <2>1, EmptySeq
  <2> QED BY <1>4, <2>2
<1>9. CASE s = 4
  <2>1. N = 1 /\ h[1] = 0 BY <1>7, <1>9 DEF Reached, Rules!Nul
  <2>2. PICK z \in Seq(0..7) : z = <<0>> /\ Len(z) = 1 /\ z[1] = 0
    <3>1. <<0>> \in Seq(0..7) /\ Len(<<0>>) = 1 /\ <<0>>[1] = 0 OBVIOUS
    <3> QED BY <3>1
  <2>3. h = z BY <1>5, <2>1, <2>2, SeqEqual
  <2> QED BY <1>4, <2>2, <2>3 DEF Rules!Nul
<1>10. CASE s \in Begun
  <2>1. PICK end : Ends(end, s) BY DEF Ends
  <2>2. end \in Seq(0..7)
    <3>1. /\ <<3, 7, 7>> \in Seq(0..7) /\ <<7, 7>> \in Seq(0..7)
          /\ <<7>> \in Seq(0..7)
      OBVIOUS
    <3> QED BY <2>1, <3>1 DEF Ends
  <2>3. Rules!packets(h \o end) = {Len(h \o end)}
    BY <1>5, <1>7, <1>10, <2>1, <2>2, EndCompletes
  <2>4. end \in {<<3, 7, 7>>, <<7, 7>>, <<7>>} BY <2>1 DEF Ends
  <2> QED BY <1>4, <2>3, <2>4 DEF Rules!Hash, Rules!Hex
<1> QED BY <1>8, <1>9, <1>10 DEF Live, Begun

\* An acknowledgement or a complete packet is handled before any byte behind it is
\* waited for (scanner.c:757): gdb and the simulator do not wait for each other.
THEOREM WaitsOnlyWithinPackets == Spec => []WaitsWithinPacket
<1>1. ScannerInv => WaitsWithinPacket BY WaitsRightly DEF WaitsWithinPacket
<1> QED BY <1>1, ScannerInvariant, PTL

\* The mapped step: a rule is a match of the rules, the end of the file theirs, a
\* failed read or write a death; refilling and moving the buffer are invisible.
LEMMA LexerStep ==
  ASSUME ScannerInv, [Next]_vars
  PROVE  [Rules!Next]_<<held \o unread, tokens, phase>>
<1>1. Input = held \o unread /\ Input' = (held \o unread)' BY DEF Input
<1>2. CASE Scans
  <2>1. Input' = Input /\ tokens' = tokens /\ phase' = phase BY <1>2, ScansStep
  <2> QED BY <1>1, <2>1
<1>3. CASE \E k \in 1..5 : Rule(k)
  <2>1. PICK k \in 1..5 : Rule(k) BY <1>3
  <2>2. /\ Input # <<>> /\ Rules!rule(Input) = k
        /\ yytext = SubSeq(Input, 1, Rules!length(Input))
        /\ Input' = SubSeq(Input, Rules!length(Input) + 1, Len(Input))
    BY <2>1, RuleStep
  <2>3. /\ phase = "scanning" /\ phase' = phase
        /\ tokens' = Append(tokens, [rule |-> k, text |-> yytext])
    BY <2>1 DEF Rule
  <2>4. Rules!Match BY <1>1, <2>2, <2>3 DEF Rules!Match
  <2> QED BY <2>4 DEF Rules!Next
<1>4. CASE EndOfFile
  <2>1. Input' = Input /\ tokens' = tokens BY <1>4, OtherSteps
  <2>2. Input = <<>>
    <3>1. yy_act = 7 BY <1>4 DEF EndOfFile, YY_STATE_EOF
    <3>2. unread = <<>> /\ yytext_ptr = 0 /\ yy_n_chars = 0
      BY <3>1 DEF ScannerInv, ActionInv, NoAction, YY_STATE_EOF
    <3>3. held = Cells(restored, 0, 0) BY <3>1, <3>2, HeldIs DEF NoAction
    <3>4. Buffer(restored, 0) BY <3>2 DEF ScannerInv, BufferInv
    <3>5. held = <<>> BY <3>3, <3>4, NoCells
    <3> QED BY <3>2, <3>5 DEF Input
  <2>3. Rules!EndOfFile BY <1>1, <1>4, <2>1, <2>2 DEF EndOfFile, Rules!EndOfFile
  <2> QED BY <2>3 DEF Rules!Next
<1>5. CASE Dies
  <2>1. Input' = Input /\ tokens' = tokens BY <1>5, OtherSteps
  <2>2. Rules!Dies BY <1>1, <1>5, <2>1 DEF Dies, Rules!Dies
  <2> QED BY <2>2 DEF Rules!Next
<1>6. CASE Stays
  <2>1. Input' = Input /\ tokens' = tokens BY <1>6, OtherSteps
  <2>2. phase' = phase BY <1>6 DEF Stays, scan_vars
  <2> QED BY <1>1, <2>1, <2>2
<1> QED BY <1>2, <1>3, <1>4, <1>5, <1>6, ThreadSteps

\* Whatever the pieces the reads return, however a token lies across them and
\* whatever NULs are in it, the tokens the generated scanner hands over are those of
\* the rules of scanner.l on the whole input (scanner.c:740, scanner.l:61).
THEOREM ScannerFollowsRules == Spec => LexerSpec
<1>1. Init => Rules!Init
  <2> SUFFICES ASSUME Init PROVE Rules!Init OBVIOUS
  <2>1. Input = unread /\ unread \in Streams
    BY ScannerAssumption, ScannerStarts DEF Init
  <2>2. held \o unread \in Streams BY <2>1 DEF Input
  <2>3. tokens = <<>> /\ phase = "scanning" BY DEF Init, ScannerInit
  <2> QED BY <2>2, <2>3 DEF Rules!Init
<1>2. ScannerInv /\ [Next]_vars => [Rules!Next]_<<held \o unread, tokens, phase>>
  BY LexerStep
<1> QED BY <1>1, <1>2, ScannerInvariant, PTL DEF Spec, LexerSpec, Rules!Spec

-----------------------------------------------------------------------------
(* What the rules say.                                                     *)

\* The concatenations of the first messages of m, as far as f has come.
Flattened(f, m) ==
  [i \in 1..Len(m) |-> IF i = 1 THEN m[i] ELSE f[i - 1] \o m[i]]

\* f[i] is the concatenation of the first i messages of m, up to k.
Joins(f, m, k) ==
  f = [i \in 1..k |-> f[i]] /\ f[1] = m[1] /\ \A i \in 2..k : f[i] = f[i - 1] \o m[i]

\* There are such concatenations, and FlattenSeq is the last.
LEMMA FlattenJoins ==
  ASSUME NEW S, NEW m \in Seq(S), Len(m) > 0
  PROVE  \E f : Joins(f, m, Len(m)) /\ FlattenSeq(m) = f[Len(m)]
<1>1. PICK L \in Nat : L = Len(m) /\ L > 0 OBVIOUS
<1> DEFINE T == {k \in Nat : \E f : Joins(f, m, k + 1)}
<1>2. 0 \in T
  <2>1. PICK f : f = [i \in 1..1 |-> m[1]] OBVIOUS
  <2>2. f = [i \in 1..0 + 1 |-> f[i]] /\ f[1] = m[1] BY <2>1
  <2>3. Joins(f, m, 0 + 1) BY <2>2 DEF Joins
  <2> QED BY <2>3
<1>3. ASSUME NEW k \in Nat, k \in T PROVE k + 1 \in T
  <2>1. PICK f : Joins(f, m, k + 1) BY <1>3
  <2>2. PICK x : x = f[k + 1] \o m[k + 2] OBVIOUS
  <2>3. PICK g : g = [i \in 1..k + 2 |-> IF i = k + 2 THEN x ELSE f[i]] OBVIOUS
  <2>4. DOMAIN g = 1..k + 2 /\ g[k + 2] = x /\ \A i \in 1..k + 1 : g[i] = f[i] BY <2>3
  <2>5. f[1] = m[1] /\ \A i \in 2..k + 1 : f[i] = f[i - 1] \o m[i] BY <2>1 DEF Joins
  <2>6. ASSUME NEW i \in 2..k + 2 PROVE g[i] = g[i - 1] \o m[i]
    <3>1. CASE i = k + 2
      <4>1. i - 1 = k + 1 /\ k + 1 \in 1..k + 1 BY <3>1
      <4> QED BY <2>2, <2>4, <3>1, <4>1
    <3>2. CASE i # k + 2
      <4>1. i \in 2..k + 1 /\ i \in 1..k + 1 /\ i - 1 \in 1..k + 1 BY <3>2
      <4> QED BY <2>4, <2>5, <4>1
    <3> QED BY <3>1, <3>2
  <2>7. g[1] = m[1] BY <2>4, <2>5
  <2>8. (k + 1) + 1 = k + 2 /\ g = [i \in 1..k + 2 |-> g[i]] BY <2>3
  <2>9. Joins(g, m, (k + 1) + 1) BY <2>6, <2>7, <2>8 DEF Joins
  <2> QED BY <2>9
<1>4. PICK f : Joins(f, m, L)
  <2>1. L - 1 \in Nat /\ (L - 1) + 1 = L BY <1>1
  <2>2. L - 1 \in T
    <3> HIDE DEF T
    <3> QED BY <1>2, <1>3, <2>1, Counting
  <2> QED BY <2>1, <2>2
<1>5. f = Flattened(f, m)
  <2>1. ASSUME NEW i \in 1..L PROVE f[i] = IF i = 1 THEN m[i] ELSE f[i - 1] \o m[i]
    <3>1. CASE i = 1 BY <1>4, <3>1 DEF Joins
    <3>2. CASE i # 1
      <4>1. i \in 2..L BY <3>2
      <4> QED BY <1>4, <3>2, <4>1 DEF Joins
    <3> QED BY <3>1, <3>2
  <2>2. f = [i \in 1..L |-> f[i]] BY <1>4 DEF Joins
  <2> QED BY <1>1, <2>1, <2>2 DEF Flattened
<1>6. PICK g : g = CHOOSE h : h = Flattened(h, m) OBVIOUS
<1>7. g = Flattened(g, m) BY <1>5, <1>6
<1>8. FlattenSeq(m) = g[L] BY <1>1, <1>6 DEF FlattenSeq, Flattened
<1>9. ASSUME NEW i \in 1..L PROVE g[i] = IF i = 1 THEN m[i] ELSE g[i - 1] \o m[i]
  <2>1. Flattened(g, m)[i] = IF i = 1 THEN m[i] ELSE g[i - 1] \o m[i]
    BY <1>1 DEF Flattened
  <2>2. g[i] = Flattened(g, m)[i] BY <1>7
  <2> QED BY <2>1, <2>2
<1>10. g = [i \in 1..L |-> g[i]]
  <2>1. PICK h : h = Flattened(g, m) OBVIOUS
  <2>2. h = [i \in 1..L |-> h[i]] BY <1>1, <2>1 DEF Flattened
  <2> QED BY <1>7, <2>1, <2>2
<1>11. Joins(g, m, L)
  <2>1. g[1] = m[1] BY <1>1, <1>9
  <2>2. \A i \in 2..L : g[i] = g[i - 1] \o m[i]
    <3> TAKE i \in 2..L
    <3>1. i \in 1..L /\ i # 1 OBVIOUS
    <3> QED BY <1>9, <3>1
  <2> QED BY <1>10, <2>1, <2>2 DEF Joins
<1> QED BY <1>1, <1>8, <1>11

\* The concatenations of sequences over S are such sequences.
LEMMA JoinsTyped ==
  ASSUME NEW S, NEW m \in Seq(Seq(S)), NEW f, NEW L \in Nat, L = Len(m), Joins(f, m, L)
  PROVE  \A i \in 1..L : f[i] \in Seq(S)
<1> DEFINE T == {k \in Nat : k + 1 <= L => f[k + 1] \in Seq(S)}
<1>1. \A i \in 1..L : m[i] \in Seq(S) OBVIOUS
<1>2. 0 \in T
  <2>1. 0 + 1 = 1 /\ f[1] = m[1] BY DEF Joins
  <2> QED BY <1>1, <2>1
<1>3. ASSUME NEW k \in Nat, k \in T PROVE k + 1 \in T
  <2> SUFFICES ASSUME (k + 1) + 1 <= L PROVE f[(k + 1) + 1] \in Seq(S) OBVIOUS
  <2>1. PICK i \in 2..L : i = (k + 1) + 1 /\ i - 1 = k + 1 OBVIOUS
  <2>2. f[i - 1] \in Seq(S) BY <1>3, <2>1
  <2>3. f[i] = f[i - 1] \o m[i] BY DEF Joins
  <2>4. m[i] \in Seq(S) BY <1>1
  <2>5. f[i] \in Seq(S) BY <2>2, <2>3, <2>4, ConcatProperties
  <2> QED BY <2>1, <2>5
<1>4. \A k \in Nat : k \in T
  <2> HIDE DEF T
  <2> QED BY <1>2, <1>3, Counting
<1> TAKE i \in 1..L
<1>5. i - 1 \in Nat /\ (i - 1) + 1 = i /\ i <= L OBVIOUS
<1> QED BY <1>4, <1>5

\* Messages are said as their bytes.
LEMMA FlattenTyped ==
  ASSUME NEW S, NEW m \in Seq(Seq(S))
  PROVE  FlattenSeq(m) \in Seq(S)
<1>1. PICK L \in Nat : L = Len(m) OBVIOUS
<1>2. CASE L = 0
  <2>1. m = <<>> BY <1>1, <1>2, EmptySeq
  <2>2. FlattenSeq(m) = m BY <1>1, <1>2 DEF FlattenSeq
  <2>3. <<>> \in Seq(S) BY EmptySeq
  <2> QED BY <2>1, <2>2, <2>3
<1>3. CASE L > 0
  <2>1. PICK f : Joins(f, m, L) /\ FlattenSeq(m) = f[L] BY <1>1, <1>3, FlattenJoins
  <2>2. f[L] \in Seq(S) BY <1>1, <1>3, <2>1, JoinsTyped
  <2> QED BY <2>1, <2>2
<1> QED BY <1>2, <1>3

\* The first message is said before the others.
LEMMA FlattenHead ==
  ASSUME NEW S, NEW m \in Seq(Seq(S)), m # <<>>
  PROVE  FlattenSeq(m) = Head(m) \o FlattenSeq(Tail(m))
<1>1. PICK L \in Nat : L = Len(m) /\ L > 0 BY EmptySeq
<1>2. PICK x \in Seq(S) : x = Head(m) /\ x = m[1] BY HeadTailProperties
<1>3. PICK t \in Seq(Seq(S)) : t = Tail(m) /\ Len(t) = L - 1
  BY <1>1, HeadTailProperties
<1>4. \A i \in 1..L - 1 : t[i] = m[i + 1] BY <1>1, <1>3, HeadTailProperties
<1>5. PICK f : Joins(f, m, L) /\ FlattenSeq(m) = f[L] BY <1>1, FlattenJoins
<1>6. f[1] = x /\ \A i \in 2..L : f[i] = f[i - 1] \o m[i] BY <1>2, <1>5 DEF Joins
<1>7. CASE L = 1
  <2>1. t = <<>>
    <3>1. Len(t) = 0 BY <1>3, <1>7
    <3> QED BY <3>1, EmptySeq
  <2>2. FlattenSeq(t) = <<>> BY <2>1 DEF FlattenSeq
  <2>3. x \o <<>> = x BY ConcatEmptySeq
  <2> QED BY <1>2, <1>3, <1>5, <1>6, <1>7, <2>2, <2>3
<1>8. CASE L > 1
  <2>1. PICK K \in Nat : K = L - 1 /\ K > 0 BY <1>8
  <2>2. PICK g : Joins(g, t, K) /\ FlattenSeq(t) = g[K] BY <1>3, <2>1, FlattenJoins
  <2>3. \A i \in 1..K : g[i] \in Seq(S) BY <1>3, <2>1, <2>2, JoinsTyped
  <2>4. g[1] = t[1] /\ \A i \in 2..K : g[i] = g[i - 1] \o t[i] BY <2>2 DEF Joins
  <2> DEFINE T == {k \in Nat : k + 1 <= K => f[k + 2] = x \o g[k + 1]}
  <2>5. 0 \in T
    <3>1. 2 \in 2..L /\ 1 \in 1..L - 1 /\ 2 - 1 = 1 /\ 1 + 1 = 2 BY <1>8
    <3>2. f[2] = f[1] \o m[2] BY <1>6, <3>1
    <3>3. t[1] = m[2] BY <1>4, <3>1
    <3>4. f[2] = x \o g[1] BY <1>6, <2>4, <3>2, <3>3
    <3>5. 0 + 2 = 2 /\ 0 + 1 = 1 OBVIOUS
    <3> QED BY <3>4, <3>5
  <2>6. ASSUME NEW k \in Nat, k \in T PROVE k + 1 \in T
    <3> SUFFICES ASSUME (k + 1) + 1 <= K
                 PROVE  f[(k + 1) + 2] = x \o g[(k + 1) + 1]
      OBVIOUS
    <3>1. PICK i \in Nat : i = k + 2 OBVIOUS
    <3>2. /\ i \in 2..K /\ i - 1 \in 1..K /\ i - 1 = k + 1 /\ (k + 1) + 1 = i
          /\ (k + 1) + 2 = i + 1 /\ i + 1 \in 2..L /\ (i + 1) - 1 = i /\ i \in 1..L - 1
          /\ i \in 1..K
      BY <2>1, <3>1
    <3>3. f[i] = x \o g[i - 1] BY <2>6, <3>1, <3>2
    <3>4. f[i + 1] = f[i] \o t[i]
      <4>1. f[i + 1] = f[(i + 1) - 1] \o m[i + 1] BY <1>6, <3>2
      <4>2. t[i] = m[i + 1] BY <1>4, <3>2
      <4> QED BY <3>2, <4>1, <4>2
    <3>5. g[i] = g[i - 1] \o t[i] BY <2>4, <3>2
    <3>6. t[i] \in Seq(S) BY <1>3, <2>1, <3>2
    <3>7. g[i - 1] \in Seq(S) BY <2>3, <3>2
    <3>8. (x \o g[i - 1]) \o t[i] = x \o (g[i - 1] \o t[i])
      <4>1. PICK y \in Seq(S), z \in Seq(S) : y = g[i - 1] /\ z = t[i] BY <3>6, <3>7
      <4>2. x \in Seq(S) /\ y \in Seq(S) /\ z \in Seq(S) OBVIOUS
      <4>3. Associates(x, y, z) BY ONLY <4>2, Associative
      <4> QED BY <4>1, <4>3 DEF Associates
    <3> QED BY <3>2, <3>3, <3>4, <3>5, <3>8
  <2>7. K - 1 \in T
    <3>1. K - 1 \in Nat BY <2>1
    <3> HIDE DEF T
    <3> QED BY <2>5, <2>6, <3>1, Counting
  <2>8. (K - 1) + 2 = L /\ (K - 1) + 1 = K BY <2>1
  <2>9. f[L] = x \o g[K] BY <2>1, <2>7, <2>8
  <2> QED BY <1>2, <1>3, <1>5, <2>2, <2>9
<1> QED BY <1>1, <1>7, <1>8

\* The characters of what is said: those of the answers and the two the scanner says.
Letters == STRING \cup {"+", "-"}

\* The invariant of what is said.
TalkInv ==
  /\ delivered \in Seq(Letters) /\ packet \in Seq(Letters)
  /\ messages \in Seq(Seq(Letters))
  /\ SaidIsDelivered

\* What is said when nothing is left to write.
LEMMA SaysKeeps ==
  ASSUME TalkInv, Idle, NEW m \in Seq(Seq(Letters)), Says(m), packet' \in Seq(Letters)
  PROVE  TalkInv'
<1>1. messages' = m /\ said' = said \o FlattenSeq(m) /\ delivered' = delivered BY DEF Says
<1>2. PICK d \in Seq(Letters) : d = delivered BY DEF TalkInv
<1>3. said = d
  <2>1. FlattenSeq(messages) = <<>> BY DEF Idle, FlattenSeq
  <2>2. d \o <<>> = d BY ConcatEmptySeq
  <2> QED BY <1>2, <2>1, <2>2 DEF TalkInv, SaidIsDelivered
<1>4. delivered' \o FlattenSeq(messages)' = said'
  <2>1. FlattenSeq(messages)' = FlattenSeq(m) BY <1>1
  <2> QED BY <1>1, <1>2, <1>3, <2>1
<1>5. delivered' \in Seq(Letters) /\ messages' \in Seq(Seq(Letters)) BY <1>1, <1>2
<1> QED BY <1>4, <1>5 DEF TalkInv, SaidIsDelivered

\* What has been written and what remains are the same, wherever the cut is.
Regrouped(d, w, left, v) == d \o ((w \o left) \o v) = (d \o w) \o (left \o v)

\* A write may cut a message anywhere.
LEMMA Regroup ==
  ASSUME NEW S, NEW d \in Seq(S), NEW w \in Seq(S), NEW left \in Seq(S), NEW v \in Seq(S)
  PROVE  Regrouped(d, w, left, v)
<1>1. PICK r \in Seq(S) : r = left \o v BY ConcatProperties
<1>2. Associates(w, left, v) BY Associative
<1>3. Associates(d, w, r) BY Associative
<1> QED BY <1>1, <1>2, <1>3 DEF Associates, Regrouped

\* The rest of a message that a write has cut goes on behind what it has written
\* (csapp.c:511).
LEMMA WriteKeeps ==
  ASSUME TalkInv, NEW n \in Nat, rio_writen(n)
  PROVE  TalkInv'
<1>1. PICK m \in Seq(Seq(Letters)) : m = messages /\ m # <<>>
  BY DEF TalkInv, rio_writen, Idle
<1>2. PICK d \in Seq(Letters) : d = delivered BY DEF TalkInv
<1>3. PICK h \in Seq(Letters) : h = Head(m) BY <1>1, HeadTailProperties
<1>4. PICK t \in Seq(Seq(Letters)) : t = Tail(m) BY <1>1, HeadTailProperties
<1>5. PICK v \in Seq(Letters) : v = FlattenSeq(t) BY FlattenTyped
<1>6. FlattenSeq(m) = h \o v BY <1>1, <1>3, <1>4, <1>5, FlattenHead
<1>7. n <= Len(h) /\ packet' = packet /\ said' = said BY <1>1, <1>3 DEF rio_writen
<1>8. PICK w \in Seq(Letters) : w = SubSeq(h, 1, n)
  <2>1. SubSeq(h, 1, n) \in Seq(Letters) BY <1>7
  <2> QED BY <2>1
<1>9. PICK left \in Seq(Letters) : left = SubSeq(h, n + 1, Len(h))
  <2>1. SubSeq(h, n + 1, Len(h)) \in Seq(Letters) BY <1>7
  <2> QED BY <2>1
<1>10. h = w \o left
  <2>1. 1 \in 1..Len(h) + 1 /\ n \in 1 - 1..Len(h) /\ Len(h) \in n..Len(h) BY <1>7
  <2>2. SubSeq(h, 1, n) \o SubSeq(h, n + 1, Len(h)) = SubSeq(h, 1, Len(h))
    BY <2>1, ConcatAdjacentSubSeq
  <2>3. SubSeq(h, 1, Len(h)) = h BY SubSeqFull
  <2> QED BY <1>8, <1>9, <2>2, <2>3
<1>11. delivered' = d \o w BY <1>1, <1>2, <1>3, <1>8 DEF rio_writen
<1>12. messages' = IF left = <<>> THEN t ELSE <<left>> \o t
  BY <1>1, <1>3, <1>4, <1>9 DEF rio_writen, remaining
<1>13. messages' \in Seq(Seq(Letters)) /\ FlattenSeq(messages)' = left \o v
  <2>1. CASE left = <<>>
    <3>1. messages' = t BY <1>12, <2>1
    <3>2. FlattenSeq(messages)' = v BY <1>5, <3>1
    <3>3. <<>> \o v = v BY ConcatEmptySeq
    <3> QED BY <2>1, <3>1, <3>2, <3>3
  <2>2. CASE left # <<>>
    <3>1. messages' = <<left>> \o t BY <1>12, <2>2
    <3>2. PICK one \in Seq(Seq(Letters)) : one = <<left>> /\ Len(one) = 1 /\ one[1] = left
      <4>1. <<left>> \in Seq(Seq(Letters)) /\ Len(<<left>>) = 1 /\ <<left>>[1] = left
        OBVIOUS
      <4> QED BY <4>1
    <3>3. PICK c \in Seq(Seq(Letters)) : c = one \o t BY ConcatProperties
    <3>4. /\ Len(c) = 1 + Len(t) /\ c[1] = left
          /\ \A i \in 1..Len(t) : c[1 + i] = t[i]
      <4>1. /\ Len(one \o t) = 1 + Len(t)
            /\ \A i \in 1..1 + Len(t) :
                 (one \o t)[i] = IF i <= 1 THEN one[i] ELSE t[i - 1]
        BY <3>2, ConcatProperties
      <4>2. c[1] = left
        <5>1. 1 \in 1..1 + Len(t) /\ 1 <= 1 OBVIOUS
        <5> QED BY <3>2, <3>3, <4>1, <5>1
      <4>3. ASSUME NEW i \in 1..Len(t) PROVE c[1 + i] = t[i]
        <5>1. 1 + i \in 1..1 + Len(t) /\ ~(1 + i <= 1) /\ (1 + i) - 1 = i OBVIOUS
        <5> QED BY <3>3, <4>1, <5>1
      <4> QED BY <3>3, <4>1, <4>2, <4>3
    <3>5. c # <<>> BY <3>4
    <3>6. Head(c) = left BY <3>4, <3>5
    <3>7. Tail(c) = t
      <4>1. PICK z \in Seq(Seq(Letters)) : z = Tail(c) BY <3>5, HeadTailProperties
      <4>2. Len(z) = Len(t) /\ \A i \in 1..Len(z) : z[i] = c[i + 1]
        BY <3>4, <3>5, <4>1, HeadTailProperties
      <4>3. \A i \in 1..Len(z) : z[i] = t[i]
        <5> TAKE i \in 1..Len(z)
        <5>1. i + 1 = 1 + i /\ i \in 1..Len(t) BY <4>2
        <5> QED BY <3>4, <4>2, <5>1
      <4>4. z = t BY <4>2, <4>3, SeqEqual
      <4> QED BY <4>1, <4>4
    <3>8. FlattenSeq(c) = left \o v BY <1>5, <3>5, <3>6, <3>7, FlattenHead
    <3>9. messages' = c BY <3>1, <3>2, <3>3
    <3>10. FlattenSeq(messages)' = FlattenSeq(c) BY <3>9
    <3> QED BY <3>8, <3>9, <3>10
  <2> QED BY <2>1, <2>2
<1>14. d \o (h \o v) = (d \o w) \o (left \o v)
  <2>1. d \in Seq(Letters) /\ w \in Seq(Letters) OBVIOUS
  <2>2. left \in Seq(Letters) /\ v \in Seq(Letters) OBVIOUS
  <2>3. Regrouped(d, w, left, v) BY ONLY <2>1, <2>2, Regroup
  <2>4. d \o ((w \o left) \o v) = (d \o w) \o (left \o v) BY ONLY <2>3 DEF Regrouped
  <2> QED BY <1>10, <2>4
<1>15. d \o (h \o v) = said BY <1>1, <1>2, <1>6 DEF TalkInv, SaidIsDelivered
<1>16. delivered' \o FlattenSeq(messages)' = said'
  BY <1>7, <1>11, <1>13, <1>14, <1>15
<1>17. delivered' \in Seq(Letters) BY <1>11, ConcatProperties
<1> QED BY <1>7, <1>13, <1>16, <1>17 DEF TalkInv, SaidIsDelivered

\* The answers and the error are sequences of messages.
LEMMA SaidTyped ==
  ASSUME TalkInv
  PROVE  /\ handle_error \in Seq(Seq(Letters))
         /\ handle_error \o (IF packet = <<>> THEN <<>> ELSE <<packet>>) \in Seq(Seq(Letters))
         /\ handle_error \o <<<<"+">>, Answer>> \in Seq(Seq(Letters))
         /\ handle_error \o <<<<"+">>>> \in Seq(Seq(Letters))
         /\ handle_error \o <<<<"-">>>> \in Seq(Seq(Letters))
         /\ <<>> \in Seq(Seq(Letters))
         /\ Answer \in Seq(Letters)
<1>1. Answer \in Seq(Letters)
  <2>1. PICK a \in Seq(STRING) : a = Answer
    BY ConnectionAssumption DEF ConnectionAssumption
  <2>2. \A i \in 1..Len(a) : a[i] \in STRING OBVIOUS
  <2>3. \A i \in 1..Len(a) : a[i] \in Letters BY <2>2 DEF Letters
  <2>4. Len(a) \in Nat /\ a = [i \in 1..Len(a) |-> a[i]] OBVIOUS
  <2>5. a \in Seq(Letters) BY <2>3, <2>4
  <2> QED BY <2>1, <2>5
<1>2. packet \in Seq(Letters) BY DEF TalkInv
<1>3. <<"-">> \in Seq(Letters) /\ <<"+">> \in Seq(Letters)
  <2>1. "-" \in Letters BY DEF Letters
  <2>2. "+" \in Letters BY DEF Letters
  <2> QED BY <2>1, <2>2
<1>4. \A a \in Seq(Letters) : <<a>> \in Seq(Seq(Letters)) OBVIOUS
<1>5. <<>> \in Seq(Seq(Letters)) BY EmptySeq
<1>6. PICK error \in Seq(Seq(Letters)) : error = handle_error
  <2>1. CASE len > 0 BY <1>3, <1>4, <2>1 DEF handle_error
  <2>2. CASE ~(len > 0) BY <1>5, <2>2 DEF handle_error
  <2> QED BY <2>1, <2>2
<1>7. <<<<"+">>, Answer>> \in Seq(Seq(Letters)) BY <1>1, <1>3
<1>8. <<<<"-">>>> \in Seq(Seq(Letters)) /\ <<<<"+">>>> \in Seq(Seq(Letters))
  BY <1>3, <1>4
<1>9. (IF packet = <<>> THEN <<>> ELSE <<packet>>) \in Seq(Seq(Letters))
  <2>1. CASE packet = <<>> BY <1>5, <2>1
  <2>2. CASE packet # <<>> BY <1>2, <1>4, <2>2
  <2> QED BY <2>1, <2>2
<1>10. \A a \in Seq(Seq(Letters)) : error \o a \in Seq(Seq(Letters)) BY ConcatProperties
<1> QED BY <1>1, <1>5, <1>6, <1>7, <1>8, <1>9, <1>10

\* Every step of the thread keeps what has been said.
LEMMA TalkStep ==
  ASSUME TalkInv, [Next]_vars
  PROVE  TalkInv'
<1>1. ASSUME UNCHANGED <<packet, messages, said, delivered>> PROVE TalkInv'
  <2>1. packet' = packet /\ messages' = messages /\ said' = said /\ delivered' = delivered
    BY <1>1
  <2>2. FlattenSeq(messages)' = FlattenSeq(messages) BY <2>1
  <2> QED BY <2>1, <2>2 DEF TalkInv, SaidIsDelivered
<1>2. packet \in Seq(Letters) BY DEF TalkInv
<1>3. CASE yylex BY <1>1, <1>3 DEF yylex, talk_vars
<1>4. CASE Acknowledgement
  <2>1. Idle /\ Says(handle_error) /\ packet' \in Seq(Letters)
    BY <1>2, <1>4 DEF Acknowledgement
  <2> QED BY <2>1, SaidTyped, SaysKeeps
<1>5. CASE Retransmission
  <2>1. PICK m : m = handle_error \o (IF packet = <<>> THEN <<>> ELSE <<packet>>) OBVIOUS
  <2>2. Idle /\ Says(m) /\ packet' \in Seq(Letters)
    BY <1>2, <1>5, <2>1 DEF Retransmission
  <2>3. m \in Seq(Seq(Letters)) BY <2>1, SaidTyped
  <2> QED BY <2>2, <2>3, SaysKeeps
<1>6. CASE Packet
  <2>1. PICK m : /\ \/ m = handle_error \o <<<<"+">>, Answer>> /\ packet' = Answer
                    \/ m = handle_error \o <<<<"+">>>> /\ packet' = packet
                    \/ m = handle_error \o <<<<"-">>>> /\ packet' = packet
                 /\ Idle /\ Says(m)
    BY <1>6 DEF Packet
  <2>2. m \in Seq(Seq(Letters)) /\ packet' \in Seq(Letters) BY <1>2, <2>1, SaidTyped
  <2> QED BY <2>1, <2>2, SaysKeeps
<1>7. CASE add_character_to_error
  <2>1. PICK m : (m = <<>> \/ m = handle_error) /\ Idle /\ Says(m) /\ packet' = packet
    BY <1>7 DEF add_character_to_error
  <2>2. m \in Seq(Seq(Letters)) /\ packet' \in Seq(Letters) BY <1>2, <2>1, SaidTyped
  <2> QED BY <2>1, <2>2, SaysKeeps
<1>8. CASE ECHO BY <1>1, <1>8 DEF ECHO, talk_vars
<1>9. CASE LastErrors
  <2>1. Idle /\ Says(handle_error) /\ packet' \in Seq(Letters) BY <1>2, <1>9 DEF LastErrors
  <2> QED BY <2>1, SaidTyped, SaysKeeps
<1>10. CASE \E n \in 1..Len(Answer) : rio_writen(n)
  <2>1. PICK n \in Nat : rio_writen(n) BY <1>10
  <2> QED BY <2>1, WriteKeeps
<1>11. CASE unix_error BY <1>1, <1>11 DEF unix_error, talk_vars
<1>12. CASE UNCHANGED vars BY <1>1, <1>12 DEF vars, talk_vars
<1>13. CASE kill_request BY <1>1, <1>13 DEF kill_request
<1> QED BY <1>3, <1>4, <1>5, <1>6, <1>7, <1>8, <1>9, <1>10, <1>11, <1>12, <1>13 DEF Next

\* However short or interrupted the writes, what has been written and what remains
\* are together what the rules said, whole and in order (csapp.c:511): an answer is
\* written to its end before the next byte from gdb is scanned.
THEOREM SaidIsAlwaysDelivered == Spec => []SaidIsDelivered
<1>1. Init => TalkInv
  <2> SUFFICES ASSUME Init PROVE TalkInv OBVIOUS
  <2>1. packet = <<>> /\ messages = <<>> /\ said = <<>> /\ delivered = <<>> BY DEF Init
  <2>2. FlattenSeq(messages) = <<>> BY <2>1 DEF FlattenSeq
  <2>3. <<>> \in Seq(Letters) /\ <<>> \in Seq(Seq(Letters)) BY EmptySeq
  <2>4. <<>> \o <<>> = <<>> BY <2>3, ConcatEmptySeq
  <2> QED BY <2>1, <2>2, <2>3, <2>4 DEF TalkInv, SaidIsDelivered
<1>2. TalkInv => SaidIsDelivered BY DEF TalkInv
<1>3. TalkInv /\ [Next]_vars => TalkInv' BY TalkStep
<1> QED BY <1>1, <1>2, <1>3, PTL DEF Spec

=============================================================================
