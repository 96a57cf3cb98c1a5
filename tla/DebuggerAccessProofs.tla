------------------------- MODULE DebuggerAccessProofs -------------------------
(***************************************************************************)
(* For every memory, byte width, content and command: the accesses of the  *)
(* core and of the debugger agree on which byte of a value lies where, X   *)
(* stores what gdb meant whatever it had to escape, and the memory never   *)
(* holds anything but bytes.                                               *)
(***************************************************************************)
EXTENDS DebuggerAccess, FiniteSetTheorems, FunctionTheorems, SequenceTheorems, TLAPS

-----------------------------------------------------------------------------
(* Recursion. *)

\* A set that holds 0 and the successor of what it holds has every natural
\* number.  If n were missing, i |-> i - 1 would map the missing numbers up to n
\* one to one to those below n, which are fewer.
LEMMA Induction ==
  ASSUME NEW S, 0 \in S, \A i \in Nat : i \in S => i + 1 \in S, NEW n \in Nat
  PROVE  n \in S
<1> SUFFICES ASSUME n \notin S PROVE FALSE OBVIOUS
<1> DEFINE T == {i \in 0..n : i \notin S}
           f == [i \in T |-> i - 1]
<1>1. n \in T OBVIOUS
<1>2. IsFiniteSet(T)
  <2>1. IsFiniteSet(0..n) BY FS_Interval
  <2>2. T \in SUBSET (0..n) OBVIOUS
  <2> QED BY <2>1, <2>2, FS_Subset
<1>3. IsFiniteSet(T \ {n}) /\ Cardinality(T \ {n}) = Cardinality(T) - 1
  BY <1>1, <1>2, FS_RemoveElement
<1>4. ASSUME NEW i \in T PROVE i - 1 \in T \ {n}
  <2>1. i \in 0..n /\ i \notin S OBVIOUS
  <2>2. i # 0 BY <2>1
  <2>3. i - 1 \in Nat /\ (i - 1) + 1 = i BY <2>1, <2>2
  <2>4. i - 1 \notin S BY <2>1, <2>3
  <2>5. i - 1 \in 0..n /\ i - 1 # n BY <2>1, <2>3
  <2> QED BY <2>4, <2>5
<1>5. f \in [T -> T \ {n}] BY <1>4
<1>6. \A i, j \in T : f[i] = f[j] => i = j OBVIOUS
<1>7. f \in Injection(T, T \ {n})
  <2> HIDE DEF T, f
  <2> QED BY <1>5, <1>6, Fun_IsInj
<1>8. Cardinality(T) <= Cardinality(T \ {n})
  <2> HIDE DEF T, f
  <2> QED BY <1>3, <1>7, FS_Injection
<1>9. Cardinality(T) \in Nat BY <1>2, FS_CardinalityType
<1> HIDE DEF T
<1> QED BY <1>3, <1>8, <1>9

\* A string sent up to its byte i, which every longer one begins with.
IsText(text, content, n) ==
  text = [i \in 0..n |-> IF i = 0 THEN <<>> ELSE text[i - 1] \o quoted(content[i])]

\* The text gdb sends of the first n bytes, byte after byte, exists,
LEMMA TextExists ==
  ASSUME NEW content, NEW n \in Nat
  PROVE  \E text : IsText(text, content, n)
<1> DEFINE S == {i \in Nat : \E text : IsText(text, content, i)}
<1>1. 0 \in S
  <2> DEFINE text == [i \in 0..0 |-> <<>>]
  <2>1. IsText(text, content, 0) BY DEF IsText
  <2> QED BY <2>1
<1>2. ASSUME NEW i \in Nat, i \in S PROVE i + 1 \in S
  <2>1. PICK text : IsText(text, content, i) BY <1>2
  <2> DEFINE longer == [k \in 0..i + 1 |->
                          IF k = i + 1 THEN text[i] \o quoted(content[i + 1]) ELSE text[k]]
  <2>2. ASSUME NEW k \in 0..i + 1
        PROVE  longer[k] = IF k = 0 THEN <<>> ELSE longer[k - 1] \o quoted(content[k])
    <3>1. CASE k = i + 1
      <4>1. longer[k] = text[i] \o quoted(content[k]) BY <3>1
      <4>2. k # 0 /\ k - 1 = i /\ longer[i] = text[i] BY <3>1
      <4> HIDE DEF longer
      <4> QED BY <4>1, <4>2
    <3>2. CASE k # i + 1
      <4>1. k \in 0..i BY <3>2
      <4>2. text[k] = IF k = 0 THEN <<>> ELSE text[k - 1] \o quoted(content[k])
        BY <2>1, <4>1 DEF IsText
      <4>3. longer[k] = text[k] BY <3>2
      <4>4. k # 0 => longer[k - 1] = text[k - 1] BY <4>1
      <4> QED BY <4>2, <4>3, <4>4
    <3> QED BY <3>1, <3>2
  <2>3. longer = [k \in 0..i + 1 |->
                    IF k = 0 THEN <<>> ELSE longer[k - 1] \o quoted(content[k])]
    <3>1. longer = [k \in 0..i + 1 |-> longer[k]] OBVIOUS
    <3> HIDE DEF longer
    <3> QED BY <2>2, <3>1
  <2>4. IsText(longer, content, i + 1) BY <2>3 DEF IsText
  <2> QED BY <2>4
<1> HIDE DEF S
<1>3. n \in S BY <1>1, <1>2, Induction
<1> QED BY <1>3 DEF S

\* and is what Sent computes.
LEMMA SentIsText ==
  ASSUME NEW content \in Seq(Byte)
  PROVE  \E text : IsText(text, content, Len(content)) /\ Sent(content) = text[Len(content)]
<1> DEFINE text == CHOOSE t : t = [i \in 0..Len(content) |->
                     IF i = 0 THEN <<>> ELSE t[i - 1] \o quoted(content[i])]
<1>1. Len(content) \in Nat OBVIOUS
<1>2. IsText(text, content, Len(content))
  <2>1. \E t : IsText(t, content, Len(content)) BY <1>1, TextExists
  <2> QED BY <2>1 DEF IsText
<1>3. Sent(content) = text[Len(content)] BY DEF Sent
<1> QED BY <1>2, <1>3

-----------------------------------------------------------------------------
(* Escaped bytes. *)

\* Flipping a bit twice.
LEMMA FlipTwice ==
  ASSUME NEW v \in Byte
  PROVE  flip(v) \in Nat /\ flip(flip(v)) = v
<1>1. v \in Nat /\ FlipBit \in Nat \ {0}
  BY DebuggerAssumption, MemoryAssumption DEF Byte
<1>2. CASE (v \div FlipBit) % 2 = 1
  <2>1. v >= FlipBit /\ (v - FlipBit) \div FlipBit = (v \div FlipBit) - 1
    BY <1>1, <1>2
  <2>2. v \div FlipBit \in Nat BY <1>1
  <2>3. ((v \div FlipBit) - 1) % 2 # 1 BY <1>2, <2>2
  <2> QED BY <1>1, <1>2, <2>1, <2>3 DEF flip
<1>3. CASE (v \div FlipBit) % 2 # 1
  <2>1. (v + FlipBit) \div FlipBit = (v \div FlipBit) + 1 BY <1>1
  <2>2. v \div FlipBit \in Nat BY <1>1
  <2>3. ((v \div FlipBit) + 1) % 2 = 1 BY <1>3, <2>2
  <2> QED BY <1>1, <1>3, <2>1, <2>3 DEF flip
<1> QED BY <1>2, <1>3

\* A byte is sent as itself or as the escape and the flipped byte.
LEMMA QuotedIs ==
  ASSUME NEW v \in Byte
  PROVE  /\ quoted(v) \in Seq(Int)
         /\ v \in Special => /\ Len(quoted(v)) = 2
                             /\ quoted(v)[1] = Escape /\ quoted(v)[2] = flip(v)
         /\ v \notin Special => Len(quoted(v)) = 1 /\ quoted(v)[1] = v
<1>1. v \in Int /\ Escape \in Int /\ flip(v) \in Int
  BY FlipTwice, DebuggerAssumption, MemoryAssumption DEF Byte
<1>2. CASE v \in Special
  <2>1. quoted(v) = <<Escape, flip(v)>> BY <1>2 DEF quoted
  <2> QED BY <1>1, <1>2, <2>1
<1>3. CASE v \notin Special
  <2>1. quoted(v) = <<v>> BY <1>3 DEF quoted
  <2> QED BY <1>1, <1>3, <2>1
<1> QED BY <1>2, <1>3

\* t begins with s.
Begins(s, t) == Len(s) <= Len(t) /\ \A p \in 1..Len(s) : t[p] = s[p]

\* Each byte extends what is sent by its own one or two.
LEMMA TextGrows ==
  ASSUME NEW content \in Seq(Byte), NEW text, IsText(text, content, Len(content))
  PROVE  /\ \A i \in 0..Len(content) : text[i] \in Seq(Int)
         /\ \A i \in 0..Len(content) - 1 :
              /\ content[i + 1] \in Byte
              /\ text[i + 1] = text[i] \o quoted(content[i + 1])
<1> DEFINE n == Len(content)
           S == {i \in Nat : i <= n => text[i] \in Seq(Int)}
<1>1. n \in Nat OBVIOUS
<1>2. text[0] = <<>> BY <1>1 DEF IsText
<1>3. ASSUME NEW i \in 0..n - 1
      PROVE  /\ content[i + 1] \in Byte
             /\ text[i + 1] = text[i] \o quoted(content[i + 1])
  <2>1. i + 1 \in 1..n /\ i + 1 \in 0..n /\ i + 1 # 0 /\ (i + 1) - 1 = i BY <1>1
  <2>2. content[i + 1] \in Byte BY <2>1, ElementOfSeq
  <2> QED BY <2>1, <2>2 DEF IsText
<1>4. 0 \in S
  <2>1. text[0] \in Seq(Int) BY <1>2, EmptySeq
  <2> QED BY <2>1
<1>5. ASSUME NEW i \in Nat, i \in S PROVE i + 1 \in S
  <2> SUFFICES ASSUME i + 1 <= n PROVE text[i + 1] \in Seq(Int) OBVIOUS
  <2>1. i \in 0..n - 1 /\ text[i] \in Seq(Int) BY <1>1, <1>5
  <2>2. quoted(content[i + 1]) \in Seq(Int) BY <1>3, <2>1, QuotedIs
  <2>3. text[i] \o quoted(content[i + 1]) \in Seq(Int)
    BY <2>1, <2>2, ConcatProperties
  <2> QED BY <1>3, <2>1, <2>3
<1>6. ASSUME NEW i \in 0..n PROVE text[i] \in Seq(Int)
  <2> HIDE DEF S
  <2>1. i \in S BY <1>1, <1>4, <1>5, <1>6, Induction
  <2> QED BY <1>1, <2>1 DEF S
<1> QED BY <1>3, <1>6

\* A beginning of a text begins its extensions,
LEMMA BeginsExtended ==
  ASSUME NEW s \in Seq(Int), NEW t \in Seq(Int), NEW q \in Seq(Int), Begins(s, t)
  PROVE  Begins(s, t \o q)
<1>1. /\ Len(t \o q) = Len(t) + Len(q)
      /\ \A p \in 1..Len(t) : (t \o q)[p] = t[p]
  BY ConcatProperties
<1>2. Len(s) \in Nat /\ Len(t) \in Nat /\ Len(q) \in Nat OBVIOUS
<1> QED BY <1>1, <1>2 DEF Begins

\* and what follows it is what was appended.
LEMMA AfterBeginning ==
  ASSUME NEW s \in Seq(Int), NEW q \in Seq(Int), NEW t, Begins(s \o q, t)
  PROVE  \A k \in 1..Len(q) : t[Len(s) + k] = q[k]
<1>1. Len(s) \in Nat /\ Len(q) \in Nat OBVIOUS
<1> TAKE k \in 1..Len(q)
<1>2. /\ Len(s \o q) = Len(s) + Len(q)
      /\ (s \o q)[Len(s) + k] = q[k]
  BY <1>1, ConcatProperties
<1>3. Len(s) + k \in 1..Len(s) + Len(q) BY <1>1
<1> QED BY <1>2, <1>3 DEF Begins

\* What has been sent is not changed by what follows.
LEMMA TextBegins ==
  ASSUME NEW content \in Seq(Byte), NEW text, IsText(text, content, Len(content)),
         NEW i \in 0..Len(content)
  PROVE  Begins(text[i], text[Len(content)])
<1> DEFINE n == Len(content)
           S == {j \in Nat : i <= j /\ j <= n => Begins(text[i], text[j])}
<1>1. n \in Nat /\ i \in Nat OBVIOUS
<1>2. ASSUME NEW j \in Nat, j = 0 PROVE j \in S
  <2>1. i <= j => i = 0 BY <1>1, <1>2
  <2> QED BY <1>2, <2>1 DEF Begins
<1>3. ASSUME NEW j \in Nat, j \in S PROVE j + 1 \in S
  <2> SUFFICES ASSUME i <= j + 1, j + 1 <= n PROVE Begins(text[i], text[j + 1])
    OBVIOUS
  <2>1. CASE i = j + 1 BY <2>1 DEF Begins
  <2>2. CASE i # j + 1
    <3>1. i <= j /\ j \in 0..n - 1 /\ j \in 0..n BY <1>1, <2>2
    <3>2. Begins(text[i], text[j]) BY <1>3, <3>1
    <3>3. /\ text[i] \in Seq(Int) /\ text[j] \in Seq(Int) /\ content[j + 1] \in Byte
          /\ text[j + 1] = text[j] \o quoted(content[j + 1])
      BY <1>1, <3>1, TextGrows
    <3>4. quoted(content[j + 1]) \in Seq(Int) BY <3>3, QuotedIs
    <3>5. text[i] \in Seq(Int) BY TextGrows
    <3> QED BY <3>2, <3>3, <3>4, <3>5, BeginsExtended
  <2> QED BY <2>1, <2>2
<1> HIDE DEF S
<1>4. n \in S BY <1>1, <1>2, <1>3, Induction
<1> QED BY <1>1, <1>4 DEF S

\* Where the byte i + 1 of the content is found in the text.
LEMMA TextAt ==
  ASSUME NEW content \in Seq(Byte), NEW text, IsText(text, content, Len(content)),
         NEW i \in 0..Len(content) - 1
  PROVE  LET sent == text[Len(content)]
             at == Len(text[i]) + 1
             v == content[i + 1]
         IN  /\ v \in Byte
             /\ v \in Special => /\ sent[at] = Escape /\ sent[at + 1] = flip(v)
                                 /\ Len(text[i + 1]) + 1 = at + 2
             /\ v \notin Special => sent[at] = v /\ Len(text[i + 1]) + 1 = at + 1
<1> DEFINE sent == text[Len(content)]
           at == Len(text[i]) + 1
           v == content[i + 1]
           q == quoted(v)
<1>1. i \in 0..Len(content) /\ i + 1 \in 0..Len(content) OBVIOUS
<1>2. /\ text[i] \in Seq(Int) /\ text[i + 1] \in Seq(Int) /\ v \in Byte
      /\ text[i + 1] = text[i] \o q
  BY <1>1, TextGrows
<1>3. Begins(text[i + 1], sent) BY <1>1, TextBegins
<1> HIDE DEF sent, v
<1>4. /\ q \in Seq(Int)
      /\ v \in Special => Len(q) = 2 /\ q[1] = Escape /\ q[2] = flip(v)
      /\ v \notin Special => Len(q) = 1 /\ q[1] = v
  BY <1>2, QuotedIs
<1> HIDE DEF q
<1>5. Len(text[i + 1]) = Len(text[i]) + Len(q)
  BY <1>2, <1>4, ConcatProperties
<1>6. Len(text[i]) \in Nat BY <1>2
<1>7. \A k \in 1..Len(q) : sent[Len(text[i]) + k] = q[k]
  <2>1. Begins(text[i] \o q, sent) BY <1>2, <1>3
  <2>2. text[i] \in Seq(Int) BY <1>2
  <2> QED BY <1>4, <2>1, <2>2, AfterBeginning
<1>8. CASE v \in Special
  <2>1. Len(q) = 2 /\ q[1] = Escape /\ q[2] = flip(v) BY <1>4, <1>8
  <2>2. 1 \in 1..Len(q) /\ 2 \in 1..Len(q) BY <2>1
  <2>3. sent[Len(text[i]) + 1] = Escape /\ sent[Len(text[i]) + 2] = flip(v)
    BY <1>7, <2>1, <2>2
  <2>4. at + 1 = Len(text[i]) + 2 BY <1>6
  <2>5. Len(text[i + 1]) + 1 = at + 2 BY <1>5, <1>6, <2>1
  <2> QED BY <1>2, <1>8, <2>3, <2>4, <2>5 DEF sent, v
<1>9. CASE v \notin Special
  <2>1. Len(q) = 1 /\ q[1] = v BY <1>4, <1>9
  <2>2. sent[Len(text[i]) + 1] = v
    <3>1. 1 \in 1..Len(q) BY <2>1
    <3> QED BY <1>7, <2>1, <3>1
  <2>3. Len(text[i + 1]) + 1 = at + 1 BY <1>5, <1>6, <2>1
  <2> QED BY <1>2, <1>9, <2>2, <2>3 DEF sent, v
<1> QED BY <1>8, <1>9

-----------------------------------------------------------------------------
(* The loop of X. *)

IsLoop(loop, bytes, text, address, n) ==
  loop = [i \in 0..n |->
            IF i = 0
            THEN [bytes |-> bytes, at |-> 1, ok |-> address < capacity]
            ELSE writes_byte(loop[i - 1], text, address + i - 1)]

\* The loop of X over the first n bytes of a text exists,
LEMMA LoopExists ==
  ASSUME NEW bytes, NEW text, NEW address, NEW n \in Nat
  PROVE  \E loop : IsLoop(loop, bytes, text, address, n)
<1> DEFINE start == [bytes |-> bytes, at |-> 1, ok |-> address < capacity]
           next(l, k) == writes_byte(l, text, address + k - 1)
           S == {i \in Nat : \E loop : IsLoop(loop, bytes, text, address, i)}
<1>1. 0 \in S
  <2> DEFINE loop == [i \in 0..0 |-> start]
  <2>1. IsLoop(loop, bytes, text, address, 0) BY DEF IsLoop
  <2> QED BY <2>1
<1>2. ASSUME NEW i \in Nat, i \in S PROVE i + 1 \in S
  <2>1. PICK loop : IsLoop(loop, bytes, text, address, i) BY <1>2
  <2> DEFINE longer == [k \in 0..i + 1 |-> IF k = i + 1 THEN next(loop[i], k) ELSE loop[k]]
  <2>2. ASSUME NEW k \in 0..i + 1
        PROVE  longer[k] = IF k = 0 THEN start ELSE next(longer[k - 1], k)
    <3>1. CASE k = i + 1
      <4>1. longer[k] = next(loop[i], k) BY <3>1
      <4>2. k # 0 /\ k - 1 = i /\ longer[i] = loop[i] BY <3>1
      <4> HIDE DEF longer, next
      <4> QED BY <4>1, <4>2
    <3>2. CASE k # i + 1
      <4>1. k \in 0..i BY <3>2
      <4>2. loop[k] = IF k = 0 THEN start ELSE next(loop[k - 1], k)
        BY <2>1, <4>1 DEF IsLoop
      <4>3. longer[k] = loop[k] BY <3>2
      <4>4. k # 0 => longer[k - 1] = loop[k - 1] BY <4>1
      <4> HIDE DEF longer, next
      <4> QED BY <4>2, <4>3, <4>4
    <3> QED BY <3>1, <3>2
  <2>3. longer = [k \in 0..i + 1 |-> IF k = 0 THEN start ELSE next(longer[k - 1], k)]
    <3>1. longer = [k \in 0..i + 1 |-> longer[k]] OBVIOUS
    <3> HIDE DEF longer, next
    <3> QED BY <2>2, <3>1
  <2>4. IsLoop(longer, bytes, text, address, i + 1)
    <3> HIDE DEF longer
    <3> QED BY <2>3 DEF IsLoop
  <2> QED BY <2>4
<1> HIDE DEF S
<1>3. n \in S BY <1>1, <1>2, Induction
<1> QED BY <1>3 DEF S

\* and is what writes computes.
LEMMA WritesIsLoop ==
  ASSUME NEW bytes, NEW text, NEW address, NEW n \in Nat
  PROVE  \E loop : /\ IsLoop(loop, bytes, text, address, n)
                   /\ writes(bytes, text, address, n) = loop[n]
<1> DEFINE loop == CHOOSE l : l = [i \in 0..n |->
                     IF i = 0
                     THEN [bytes |-> bytes, at |-> 1, ok |-> address < capacity]
                     ELSE writes_byte(l[i - 1], text, address + i - 1)]
<1>1. IsLoop(loop, bytes, text, address, n)
  <2>1. \E l : IsLoop(l, bytes, text, address, n) BY LoopExists
  <2> QED BY <2>1 DEF IsLoop
<1>2. writes(bytes, text, address, n) = loop[n] BY DEF writes
<1> QED BY <1>1, <1>2

\* The bytes of a memory into which the first i of a content have been written.
Written(bytes, content, address, i) ==
  [a \in 0..capacity - 1 |->
     IF a \in address..address + i - 1 THEN content[a - address + 1] ELSE bytes[a]]

\* After i rounds: what is stored, whether the loop goes on, and where it reads.
Reached(l, bytes, content, address, i, at) ==
  /\ l.bytes = Written(bytes, content, address, i)
  /\ l.ok <=> address < capacity /\ address + i <= capacity
  /\ l.ok => l.at = at

\* One round, which writes a byte, or none once the end of the memory is passed.
LEMMA RoundReaches ==
  ASSUME NEW content, NEW address \in Addresses, NEW i \in Nat, NEW bytes,
         NEW text, NEW l, NEW at \in Nat, NEW next, NEW v \in Byte,
         content[i + 1] = v,
         Reached(l, bytes, content, address, i, at),
         v \in Special => /\ text[at] = Escape /\ text[at + 1] = flip(v)
                          /\ next = at + 2,
         v \notin Special => text[at] = v /\ next = at + 1
  PROVE  Reached(writes_byte(l, text, address + (i + 1) - 1),
                 bytes, content, address, i + 1, next)
<1> DEFINE w == writes_byte(l, text, address + (i + 1) - 1)
<1>1. /\ address \in Nat /\ capacity \in Nat /\ address + (i + 1) - 1 = address + i
      /\ address + (i + 1) - 1 \in Nat
  BY MemoryAssumption DEF Addresses
<1>2. CASE ~l.ok
  <2>1. w = l BY <1>2 DEF writes_byte
  <2>2. ~(address < capacity /\ address + (i + 1) <= capacity)
    BY <1>1, <1>2 DEF Reached
  <2>3. \A a \in 0..capacity - 1 : ~(a \in address..address + i)
                                   \/ a \in address..address + i - 1
    BY <1>1, <1>2 DEF Reached
  <2>4. Written(bytes, content, address, i + 1) = Written(bytes, content, address, i)
    BY <1>1, <2>3 DEF Written
  <2> QED BY <1>2, <2>1, <2>2, <2>4 DEF Reached
<1>3. CASE l.ok
  <2> DEFINE a == address + i
             u == IF text[l.at] = Escape THEN flip(text[l.at + 1]) ELSE text[l.at]
             stored_bytes == IF a < capacity THEN [l.bytes EXCEPT ![a] = u] ELSE l.bytes
             step == IF text[l.at] = Escape THEN 2 ELSE 1
  <2>1. l.at = at /\ address < capacity /\ l.bytes = Written(bytes, content, address, i)
    BY <1>3 DEF Reached
  <2>2. u = v /\ l.at + step = next
    <3>1. CASE v \in Special
      <4>1. flip(flip(v)) = v BY FlipTwice
      <4> QED BY <2>1, <3>1, <4>1
    <3>2. CASE v \notin Special
      <4>1. v # Escape BY <3>2, DebuggerAssumption
      <4> QED BY <2>1, <3>2, <4>1
    <3> QED BY <3>1, <3>2
  <2>3. w = [bytes |-> stored_bytes, at |-> l.at + step, ok |-> a < capacity]
    BY <1>1, <1>3 DEF writes_byte
  <2>4. stored_bytes = Written(bytes, content, address, i + 1)
    <3> HIDE DEF u
    <3>1. CASE a < capacity
      <4>1. a \in 0..capacity - 1 /\ a - address + 1 = i + 1 BY <1>1, <3>1
      <4>2. \A b \in 0..capacity - 1 :
              (IF b = a THEN v ELSE Written(bytes, content, address, i)[b])
                = Written(bytes, content, address, i + 1)[b]
        BY <1>1, <4>1 DEF Written
      <4>3. [Written(bytes, content, address, i) EXCEPT ![a] = v]
              = Written(bytes, content, address, i + 1)
        BY <4>1, <4>2 DEF Written
      <4> QED BY <2>1, <2>2, <3>1, <4>3
    <3>2. CASE ~(a < capacity)
      <4>1. \A b \in 0..capacity - 1 : b \in address..address + (i + 1) - 1
                                         <=> b \in address..address + i - 1
        BY <1>1, <3>2
      <4> QED BY <2>1, <3>2, <4>1 DEF Written
    <3> QED BY <3>1, <3>2
  <2>5. a < capacity <=> address < capacity /\ address + (i + 1) <= capacity
    BY <1>1
  <2> HIDE DEF w, stored_bytes, step
  <2>6. /\ w.bytes = stored_bytes /\ w.at = l.at + step
        /\ w.ok <=> a < capacity
    BY <2>3
  <2>7. Reached(w, bytes, content, address, i + 1, next)
    BY <2>2, <2>4, <2>5, <2>6 DEF Reached
  <2> QED BY <2>7 DEF w
<1> QED BY <1>2, <1>3

\* The whole loop stores what gdb meant.
LEMMA WritesReaches ==
  ASSUME NEW content \in Seq(Byte), NEW address \in Addresses,
         NEW bytes \in [0..capacity - 1 -> Byte]
  PROVE  LET w == writes(bytes, Sent(content), address, Len(content))
         IN  /\ w.bytes = Written(bytes, content, address, Len(content))
             /\ w.ok <=> address < capacity /\ address + Len(content) <= capacity
<1> DEFINE n == Len(content)
<1>1. n \in Nat OBVIOUS
<1>2. PICK text : IsText(text, content, n) /\ Sent(content) = text[n] BY SentIsText
<1>3. PICK loop : /\ IsLoop(loop, bytes, Sent(content), address, n)
                  /\ writes(bytes, Sent(content), address, n) = loop[n]
  BY <1>1, WritesIsLoop
<1> DEFINE At(i) == Len(text[i]) + 1
           S == {i \in Nat : i <= n => Reached(loop[i], bytes, content, address, i, At(i))}
<1>4. 0 \in S
  <2>1. loop[0] = [bytes |-> bytes, at |-> 1, ok |-> address < capacity]
    BY <1>1, <1>3 DEF IsLoop
  <2>2. text[0] = <<>> BY <1>1, <1>2 DEF IsText
  <2>3. Written(bytes, content, address, 0) = bytes
    <3>1. \A a \in 0..capacity - 1 : a \notin address..address + 0 - 1
      BY MemoryAssumption DEF Addresses
    <3> QED BY <3>1 DEF Written
  <2>4. address < capacity => address + 0 <= capacity
    BY MemoryAssumption DEF Addresses
  <2>5. At(0) = 1 BY <2>2
  <2> DEFINE l == loop[0]
             more == address < capacity
  <2> HIDE DEF At
  <2>6. l.bytes = bytes /\ l.at = 1 /\ (l.ok <=> more)
    <3>1. l = [bytes |-> bytes, at |-> 1, ok |-> more] BY <2>1
    <3>2. more \in BOOLEAN OBVIOUS
    <3> HIDE DEF l, more
    <3> QED BY <3>1, <3>2
  <2>7. Reached(loop[0], bytes, content, address, 0, At(0))
    BY <2>3, <2>4, <2>5, <2>6 DEF Reached
  <2> QED BY <2>7
<1>5. ASSUME NEW i \in Nat, i \in S PROVE i + 1 \in S
  <2> SUFFICES ASSUME i + 1 <= n
               PROVE  Reached(loop[i + 1], bytes, content, address, i + 1, At(i + 1))
    OBVIOUS
  <2>1. i \in 0..n - 1 /\ i \in 0..n /\ i + 1 \in 0..n BY <1>1
  <2>2. Reached(loop[i], bytes, content, address, i, At(i)) BY <1>5, <2>1
  <2>3. loop[i + 1] = writes_byte(loop[i], Sent(content), address + (i + 1) - 1)
    <3>1. i + 1 # 0 /\ (i + 1) - 1 = i OBVIOUS
    <3> QED BY <1>3, <2>1, <3>1 DEF IsLoop
  <2>4. At(i) \in Nat
    <3>1. text[i] \in Seq(Int) BY <1>2, <2>1, TextGrows
    <3> QED BY <3>1
  <2> DEFINE v == content[i + 1]
  <2>5. /\ v \in Byte
        /\ v \in Special => /\ Sent(content)[At(i)] = Escape
                            /\ Sent(content)[At(i) + 1] = flip(v)
                            /\ At(i + 1) = At(i) + 2
        /\ v \notin Special => Sent(content)[At(i)] = v /\ At(i + 1) = At(i) + 1
    BY <1>2, <2>1, TextAt
  <2> HIDE DEF At
  <2> QED BY <2>2, <2>3, <2>4, <2>5, RoundReaches
<1> HIDE DEF S
<1>6. n \in S BY <1>1, <1>4, <1>5, Induction
<1>7. Reached(loop[n], bytes, content, address, n, At(n)) BY <1>1, <1>6 DEF S
<1> QED BY <1>3, <1>7 DEF Reached

-----------------------------------------------------------------------------
(* The bytes of a value. *)

\* The powers of a byte.
LEMMA Powers ==
  /\ power[0] = 1 /\ power[1] = ByteBase
  /\ power[2] = ByteBase * ByteBase
  /\ power[3] = ByteBase * (ByteBase * ByteBase)
  /\ power[4] = ByteBase * (ByteBase * (ByteBase * ByteBase))
<1> DEFINE B == ByteBase
           p == [n \in 0..4 |-> CASE n = 0 -> 1 [] n = 1 -> B [] n = 2 -> B * B
                                  [] n = 3 -> B * (B * B) [] n = 4 -> B * (B * (B * B))]
<1>1. B \in Nat BY MemoryAssumption
<1>2. p[0] = 1 /\ p[1] = B /\ p[2] = B * B /\ p[3] = B * (B * B)
      /\ p[4] = B * (B * (B * B))
  OBVIOUS
<1>3. \A n \in 0..4 : p[n] = IF n = 0 THEN 1 ELSE B * p[n - 1]
  <2>1. \A n \in 0..4 : n = 0 \/ n = 1 \/ n = 2 \/ n = 3 \/ n = 4 OBVIOUS
  <2>2. B * 1 = B BY <1>1
  <2> HIDE DEF p
  <2> QED BY <1>2, <2>1, <2>2
<1>4. p = [n \in 0..4 |-> IF n = 0 THEN 1 ELSE B * p[n - 1]]
  <2>1. p = [n \in 0..4 |-> p[n]] OBVIOUS
  <2> HIDE DEF p
  <2> QED BY <1>3, <2>1
<1>5. \E q : q = [n \in 0..4 |-> IF n = 0 THEN 1 ELSE ByteBase * q[n - 1]]
  <2> HIDE DEF p
  <2> QED BY <1>4
<1>6. power = [n \in 0..4 |-> IF n = 0 THEN 1 ELSE ByteBase * power[n - 1]]
  BY <1>5 DEF power
<1>7. power[0] = 1 BY <1>6
<1>8. \A n \in 1..4 : power[n] = B * power[n - 1] BY <1>6
<1>9. power[1] = B /\ power[2] = B * B
  <2>1. power[1] = B * power[0] /\ power[2] = B * power[1] BY <1>8
  <2> QED BY <1>1, <1>7, <2>1
<1>10. power[3] = B * power[2] /\ power[4] = B * power[3] BY <1>8
<1> QED BY <1>7, <1>9, <1>10

\* Dropping one byte of a value and then d, or d and then one.
LEMMA DivisionInSteps ==
  ASSUME NEW x \in Nat, NEW c \in Nat \ {0}, NEW d \in Nat \ {0}
  PROVE  x \div (c * d) = (x \div c) \div d
<1> DEFINE q == x \div c
           r == x % c
           s == q \div d
           t == q % d
<1>1. q \in Nat /\ r \in 0..c - 1 /\ x = c * q + r OBVIOUS
<1>2. s \in Nat /\ t \in 0..d - 1 /\ q = d * s + t
  <2> HIDE DEF q
  <2> QED BY <1>1
<1> HIDE DEF q, r, s, t
<1>3. c * q = c * (d * s) + c * t BY <1>2
<1>4. c * (d * s) = (c * d) * s BY <1>2
<1>5. c * t <= c * (d - 1) BY <1>2
<1>6. c * (d - 1) = c * d - c OBVIOUS
<1>7. c * d \in Nat \ {0} /\ c * t \in Nat BY <1>2
<1>8. c * t + r \in 0..(c * d) - 1 BY <1>1, <1>5, <1>6, <1>7
<1>9. x = (c * d) * s + (c * t + r)
  <2> DEFINE e == (c * d) * s
             f == c * t
  <2>1. e \in Nat /\ f \in Nat /\ r \in Nat BY <1>1, <1>2, <1>7
  <2>2. x = (e + f) + r BY <1>1, <1>3, <1>4
  <2> HIDE DEF e, f
  <2>3. x = e + (f + r) BY <2>1, <2>2
  <2> QED BY <2>3 DEF e, f
<1> DEFINE m == c * d
           u == c * t + r
<1>10. m \in Nat \ {0} /\ u \in 0..m - 1 /\ x = m * s + u BY <1>7, <1>8, <1>9
<1> HIDE DEF m, u
<1>11. x \div m = s BY <1>2, <1>10
<1> QED BY <1>11 DEF m, s, q

\* The low bytes of a value are its lowest byte and those of the rest.
LEMMA RemainderInSteps ==
  ASSUME NEW x \in Nat, NEW c \in Nat \ {0}, NEW d \in Nat \ {0}
  PROVE  x % (c * d) = c * ((x \div c) % d) + (x % c)
<1> DEFINE q == x \div c
           r == x % c
           s == q \div d
           t == q % d
<1>1. q \in Nat /\ r \in 0..c - 1 /\ x = c * q + r OBVIOUS
<1>2. s \in Nat /\ t \in 0..d - 1 /\ q = d * s + t
  <2> HIDE DEF q
  <2> QED BY <1>1
<1> HIDE DEF q, r, s, t
<1>3. c * q = c * (d * s) + c * t BY <1>2
<1>4. c * (d * s) = (c * d) * s BY <1>2
<1>5. c * t <= c * (d - 1) BY <1>2
<1>6. c * (d - 1) = c * d - c OBVIOUS
<1>7. c * d \in Nat \ {0} /\ c * t \in Nat BY <1>2
<1>8. c * t + r \in 0..(c * d) - 1 BY <1>1, <1>5, <1>6, <1>7
<1>9. x = (c * d) * s + (c * t + r)
  <2> DEFINE e == (c * d) * s
             f == c * t
  <2>1. e \in Nat /\ f \in Nat /\ r \in Nat BY <1>1, <1>2, <1>7
  <2>2. x = (e + f) + r BY <1>1, <1>3, <1>4
  <2> HIDE DEF e, f
  <2>3. x = e + (f + r) BY <2>1, <2>2
  <2> QED BY <2>3 DEF e, f
<1> DEFINE m == c * d
           u == c * t + r
<1>10. m \in Nat \ {0} /\ u \in 0..m - 1 /\ x = m * s + u BY <1>7, <1>8, <1>9
<1> HIDE DEF m, u
<1>11. x % m = u BY <1>2, <1>10
<1>12. x % (c * d) = c * t + r BY <1>11 DEF m, u
<1>13. t = (x \div c) % d /\ r = x % c BY DEF t, q, r
<1> QED BY <1>12, <1>13

\* The parts of a value of one, two and four bytes.
LEMMA Digits ==
  ASSUME NEW x \in Nat
  PROVE  /\ x % power[1] = (x % ByteBase) * power[0]
         /\ x % power[2] = (x % ByteBase) * power[0]
                             + ((x \div power[1]) % ByteBase) * power[1]
         /\ x % power[4] = (x % ByteBase) * power[0]
                             + ((x \div power[1]) % ByteBase) * power[1]
                             + ((x \div power[2]) % ByteBase) * power[2]
                             + ((x \div power[3]) % ByteBase) * power[3]
<1> DEFINE B == ByteBase
           x1 == x \div B
           x2 == x1 \div B
           x3 == x2 \div B
           d0 == x % B
           d1 == x1 % B
           d2 == x2 % B
           d3 == x3 % B
<1>1. B \in Nat \ {0} /\ B * B \in Nat \ {0} /\ B * (B * B) \in Nat \ {0}
  BY MemoryAssumption
<1> HIDE DEF B
<1>2. x1 \in Nat /\ d0 \in Nat BY <1>1
<1> HIDE DEF x1, d0
<1>3. x2 \in Nat /\ d1 \in Nat BY <1>1, <1>2
<1> HIDE DEF x2, d1
<1>4. x3 \in Nat /\ d2 \in Nat BY <1>1, <1>3
<1> HIDE DEF x3, d2
<1>5. d3 \in Nat BY <1>1, <1>4
<1> HIDE DEF d3
<1>6. x \div (B * B) = x2 BY <1>1, DivisionInSteps DEF x2, x1
<1>7. x \div (B * (B * B)) = x3
  <2>1. x \div (B * (B * B)) = x1 \div (B * B) BY <1>1, DivisionInSteps DEF x1
  <2>2. x1 \div (B * B) = x3 BY <1>1, <1>2, DivisionInSteps DEF x3, x2
  <2> QED BY <2>1, <2>2
<1>8. x % (B * B) = B * d1 + d0 BY <1>1, RemainderInSteps DEF d1, d0, x1
<1>9. x2 % (B * B) = B * d3 + d2 BY <1>1, <1>3, RemainderInSteps DEF d3, d2, x3
<1>10. x1 % (B * (B * B)) = B * (B * d3 + d2) + d1
  <2>1. x1 % (B * (B * B)) = B * ((x1 \div B) % (B * B)) + (x1 % B)
    BY <1>1, <1>2, RemainderInSteps
  <2>2. (x1 \div B) % (B * B) = B * d3 + d2 BY <1>9 DEF x2
  <2> QED BY <2>1, <2>2 DEF d1
<1>11. x % (B * (B * (B * B))) = B * (B * (B * d3 + d2) + d1) + d0
  BY <1>1, <1>10, RemainderInSteps DEF d0, x1
<1>12. B * (B * (B * d3 + d2) + d1) + d0
         = d0 * 1 + d1 * B + d2 * (B * B) + d3 * (B * (B * B))
  <2>1. B * (B * d3 + d2) = B * (B * d3) + B * d2 BY <1>1, <1>4, <1>5
  <2>2. B * (B * (B * d3) + B * d2 + d1) = B * (B * (B * d3)) + B * (B * d2) + B * d1
    BY <1>1, <1>3, <1>4, <1>5
  <2>3. /\ B * (B * (B * d3)) = d3 * (B * (B * B)) /\ B * (B * d2) = d2 * (B * B)
        /\ B * d1 = d1 * B /\ d0 * 1 = d0
    BY <1>1, <1>2, <1>3, <1>4, <1>5
  <2> DEFINE e1 == d1 * B
             e2 == d2 * (B * B)
             e3 == d3 * (B * (B * B))
  <2>4. e1 \in Nat /\ e2 \in Nat /\ e3 \in Nat BY <1>1, <1>3, <1>4, <1>5
  <2>5. B * (B * (B * d3 + d2) + d1) + d0 = e3 + e2 + e1 + d0 BY <2>1, <2>2, <2>3
  <2> HIDE DEF e1, e2, e3
  <2>6. e3 + e2 + e1 + d0 = d0 + e1 + e2 + e3 BY <1>2, <2>4
  <2> QED BY <2>3, <2>5, <2>6 DEF e1, e2, e3
<1>13. B * d1 + d0 = d0 * 1 + d1 * B BY <1>1, <1>2, <1>3
<1>14. x % B = d0 * 1 BY <1>2 DEF d0
<1>15. /\ power[0] = 1 /\ power[1] = B /\ power[2] = B * B
       /\ power[3] = B * (B * B) /\ power[4] = B * (B * (B * B))
  BY Powers DEF B
<1>16. x % B = d0 /\ x1 % B = d1 /\ x2 % B = d2 /\ x3 % B = d3 /\ x \div B = x1
  BY DEF d0, d1, d2, d3, x1
<1>17. x % power[1] = d0 * power[0] BY <1>14, <1>15
<1>18. x % power[2] = d0 * power[0] + d1 * power[1] BY <1>8, <1>13, <1>15
<1>19. x % power[4] = d0 * power[0] + d1 * power[1] + d2 * power[2] + d3 * power[3]
  BY <1>11, <1>12, <1>15
<1> QED BY <1>6, <1>7, <1>15, <1>16, <1>17, <1>18, <1>19 DEF B

\* Two shifts by bytes are one.
LEMMA Shifts ==
  ASSUME NEW v \in Nat, NEW e \in 0..3, NEW m \in 0..3, e + m <= 3,
         m = 0 \/ m = 1 \/ e = 0
  PROVE  v \div power[e + m] = (v \div power[e]) \div power[m]
<1> DEFINE B == ByteBase
<1>1. /\ B \in Nat \ {0} /\ B * B \in Nat \ {0}
      /\ power[0] = 1 /\ power[1] = B /\ power[2] = B * B /\ power[3] = B * (B * B)
  BY Powers, MemoryAssumption
<1> HIDE DEF B
<1>2. \A x \in Nat : x \div 1 = x OBVIOUS
<1>3. CASE m = 0
  <2>1. e = 0 \/ e = 1 \/ e = 2 \/ e = 3 OBVIOUS
  <2>2. power[e] \in Nat \ {0} BY <1>1, <2>1
  <2>3. v \div power[e] \in Nat BY <2>2
  <2>4. e + m = e /\ power[m] = 1 BY <1>1, <1>3
  <2> QED BY <1>2, <2>3, <2>4
<1>4. CASE e = 0
  <2>1. e + m = m /\ power[e] = 1 BY <1>1, <1>4
  <2> QED BY <1>2, <2>1
<1>5. CASE m = 1 /\ e # 0
  <2>1. e = 1 \/ e = 2 BY <1>5
  <2>2. CASE e = 1
    <3>1. power[e + m] = B * B /\ power[e] = B /\ power[m] = B BY <1>1, <1>5, <2>2
    <3>2. v \div (B * B) = (v \div B) \div B BY <1>1, DivisionInSteps
    <3> QED BY <3>1, <3>2
  <2>3. CASE e = 2
    <3>1. power[e + m] = B * (B * B) /\ power[e] = B * B /\ power[m] = B
      BY <1>1, <1>5, <2>3
    <3>2. B * (B * B) = (B * B) * B BY <1>1
    <3>3. v \div ((B * B) * B) = (v \div (B * B)) \div B BY <1>1, DivisionInSteps
    <3> QED BY <3>1, <3>2, <3>3
  <2> QED BY <2>1, <2>2, <2>3
<1> QED BY <1>3, <1>4, <1>5

\* A read within the bytes a write has stored (memory.c:57 to 160).
LEMMA PartRead ==
  ASSUME NEW bytes \in [0..capacity - 1 -> Byte], NEW width \in Sizes,
         NEW a \in Addresses, NEW v \in Nat, NEW be \in BOOLEAN,
         in_array(width, a), NEW size \in Sizes, NEW i \in 0..width - size
  PROVE  value_of(stored(bytes, width, a, v, be), size, a + i, be)
           = part(v, width, i, size, be)
<1> DEFINE u == stored(bytes, width, a, v, be)
           e == IF be THEN width - size - i ELSE i
           x == v \div power[e]
           place(k) == IF be THEN size - 1 - k ELSE k
           digit(m) == ((v \div power[e + m]) % ByteBase) * power[m]
<1>1. /\ a \in Nat /\ capacity \in Nat /\ width \in {1, 2, 4} /\ size \in {1, 2, 4}
      /\ i \in Nat /\ i + size <= width /\ a + width <= capacity
  BY MemoryAssumption DEF Addresses, Sizes, in_array
<1>2. e \in 0..3 /\ e + size <= 4 /\ (size = 4 => e = 0) BY <1>1
<1>3. ASSUME NEW k \in 0..size - 1
      PROVE  u[a + i + k] * weight(size, k, be) = digit(place(k))
  <2>1. a + i + k \in 0..capacity - 1 /\ a + i + k \in a..a + width - 1
        /\ (a + i + k) - a = i + k
    BY <1>1
  <2>2. DOMAIN bytes = 0..capacity - 1 OBVIOUS
  <2>3. u[a + i + k] = byte_of(v, width, i + k, be) BY <2>1, <2>2 DEF stored
  <2>4. (IF be THEN width - 1 - (i + k) ELSE i + k) = e + place(k) BY <1>1
  <2>5. byte_of(v, width, i + k, be) = (v \div power[e + place(k)]) % ByteBase
    BY <2>4 DEF byte_of, weight
  <2>6. weight(size, k, be) = power[place(k)] BY DEF weight
  <2> QED BY <2>3, <2>5, <2>6
<1>4. ASSUME NEW m \in 0..size - 1
      PROVE  digit(m) = ((x \div power[m]) % ByteBase) * power[m]
  <2>1. m \in 0..3 /\ e + m <= 3 /\ (m = 0 \/ m = 1 \/ e = 0) BY <1>1, <1>2
  <2> QED BY <1>2, <2>1, Shifts
<1>5. x \in Nat /\ x \div power[0] = x
  <2>1. power[e] \in Nat \ {0}
    <3>1. e = 0 \/ e = 1 \/ e = 2 \/ e = 3 BY <1>2
    <3>2. /\ ByteBase \in Nat \ {0} /\ ByteBase * ByteBase \in Nat \ {0}
          /\ ByteBase * (ByteBase * ByteBase) \in Nat \ {0}
      BY MemoryAssumption
    <3> QED BY <3>1, <3>2, Powers
  <2> HIDE DEF e
  <2>2. x \in Nat BY <2>1
  <2> HIDE DEF x
  <2> QED BY <2>2, Powers
<1>6. \A m \in {0, 1, 2, 3} : ((x \div power[m]) % ByteBase) * power[m] \in Nat
  <2> HIDE DEF x
  <2>1. /\ ByteBase \in Nat \ {0} /\ ByteBase * ByteBase \in Nat \ {0}
        /\ ByteBase * (ByteBase * ByteBase) \in Nat \ {0}
    BY MemoryAssumption
  <2>2. ASSUME NEW c \in Nat \ {0} PROVE ((x \div c) % ByteBase) * c \in Nat
    BY <1>5, <2>1
  <2> QED BY <2>1, <2>2, Powers
<1>7. part(v, width, i, size, be) = x % power[size] BY DEF part
<1> HIDE DEF u, e, x, digit
<1>8. CASE size = 1
  <2>1. value_of(u, size, a + i, be) = u[a + i + 0] * weight(size, 0, be)
    BY <1>8 DEF value_of
  <2>2. place(0) = 0 /\ 0 \in 0..size - 1 BY <1>8
  <2>3. value_of(u, size, a + i, be) = digit(0) BY <1>3, <2>1, <2>2
  <2>4. digit(0) = (x % ByteBase) * power[0] BY <1>4, <1>5, <2>2
  <2> QED BY <1>5, <1>7, <1>8, <2>3, <2>4, Digits DEF u
<1>9. CASE size = 2
  <2>1. value_of(u, size, a + i, be)
          = u[a + i + 0] * weight(size, 0, be) + u[a + i + 1] * weight(size, 1, be)
    BY <1>9 DEF value_of
  <2>2. 0 \in 0..size - 1 /\ 1 \in 0..size - 1 BY <1>9
  <2>3. value_of(u, size, a + i, be) = digit(place(0)) + digit(place(1))
    BY <1>3, <2>1, <2>2
  <2>4. /\ digit(0) = (x % ByteBase) * power[0]
        /\ digit(1) = ((x \div power[1]) % ByteBase) * power[1]
        /\ digit(0) \in Nat /\ digit(1) \in Nat
    BY <1>4, <1>5, <1>6, <2>2
  <2>5. \/ place(0) = 0 /\ place(1) = 1
        \/ place(0) = 1 /\ place(1) = 0
    BY <1>9
  <2>6. value_of(u, size, a + i, be) = digit(0) + digit(1)
    <3> HIDE DEF place
    <3> QED BY <2>3, <2>4, <2>5
  <2> QED BY <1>5, <1>7, <1>9, <2>4, <2>6, Digits DEF u
<1>10. CASE size = 4
  <2>1. value_of(u, size, a + i, be)
          = u[a + i + 0] * weight(size, 0, be) + u[a + i + 1] * weight(size, 1, be)
              + u[a + i + 2] * weight(size, 2, be) + u[a + i + 3] * weight(size, 3, be)
    BY <1>10 DEF value_of
  <2>2. /\ 0 \in 0..size - 1 /\ 1 \in 0..size - 1
        /\ 2 \in 0..size - 1 /\ 3 \in 0..size - 1
    BY <1>10
  <2>3. value_of(u, size, a + i, be)
          = digit(place(0)) + digit(place(1)) + digit(place(2)) + digit(place(3))
    BY <1>3, <2>1, <2>2
  <2>4. /\ digit(0) = (x % ByteBase) * power[0]
        /\ digit(1) = ((x \div power[1]) % ByteBase) * power[1]
        /\ digit(2) = ((x \div power[2]) % ByteBase) * power[2]
        /\ digit(3) = ((x \div power[3]) % ByteBase) * power[3]
        /\ digit(0) \in Nat /\ digit(1) \in Nat /\ digit(2) \in Nat /\ digit(3) \in Nat
    BY <1>4, <1>5, <1>6, <2>2
  <2>5. \/ place(0) = 0 /\ place(1) = 1 /\ place(2) = 2 /\ place(3) = 3
        \/ place(0) = 3 /\ place(1) = 2 /\ place(2) = 1 /\ place(3) = 0
    BY <1>10
  <2>6. value_of(u, size, a + i, be) = digit(0) + digit(1) + digit(2) + digit(3)
    <3> HIDE DEF place
    <3> QED BY <2>3, <2>4, <2>5
  <2> QED BY <1>5, <1>7, <1>10, <2>4, <2>6, Digits DEF u
<1> QED BY <1>1, <1>8, <1>9, <1>10

-----------------------------------------------------------------------------
(* The debugger and the core. *)

\* What m answers is what a load finds there, for any bytes.
LEMMA SeenWords ==
  ASSUME NEW bytes, NEW address \in Addresses, NEW length \in Nat
  PROVE  LET seen == read_memory(bytes, address, length)
             most == IF address < capacity THEN capacity - address ELSE 0
         IN  /\ Len(seen) = IF length <= most THEN length ELSE most
             /\ \A size \in Sizes, be \in Orders :
                  size <= Len(seen) =>
                    /\ read_fits(size, address)
                    /\ value_of(bytes, size, address, be) =
                         value_of([i \in 0..Len(seen) - 1 |-> seen[i + 1]], size, 0, be)
<1> DEFINE seen == read_memory(bytes, address, length)
           most == IF address < capacity THEN capacity - address ELSE 0
           n == IF length <= most THEN length ELSE most
           copy == [i \in 0..Len(seen) - 1 |-> seen[i + 1]]
<1>1. address \in Nat /\ capacity \in Nat /\ n \in Nat
  BY MemoryAssumption DEF Addresses
<1>2. seen = [i \in 1..n |-> bytes[address + i - 1]]
  <2>1. CASE address < capacity
    <3>1. n = IF address + length < capacity THEN length ELSE capacity - address
      BY <1>1, <2>1
    <3> QED BY <2>1, <3>1 DEF read_memory
  <2>2. CASE ~(address < capacity)
    <3>1. n = 0 BY <1>1, <2>2
    <3> QED BY <2>2, <3>1 DEF read_memory, NoBytes
  <2> QED BY <2>1, <2>2
<1>3. Len(seen) = n BY <1>1, <1>2
<1>4. ASSUME NEW size \in Sizes, NEW be \in Orders, size <= n
      PROVE  /\ read_fits(size, address)
             /\ value_of(bytes, size, address, be) = value_of(copy, size, 0, be)
  <2>1. size \in {1, 2, 4} BY DEF Sizes
  <2>2. read_fits(size, address) BY <1>1, <1>4, <2>1 DEF read_fits
  <2>3. ASSUME NEW k \in 0..size - 1 PROVE copy[0 + k] = bytes[address + k]
    <3>1. 0 + k = k /\ k \in 0..n - 1 /\ k + 1 \in 1..n /\ address + (k + 1) - 1 = address + k
      BY <1>1, <1>4, <2>1
    <3>2. copy[k] = seen[k + 1] BY <1>3, <3>1
    <3>3. seen[k + 1] = bytes[address + (k + 1) - 1]
      <4> HIDE DEF seen, n
      <4> QED BY <1>2, <3>1
    <3> QED BY <3>1, <3>2, <3>3
  <2> HIDE DEF copy
  <2> DEFINE found(k) == bytes[address + k] * weight(size, k, be)
             answered(k) == copy[0 + k] * weight(size, k, be)
  <2>4. ASSUME NEW k \in 0..size - 1 PROVE answered(k) = found(k) BY <2>3
  <2>5. /\ size = 1 => /\ value_of(bytes, size, address, be) = found(0)
                       /\ value_of(copy, size, 0, be) = answered(0)
        /\ size = 2 => /\ value_of(bytes, size, address, be) = found(0) + found(1)
                       /\ value_of(copy, size, 0, be) = answered(0) + answered(1)
        /\ size = 4 =>
             /\ value_of(bytes, size, address, be)
                  = found(0) + found(1) + found(2) + found(3)
             /\ value_of(copy, size, 0, be)
                  = answered(0) + answered(1) + answered(2) + answered(3)
    BY DEF value_of
  <2> HIDE DEF found, answered
  <2>6. /\ size = 1 => 0 \in 0..size - 1
        /\ size = 2 => 0 \in 0..size - 1 /\ 1 \in 0..size - 1
        /\ size = 4 => /\ 0 \in 0..size - 1 /\ 1 \in 0..size - 1
                       /\ 2 \in 0..size - 1 /\ 3 \in 0..size - 1
    OBVIOUS
  <2>7. value_of(bytes, size, address, be) = value_of(copy, size, 0, be)
    <3>1. CASE size = 1 BY <2>4, <2>5, <2>6, <3>1
    <3>2. CASE size = 2 BY <2>4, <2>5, <2>6, <3>2
    <3>3. CASE size = 4 BY <2>4, <2>5, <2>6, <3>3
    <3> QED BY <2>1, <3>1, <3>2, <3>3
  <2> QED BY <2>2, <2>7
<1> QED BY <1>3, <1>4

\* Every access leaves bytes in the memory.
LEMMA StoredTyped ==
  ASSUME NEW bytes \in [0..capacity - 1 -> Byte], NEW width \in Sizes,
         NEW a \in Addresses, NEW v \in Nat, NEW be \in BOOLEAN
  PROVE  stored(bytes, width, a, v, be) \in [0..capacity - 1 -> Byte]
<1>1. ASSUME NEW i \in 0..width - 1 PROVE byte_of(v, width, i, be) \in Byte
  <2> DEFINE e == IF be THEN width - 1 - i ELSE i
  <2>1. e \in {0, 1, 2, 3} BY DEF Sizes
  <2>2. power[e] \in Nat \ {0}
    <3>1. /\ ByteBase \in Nat \ {0} /\ ByteBase * ByteBase \in Nat \ {0}
          /\ ByteBase * (ByteBase * ByteBase) \in Nat \ {0}
      BY MemoryAssumption
    <3> QED BY <2>1, <3>1, Powers
  <2>3. byte_of(v, width, i, be) = (v \div power[e]) % ByteBase
    BY DEF byte_of, weight
  <2>4. ASSUME NEW c \in Nat \ {0} PROVE (v \div c) % ByteBase \in Byte
    BY MemoryAssumption DEF Byte
  <2> HIDE DEF e
  <2> QED BY <2>2, <2>3, <2>4
<1>2. ASSUME NEW b \in 0..capacity - 1
      PROVE  (IF b \in a..a + width - 1 THEN byte_of(v, width, b - a, be) ELSE bytes[b]) \in Byte
  <2>1. CASE b \in a..a + width - 1
    <3>1. b - a \in 0..width - 1 BY <2>1 DEF Addresses, Sizes
    <3> QED BY <1>1, <2>1, <3>1
  <2>2. CASE b \notin a..a + width - 1 BY <2>2
  <2> QED BY <2>1, <2>2
<1>3. DOMAIN bytes = 0..capacity - 1 OBVIOUS
<1> QED BY <1>2, <1>3 DEF stored

\* Every command and every access keeps the types.
LEMMA DebuggerStep ==
  ASSUME DebuggerTypeOK, [DebuggerNext]_debugger_vars
  PROVE  DebuggerTypeOK'
<1>1. data \in [0..capacity - 1 -> Byte] /\ result \in {0, -1, Crashed}
  BY DEF DebuggerTypeOK, TypeOK
<1>2. CASE Program
  <2>1. PICK size \in Sizes, a \in Addresses :
          \/ Read(size, a)
          \/ \E v \in WrittenWords, be \in Orders : Write(size, a, v, be)
    BY <1>2 DEF Program, Next
  <2>2. UNCHANGED <<registers, answer>> BY <1>2 DEF Program
  <2>3. CASE Read(size, a) BY <1>1, <2>2, <2>3 DEF Read, DebuggerTypeOK, TypeOK
  <2>4. ASSUME NEW v \in WrittenWords, NEW be \in Orders, Write(size, a, v, be)
        PROVE  DebuggerTypeOK'
    <3>1. v \in Nat /\ be \in BOOLEAN BY WrittenAssumption DEF Orders
    <3>2. data' \in [0..capacity - 1 -> Byte]
      BY <1>1, <2>4, <3>1, StoredTyped DEF Write
    <3>3. result' \in {0, -1, Crashed} BY <2>4 DEF Write
    <3> QED BY <2>2, <3>2, <3>3 DEF DebuggerTypeOK, TypeOK
  <2> QED BY <2>1, <2>3, <2>4
<1>3. ASSUME NEW address \in Addresses, NEW content \in Contents,
             WriteMemoryBinary(address, content)
      PROVE  DebuggerTypeOK'
  <2>1. content \in Seq(Byte) BY DebuggerAssumption
  <2>2. data' = Written(data, content, address, Len(content))
    BY <1>1, <1>3, <2>1, WritesReaches DEF WriteMemoryBinary
  <2>3. ASSUME NEW a \in 0..capacity - 1
        PROVE  (IF a \in address..address + Len(content) - 1
                THEN content[a - address + 1] ELSE data[a]) \in Byte
    <3>1. CASE a \in address..address + Len(content) - 1
      <4>1. a - address + 1 \in 1..Len(content) BY <2>1, <3>1 DEF Addresses
      <4>2. content[a - address + 1] \in Byte BY <2>1, <4>1, ElementOfSeq
      <4> QED BY <3>1, <4>2
    <3>2. CASE a \notin address..address + Len(content) - 1 BY <1>1, <3>2
    <3> QED BY <3>1, <3>2
  <2>4. data' \in [0..capacity - 1 -> Byte] BY <2>2, <2>3 DEF Written
  <2>5. answer' \in {"OK", "E02"} /\ UNCHANGED <<result, registers>>
    BY <1>3 DEF WriteMemoryBinary
  <2> QED BY <2>4, <2>5 DEF DebuggerTypeOK, TypeOK
<1>4. ASSUME NEW n \in Numbers, NEW v \in RegValues, WriteSingleRegister(n, v)
      PROVE  DebuggerTypeOK'
  BY <1>4 DEF WriteSingleRegister, DebuggerTypeOK, TypeOK
<1>5. ASSUME NEW n \in Numbers, AssertionFails(n) PROVE DebuggerTypeOK'
  BY <1>5 DEF AssertionFails, DebuggerTypeOK, TypeOK
<1>6. CASE UNCHANGED debugger_vars
  BY <1>6 DEF debugger_vars, DebuggerTypeOK, TypeOK
<1> QED BY <1>2, <1>3, <1>4, <1>5, <1>6 DEF DebuggerNext

\* Whatever the core and the debugger store, at the end of the memory and beyond
\* it, the memory holds bytes in its bounds and nothing else.
THEOREM AccessTypeCorrect == DebuggerSpec => []DebuggerTypeOK
<1>1. DebuggerInit => DebuggerTypeOK
  BY MemoryAssumption DEF DebuggerInit, Init, DebuggerTypeOK, TypeOK, Byte
<1> QED BY <1>1, DebuggerStep, PTL DEF DebuggerSpec

\* A value written in any size is read back part by part, in the order of the
\* bytes the access was made in, by every narrower access.
THEOREM WritesReadByParts == DebuggerSpec => PartsOfAWrite
<1>1. DebuggerTypeOK /\ [DebuggerNext]_debugger_vars =>
        [\A width \in Sizes, a \in Addresses, value \in WrittenWords, be \in Orders :
           result' = 0 /\ Write(width, a, value, be) =>
             \A size \in Sizes : \A i \in 0..width - size :
               value_of(data', size, a + i, be) = part(value, width, i, size, be)]_vars
  <2> SUFFICES ASSUME DebuggerTypeOK, NEW width \in Sizes, NEW a \in Addresses,
                      NEW value \in WrittenWords, NEW be \in Orders,
                      result' = 0, Write(width, a, value, be),
                      NEW size \in Sizes, NEW i \in 0..width - size
               PROVE  value_of(data', size, a + i, be) = part(value, width, i, size, be)
    OBVIOUS
  <2>1. data \in [0..capacity - 1 -> Byte] /\ value \in Nat /\ be \in BOOLEAN
    BY WrittenAssumption DEF DebuggerTypeOK, TypeOK, Orders
  <2>2. in_array(width, a) /\ data' = stored(data, width, a, value, be)
    BY DEF Write, Crashed
  <2> QED BY <2>1, <2>2, PartRead
<1> QED BY <1>1, AccessTypeCorrect, PTL DEF DebuggerSpec, PartsOfAWrite

\* X stores what gdb meant and says whether all of it fits, for every content:
\* the places in its text and in the memory do not drift apart.
THEOREM BinaryWrittenAsSent == DebuggerSpec => WrittenAsSent
<1>1. DebuggerTypeOK /\ [DebuggerNext]_debugger_vars =>
        [\A address \in Addresses, content \in Contents :
           WriteMemoryBinary(address, content) =>
             /\ \A a \in DOMAIN data :
                  data'[a] = IF a \in address..address + Len(content) - 1
                             THEN content[a - address + 1]
                             ELSE data[a]
             /\ (answer' = "OK") <=>
                  address < capacity /\ address + Len(content) <= capacity]_debugger_vars
  <2> SUFFICES ASSUME DebuggerTypeOK, NEW address \in Addresses, NEW content \in Contents,
                      WriteMemoryBinary(address, content)
               PROVE  /\ \A a \in DOMAIN data :
                           data'[a] = IF a \in address..address + Len(content) - 1
                                      THEN content[a - address + 1]
                                      ELSE data[a]
                      /\ (answer' = "OK") <=>
                           address < capacity /\ address + Len(content) <= capacity
    OBVIOUS
  <2>1. data \in [0..capacity - 1 -> Byte] BY DEF DebuggerTypeOK, TypeOK
  <2> DEFINE w == writes(data, Sent(content), address, Len(content))
  <2>2. /\ w.bytes = Written(data, content, address, Len(content))
        /\ w.ok <=> address < capacity /\ address + Len(content) <= capacity
    BY <2>1, WritesReaches, DebuggerAssumption
  <2>3. data' = w.bytes /\ answer' = IF w.ok THEN "OK" ELSE "E02"
    BY DEF WriteMemoryBinary
  <2> HIDE DEF w
  <2>4. (answer' = "OK") <=> w.ok BY <2>3
  <2>5. DOMAIN data = 0..capacity - 1 BY <2>1
  <2> QED BY <2>2, <2>3, <2>4, <2>5 DEF Written
<1> QED BY <1>1, AccessTypeCorrect, PTL DEF DebuggerSpec, WrittenAsSent

\* After any access the debugger's m sees the bytes of every value where a load of
\* the core finds them, up to the end of the memory.
THEOREM DebuggerReadsAsCore == DebuggerSpec => []DebuggerSeesWords
<1>1. DebuggerTypeOK => DebuggerSeesWords
  BY SeenWords, DebuggerAssumption DEF DebuggerSeesWords
<1> QED BY <1>1, AccessTypeCorrect, PTL
=============================================================================
