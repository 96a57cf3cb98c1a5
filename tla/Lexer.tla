------------------------------- MODULE Lexer -------------------------------
(***************************************************************************)
(* What the rules of scanner.l promise, without a buffer: the input is cut *)
(* into tokens from its beginning, the longest match first, whatever the   *)
(* pieces it arrives in.  A byte is represented by its class.              *)
(***************************************************************************)
EXTENDS Naturals, Sequences

CONSTANT Streams  \* the inputs, as sequences of bytes

VARIABLES
  input,   \* the bytes not yet in a token
  tokens,  \* the tokens recognised, in order
  phase    \* "scanning", "ended", or "dead" by a failed read or write

Nul == 0
Other == 1
Newline == 2
Hash == 3
Dollar == 4
Plus == 5
Minus == 6
Hex == 7
Bytes == 0..7

\* The length of the packet s begins with, if any: '$', then neither '$' nor '#',
\* then '#' and two hexadecimal digits.
packets(s) ==
  {n \in 4..Len(s) : /\ s[1] = Dollar
                     /\ s[n - 2] = Hash /\ s[n - 1] = Hex /\ s[n] = Hex
                     /\ \A i \in 2..n - 3 : s[i] \notin {Dollar, Hash}}

length(s) == IF packets(s) = {} THEN 1 ELSE CHOOSE n \in packets(s) : TRUE

rule(s) ==
  CASE packets(s) # {} -> 3
    [] s[1] = Plus -> 1
    [] s[1] = Minus -> 2
    [] s[1] = Newline -> 5  \* no rule: echoed
    [] OTHER -> 4

Init ==
  /\ input \in Streams
  /\ tokens = <<>>
  /\ phase = "scanning"

Match ==
  /\ phase = "scanning" /\ input # <<>>
  /\ tokens' = Append(tokens, [rule |-> rule(input),
                               text |-> SubSeq(input, 1, length(input))])
  /\ input' = SubSeq(input, length(input) + 1, Len(input))
  /\ UNCHANGED phase

EndOfFile ==
  /\ phase = "scanning" /\ input = <<>>
  /\ phase' = "ended"
  /\ UNCHANGED <<input, tokens>>

Dies ==
  /\ phase' = "dead"
  /\ UNCHANGED <<input, tokens>>

Next == Match \/ EndOfFile \/ Dies

Spec == Init /\ [][Next]_<<input, tokens, phase>>
=============================================================================
