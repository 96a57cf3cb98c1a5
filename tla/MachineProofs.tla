---------------------------- MODULE MachineProofs ----------------------------
(***************************************************************************)
(* For every width of word, program, register file and memory: what the    *)
(* instructions compute are words, what they transfer are bytes, and each  *)
(* of them ends in an outcome that ArmInstruction allows its class.        *)
(***************************************************************************)
EXTENDS Machine, ArmStepProofs, FunctionTheorems

-----------------------------------------------------------------------------
(* Powers of two. *)

\* A set that holds 0 and the successor of what it holds has every natural
\* number.  If n were missing, i |-> i - 1 would map the missing numbers up to n
\* one to one to those below n, which are fewer.
LEMMA Induction ==
  ASSUME NEW S, 0 \in S, \A i \in Nat : i \in S => i + 1 \in S, NEW n \in Nat
  PROVE  n \in S
<1> SUFFICES ASSUME n \notin S PROVE FALSE OBVIOUS
<1> DEFINE T == {i \in 0..n : i \notin S}
           f == [i \in T |-> i - 1]
<1>1. n \in T OBVIOUS
<1>2. IsFiniteSet(T)
  <2>1. IsFiniteSet(0..n) BY FS_Interval
  <2>2. T \in SUBSET (0..n) OBVIOUS
  <2> QED BY <2>1, <2>2, FS_Subset
<1>3. IsFiniteSet(T \ {n}) /\ Cardinality(T \ {n}) = Cardinality(T) - 1
  BY <1>1, <1>2, FS_RemoveElement
<1>4. ASSUME NEW i \in T PROVE i - 1 \in T \ {n}
  <2>1. i \in 0..n /\ i \notin S OBVIOUS
  <2>2. i # 0 BY <2>1
  <2>3. i - 1 \in Nat /\ (i - 1) + 1 = i BY <2>1, <2>2
  <2>4. i - 1 \notin S BY <2>1, <2>3
  <2>5. i - 1 \in 0..n /\ i - 1 # n BY <2>1, <2>3
  <2> QED BY <2>4, <2>5
<1>5. f \in [T -> T \ {n}] BY <1>4
<1>6. \A i, j \in T : f[i] = f[j] => i = j OBVIOUS
<1>7. f \in Injection(T, T \ {n})
  <2> HIDE DEF T, f
  <2> QED BY <1>5, <1>6, Fun_IsInj
<1>8. Cardinality(T) <= Cardinality(T \ {n})
  <2> HIDE DEF T, f
  <2> QED BY <1>3, <1>7, FS_Injection
<1>9. Cardinality(T) \in Nat BY <1>2, FS_CardinalityType
<1> HIDE DEF T
<1> QED BY <1>3, <1>8, <1>9

\* The powers of two up to n, as exp2 computes them.
IsExp2(f, n) == f = [i \in 0..n |-> IF i = 0 THEN 1 ELSE 2 * f[i - 1]]

\* There are powers of two up to any n: those up to n - 1 and twice the last.
LEMMA Exp2Exists ==
  ASSUME NEW n \in Nat
  PROVE  \E f : IsExp2(f, n)
<1> DEFINE S == {i \in Nat : \E f : IsExp2(f, i)}
<1>1. 0 \in S
  <2> DEFINE f == [i \in 0..0 |-> 1]
  <2>1. IsExp2(f, 0) BY DEF IsExp2
  <2> QED BY <2>1
<1>2. ASSUME NEW i \in Nat, i \in S PROVE i + 1 \in S
  <2>1. PICK f : IsExp2(f, i) BY <1>2
  <2> DEFINE longer == [k \in 0..i + 1 |-> IF k = i + 1 THEN 2 * f[i] ELSE f[k]]
  <2>2. ASSUME NEW k \in 0..i + 1
        PROVE  longer[k] = IF k = 0 THEN 1 ELSE 2 * longer[k - 1]
    <3>1. CASE k = i + 1
      <4>1. longer[k] = 2 * f[i] BY <3>1
      <4>2. k # 0 /\ k - 1 = i /\ longer[i] = f[i] BY <3>1
      <4> HIDE DEF longer
      <4> QED BY <4>1, <4>2
    <3>2. CASE k # i + 1
      <4>1. k \in 0..i BY <3>2
      <4>2. f[k] = IF k = 0 THEN 1 ELSE 2 * f[k - 1] BY <2>1, <4>1 DEF IsExp2
      <4>3. longer[k] = f[k] BY <3>2
      <4>4. k # 0 => longer[k - 1] = f[k - 1] BY <4>1
      <4> QED BY <4>2, <4>3, <4>4
    <3> QED BY <3>1, <3>2
  <2>3. longer = [k \in 0..i + 1 |-> IF k = 0 THEN 1 ELSE 2 * longer[k - 1]]
    <3>1. longer = [k \in 0..i + 1 |-> longer[k]] OBVIOUS
    <3> HIDE DEF longer
    <3> QED BY <2>2, <3>1
  <2>4. IsExp2(longer, i + 1) BY <2>3 DEF IsExp2
  <2> QED BY <2>4
<1> HIDE DEF S
<1>3. n \in S BY <1>1, <1>2, Induction
<1> QED BY <1>3 DEF S

\* Each power is twice the one before.
LEMMA Exp2Doubles ==
  /\ exp2[0] = 1
  /\ \A i \in 1..RsBase : exp2[i] = 2 * exp2[i - 1]
<1>1. RsBase \in Nat BY ArithmeticAssumption
<1>2. IsExp2(exp2, RsBase)
  <2>1. \E f : IsExp2(f, RsBase) BY <1>1, Exp2Exists
  <2> QED BY <2>1 DEF IsExp2, exp2
<1>3. \A i \in 0..RsBase : exp2[i] = IF i = 0 THEN 1 ELSE 2 * exp2[i - 1]
  BY <1>2 DEF IsExp2
<1> QED BY <1>1, <1>3

\* The powers of two are positive.
LEMMA Exp2Positive ==
  ASSUME NEW n \in 0..RsBase
  PROVE  exp2[n] \in Nat /\ exp2[n] >= 1
<1> DEFINE S == {i \in Nat : i <= RsBase => exp2[i] \in Nat /\ exp2[i] >= 1}
<1>0. RsBase \in Nat BY ArithmeticAssumption
<1>1. 0 \in S BY Exp2Doubles
<1>2. ASSUME NEW i \in Nat, i \in S PROVE i + 1 \in S
  <2>1. CASE i + 1 <= RsBase
    <3>1. i + 1 \in 1..RsBase /\ (i + 1) - 1 = i BY <1>0, <2>1
    <3>2. exp2[i + 1] = 2 * exp2[i] BY <3>1, Exp2Doubles
    <3>3. exp2[i] \in Nat /\ exp2[i] >= 1 BY <1>0, <1>2, <2>1
    <3> QED BY <3>2, <3>3
  <2>2. CASE ~(i + 1 <= RsBase) BY <2>2
  <2> QED BY <2>1, <2>2
<1> HIDE DEF S
<1>3. n \in S BY <1>1, <1>2, Induction
<1> QED BY <1>0, <1>3 DEF S

\* A shift by a and one by c together are one by a + c.
LEMMA Exp2Sum ==
  ASSUME NEW a \in Nat, NEW c \in Nat, a + c <= RsBase
  PROVE  exp2[a + c] = exp2[a] * exp2[c]
<1> DEFINE S == {i \in Nat : a + i <= RsBase => exp2[a + i] = exp2[a] * exp2[i]}
<1>0. RsBase \in Nat /\ exp2[a] \in Nat
  <2>1. RsBase \in Nat BY ArithmeticAssumption
  <2> QED BY <2>1, Exp2Positive
<1>1. 0 \in S BY <1>0, Exp2Doubles
<1>2. ASSUME NEW i \in Nat, i \in S PROVE i + 1 \in S
  <2>1. CASE a + (i + 1) <= RsBase
    <3>1. /\ a + (i + 1) \in 1..RsBase /\ (a + (i + 1)) - 1 = a + i
          /\ i + 1 \in 1..RsBase /\ (i + 1) - 1 = i /\ i \in 0..RsBase
          /\ a + i <= RsBase
      BY <1>0, <2>1
    <3>2. exp2[a + (i + 1)] = 2 * exp2[a + i] /\ exp2[i + 1] = 2 * exp2[i]
      BY <3>1, Exp2Doubles
    <3>3. exp2[a + i] = exp2[a] * exp2[i] BY <1>2, <3>1
    <3>4. exp2[i] \in Nat BY <3>1, Exp2Positive
    <3>5. \A x, y \in Nat : 2 * (x * y) = x * (2 * y) OBVIOUS
    <3> QED BY <1>0, <3>2, <3>3, <3>4, <3>5
  <2>2. CASE ~(a + (i + 1) <= RsBase) BY <2>2
  <2> QED BY <2>1, <2>2
<1> HIDE DEF S
<1>3. c \in S BY <1>1, <1>2, Induction
<1> QED BY <1>3 DEF S

-----------------------------------------------------------------------------
(* Words. *)

\* A word has at least one bit, and the weight of its last is half of its values.
LEMMA WordsHaveBits ==
  /\ WordBits \in Nat /\ WordBits >= 1 /\ RsBase \in Nat /\ WordBits < RsBase
  /\ TopBit \in Nat /\ TopBit + 1 = WordBits
  /\ exp2[WordBits] \in Nat /\ Word = 0..exp2[WordBits] - 1
  /\ UINT32_MAX = exp2[WordBits] - 1
  /\ exp2[TopBit] \in Nat /\ exp2[TopBit] >= 1 /\ exp2[WordBits] = 2 * exp2[TopBit]
<1>1. /\ WordBits \in Nat /\ RsBase \in Nat /\ WordBits < RsBase
      /\ UINT32_MAX = exp2[WordBits] - 1 /\ UINT32_MAX \in Nat /\ UINT32_MAX >= 28
  BY ArithmeticAssumption, ExceptionAssumption, RegistersAssumption
<1>2. exp2[WordBits] \in Nat BY <1>1, Exp2Positive
<1>3. WordBits >= 1
  <2>1. WordBits # 0 BY <1>1, Exp2Doubles
  <2> QED BY <1>1, <2>1
<1>4. TopBit \in Nat /\ TopBit + 1 = WordBits BY <1>1, <1>3 DEF TopBit
<1>5. exp2[TopBit] \in Nat /\ exp2[TopBit] >= 1 BY <1>1, <1>4, Exp2Positive
<1>6. exp2[WordBits] = 2 * exp2[TopBit]
  <2>1. WordBits \in 1..RsBase /\ WordBits - 1 = TopBit BY <1>1, <1>3 DEF TopBit
  <2> QED BY <2>1, Exp2Doubles
<1> QED BY <1>1, <1>2, <1>3, <1>4, <1>5, <1>6 DEF Word

\* The quotient and the rest of a number below a product.
LEMMA Division ==
  ASSUME NEW v \in Nat, NEW p \in Nat, p >= 1
  PROVE  /\ v \div p \in Nat /\ v % p \in Nat /\ v % p < p /\ v \div p <= v
         /\ v = p * (v \div p) + (v % p)
         /\ \A q \in Nat : v < p * q => v \div p < q
<1> DEFINE d == v \div p
           e == v % p
<1>1. d \in Nat /\ e \in Nat /\ e < p /\ v = p * d + e OBVIOUS
<1> HIDE DEF d, e
<1>2. d <= p * d BY <1>1
<1>3. ASSUME NEW q \in Nat, v < p * q PROVE d < q
  <2>1. SUFFICES ASSUME d >= q PROVE FALSE BY <1>1
  <2>2. p * d >= p * q BY <1>1, <2>1
  <2>3. p * d \in Nat /\ p * q \in Nat BY <1>1
  <2> QED BY <1>1, <1>3, <2>2, <2>3
<1>4. d <= v
  <2>1. p * d \in Nat BY <1>1
  <2> QED BY <1>1, <1>2, <2>1
<1> QED BY <1>1, <1>3, <1>4 DEF d, e

\* A bit is 0 or 1.
LEMMA BitIsBit ==
  ASSUME NEW v \in Nat, NEW i \in 0..RsBase
  PROVE  get_bit(v, i) \in 0..1
<1>1. exp2[i] \in Nat /\ exp2[i] >= 1 BY Exp2Positive
<1>2. v \div exp2[i] \in Nat BY <1>1, Division
<1>3. \A x \in Nat : x % 2 \in 0..1 OBVIOUS
<1> QED BY <1>2, <1>3 DEF get_bit

\* The last bit of a word is its sign.
LEMMA NegativeIs ==
  ASSUME NEW v \in Word
  PROVE  /\ negative(v) <=> v >= exp2[TopBit]
         /\ negative(v) <=> v > UINT32_MAX \div 2
         /\ get_bit(v, TopBit) = IF v >= exp2[TopBit] THEN 1 ELSE 0
<1> DEFINE p == exp2[TopBit]
           d == v \div p
<1>1. p \in Nat /\ p >= 1 /\ v \in Nat /\ v < p * 2 /\ UINT32_MAX = 2 * p - 1
  BY WordsHaveBits
<1>2. UINT32_MAX \div 2 = p - 1
  <2> HIDE DEF p
  <2>1. (2 * p - 1) \div 2 = p - 1 BY <1>1
  <2> QED BY <1>1, <2>1
<1>3. /\ d \in Nat /\ d < 2 /\ v % p \in Nat /\ v % p < p
      /\ v = p * d + (v % p)
  <2> HIDE DEF p
  <2> QED BY <1>1, Division
<1>4. get_bit(v, TopBit) = d % 2 BY DEF get_bit
<1> HIDE DEF p, d
<1>5. d \in {0, 1} BY <1>3
<1>6. CASE d = 0
  <2>1. v < p BY <1>1, <1>3, <1>6
  <2>2. get_bit(v, TopBit) = 0 BY <1>4, <1>6
  <2> QED BY <1>1, <1>2, <2>1, <2>2 DEF negative, p
<1>7. CASE d = 1
  <2>1. v >= p BY <1>1, <1>3, <1>7
  <2>2. get_bit(v, TopBit) = 1 BY <1>4, <1>7
  <2> QED BY <1>1, <1>2, <2>1, <2>2 DEF negative, p
<1> QED BY <1>5, <1>6, <1>7

\* What a shift moves out on one side and leaves on the other.
LEMMA Halves ==
  ASSUME NEW v \in Word, NEW n \in 0..WordBits
  PROVE  /\ exp2[n] \in Nat /\ exp2[n] >= 1
         /\ exp2[WordBits - n] \in Nat /\ exp2[WordBits - n] >= 1
         /\ exp2[n] * exp2[WordBits - n] = exp2[WordBits]
         /\ v \div exp2[n] \in Nat /\ v \div exp2[n] < exp2[WordBits - n]
         /\ v % exp2[n] \in Nat /\ v % exp2[n] < exp2[n]
         /\ v = exp2[n] * (v \div exp2[n]) + (v % exp2[n])
<1> DEFINE p == exp2[n]
           q == exp2[WordBits - n]
<1>1. /\ n \in Nat /\ WordBits - n \in Nat /\ n + (WordBits - n) = WordBits
      /\ n <= RsBase /\ WordBits - n <= RsBase /\ WordBits <= RsBase
      /\ n \in 0..RsBase /\ WordBits - n \in 0..RsBase
  BY WordsHaveBits
<1>2. p \in Nat /\ p >= 1 /\ q \in Nat /\ q >= 1 BY <1>1, Exp2Positive
<1>3. p * q = exp2[WordBits] BY <1>1, Exp2Sum
<1>4. v \in Nat /\ v < p * q BY <1>3, WordsHaveBits
<1> HIDE DEF p, q
<1>5. /\ v \div p \in Nat /\ v \div p < q /\ v % p \in Nat /\ v % p < p
      /\ v = p * (v \div p) + (v % p)
  BY <1>2, <1>4, Division
<1> QED BY <1>2, <1>3, <1>5 DEF p, q

\* Every shift of a word is a word.
LEMMA ShiftsAreWords ==
  ASSUME NEW v \in Word, NEW n \in 0..WordBits
  PROVE  /\ logical_shift_left(v, n) \in Word
         /\ logical_shift_right(v, n) \in Word
         /\ asr(v, n) \in Word
         /\ ror(v, n) \in Word
<1> DEFINE p == exp2[n]
           q == exp2[WordBits - n]
           m == exp2[WordBits]
           d == v \div p
           e == v % p
<1>1. /\ p \in Nat /\ p >= 1 /\ q \in Nat /\ q >= 1 /\ p * q = m
      /\ d \in Nat /\ d < q /\ e \in Nat /\ e < p
  BY Halves
<1>2. m \in Nat /\ m >= 1 /\ Word = 0..m - 1 /\ v \in Nat
  BY WordsHaveBits
<1>3. /\ logical_shift_left(v, n) = (v * p) % m
      /\ logical_shift_right(v, n) = d
      /\ asr(v, n) = d + (IF negative(v) THEN m - q ELSE 0)
      /\ ror(v, n) = d + e * q
  BY DEF logical_shift_left, logical_shift_right, asr, ror
<1> HIDE DEF p, q, m, d, e
<1>4. (v * p) % m \in 0..m - 1
  <2>1. v * p \in Nat BY <1>1, <1>2
  <2> QED BY <1>2, <2>1, Division
<1>5. q <= m
  <2>1. 1 * q <= p * q BY <1>1
  <2> QED BY <1>1, <2>1
<1>6. d + e * q \in 0..m - 1
  <2>1. e * q <= (p - 1) * q BY <1>1
  <2>2. (p - 1) * q = m - q BY <1>1
  <2>3. e * q \in Nat BY <1>1
  <2> QED BY <1>1, <1>2, <2>1, <2>2, <2>3
<1>7. d \in 0..m - 1 /\ d + (m - q) \in 0..m - 1 /\ d + 0 \in 0..m - 1
  BY <1>1, <1>2, <1>5
<1> QED BY <1>2, <1>3, <1>4, <1>6, <1>7

\* A shifter operand and its carry.
IsShifted(o) == o.operand \in Word /\ o.c \in 0..1

\* An operand and its carry.
LEMMA ShiftedTyped ==
  ASSUME NEW operand \in Word, NEW c \in 0..1
  PROVE  IsShifted(Shifted(operand, c))
BY DEF IsShifted, Shifted

\* The bits of a word that shifts take for their carry.
LEMMA CarriesAreBits ==
  ASSUME NEW v \in Word
  PROVE  /\ \A n \in 1..WordBits : get_bit(v, n - 1) \in 0..1
         /\ \A n \in 0..WordBits : get_bit(v, WordBits - n) \in 0..1
         /\ get_bit(v, 0) \in 0..1 /\ get_bit(v, TopBit) \in 0..1
<1>1. v \in Nat BY WordsHaveBits
<1>2. \A i \in 0..RsBase : get_bit(v, i) \in 0..1 BY <1>1, BitIsBit
<1>3. /\ \A n \in 1..WordBits : n - 1 \in 0..RsBase
      /\ \A n \in 0..WordBits : WordBits - n \in 0..RsBase
      /\ 0 \in 0..RsBase /\ TopBit \in 0..RsBase
  BY WordsHaveBits
<1> QED BY <1>2, <1>3

\* The smallest and the largest word.
LEMMA ExtremesAreWords ==
  0 \in Word /\ UINT32_MAX \in Word
BY RegistersAssumption DEF Word

\* What fills a word with copies of its sign.
LEMMA SignFillTyped ==
  ASSUME NEW v \in Word
  PROVE  IsShifted(sign_fill(v))
<1>1. (IF negative(v) THEN UINT32_MAX ELSE 0) \in Word BY ExtremesAreWords
<1> QED BY <1>1, CarriesAreBits, ShiftedTyped DEF sign_fill

\* The rotation by one bit through the carry.
LEMMA ExtendedIsWord ==
  ASSUME NEW v \in Word, NEW c \in 0..1
  PROVE  c * exp2[TopBit] + logical_shift_right(v, 1) \in Word
<1>1. 1 \in 0..WordBits /\ WordBits - 1 = TopBit BY WordsHaveBits DEF TopBit
<1>2. v \div exp2[1] \in Nat /\ v \div exp2[1] < exp2[TopBit] BY <1>1, Halves
<1>3. logical_shift_right(v, 1) = v \div exp2[1] BY DEF logical_shift_right
<1> DEFINE p == exp2[TopBit]
           d == logical_shift_right(v, 1)
<1>4. p \in Nat /\ Word = 0..(2 * p) - 1 /\ d \in Nat /\ d < p
  BY <1>2, <1>3, WordsHaveBits
<1> HIDE DEF p, d
<1>5. c * p + d \in 0..(2 * p) - 1
  <2>1. CASE c = 0 BY <1>4, <2>1
  <2>2. CASE c = 1 BY <1>4, <2>2
  <2> QED BY <2>1, <2>2
<1> QED BY <1>4, <1>5 DEF p, d

\* The shifts by an amount in the instruction.
LEMMA ShiftsByImmediateTyped ==
  ASSUME NEW r \in registers_data, NEW v \in Word, NEW n \in 0..TopBit
  PROVE  /\ IsShifted(Arithmetic_shift_right_by_immediate(n, v))
         /\ IsShifted(Rotate_right_by_immediate(r, n, v))
         /\ IsShifted(logical_shift_left_by_immediate(r, n, v))
         /\ IsShifted(logical_shift_right_by_immediate(n, v))
<1>1. /\ n \in 0..WordBits
      /\ n # 0 => n \in 1..WordBits
      /\ C_flag(r) \in 0..1
  BY WordsHaveBits DEF C_flag
<1>2. /\ asr(v, n) \in Word /\ ror(v, n) \in Word
      /\ logical_shift_left(v, n) \in Word /\ logical_shift_right(v, n) \in Word
  BY <1>1, ShiftsAreWords
<1>3. /\ n # 0 => get_bit(v, n - 1) \in 0..1
      /\ get_bit(v, WordBits - n) \in 0..1 /\ get_bit(v, 0) \in 0..1
      /\ get_bit(v, TopBit) \in 0..1
  BY <1>1, CarriesAreBits
<1>4. IsShifted(Arithmetic_shift_right_by_immediate(n, v))
  BY <1>2, <1>3, SignFillTyped, ShiftedTyped DEF Arithmetic_shift_right_by_immediate
<1>5. IsShifted(rotate_right_with_extend(r, v))
  BY <1>1, <1>3, ExtendedIsWord, ShiftedTyped DEF rotate_right_with_extend
<1>6. IsShifted(Rotate_right_by_immediate(r, n, v))
  BY <1>2, <1>3, <1>5, ShiftedTyped DEF Rotate_right_by_immediate
<1>7. IsShifted(logical_shift_left_by_immediate(r, n, v))
  BY <1>1, <1>2, <1>3, ShiftedTyped DEF logical_shift_left_by_immediate
<1>8. IsShifted(logical_shift_right_by_immediate(n, v))
  BY <1>2, <1>3, ExtremesAreWords, ShiftedTyped DEF logical_shift_right_by_immediate
<1> QED BY <1>4, <1>6, <1>7, <1>8

\* The shifts by an amount in a register, whatever it holds.
LEMMA ShiftsByRegisterTyped ==
  ASSUME NEW r \in registers_data, NEW v \in Word, NEW n \in Nat
  PROVE  /\ IsShifted(Arithmetic_shift_right_by_register(r, n, v))
         /\ IsShifted(logical_shift_left_by_register(r, v, n))
         /\ IsShifted(logical_shift_right_by_register(r, n, v))
<1> DEFINE k == n % RsBase
<1>1. C_flag(r) \in 0..1 BY DEF C_flag
<1>2. k \in 1..TopBit => k \in 0..WordBits /\ k \in 1..WordBits BY WordsHaveBits
<1>3. k \in 1..TopBit =>
        /\ asr(v, k) \in Word
        /\ logical_shift_left(v, k) \in Word /\ logical_shift_right(v, k) \in Word
        /\ get_bit(v, k - 1) \in 0..1 /\ get_bit(v, WordBits - k) \in 0..1
  BY <1>2, ShiftsAreWords, CarriesAreBits
<1> HIDE DEF k
<1>4. get_bit(v, 0) \in 0..1 /\ get_bit(v, TopBit) \in 0..1 /\ 0 \in 0..1
  BY CarriesAreBits
<1>5. IsShifted(Arithmetic_shift_right_by_register(r, n, v))
  <2>1. \/ Arithmetic_shift_right_by_register(r, n, v) = Shifted(v, C_flag(r))
        \/ /\ k \in 1..TopBit
           /\ Arithmetic_shift_right_by_register(r, n, v) =
                Shifted(asr(v, k), get_bit(v, k - 1))
        \/ Arithmetic_shift_right_by_register(r, n, v) = sign_fill(v)
    BY DEF Arithmetic_shift_right_by_register, k
  <2> QED BY <1>1, <1>3, <2>1, SignFillTyped, ShiftedTyped
<1>6. IsShifted(logical_shift_left_by_register(r, v, n))
  <2>1. \/ logical_shift_left_by_register(r, v, n) = Shifted(v, C_flag(r))
        \/ /\ k \in 1..TopBit
           /\ logical_shift_left_by_register(r, v, n) =
                Shifted(logical_shift_left(v, k), get_bit(v, WordBits - k))
        \/ logical_shift_left_by_register(r, v, n) = Shifted(0, get_bit(v, 0))
        \/ logical_shift_left_by_register(r, v, n) = Shifted(0, 0)
    BY DEF logical_shift_left_by_register, k
  <2> QED BY <1>1, <1>3, <1>4, <2>1, ExtremesAreWords, ShiftedTyped
<1>7. IsShifted(logical_shift_right_by_register(r, n, v))
  <2>1. \/ logical_shift_right_by_register(r, n, v) = Shifted(v, C_flag(r))
        \/ /\ k \in 1..TopBit
           /\ logical_shift_right_by_register(r, n, v) =
                Shifted(logical_shift_right(v, k), get_bit(v, k - 1))
        \/ logical_shift_right_by_register(r, n, v) = Shifted(0, get_bit(v, TopBit))
        \/ logical_shift_right_by_register(r, n, v) = Shifted(0, 0)
    BY DEF logical_shift_right_by_register, k
  <2> QED BY <1>1, <1>3, <1>4, <2>1, ExtremesAreWords, ShiftedTyped
<1> QED BY <1>5, <1>6, <1>7

\* Whatever its encoding, the shifter gives a word and a carry bit
\* (arm_data_processing_functions.c:174).
LEMMA CarryTyped ==
  ASSUME NEW r \in registers_data, NEW sh \in Shifters
  PROVE  IsShifted(carry(r, sh))
<1>1. CASE sh.by = "immediate"
  <2>1. sh.imm \in Word /\ sh.rotate \in 0..(WordBits \div 2) - 1
    BY <1>1 DEF Shifters
  <2>2. 2 * sh.rotate \in 0..WordBits BY <2>1, WordsHaveBits
  <2> DEFINE operand == ror(sh.imm, 2 * sh.rotate)
  <2>3. operand \in Word BY <2>1, <2>2, ShiftsAreWords
  <2>4. C_flag(r) \in 0..1 /\ get_bit(operand, TopBit) \in 0..1
    BY <2>3, CarriesAreBits DEF C_flag
  <2>5. carry(r, sh) = Shifted(operand, IF sh.rotate = 0 THEN C_flag(r)
                                        ELSE get_bit(operand, TopBit))
    BY <1>1 DEF carry, immedate
  <2> HIDE DEF operand
  <2> QED BY <2>3, <2>4, <2>5, ShiftedTyped
<1>2. CASE sh.by # "immediate"
  <2> DEFINE v == arm_read_register(r, sh.rm)
             n == IF sh.by = "amount" THEN sh.amount ELSE arm_read_register(r, sh.rs)
  <2>1. v \in Word BY CoreReadIsWord
  <2>2. n \in Nat
    <3>1. \A x \in Word : x \in Nat BY WordsHaveBits
    <3> QED BY <3>1, <1>2, CoreReadIsWord DEF Shifters
  <2>3. sh.by = "amount" => n \in 0..TopBit BY <1>2 DEF Shifters
  <2>4. \/ /\ sh.by = "amount"
           /\ carry(r, sh) \in {Rotate_right_by_immediate(r, n, v),
                                Arithmetic_shift_right_by_immediate(n, v),
                                logical_shift_right_by_immediate(n, v),
                                logical_shift_left_by_immediate(r, n, v)}
        \/ carry(r, sh) \in {Arithmetic_shift_right_by_register(r, n, v),
                             logical_shift_right_by_register(r, n, v),
                             logical_shift_left_by_register(r, v, n)}
    BY <1>2, Zenon DEF carry
  <2> HIDE DEF v, n
  <2> QED BY <2>1, <2>2, <2>3, <2>4, ShiftsByImmediateTyped, ShiftsByRegisterTyped
<1> QED BY <1>1, <1>2

-----------------------------------------------------------------------------
(* Data processing. *)

\* The sum of the weights of the bits below n, as word_of computes it.
IsSum(f, bits, n) ==
  f = [i \in 0..n |->
         IF i = 0 THEN 0 ELSE f[i - 1] + (IF i - 1 \in bits THEN exp2[i - 1] ELSE 0)]

\* The sum of a set of bits, from the lowest, exists up to any number of them.
LEMMA SumExists ==
  ASSUME NEW bits, NEW n \in Nat
  PROVE  \E f : IsSum(f, bits, n)
<1> DEFINE S == {i \in Nat : \E f : IsSum(f, bits, i)}
           weight_at(k) == IF k - 1 \in bits THEN exp2[k - 1] ELSE 0
<1>1. 0 \in S
  <2> DEFINE f == [i \in 0..0 |-> 0]
  <2>1. IsSum(f, bits, 0) BY DEF IsSum
  <2> QED BY <2>1
<1>2. ASSUME NEW i \in Nat, i \in S PROVE i + 1 \in S
  <2>1. PICK f : IsSum(f, bits, i) BY <1>2
  <2> DEFINE longer == [k \in 0..i + 1 |->
                          IF k = i + 1 THEN f[i] + weight_at(i + 1) ELSE f[k]]
  <2>2. ASSUME NEW k \in 0..i + 1
        PROVE  longer[k] = IF k = 0 THEN 0 ELSE longer[k - 1] + weight_at(k)
    <3>1. CASE k = i + 1
      <4>1. longer[k] = f[i] + weight_at(k) BY <3>1
      <4>2. k # 0 /\ k - 1 = i /\ longer[i] = f[i] BY <3>1
      <4> HIDE DEF longer, weight_at
      <4> QED BY <4>1, <4>2
    <3>2. CASE k # i + 1
      <4>1. k \in 0..i BY <3>2
      <4>2. f[k] = IF k = 0 THEN 0 ELSE f[k - 1] + weight_at(k)
        BY <2>1, <4>1 DEF IsSum
      <4>3. longer[k] = f[k] BY <3>2
      <4>4. k # 0 => longer[k - 1] = f[k - 1] BY <4>1
      <4> HIDE DEF longer, weight_at
      <4> QED BY <4>2, <4>3, <4>4
    <3> QED BY <3>1, <3>2
  <2>3. longer = [k \in 0..i + 1 |-> IF k = 0 THEN 0 ELSE longer[k - 1] + weight_at(k)]
    <3>1. longer = [k \in 0..i + 1 |-> longer[k]] OBVIOUS
    <3> HIDE DEF longer, weight_at
    <3> QED BY <2>2, <3>1
  <2>4. IsSum(longer, bits, i + 1) BY <2>3 DEF IsSum
  <2> QED BY <2>4
<1> HIDE DEF S
<1>3. n \in S BY <1>1, <1>2, Induction
<1> QED BY <1>3 DEF S

\* The sum of the weights below n is below the weight of n.
LEMMA SumIsBelow ==
  ASSUME NEW bits, NEW f, IsSum(f, bits, WordBits), NEW n \in 0..WordBits
  PROVE  f[n] \in Nat /\ f[n] < exp2[n]
<1> DEFINE S == {i \in Nat : i <= WordBits => f[i] \in Nat /\ f[i] < exp2[i]}
<1>0. WordBits \in Nat /\ RsBase \in Nat /\ WordBits < RsBase BY WordsHaveBits
<1>1. 0 \in S
  <2>1. 0 \in 0..WordBits BY <1>0
  <2>2. f[0] = 0 BY <2>1 DEF IsSum
  <2> QED BY <2>2, Exp2Doubles
<1>2. ASSUME NEW i \in Nat, i \in S PROVE i + 1 \in S
  <2>1. CASE i + 1 <= WordBits
    <3>1. /\ i + 1 \in 0..WordBits /\ i + 1 # 0 /\ (i + 1) - 1 = i
          /\ i + 1 \in 1..RsBase /\ i \in 0..RsBase
      BY <1>0, <2>1
    <3>2. f[i + 1] = f[i] + (IF i \in bits THEN exp2[i] ELSE 0) BY <3>1 DEF IsSum
    <3>3. f[i] \in Nat /\ f[i] < exp2[i] BY <1>0, <1>2, <2>1
    <3>4. exp2[i] \in Nat BY <3>1, Exp2Positive
    <3>5. exp2[i + 1] = 2 * exp2[i] BY <3>1, Exp2Doubles
    <3>6. CASE i \in bits
      <4>1. f[i + 1] = f[i] + exp2[i] BY <3>2, <3>6
      <4> QED BY <4>1, <3>3, <3>4, <3>5
    <3>7. CASE i \notin bits
      <4>1. f[i + 1] = f[i] + 0 BY <3>2, <3>7
      <4> QED BY <4>1, <3>3, <3>4, <3>5
    <3> QED BY <3>6, <3>7
  <2>2. CASE ~(i + 1 <= WordBits) BY <2>2
  <2> QED BY <2>1, <2>2
<1> HIDE DEF S
<1>3. n \in S BY <1>0, <1>1, <1>2, Induction
<1> QED BY <1>0, <1>3 DEF S

\* The sum that word_of makes.
LEMMA WordOfIsSum ==
  ASSUME NEW bits
  PROVE  \E f : IsSum(f, bits, WordBits) /\ word_of(bits) = f[WordBits]
<1> DEFINE sum == CHOOSE f : f = [i \in 0..WordBits |->
                    IF i = 0 THEN 0
                    ELSE f[i - 1] + (IF i - 1 \in bits THEN exp2[i - 1] ELSE 0)]
<1>1. IsSum(sum, bits, WordBits)
  <2>1. \E f : IsSum(f, bits, WordBits) BY SumExists, WordsHaveBits
  <2> QED BY <2>1 DEF IsSum
<1>2. word_of(bits) = sum[WordBits] BY DEF word_of
<1> QED BY <1>1, <1>2

\* A set of bits makes a word.
LEMMA WordOfIsWord ==
  ASSUME NEW bits
  PROVE  word_of(bits) \in Word
<1>1. PICK f : IsSum(f, bits, WordBits) /\ word_of(bits) = f[WordBits] BY WordOfIsSum
<1>2. WordBits \in 0..WordBits BY WordsHaveBits
<1>3. f[WordBits] \in Nat /\ f[WordBits] < exp2[WordBits] BY <1>1, <1>2, SumIsBelow
<1> QED BY <1>1, <1>3, WordsHaveBits

\* Each of the sixteen operations gives a word.
LEMMA ComputedTyped ==
  ASSUME NEW code \in Codes, NEW op1 \in Word, NEW op2 \in Word, NEW c \in 0..1
  PROVE  computed(code, op1, op2, c) \in Word
<1>1. 1 - c \in Word
  BY RegistersAssumption, ExceptionAssumption DEF Word
<1>2. \A a, d \in Word : plus(a, d) \in Word /\ minus(a, d) \in Word
  BY SumsAreWords
<1>3. complement(op2) \in Word BY RegistersAssumption DEF complement, Word
<1>4. /\ minus(op1, op2) \in Word /\ minus(op2, op1) \in Word
      /\ plus(op1, op2) \in Word
      /\ minus(minus(op1, op2), 1 - c) \in Word
      /\ minus(minus(op2, op1), 1 - c) \in Word
  BY <1>1, <1>2
<1>5. \/ \E bits : computed(code, op1, op2, c) = word_of(bits)
      \/ computed(code, op1, op2, c) \in
           {minus(op1, op2), minus(op2, op1), plus(op1, op2), op2, complement(op2),
            minus(minus(op1, op2), 1 - c), minus(minus(op2, op1), 1 - c)}
  BY DEF computed, Codes, Carrying, Compares
<1> QED BY <1>3, <1>4, <1>5, WordOfIsWord

\* The flags N and Z that go with a word are read off it.
LEMMA FlagsOfWord ==
  ASSUME NEW r, NEW v \in Word, NEW c, NEW overflow
  PROVE  \E f \in flags_of(v) : nzc_shifftercarry_update(r, v, c, overflow) = set_flags(r, f)
<1> DEFINE f == {x \in Flags : \/ x = "N" /\ negative(v)
                               \/ x = "Z" /\ v = 0
                               \/ x = "C" /\ c
                               \/ x = "V" /\ overflow}
<1>1. negative(v) <=> v > UINT32_MAX \div 2 BY NegativeIs
<1>2. f \in flags_of(v) BY <1>1 DEF flags_of
<1>3. nzc_shifftercarry_update(r, v, c, overflow) = set_flags(r, f)
  BY DEF nzc_shifftercarry_update
<1> QED BY <1>2, <1>3

\* The flags an operation sets are flags of its result.
LEMMA FlaggedIsSet ==
  ASSUME NEW r, NEW code, NEW op1, NEW op2, NEW v \in Word, NEW c
  PROVE  \E f \in flags_of(v) : flagged(r, code, op1, op2, v, c) = set_flags(r, f)
<1> DEFINE carried == sets_carry(code, op1, op2, v, c)
           overflown == sets_overflow(r, code, op1, op2, v)
<1>1. flagged(r, code, op1, op2, v, c) = nzc_shifftercarry_update(r, v, carried, overflown)
  BY DEF flagged
<1> HIDE DEF carried, overflown
<1> QED BY <1>1, FlagsOfWord

\* tst, cmp and cmn end as ArmInstruction has it,
LEMMA CompareIsTest ==
  ASSUME NEW r, NEW code, NEW op1, NEW op2, NEW v \in Word, NEW c
  PROVE  compare(r, code, op1, op2, v, c) \in test(r, v)
BY FlaggedIsSet DEF compare, test

\* An operation that writes rd is one of those of alu, with the word it computes.
LEMMA OperateIsAlu ==
  ASSUME NEW r, NEW code, NEW rd, NEW S \in BOOLEAN, NEW op1, NEW op2, NEW c,
         computed(code, op1, op2, c) \in Word
  PROVE  operate(r, code, rd, S, op1, op2, c) \in alu(r, rd, S, computed(code, op1, op2, c))
<1> DEFINE v == computed(code, op1, op2, c)
           w == arm_write_register(r, rd, v)
           to_pc == arm_read_register(w, rd) = arm_read_register(w, 15)
<1>1. PICK f \in flags_of(v) : flagged(w, code, op1, op2, v, c) = set_flags(w, f)
  BY FlaggedIsSet
<1>2. operate(r, code, rd, S, op1, op2, c) =
        IF S THEN set_cond(w, rd, code, op1, op2, v, c) ELSE Outcome(w, 0)
  BY DEF operate
<1>3. set_cond(w, rd, code, op1, op2, v, c) =
        IF ~to_pc THEN Outcome(set_flags(w, f), 0)
        ELSE IF registers_current_mode_has_spsr(w)
        THEN Outcome(registers_write_cpsr(w, arm_read_spsr(w)), 0)
        ELSE Outcome(w, UNDEFINED_INSTRUCTION)
  BY <1>1 DEF set_cond
<1>4. alu(r, rd, S, v) =
        IF ~S THEN {Outcome(w, 0)}
        ELSE IF ~to_pc THEN {Outcome(set_flags(w, x), 0) : x \in flags_of(v)}
        ELSE IF registers_current_mode_has_spsr(w)
        THEN {Outcome(registers_write_cpsr(w, arm_read_spsr(w)), 0)}
        ELSE {Outcome(w, UNDEFINED_INSTRUCTION)}
  BY DEF alu
<1> HIDE DEF v, w, to_pc
<1>5. operate(r, code, rd, S, op1, op2, c) \in alu(r, rd, S, v)
  BY <1>1, <1>2, <1>3, <1>4
<1> QED BY <1>5 DEF v

\* What an operation that writes rd returns.
LEMMA AluResults ==
  ASSUME NEW r, NEW rd, NEW S, NEW v, NEW o \in alu(r, rd, S, v)
  PROVE  o.result = 0 \/ o.result = UNDEFINED_INSTRUCTION
<1> DEFINE w == arm_write_register(r, rd, v)
<1>1. \/ \E f : o = Outcome(f, 0)
      \/ o = Outcome(w, UNDEFINED_INSTRUCTION)
  BY Zenon DEF alu
<1> HIDE DEF w
<1> QED BY <1>1 DEF Outcome

\* teq takes the status that eor returns for its result.
LEMMA TeqIsTeq ==
  ASSUME NEW r \in registers_data, NEW rd, NEW op1, NEW op2, NEW c,
         computed("eor", op1, op2, c) \in Word
  PROVE  teq_flags(operate(r, "eor", rd, TRUE, op1, op2, c), c)
           \in teq(r, rd, computed("eor", op1, op2, c))
<1> DEFINE v == computed("eor", op1, op2, c)
           o == operate(r, "eor", rd, TRUE, op1, op2, c)
<1>1. o \in alu(r, rd, TRUE, v) BY OperateIsAlu
<1>2. o.result \in Word
  <2> HIDE DEF o, v
  <2>2. o.result = 0 \/ o.result = UNDEFINED_INSTRUCTION BY <1>1, AluResults
  <2>3. UNDEFINED_INSTRUCTION \in Word
    BY RegistersAssumption, ExceptionAssumption DEF UNDEFINED_INSTRUCTION, Word
  <2> QED BY <2>2, <2>3, ExtremesAreWords
<1> HIDE DEF o
<1>3. \E f \in flags_of(o.result) :
        nzc_shifftercarry_update(o.reg, o.result, c = 1, "V" \in o.reg.cpsr.bits)
          = set_flags(o.reg, f)
  <2> DEFINE carried == c = 1
             overflown == "V" \in o.reg.cpsr.bits
  <2> HIDE DEF carried, overflown
  <2>2. \E f \in flags_of(o.result) :
          nzc_shifftercarry_update(o.reg, o.result, carried, overflown) = set_flags(o.reg, f)
    BY <1>2, FlagsOfWord
  <2> QED BY <2>2 DEF carried, overflown
<1>4. teq_flags(o, c) \in test(o.reg, o.result) BY <1>3 DEF teq_flags, test
<1>5. teq_flags(o, c) \in teq(r, rd, v) BY <1>1, <1>4 DEF teq
<1> QED BY <1>5 DEF o

\* adc adds the carry to what the first addition has left in rd.
LEMMA AdcIsAdc ==
  ASSUME NEW r \in registers_data, NEW rd, NEW S \in BOOLEAN, NEW op1 \in Word,
         NEW op2 \in Word, NEW c \in 0..1
  PROVE  \E first \in alu(r, rd, S, computed("adc", op1, op2, c)) :
           add_carry(operate(r, "adc", rd, S, op1, op2, c), rd, S, c)
             \in adc(r, rd, S, computed("adc", op1, op2, c),
                     plus(arm_read_register(first.reg, rd), c))
<1> DEFINE v == computed("adc", op1, op2, c)
           o == operate(r, "adc", rd, S, op1, op2, c)
           x == arm_read_register(o.reg, rd)
           sum == plus(x, c)
<1>1. v \in Word BY ComputedTyped DEF Codes, Carrying
<1>2. o \in alu(r, rd, S, v) BY <1>1, OperateIsAlu
<1>3. o.reg \in registers_data BY <1>1, <1>2, AluTyped DEF Typed
<1>4. c \in Word BY RegistersAssumption, ExceptionAssumption DEF Word
<1>5. x \in Word BY <1>3, CoreReadIsWord
<1>6. computed("add", x, c, c) = sum BY DEF computed
<1>7. sum \in Word BY <1>4, <1>5, SumsAreWords
<1>8. operate(o.reg, "add", rd, S, x, c, c) \in alu(o.reg, rd, S, sum)
  <2> HIDE DEF sum, x, o
  <2> QED BY <1>6, <1>7, OperateIsAlu
<1>9. add_carry(o, rd, S, c) \in IF o.result = 0 THEN alu(o.reg, rd, S, sum) ELSE {o}
  BY <1>8 DEF add_carry
<1> HIDE DEF o, v, sum
<1>10. add_carry(o, rd, S, c) \in adc(r, rd, S, v, sum) BY <1>2, <1>9 DEF adc
<1> QED BY <1>2, <1>10 DEF o, v, sum

\* Every operation ends in a register file and a result.
LEMMA OperateIsOutcome ==
  ASSUME NEW r, NEW code, NEW rd, NEW S, NEW op1, NEW op2, NEW c
  PROVE  \E w, x : operate(r, code, rd, S, op1, op2, c) = Outcome(w, x)
BY Zenon DEF operate, set_cond

\* The second addition of adc yields an outcome too.
LEMMA AddCarryIsOutcome ==
  ASSUME NEW first, NEW rd, NEW S, NEW c,
         \E w, x : first = Outcome(w, x)
  PROVE  \E w, x : add_carry(first, rd, S, c) = Outcome(w, x)
<1>1. CASE first.result = 0
  <2>1. add_carry(first, rd, S, c) =
          operate(first.reg, "add", rd, S, arm_read_register(first.reg, rd), c, c)
    BY <1>1 DEF add_carry
  <2> QED BY <2>1, OperateIsOutcome
<1>2. CASE first.result # 0
  <2>1. add_carry(first, rd, S, c) = first BY <1>2 DEF add_carry
  <2> QED BY <2>1
<1> QED BY <1>1, <1>2

\* Every operation yields an outcome.
LEMMA OperationIsOutcome ==
  ASSUME NEW r, NEW i, NEW op1, NEW op2, NEW c
  PROVE  \E w, x : operation(r, i, op1, op2, c) = Outcome(w, x)
<1> DEFINE o == operation(r, i, op1, op2, c)
<1>1. CASE i.code \in {"tst", "cmp", "cmn"}
  <2>1. o = compare(r, i.code, op1, op2, computed(i.code, op1, op2, c), c)
    BY <1>1 DEF operation
  <2> QED BY <2>1, Zenon DEF compare
<1>2. CASE i.code = "teq"
  <2>1. o = teq_flags(operate(r, "eor", i.rd, TRUE, op1, op2, c), c)
    BY <1>2 DEF operation
  <2> QED BY <2>1, Zenon DEF teq_flags
<1>3. CASE i.code = "adc"
  <2>1. o = add_carry(operate(r, "adc", i.rd, i.S, op1, op2, c), i.rd, i.S, c)
    BY <1>3 DEF operation
  <2>2. \E w, x : operate(r, "adc", i.rd, i.S, op1, op2, c) = Outcome(w, x)
    BY OperateIsOutcome
  <2> QED BY <2>1, <2>2, AddCarryIsOutcome
<1>4. CASE i.code \notin {"tst", "cmp", "cmn", "teq", "adc"}
  <2>1. o = operate(r, i.code, i.rd, i.S, op1, op2, c) BY <1>4 DEF operation
  <2> QED BY <2>1, OperateIsOutcome
<1> QED BY <1>1, <1>2, <1>3, <1>4

\* What the class of a data processing instruction allows it.
LEMMA ClassOfDataProcessing ==
  ASSUME NEW r, NEW m, NEW i, i.op = "dp", NEW v, NEW sh,
         sh = carry(r, i.sh), v = computed(i.code, arm_read_register(r, i.rn), sh.operand, sh.c)
  PROVE  /\ i.code \in {"tst", "cmp", "cmn"} => OutcomesOfClass(r, m, i) = test(r, v)
         /\ i.code = "teq" => OutcomesOfClass(r, m, i) = teq(r, i.rd, v)
         /\ i.code = "adc" =>
              OutcomesOfClass(r, m, i) =
                UNION {adc(r, i.rd, i.S, v, sum) :
                         sum \in {plus(arm_read_register(o.reg, i.rd), sh.c) :
                                    o \in alu(r, i.rd, i.S, v)}}
         /\ i.code \notin Compares \cup {"adc"} =>
              OutcomesOfClass(r, m, i) = alu(r, i.rd, i.S, v)
BY DEF OutcomesOfClass, Compares

\* The operations and the class of their instruction (arm_data_processing.c:269).
LEMMA DataProcessingInClass ==
  ASSUME NEW r \in registers_data, NEW m, NEW i \in Instructions, i.op = "dp"
  PROVE  arm_data_processing_shift(r, i) \in OutcomesOfClass(r, m, i)
<1>1. i.code \in Codes /\ i.S \in BOOLEAN /\ i.sh \in Shifters BY DEF Instructions
<1>2. PICK op1 : op1 = arm_read_register(r, i.rn) OBVIOUS
<1>3. PICK sh : sh = carry(r, i.sh) OBVIOUS
<1>4. PICK v : v = computed(i.code, op1, sh.operand, sh.c) OBVIOUS
<1>5. PICK o : o = arm_data_processing_shift(r, i) OBVIOUS
<1>6. PICK class : class = OutcomesOfClass(r, m, i) OBVIOUS
<1>7. op1 \in Word BY <1>2, CoreReadIsWord
<1>8. IsShifted(sh) BY <1>1, <1>3, CarryTyped
<1>9. sh.operand \in Word /\ sh.c \in 0..1 BY <1>8 DEF IsShifted
<1>10. o = operation(r, i, op1, sh.operand, sh.c)
  BY <1>2, <1>3, <1>5 DEF arm_data_processing_shift
<1>11. v = computed(i.code, arm_read_register(r, i.rn), sh.operand, sh.c)
  BY <1>2, <1>4
<1>12. v \in Word BY <1>1, <1>4, <1>7, <1>9, ComputedTyped
<1>13. CASE i.code \in {"tst", "cmp", "cmn"}
  <2>1. o = compare(r, i.code, op1, sh.operand, v, sh.c)
    BY <1>4, <1>10, <1>13 DEF operation
  <2>2. class = test(r, v) BY <1>3, <1>6, <1>11, <1>13, ClassOfDataProcessing
  <2> QED BY <1>5, <1>6, <1>12, <1>13, <2>1, <2>2, CompareIsTest
<1>14. CASE i.code = "teq"
  <2>1. o = teq_flags(operate(r, "eor", i.rd, TRUE, op1, sh.operand, sh.c), sh.c)
    BY <1>10, <1>14 DEF operation
  <2>2. v = computed("eor", op1, sh.operand, sh.c) BY <1>4, <1>14 DEF computed
  <2>3. class = teq(r, i.rd, v) BY <1>3, <1>6, <1>11, <1>14, ClassOfDataProcessing
  <2> QED BY <1>5, <1>6, <1>12, <2>1, <2>2, <2>3, TeqIsTeq
<1>15. CASE i.code = "adc"
  <2>1. o = add_carry(operate(r, "adc", i.rd, i.S, op1, sh.operand, sh.c), i.rd, i.S, sh.c)
    BY <1>10, <1>15 DEF operation
  <2>2. v = computed("adc", op1, sh.operand, sh.c) BY <1>4, <1>15
  <2>3. PICK first \in alu(r, i.rd, i.S, v) :
          o \in adc(r, i.rd, i.S, v, plus(arm_read_register(first.reg, i.rd), sh.c))
    BY <1>1, <1>7, <1>9, <2>1, <2>2, AdcIsAdc
  <2>4. class = UNION {adc(r, i.rd, i.S, v, sum) :
                         sum \in {plus(arm_read_register(x.reg, i.rd), sh.c) :
                                    x \in alu(r, i.rd, i.S, v)}}
    BY <1>3, <1>6, <1>11, <1>15, ClassOfDataProcessing
  <2>5. o \in class BY <2>3, <2>4, Zenon
  <2> QED BY <1>5, <1>6, <2>5
<1>16. CASE i.code \notin Compares \cup {"adc"}
  <2>1. o = operate(r, i.code, i.rd, i.S, op1, sh.operand, sh.c)
    BY <1>10, <1>16 DEF operation, Compares
  <2>2. class = alu(r, i.rd, i.S, v)
    BY <1>3, <1>6, <1>11, <1>16, ClassOfDataProcessing
  <2>3. o \in alu(r, i.rd, i.S, v) BY <1>1, <1>4, <1>12, <2>1, OperateIsAlu
  <2> QED BY <1>5, <1>6, <2>2, <2>3
<1>17. i.code \in {"tst", "cmp", "cmn", "teq", "adc"} \/ i.code \notin Compares \cup {"adc"}
  BY DEF Compares
<1> QED BY <1>13, <1>14, <1>15, <1>16, <1>17

-----------------------------------------------------------------------------
(* Bytes and the values of several bytes. *)

\* The weights of the bytes of a value, least significant first.
LEMMA Powers ==
  /\ power[0] = 1 /\ power[1] = ByteBase
  /\ power[2] = ByteBase * ByteBase
  /\ power[3] = ByteBase * (ByteBase * ByteBase)
  /\ power[4] = ByteBase * (ByteBase * (ByteBase * ByteBase))
<1> DEFINE B == ByteBase
           p == [n \in 0..4 |-> CASE n = 0 -> 1 [] n = 1 -> B [] n = 2 -> B * B
                                  [] n = 3 -> B * (B * B) [] n = 4 -> B * (B * (B * B))]
<1>1. B \in Nat BY TransferAssumption
<1>2. p[0] = 1 /\ p[1] = B /\ p[2] = B * B /\ p[3] = B * (B * B)
      /\ p[4] = B * (B * (B * B))
  OBVIOUS
<1>3. \A n \in 0..4 : p[n] = IF n = 0 THEN 1 ELSE B * p[n - 1]
  <2>1. \A n \in 0..4 : n = 0 \/ n = 1 \/ n = 2 \/ n = 3 \/ n = 4 OBVIOUS
  <2>2. B * 1 = B BY <1>1
  <2> HIDE DEF p
  <2> QED BY <1>2, <2>1, <2>2
<1>4. p = [n \in 0..4 |-> IF n = 0 THEN 1 ELSE B * p[n - 1]]
  <2>1. p = [n \in 0..4 |-> p[n]] OBVIOUS
  <2> HIDE DEF p
  <2> QED BY <1>3, <2>1
<1>5. \E q : q = [n \in 0..4 |-> IF n = 0 THEN 1 ELSE ByteBase * q[n - 1]]
  <2> HIDE DEF p
  <2> QED BY <1>4
<1>6. power = [n \in 0..4 |-> IF n = 0 THEN 1 ELSE ByteBase * power[n - 1]]
  BY <1>5 DEF power
<1>7. power[0] = 1 BY <1>6
<1>8. \A n \in 1..4 : power[n] = B * power[n - 1] BY <1>6
<1>9. power[1] = B /\ power[2] = B * B
  <2>1. power[1] = B * power[0] /\ power[2] = B * power[1] BY <1>8
  <2> QED BY <1>1, <1>7, <2>1
<1>10. power[3] = B * power[2] /\ power[4] = B * power[3] BY <1>8
<1> QED BY <1>7, <1>9, <1>10

\* They are positive and grow.
LEMMA PowersGrow ==
  /\ \A n \in 0..4 : power[n] \in Nat \ {0}
  /\ power[1] <= power[2] /\ power[2] <= power[4]
<1> DEFINE B == ByteBase
<1>1. B \in Nat /\ B >= 2 BY TransferAssumption
<1>2. PICK p2 \in Nat : p2 = B * B BY <1>1
<1>3. PICK p3 \in Nat : p3 = B * p2 BY <1>1, <1>2
<1>4. PICK p4 \in Nat : p4 = B * p3 BY <1>1, <1>3
<1>5. \A x, y \in Nat : x >= 1 /\ y >= 1 => x * y >= y OBVIOUS
<1>6. p2 >= B BY <1>1, <1>2, <1>5
<1>7. p3 >= p2 BY <1>1, <1>2, <1>3, <1>5, <1>6
<1>8. p4 >= p3 BY <1>1, <1>2, <1>3, <1>4, <1>5, <1>6, <1>7
<1>9. /\ power[0] = 1 /\ power[1] = B /\ power[2] = p2
      /\ power[3] = p3 /\ power[4] = p4
  BY <1>2, <1>3, <1>4, Powers
<1>10. \A n \in 0..4 : n = 0 \/ n = 1 \/ n = 2 \/ n = 3 \/ n = 4 OBVIOUS
<1> QED BY <1>1, <1>6, <1>7, <1>8, <1>9, <1>10

\* One more digit in front of a number below the weight P of that digit.
LEMMA Positional ==
  ASSUME NEW B \in Nat \ {0}, NEW P \in Nat \ {0}, NEW x \in 0..P - 1, NEW d \in 0..B - 1
  PROVE  x + d * P \in 0..(B * P) - 1
<1>1. PICK e \in Nat : e = d * P OBVIOUS
<1>2. PICK f \in Nat : f = B * P OBVIOUS
<1>3. d * P <= (B - 1) * P OBVIOUS
<1>4. (B - 1) * P = f - P BY <1>2
<1>5. e <= f - P BY <1>1, <1>3, <1>4
<1>6. x + e \in 0..f - 1 BY <1>5
<1> QED BY <1>1, <1>2, <1>6

\* The value of up to four bytes is below the power of their number.
LEMMA ValueTyped ==
  ASSUME NEW m \in [0..MemSize - 1 -> Byte], NEW size \in Sizes, NEW a \in Word,
         read_fits(size, a), NEW be \in BOOLEAN
  PROVE  value_of(m, size, a, be) \in 0..power[size] - 1
<1> DEFINE at(i) == m[a + i]
<1>1. MemSize \in Nat BY StepAssumption, RegistersAssumption DEF Word
<1>2. \A i \in 0..size - 1 : a + i \in 0..MemSize - 1
  BY <1>1, RegistersAssumption DEF read_fits, Word, Sizes
<1>3. \A i \in 0..size - 1 : at(i) \in Byte BY <1>2
<1>4. \A i \in 0..size - 1 : at(i) \in 0..ByteBase - 1 BY <1>3 DEF Byte
<1>5. ByteBase \in Nat \ {0} BY TransferAssumption
<1>6. \A n \in 0..4 : power[n] \in Nat \ {0} BY PowersGrow
<1>7. power[1] = ByteBase /\ power[2] = ByteBase * power[1]
      /\ power[3] = ByteBase * power[2] /\ power[4] = ByteBase * power[3]
  BY Powers
<1>8. power[0] = 1 BY Powers
<1>9. \A d, e \in 0..ByteBase - 1 : d + e * power[1] \in 0..power[2] - 1
  BY <1>5, <1>6, <1>7, Positional
<1>10. \A d, e, f, g \in 0..ByteBase - 1 :
         ((d + e * power[1]) + f * power[2]) + g * power[3] \in 0..power[4] - 1
  <2> SUFFICES ASSUME NEW d \in 0..ByteBase - 1, NEW e \in 0..ByteBase - 1,
                      NEW f \in 0..ByteBase - 1, NEW g \in 0..ByteBase - 1
               PROVE  ((d + e * power[1]) + f * power[2]) + g * power[3] \in 0..power[4] - 1
    OBVIOUS
  <2>1. PICK x : x = d + e * power[1] OBVIOUS
  <2>2. x \in 0..power[2] - 1 BY <1>9, <2>1
  <2>3. PICK y : y = x + f * power[2] OBVIOUS
  <2>4. y \in 0..(ByteBase * power[2]) - 1
    <3>1. power[2] \in Nat \ {0} BY <1>6
    <3> QED BY <1>5, <2>2, <2>3, <3>1, Positional
  <2>5. y + g * power[3] \in 0..(ByteBase * power[3]) - 1
    BY <1>5, <1>6, <1>7, <2>4, Positional
  <2> QED BY <1>7, <2>1, <2>3, <2>5
<1>11. \A i \in 0..size - 1 : weight(size, i, be) = IF be THEN power[size - 1 - i] ELSE power[i]
  BY DEF weight
<1>12. CASE size = 1
  <2>1. value_of(m, size, a, be) = at(0) * power[0]
    BY <1>12 DEF value_of, weight
  <2>2. at(0) \in 0..ByteBase - 1 BY <1>4, <1>12
  <2> QED BY <1>5, <1>7, <1>8, <1>12, <2>1, <2>2
<1>13. CASE size = 2
  <2>1. at(0) \in 0..ByteBase - 1 /\ at(1) \in 0..ByteBase - 1 BY <1>4, <1>13
  <2>2. PICK d : d = at(0) OBVIOUS
  <2>3. PICK e : e = at(1) OBVIOUS
  <2>4. value_of(m, size, a, be) = d * weight(2, 0, be) + e * weight(2, 1, be)
    BY <1>13, <2>2, <2>3 DEF value_of
  <2>5. CASE be
    <3>1. weight(2, 0, be) = power[1] /\ weight(2, 1, be) = power[0] BY <2>5 DEF weight
    <3>2. PICK w \in Nat \ {0} : w = power[1] BY <1>6
    <3>3. d * w + e * 1 = e + d * w BY <2>1, <2>2, <2>3, <1>5
    <3> QED BY <1>8, <1>9, <1>13, <2>1, <2>2, <2>3, <2>4, <3>1, <3>2, <3>3
  <2>6. CASE ~be
    <3>1. weight(2, 0, be) = power[0] /\ weight(2, 1, be) = power[1] BY <2>6 DEF weight
    <3>2. d * 1 = d BY <2>1, <2>2, <1>5
    <3> QED BY <1>8, <1>9, <1>13, <2>1, <2>2, <2>3, <2>4, <3>1, <3>2
  <2> QED BY <2>5, <2>6
<1>14. CASE size = 4
  <2>1. /\ at(0) \in 0..ByteBase - 1 /\ at(1) \in 0..ByteBase - 1
        /\ at(2) \in 0..ByteBase - 1 /\ at(3) \in 0..ByteBase - 1
    BY <1>4, <1>14
  <2>2. PICK d \in Nat : d = at(0) BY <2>1, <1>5
  <2>3. PICK e \in Nat : e = at(1) BY <2>1, <1>5
  <2>4. PICK f \in Nat : f = at(2) BY <2>1, <1>5
  <2>5. PICK g \in Nat : g = at(3) BY <2>1, <1>5
  <2>6. value_of(m, size, a, be) =
          ((d * weight(4, 0, be) + e * weight(4, 1, be)) + f * weight(4, 2, be))
            + g * weight(4, 3, be)
    BY <1>14, <2>2, <2>3, <2>4, <2>5 DEF value_of
  <2>7. PICK w1 \in Nat \ {0} : w1 = power[1] BY <1>6
  <2>8. PICK w2 \in Nat \ {0} : w2 = power[2] BY <1>6
  <2>9. PICK w3 \in Nat \ {0} : w3 = power[3] BY <1>6
  <2>10. CASE be
    <3>1. /\ weight(4, 0, be) = w3 /\ weight(4, 1, be) = w2
          /\ weight(4, 2, be) = w1 /\ weight(4, 3, be) = 1
      BY <1>8, <2>7, <2>8, <2>9, <2>10 DEF weight
    <3>2. ((d * w3 + e * w2) + f * w1) + g * 1 = ((g + f * w1) + e * w2) + d * w3
      <4>1. PICK dw \in Nat : dw = d * w3 OBVIOUS
      <4>2. PICK ew \in Nat : ew = e * w2 OBVIOUS
      <4>3. PICK fw \in Nat : fw = f * w1 OBVIOUS
      <4> QED BY <4>1, <4>2, <4>3
    <3>3. ((g + f * w1) + e * w2) + d * w3 \in 0..power[4] - 1
      BY <1>10, <2>1, <2>2, <2>3, <2>4, <2>5, <2>7, <2>8, <2>9
    <3> QED BY <1>14, <2>6, <3>1, <3>2, <3>3
  <2>11. CASE ~be
    <3>1. /\ weight(4, 0, be) = 1 /\ weight(4, 1, be) = w1
          /\ weight(4, 2, be) = w2 /\ weight(4, 3, be) = w3
      BY <1>8, <2>7, <2>8, <2>9, <2>11 DEF weight
    <3>2. d * 1 = d OBVIOUS
    <3>3. ((d + e * w1) + f * w2) + g * w3 \in 0..power[4] - 1
      BY <1>10, <2>1, <2>2, <2>3, <2>4, <2>5, <2>7, <2>8, <2>9
    <3> QED BY <1>14, <2>6, <3>1, <3>2, <3>3
  <2> QED BY <2>10, <2>11
<1> QED BY <1>12, <1>13, <1>14 DEF Sizes

\* What a load reads is a word.
LEMMA ReadValueIsWord ==
  ASSUME NEW m \in [0..MemSize - 1 -> Byte], NEW size \in Sizes, NEW a \in Word,
         read_fits(size, a), NEW be \in BOOLEAN
  PROVE  value_of(m, size, a, be) \in Word
<1>1. PICK x : x = value_of(m, size, a, be) OBVIOUS
<1>2. x \in 0..power[size] - 1 BY <1>1, ValueTyped
<1>3. power[size] <= power[4] /\ power[size] \in Nat
  BY PowersGrow, \A n \in {1, 2, 4} : n = 1 \/ n = 2 \/ n = 4 DEF Sizes
<1>4. power[4] = UINT32_MAX + 1 /\ UINT32_MAX \in Nat
  BY TransferAssumption, RegistersAssumption
<1>5. x \in Word BY <1>2, <1>3, <1>4 DEF Word
<1> QED BY <1>1, <1>5

\* A store leaves bytes.
LEMMA StoredTyped ==
  ASSUME NEW m \in [0..MemSize - 1 -> Byte], NEW size \in Sizes, NEW a \in Word,
         NEW v \in Nat, NEW be \in BOOLEAN
  PROVE  stored(m, size, a, v, be) \in [0..MemSize - 1 -> Byte]
<1>1. ByteBase \in Nat \ {0} BY TransferAssumption
<1>2. ASSUME NEW at \in 0..MemSize - 1, at \in a..a + size - 1
      PROVE  byte_of(v, size, at - a, be) \in Byte
  <2>1. at - a \in 0..size - 1 /\ size - 1 - (at - a) \in 0..size - 1
    BY <1>2, RegistersAssumption DEF Word, Sizes
  <2>2. PICK k : k = IF be THEN size - 1 - (at - a) ELSE at - a OBVIOUS
  <2>3. k \in 0..4 BY <2>1, <2>2 DEF Sizes
  <2>4. PICK w \in Nat \ {0} : w = power[k] BY <2>3, PowersGrow
  <2>5. weight(size, at - a, be) = w BY <2>2, <2>4 DEF weight
  <2>6. v \div w \in Nat OBVIOUS
  <2>7. (v \div w) % ByteBase \in 0..ByteBase - 1 BY <1>1, <2>6
  <2> QED BY <2>5, <2>7 DEF byte_of, Byte
<1>3. DOMAIN m = 0..MemSize - 1 OBVIOUS
<1> QED BY <1>2, <1>3 DEF stored

-----------------------------------------------------------------------------
(* Single transfers. *)

\* The offset of a transfer is a word.
LEMMA OffsetTyped ==
  ASSUME NEW r \in registers_data, NEW off \in Offsets
  PROVE  offset_of(r, off) \in Word
<1>1. CASE off.by = "immediate"
  BY <1>1 DEF Offsets, offset_of
<1>2. CASE off.by # "immediate"
  <2>1. PICK v : v = arm_read_register(r, off.rm) OBVIOUS
  <2>2. PICK n : n = off.amount OBVIOUS
  <2>3. PICK c : c = C_flag(r) OBVIOUS
  <2>4. PICK kind : kind = off.kind OBVIOUS
  <2>5. v \in Word BY <2>1, CoreReadIsWord
  <2>6. n \in 0..WordBits
    <3>1. n \in 0..TopBit BY <1>2, <2>2 DEF Offsets
    <3> QED BY <3>1, WordsHaveBits DEF TopBit
  <2>7. c \in 0..1 BY <2>3 DEF C_flag
  <2>8. c * exp2[TopBit] + logical_shift_right(v, 1) \in Word BY <2>5, <2>7, ExtendedIsWord
  <2>9. (IF negative(v) THEN UINT32_MAX ELSE 0) \in Word BY ExtremesAreWords
  <2>10. calculate_address_scaled_register(v, kind, n, c)
           \in {logical_shift_left(v, n), 0, logical_shift_right(v, n),
                IF negative(v) THEN UINT32_MAX ELSE 0, asr(v, n),
                c * exp2[TopBit] + logical_shift_right(v, 1), ror(v, n)}
    BY Zenon DEF calculate_address_scaled_register
  <2>11. calculate_address_scaled_register(v, kind, n, c) \in Word
    BY <2>5, <2>6, <2>8, <2>9, <2>10, ShiftsAreWords, ExtremesAreWords
  <2> QED BY <1>2, <2>1, <2>2, <2>3, <2>4, <2>11 DEF offset_of
<1> QED BY <1>1, <1>2

\* The address of a single transfer is a word.
LEMMA AddressTyped ==
  ASSUME NEW r \in registers_data, NEW rn, NEW offset \in Word, NEW U
  PROVE  calculate_address(r, rn, offset, U) \in Word
BY CoreReadIsWord, SumsAreWords DEF calculate_address

\* An access and its outcomes: the register file of a refused one is the one the
\* base has been written back to (arm_load_store.c:78).
LEMMA AccessOutcomes ==
  ASSUME NEW w, NEW m, NEW i, NEW a,
         NEW o, o = process_memory_access(w, m, i, a)
  PROVE  /\ i.L = 1 /\ read_fits(i.size, a) =>
              o = Transferred(arm_write_register(w, i.rd, value_of(m, i.size, a, ENDIANESS)), m, 0)
         /\ i.L = 1 /\ ~read_fits(i.size, a) => o = Transferred(w, m, AccessFailed)
         /\ i.L # 1 /\ ~write_fits(i.size, a) => o = Transferred(w, m, AccessFailed)
         /\ i.L # 1 /\ write_fits(i.size, a) /\ ~in_array(i.size, a) =>
              o = Transferred(w, m, Aborted)
         /\ i.L # 1 /\ write_fits(i.size, a) /\ in_array(i.size, a) =>
              o = Transferred(w, stored(m, i.size, a,
                                        arm_read_register(w, i.rd) % power[i.size], ENDIANESS), 0)
BY DEF process_memory_access, arm_load, arm_write

\* What the class of a single transfer allows it.
LEMMA ClassOfSingle ==
  ASSUME NEW r, NEW m, NEW i, i.op = "single", i.L \in 0..1, NEW a, NEW moves,
         a = calculate_address(r, i.rn, offset_of(r, i.off), i.U),
         moves = [rn |-> i.rn, rd |-> i.rd, wb |-> i.P = 0 \/ i.W]
  PROVE  /\ i.P = 0 /\ i.W => OutcomesOfClass(r, m, i) = {Outcome(r, UNDEFINED_INSTRUCTION)}
         /\ ~(i.P = 0 /\ i.W) /\ i.L = 1 =>
              OutcomesOfClass(r, m, i) =
                ldr(r, moves, a, IF read_fits(i.size, a)
                                 THEN value_of(m, i.size, a, ENDIANESS) ELSE 0)
         /\ ~(i.P = 0 /\ i.W) /\ i.L = 0 => OutcomesOfClass(r, m, i) = str(r, moves, a)
BY DEF OutcomesOfClass

\* A single transfer and the class of its instruction.
LEMMA SingleInClass ==
  ASSUME NEW r, NEW m, NEW i \in Instructions, i.op = "single",
         NEW o, o = arm_load_store(r, m, i)
  PROVE  Outcome(o.reg, o.result) \in OutcomesOfClass(r, m, i)
<1>1. i.L \in 0..1 /\ i.P \in 0..1 /\ i.W \in BOOLEAN BY DEF Instructions
<1>2. PICK a : a = calculate_address(r, i.rn, offset_of(r, i.off), i.U) OBVIOUS
<1>3. PICK moves : moves = [rn |-> i.rn, rd |-> i.rd, wb |-> i.P = 0 \/ i.W] OBVIOUS
<1>4. PICK class : class = OutcomesOfClass(r, m, i) OBVIOUS
<1>5. PICK w : w = write_back(r, moves.rn, moves.wb, a) OBVIOUS
<1>6. moves.rn = i.rn /\ moves.rd = i.rd /\ (moves.wb <=> moves_base(i))
  BY <1>3 DEF moves_base
<1>7. CASE i.P = 0 /\ i.W
  <2>1. o = Transferred(r, m, UNDEFINED_INSTRUCTION)
    BY <1>7 DEF arm_load_store, has_addressing_mode
  <2>2. Outcome(o.reg, o.result) = Outcome(r, UNDEFINED_INSTRUCTION) BY <2>1 DEF Transferred
  <2> QED BY <1>1, <1>2, <1>3, <1>7, <2>2, ClassOfSingle
<1>8. CASE ~(i.P = 0 /\ i.W)
  <2>1. o = handle_memory_operation(r, m, i)
    BY <1>1, <1>8 DEF arm_load_store, has_addressing_mode
  <2>2. w = IF moves_base(i) THEN arm_write_register(r, i.rn, a) ELSE r
    BY <1>5, <1>6 DEF write_back
  <2>3. o = process_memory_access(w, m, i, a)
    BY <1>2, <2>1, <2>2 DEF handle_memory_operation
  <2>4. CASE i.L = 1
    <3>1. PICK v : v = IF read_fits(i.size, a) THEN value_of(m, i.size, a, ENDIANESS) ELSE 0
      OBVIOUS
    <3>2. class = {Outcome(w, AccessFailed), Outcome(arm_write_register(w, i.rd, v), 0)}
      BY <1>1, <1>2, <1>3, <1>4, <1>5, <1>6, <1>8, <2>4, <3>1, ClassOfSingle DEF ldr
    <3>3. CASE read_fits(i.size, a)
      <4>1. o = Transferred(arm_write_register(w, i.rd, v), m, 0)
        BY <2>3, <2>4, <3>1, <3>3, AccessOutcomes
      <4> QED BY <1>4, <3>2, <4>1 DEF Transferred
    <3>4. CASE ~read_fits(i.size, a)
      <4>1. o = Transferred(w, m, AccessFailed) BY <2>3, <2>4, <3>4, AccessOutcomes
      <4> QED BY <1>4, <3>2, <4>1 DEF Transferred
    <3> QED BY <3>3, <3>4
  <2>5. CASE i.L # 1
    <3>1. i.L = 0 BY <1>1, <2>5
    <3>2. class = {Outcome(w, x) : x \in {AccessFailed, 0, Aborted}}
      BY <1>1, <1>2, <1>3, <1>4, <1>5, <1>8, <3>1, ClassOfSingle DEF str
    <3>3. \E bytes : \E x \in {AccessFailed, 0, Aborted} : o = Transferred(w, bytes, x)
      BY <2>3, <2>5, AccessOutcomes
    <3> QED BY <1>4, <3>2, <3>3 DEF Transferred
  <2> QED BY <2>4, <2>5
<1> QED BY <1>7, <1>8

\* A single transfer leaves bytes in the memory.
LEMMA SingleKeepsBytes ==
  ASSUME NEW r \in registers_data, NEW m \in [0..MemSize - 1 -> Byte],
         NEW i \in Instructions, i.op = "single"
  PROVE  arm_load_store(r, m, i).mem \in [0..MemSize - 1 -> Byte]
<1>1. PICK o : o = arm_load_store(r, m, i) OBVIOUS
<1>2. PICK a : a = calculate_address(r, i.rn, offset_of(r, i.off), i.U) OBVIOUS
<1>3. PICK w : w = IF moves_base(i) THEN arm_write_register(r, i.rn, a) ELSE r OBVIOUS
<1>4. i.size \in Sizes /\ i.off \in Offsets BY DEF Instructions
<1>5. a \in Word BY <1>2, <1>4, OffsetTyped, AddressTyped
<1>6. w \in registers_data BY <1>3, <1>5, WriteTyped
<1>7. CASE has_addressing_mode(i)
  <2>1. o = process_memory_access(w, m, i, a)
    BY <1>1, <1>2, <1>3, <1>7 DEF arm_load_store, handle_memory_operation
  <2>2. PICK v : v = arm_read_register(w, i.rd) % power[i.size] OBVIOUS
  <2>3. v \in Nat
    <3>1. PICK x \in Nat : x = arm_read_register(w, i.rd)
      BY <1>6, CoreReadIsWord, RegistersAssumption DEF Word
    <3>2. PICK p \in Nat \ {0} : p = power[i.size] BY <1>4, PowersGrow DEF Sizes
    <3> QED BY <2>2, <3>1, <3>2
  <2>4. stored(m, i.size, a, v, ENDIANESS) \in [0..MemSize - 1 -> Byte]
    BY <1>4, <1>5, <2>3, StoredTyped, TransferAssumption
  <2>5. o.mem \in {m, stored(m, i.size, a, v, ENDIANESS)}
    BY <2>1, <2>2, AccessOutcomes DEF Transferred
  <2> QED BY <1>1, <2>4, <2>5
<1>8. CASE ~has_addressing_mode(i)
  BY <1>8 DEF arm_load_store, Transferred
<1> QED BY <1>7, <1>8

-----------------------------------------------------------------------------
(* Multiple transfers. *)

\* The loops over the registers of a list: the function that starts from u and
\* applies step i of G to its value before it.
IterationOf(f, n, V, u, G) ==
  f \in [-1..n -> V] /\ f[-1] = u /\ \A i \in 0..n : f[i] = G[<<i, f[i - 1]>>]

\* A loop whose steps stay in a set exists, to any number of turns.
LEMMA LoopExists ==
  ASSUME NEW n \in Nat, NEW V, NEW u \in V, NEW G \in [(0..n) \X V -> V]
  PROVE  \E f : IterationOf(f, n, V, u, G)
<1> DEFINE IsLoop(f, k) ==
             f \in [-1..k -> V] /\ f[-1] = u /\ \A i \in 0..k : f[i] = G[<<i, f[i - 1]>>]
           S == {k \in Nat : k <= n => \E f : IsLoop(f, k)}
<1>1. 0 \in S
  <2> DEFINE f == [i \in -1..0 |-> IF i = -1 THEN u ELSE G[<<0, u>>]]
  <2>1. G[<<0, u>>] \in V OBVIOUS
  <2>2. f \in [-1..0 -> V] BY <2>1
  <2>3. f[-1] = u /\ f[0] = G[<<0, u>>] OBVIOUS
  <2>4. \A i \in 0..0 : i = 0 /\ i - 1 = -1 OBVIOUS
  <2> HIDE DEF f
  <2>5. IsLoop(f, 0) BY <2>2, <2>3, <2>4
  <2> HIDE DEF IsLoop
  <2> QED BY <2>5
<1>2. ASSUME NEW k \in Nat, k \in S PROVE k + 1 \in S
  <2> SUFFICES ASSUME k + 1 <= n PROVE \E f : IsLoop(f, k + 1)
    <3> HIDE DEF IsLoop
    <3> QED OBVIOUS
  <2>1. PICK f : IsLoop(f, k)
    <3> HIDE DEF IsLoop
    <3> QED BY <1>2
  <2> DEFINE x == G[<<k + 1, f[k]>>]
             longer == [i \in -1..k + 1 |-> IF i = k + 1 THEN x ELSE f[i]]
  <2>2. f[k] \in V BY <2>1
  <2>3. k + 1 \in 0..n OBVIOUS
  <2>4. x \in V BY <2>2, <2>3
  <2> HIDE DEF x
  <2>5. longer \in [-1..k + 1 -> V] BY <2>1, <2>4
  <2>6. longer[-1] = u BY <2>1
  <2>7. longer[k + 1] = x /\ \A i \in -1..k : longer[i] = f[i] OBVIOUS
  <2>8. ASSUME NEW i \in 0..k + 1 PROVE longer[i] = G[<<i, longer[i - 1]>>]
    <3>1. CASE i = k + 1
      <4>1. longer[k] = f[k] /\ i - 1 = k BY <2>7, <3>1
      <4> HIDE DEF longer
      <4> QED BY <2>7, <3>1, <4>1 DEF x
    <3>2. CASE i # k + 1
      <4>1. i \in 0..k /\ i - 1 \in -1..k BY <3>2
      <4>2. longer[i] = f[i] /\ longer[i - 1] = f[i - 1] BY <2>7, <4>1
      <4> HIDE DEF longer
      <4> QED BY <2>1, <4>1, <4>2
    <3> QED BY <3>1, <3>2
  <2> HIDE DEF longer
  <2>9. IsLoop(longer, k + 1) BY <2>5, <2>6, <2>8
  <2> HIDE DEF IsLoop
  <2> QED BY <2>9
<1>3. n \in S
  <2> HIDE DEF S
  <2> QED BY <1>1, <1>2, Induction
<1>4. PICK f : IsLoop(f, n)
  <2> HIDE DEF IsLoop
  <2> QED BY <1>3
<1>5. IterationOf(f, n, V, u, G) BY <1>4 DEF IterationOf
<1> QED BY <1>5

\* Each value of such a function is in the set its steps stay in.
LEMMA LoopTyped ==
  ASSUME NEW n \in Nat, NEW V, NEW u \in V, NEW f, f[-1] = u,
         \A i \in 0..n : f[i - 1] \in V => f[i] \in V,
         NEW k \in -1..n
  PROVE  f[k] \in V
<1> DEFINE S == {i \in Nat : i <= n + 1 => f[i - 1] \in V}
<1>1. 0 \in S
  <2>1. 0 - 1 = -1 OBVIOUS
  <2> QED BY <2>1
<1>2. ASSUME NEW i \in Nat, i \in S PROVE i + 1 \in S
  <2> SUFFICES ASSUME i + 1 <= n + 1 PROVE f[(i + 1) - 1] \in V OBVIOUS
  <2>1. i \in 0..n /\ (i + 1) - 1 = i OBVIOUS
  <2>2. f[i - 1] \in V BY <1>2
  <2> QED BY <2>1, <2>2
<1>3. k + 1 \in S
  <2>1. k + 1 \in Nat OBVIOUS
  <2> HIDE DEF S
  <2> QED BY <1>1, <1>2, <2>1, Induction
<1>4. (k + 1) - 1 = k /\ k + 1 <= n + 1 OBVIOUS
<1> QED BY <1>3, <1>4

\* Every word of a multiple transfer has an address, and the list a size.
LEMMA ListIsFinite ==
  ASSUME NEW list \in SUBSET Reg
  PROVE  /\ list \subseteq 0..15 /\ IsFiniteSet(list) /\ Cardinality(list) \in Nat
         /\ \A n : below(list, n) \in Nat
<1>1. list \subseteq 0..15 BY RegistersAssumption DEF Reg
<1>2. list \in SUBSET Nat /\ \A n \in list : n <= 15 BY <1>1
<1>3. IsFiniteSet(list) BY <1>2, FS_BoundedSetOfNaturals
<1>4. ASSUME NEW n PROVE below(list, n) \in Nat
  <2>1. {j \in list : j < n} \subseteq list OBVIOUS
  <2>2. IsFiniteSet({j \in list : j < n}) BY <1>3, <2>1, FS_Subset
  <2> QED BY <2>2, FS_CardinalityType DEF below
<1> QED BY <1>1, <1>3, <1>4, FS_CardinalityType

\* What is left of a number modulo the words is a word.
LEMMA RemainderIsWord ==
  ASSUME NEW x \in Nat
  PROVE  x % (UINT32_MAX + 1) \in Word
<1>1. PICK M \in Nat \ {0} : M = UINT32_MAX + 1 BY RegistersAssumption
<1>2. x % M \in 0..M - 1 OBVIOUS
<1>3. M - 1 = UINT32_MAX BY <1>1, RegistersAssumption
<1> QED BY <1>1, <1>2, <1>3 DEF Word

\* The address of each register of a list is a word.
LEMMA SlotIsWord ==
  ASSUME NEW r \in registers_data, NEW i, i.list \in SUBSET Reg, NEW n
  PROVE  slot(r, i, n) \in Word
<1>1. PICK size : size = (4 * count_set_bits(i.list)) % (UINT32_MAX + 1) OBVIOUS
<1>2. PICK at : at = (4 * below(i.list, n)) % (UINT32_MAX + 1) OBVIOUS
<1>3. PICK v : v = arm_read_register(r, i.rn) OBVIOUS
<1>4. size \in Word
  <2>1. 4 * count_set_bits(i.list) \in Nat BY ListIsFinite DEF count_set_bits
  <2> QED BY <1>1, <2>1, RemainderIsWord
<1>5. at \in Word
  <2>1. PICK k \in Nat : k = below(i.list, n) BY ListIsFinite
  <2>2. 4 * k \in Nat OBVIOUS
  <2> QED BY <1>2, <2>1, <2>2, RemainderIsWord
<1>6. v \in Word BY <1>3, CoreReadIsWord
<1>7. start_adr(r, i) \in {v, plus(v, 4), plus(minus(v, size), 4), minus(v, size)}
  BY <1>1, <1>3, Zenon DEF start_adr
<1>8. minus(v, size) \in Word BY <1>4, <1>6, SumsAreWords
<1>9. start_adr(r, i) \in Word BY <1>6, <1>7, <1>8, SumsAreWords
<1> QED BY <1>2, <1>5, <1>9, SumsAreWords DEF slot

\* The loop of a load multiple, register after register.
ReadsOf(value, r, m, i, unread) ==
  /\ value[-1] = unread
  /\ \A n \in 0..15 :
       value[n] = IF n \in i.list /\ read_fits(4, slot(r, i, n))
                  THEN value_of(m, 4, slot(r, i, n), ENDIANESS)
                  ELSE value[n - 1]

\* The loop of a load multiple turns as ReadsOf says.
LEMMA ReadLoop ==
  ASSUME NEW r \in registers_data, NEW m \in [0..MemSize - 1 -> Byte],
         NEW i, i.list \in SUBSET Reg, NEW unread \in Word, NEW value,
         value = word_read(r, m, i, unread)
  PROVE  ReadsOf(value, r, m, i, unread)
<1> DEFINE reads(n) == n \in i.list /\ read_fits(4, slot(r, i, n))
           at(n) == value_of(m, 4, slot(r, i, n), ENDIANESS)
           G == [p \in (0..15) \X Word |-> IF reads(p[1]) THEN at(p[1]) ELSE p[2]]
           words == CHOOSE words : words = [n \in -1..15 |->
                      CASE n = -1 -> unread
                        [] n \in i.list /\ read_fits(4, slot(r, i, n)) ->
                             value_of(m, 4, slot(r, i, n), ENDIANESS)
                        [] OTHER -> words[n - 1]]
<1>1. i.list \subseteq 0..15 BY ListIsFinite
<1>2. ASSUME NEW n, reads(n) PROVE at(n) \in Word
  BY <1>2, SlotIsWord, ReadValueIsWord, TransferAssumption DEF Sizes
<1> HIDE DEF at
<1>3. G \in [(0..15) \X Word -> Word]
  <2>1. \A p \in (0..15) \X Word : (IF reads(p[1]) THEN at(p[1]) ELSE p[2]) \in Word
    BY <1>2
  <2> QED BY <2>1
<1>4. PICK f : IterationOf(f, 15, Word, unread, G)
  <2>1. 15 \in Nat OBVIOUS
  <2> HIDE DEF G
  <2> QED BY <1>3, <2>1, LoopExists
<1>4a. /\ f \in [-1..15 -> Word] /\ f[-1] = unread
      /\ \A n \in 0..15 : f[n] = G[<<n, f[n - 1]>>]
  <2> HIDE DEF G
  <2> QED BY <1>4 DEF IterationOf
<1>5. ASSUME NEW n \in 0..15 PROVE f[n] = IF reads(n) THEN at(n) ELSE f[n - 1]
  <2>1. f[n - 1] \in Word BY <1>4a
  <2>2. <<n, f[n - 1]>> \in (0..15) \X Word BY <2>1
  <2>3. f[n] = G[<<n, f[n - 1]>>] BY <1>4a
  <2> HIDE DEF reads
  <2> QED BY <2>2, <2>3
<1>6. f = [n \in -1..15 |-> CASE n = -1 -> unread
                              [] n \in i.list /\ read_fits(4, slot(r, i, n)) ->
                                   value_of(m, 4, slot(r, i, n), ENDIANESS)
                              [] OTHER -> f[n - 1]]
  <2>1. f = [n \in -1..15 |-> f[n]] BY <1>4a
  <2>2. ASSUME NEW n \in -1..15
        PROVE  f[n] = CASE n = -1 -> unread
                        [] n \in i.list /\ read_fits(4, slot(r, i, n)) ->
                             value_of(m, 4, slot(r, i, n), ENDIANESS)
                        [] OTHER -> f[n - 1]
    <3>1. CASE n = -1
      <4>1. n \notin i.list BY <1>1, <3>1
      <4> QED BY <1>4a, <3>1, <4>1
    <3>2. CASE n # -1
      <4>1. n \in 0..15 BY <3>2
      <4> QED BY <1>5, <3>2, <4>1 DEF at
    <3> QED BY <3>1, <3>2
  <2> QED BY <2>1, <2>2
<1>7. words = [n \in -1..15 |-> CASE n = -1 -> unread
                                  [] n \in i.list /\ read_fits(4, slot(r, i, n)) ->
                                       value_of(m, 4, slot(r, i, n), ENDIANESS)
                                  [] OTHER -> words[n - 1]]
  BY <1>6
<1>8. value = words BY DEF word_read
<1> HIDE DEF words
<1>9. value[-1] = unread
  <2>1. -1 \notin i.list BY <1>1
  <2> QED BY <1>7, <1>8, <2>1
<1>10. ASSUME NEW n \in 0..15
       PROVE  value[n] = IF reads(n) THEN at(n) ELSE value[n - 1]
  BY <1>7, <1>8 DEF at
<1> QED BY <1>9, <1>10 DEF at, ReadsOf

\* The words that a load multiple takes from the memory, or from the stack.
LEMMA WordsRead ==
  ASSUME NEW r \in registers_data, NEW m \in [0..MemSize - 1 -> Byte],
         NEW i, i.list \in SUBSET Reg, NEW unread \in Word
  PROVE  \A n \in i.list : word_read(r, m, i, unread)[n] \in Word
<1>1. i.list \subseteq 0..15 BY ListIsFinite
<1>2. PICK value : value = word_read(r, m, i, unread) OBVIOUS
<1>2a. ReadsOf(value, r, m, i, unread) BY <1>2, ReadLoop
<1>3. ASSUME NEW n \in 0..15, value[n - 1] \in Word PROVE value[n] \in Word
  <2>1. PICK a \in Word : a = slot(r, i, n) BY SlotIsWord
  <2>2. value[n] = IF n \in i.list /\ read_fits(4, a)
                   THEN value_of(m, 4, a, ENDIANESS) ELSE value[n - 1]
    BY <1>2a, <2>1 DEF ReadsOf
  <2>3. read_fits(4, a) => value_of(m, 4, a, ENDIANESS) \in Word
    BY ReadValueIsWord, TransferAssumption DEF Sizes
  <2> QED BY <1>3, <2>2, <2>3
<1>4. value[-1] = unread BY <1>2a DEF ReadsOf
<1>5. \A n \in -1..15 : value[n] \in Word BY <1>3, <1>4, LoopTyped
<1> QED BY <1>1, <1>2, <1>5

\* The loop of a store multiple: what the memory holds after each register.
StoresOf(f, r, m, i) ==
  LET w == start_end_adresse(r, i)
  IN  /\ f[-1] = m
      /\ \A n \in -1..14 : f[n] \in [0..MemSize - 1 -> Byte]
      /\ \A n \in 0..14 :
           f[n] = IF n \in i.list
                  THEN arm_write(w, f[n - 1], 4, slot(r, i, n), arm_read_register(w, n)).mem
                  ELSE f[n - 1]

\* The loop of a store multiple turns as StoresOf says.
LEMMA StoreLoop ==
  ASSUME NEW r \in registers_data, NEW m \in [0..MemSize - 1 -> Byte],
         NEW i, i.list \in SUBSET Reg
  PROVE  \E f : /\ StoresOf(f, r, m, i)
                /\ store_multiple(r, m, i) =
                     Transferred(start_end_adresse(r, i), f[14], 0)
<1> DEFINE bytes == [0..MemSize - 1 -> Byte]
           w == start_end_adresse(r, i)
           put(x, n) == arm_write(w, x, 4, slot(r, i, n), arm_read_register(w, n)).mem
           after(n, x) == IF n \in i.list THEN put(x, n) ELSE x
           G == [p \in (0..14) \X bytes |-> after(p[1], p[2])]
           stores == CHOOSE stores : stores = [n \in -1..14 |->
                       IF n = -1 THEN m
                       ELSE IF n \in i.list
                            THEN arm_write(w, stores[n - 1], 4, slot(r, i, n),
                                           arm_read_register(w, n)).mem
                            ELSE stores[n - 1]]
<1>1. w \in registers_data BY BaseTyped
<1>2. ASSUME NEW n, NEW x \in bytes PROVE after(n, x) \in bytes
  <2>1. PICK v : v = arm_read_register(w, n) % power[4] OBVIOUS
  <2>2. v \in Nat
    <3>1. PICK y \in Nat : y = arm_read_register(w, n)
      BY <1>1, CoreReadIsWord, RegistersAssumption DEF Word
    <3>2. PICK p \in Nat \ {0} : p = power[4] BY PowersGrow
    <3> QED BY <2>1, <3>1, <3>2
  <2>3. slot(r, i, n) \in Word /\ 4 \in Sizes BY SlotIsWord DEF Sizes
  <2>4. stored(x, 4, slot(r, i, n), v, ENDIANESS) \in bytes
    BY <2>2, <2>3, StoredTyped, TransferAssumption
  <2>5. put(x, n) \in {x, stored(x, 4, slot(r, i, n), v, ENDIANESS)}
    BY <2>1 DEF arm_write, Transferred
  <2> HIDE DEF put
  <2> QED BY <2>4, <2>5
<1> HIDE DEF w, put
<1>3. G \in [(0..14) \X bytes -> bytes]
  <2>1. \A p \in (0..14) \X bytes : after(p[1], p[2]) \in bytes BY <1>2
  <2> HIDE DEF after, bytes
  <2> QED BY <2>1
<1>4. m \in bytes OBVIOUS
<1> HIDE DEF bytes
<1>5. PICK f : IterationOf(f, 14, bytes, m, G)
  <2>1. 14 \in Nat OBVIOUS
  <2> HIDE DEF G
  <2> QED BY <1>3, <1>4, <2>1, LoopExists
<1>5a. /\ f \in [-1..14 -> bytes] /\ f[-1] = m
      /\ \A n \in 0..14 : f[n] = G[<<n, f[n - 1]>>]
  <2> HIDE DEF G
  <2> QED BY <1>5 DEF IterationOf
<1>6. ASSUME NEW n \in 0..14 PROVE f[n] = after(n, f[n - 1])
  <2>1. f[n - 1] \in bytes BY <1>5a
  <2>2. <<n, f[n - 1]>> \in (0..14) \X bytes BY <2>1
  <2>3. f[n] = G[<<n, f[n - 1]>>] BY <1>5a
  <2> HIDE DEF after
  <2> QED BY <2>2, <2>3
<1>7. f = [n \in -1..14 |-> IF n = -1 THEN m
                            ELSE IF n \in i.list THEN put(f[n - 1], n) ELSE f[n - 1]]
  <2>1. f = [n \in -1..14 |-> f[n]] BY <1>5a
  <2>2. \A n \in -1..14 : n # -1 => n \in 0..14 OBVIOUS
  <2> QED BY <1>5a, <1>6, <2>1, <2>2
<1>8. stores = [n \in -1..14 |-> IF n = -1 THEN m
                                 ELSE IF n \in i.list THEN put(stores[n - 1], n)
                                 ELSE stores[n - 1]]
  BY <1>7 DEF put
<1>9. store_multiple(r, m, i) = Transferred(w, stores[14], 0)
  BY DEF store_multiple, w
<1> HIDE DEF stores
<1>10. stores[-1] = m BY <1>8
<1>11. ASSUME NEW n \in 0..14 PROVE stores[n] = after(n, stores[n - 1])
  <2>1. n \in -1..14 /\ n # -1 OBVIOUS
  <2> QED BY <1>8, <2>1
<1>12. \A n \in 0..14 : stores[n - 1] \in bytes => stores[n] \in bytes
  <2> HIDE DEF after
  <2> QED BY <1>2, <1>11
<1>13. \A n \in -1..14 : stores[n] \in bytes BY <1>4, <1>10, <1>12, LoopTyped
<1>14. StoresOf(stores, r, m, i)
  BY <1>10, <1>11, <1>13 DEF StoresOf, bytes, put, w
<1> QED BY <1>9, <1>14 DEF w

\* A store multiple leaves bytes in the memory.
LEMMA StoresKeepBytes ==
  ASSUME NEW r \in registers_data, NEW m \in [0..MemSize - 1 -> Byte],
         NEW i, i.list \in SUBSET Reg
  PROVE  store_multiple(r, m, i).mem \in [0..MemSize - 1 -> Byte]
<1>1. PICK f : /\ StoresOf(f, r, m, i)
               /\ store_multiple(r, m, i) =
                    Transferred(start_end_adresse(r, i), f[14], 0)
  BY StoreLoop
<1>2. 14 \in -1..14 OBVIOUS
<1> QED BY <1>1, <1>2 DEF StoresOf, Transferred

\* Numbers that differ by a multiple of the number of words: x and y have the
\* same word.
SameWord(x, y) == x \in Int /\ y \in Int /\ \E k \in Int : x = y + k * (UINT32_MAX + 1)

\* Sums and differences of the same words are the same,
LEMMA SameWordAdds ==
  ASSUME NEW x, NEW y, NEW v, NEW w, SameWord(x, y), SameWord(v, w)
  PROVE  SameWord(x + v, y + w) /\ SameWord(x - v, y - w) /\ SameWord(y, x)
<1>1. PICK M \in Nat \ {0} : M = UINT32_MAX + 1 BY RegistersAssumption
<1>2. PICK k \in Int : x = y + k * M BY <1>1 DEF SameWord
<1>3. PICK l \in Int : v = w + l * M BY <1>1 DEF SameWord
<1>4. x \in Int /\ y \in Int /\ v \in Int /\ w \in Int BY DEF SameWord
<1>5. PICK p \in Int : p = k * M OBVIOUS
<1>6. PICK q \in Int : q = l * M OBVIOUS
<1>7. (k + l) * M = p + q /\ (k - l) * M = p - q /\ (-k) * M = -p
  BY <1>5, <1>6
<1>8. /\ x + v = (y + w) + (k + l) * M /\ x - v = (y - w) + (k - l) * M
      /\ y = x + (-k) * M
  BY <1>2, <1>3, <1>4, <1>5, <1>6, <1>7
<1>9. k + l \in Int /\ k - l \in Int /\ -k \in Int OBVIOUS
<1>10. x + v \in Int /\ y + w \in Int /\ x - v \in Int /\ y - w \in Int BY <1>4
<1> HIDE DEF SameWord
<1>11. SameWord(x + v, y + w) BY <1>1, <1>8, <1>9, <1>10 DEF SameWord
<1>12. SameWord(x - v, y - w) BY <1>1, <1>8, <1>9, <1>10 DEF SameWord
<1>13. SameWord(y, x) BY <1>1, <1>4, <1>8, <1>9 DEF SameWord
<1> QED BY <1>11, <1>12, <1>13

\* the same as the same is the same,
LEMMA SameWordChains ==
  ASSUME NEW x, NEW y, NEW z, SameWord(x, y), SameWord(y, z)
  PROVE  SameWord(x, z)
<1>1. PICK M \in Nat \ {0} : M = UINT32_MAX + 1 BY RegistersAssumption
<1>2. PICK k \in Int : x = y + k * M BY <1>1 DEF SameWord
<1>3. PICK l \in Int : y = z + l * M BY <1>1 DEF SameWord
<1>4. x \in Int /\ y \in Int /\ z \in Int BY DEF SameWord
<1>5. (k + l) * M = k * M + l * M OBVIOUS
<1>6. PICK p \in Int : p = k * M OBVIOUS
<1>7. PICK q \in Int : q = l * M OBVIOUS
<1>8. x = z + (k + l) * M BY <1>2, <1>3, <1>4, <1>5, <1>6, <1>7
<1>9. k + l \in Int OBVIOUS
<1> QED BY <1>1, <1>4, <1>8, <1>9 DEF SameWord

\* and a number is the same as itself.
LEMMA SameWordReflexive ==
  ASSUME NEW x \in Int
  PROVE  SameWord(x, x)
<1>1. PICK M \in Nat \ {0} : M = UINT32_MAX + 1 BY RegistersAssumption
<1>2. x = x + 0 * M OBVIOUS
<1> QED BY <1>1, <1>2 DEF SameWord

\* What is left modulo the words is the same word.
LEMMA RemainderIsSame ==
  ASSUME NEW x \in Nat
  PROVE  SameWord(x % (UINT32_MAX + 1), x)
<1>1. PICK M \in Nat \ {0} : M = UINT32_MAX + 1 BY RegistersAssumption
<1>2. PICK q \in Nat : q = x \div M OBVIOUS
<1>3. PICK e \in Nat : e = x % M OBVIOUS
<1>4. x = M * q + e BY <1>2, <1>3
<1>5. (-q) * M = -(M * q) OBVIOUS
<1>6. PICK p \in Int : p = M * q OBVIOUS
<1>7. e = x + (-q) * M BY <1>4, <1>5, <1>6
<1>8. -q \in Int OBVIOUS
<1> QED BY <1>1, <1>3, <1>7, <1>8 DEF SameWord

\* plus and minus are the sum and the difference up to a multiple.
LEMMA SumsAreSame ==
  ASSUME NEW x \in Word, NEW y \in Word
  PROVE  SameWord(plus(x, y), x + y) /\ SameWord(minus(x, y), x - y)
<1>1. UINT32_MAX \in Nat /\ x \in Nat /\ y \in Nat /\ y <= UINT32_MAX
  BY RegistersAssumption DEF Word
<1>2. x + y \in Nat /\ x + (UINT32_MAX + 1) - y \in Nat BY <1>1
<1>3. SameWord(plus(x, y), x + y) BY <1>2, RemainderIsSame DEF plus
<1>4. SameWord(minus(x, y), x + (UINT32_MAX + 1) - y) BY <1>2, RemainderIsSame DEF minus
<1>5. SameWord(x + (UINT32_MAX + 1) - y, x - y)
  <2>1. x + (UINT32_MAX + 1) - y = (x - y) + 1 * (UINT32_MAX + 1) BY <1>1
  <2> QED BY <1>1, <1>2, <2>1 DEF SameWord
<1> QED BY <1>3, <1>4, <1>5, SameWordChains

\* Two words that are the same up to a multiple are equal.
LEMMA SameWordsEqual ==
  ASSUME NEW x \in Word, NEW y \in Word, SameWord(x, y)
  PROVE  x = y
<1>1. PICK M \in Nat \ {0} : M = UINT32_MAX + 1 BY RegistersAssumption
<1>2. x \in 0..M - 1 /\ y \in 0..M - 1
  <2>1. M - 1 = UINT32_MAX BY <1>1, RegistersAssumption
  <2> QED BY <2>1 DEF Word
<1>3. PICK k \in Int : x = y + k * M BY <1>1 DEF SameWord
<1>4. CASE k >= 1
  <2>1. k * M >= M BY <1>4
  <2>2. PICK p \in Int : p = k * M OBVIOUS
  <2> QED BY <1>2, <1>3, <2>1, <2>2
<1>5. CASE k <= -1
  <2>1. k * M <= -M BY <1>5
  <2>2. PICK p \in Int : p = k * M OBVIOUS
  <2> QED BY <1>2, <1>3, <2>1, <2>2
<1>6. CASE k = 0 BY <1>2, <1>3, <1>6
<1> QED BY <1>4, <1>5, <1>6

\* Of the registers of a list with r15, r15 has all the others below it.
LEMMA BelowLast ==
  ASSUME NEW list \in SUBSET Reg, 15 \in list
  PROVE  below(list, 15) = Cardinality(list) - 1
<1>1. list \subseteq 0..15 /\ IsFiniteSet(list) BY ListIsFinite
<1>2. {j \in list : j < 15} = list \ {15}
  <2>1. \A j \in list : j \in 0..15 BY <1>1
  <2>2. \A j \in list : j < 15 <=> j # 15 BY <2>1
  <2> QED BY <2>2
<1>3. Cardinality(list \ {15}) = Cardinality(list) - 1 BY <1>1, FS_RemoveElement
<1> QED BY <1>2, <1>3 DEF below

\* The end address that the code computes is the slot of r15, except that the
\* increment-after form takes the number of the base register for its value:
\* the assertion of a load multiple (load_store_addressing_operations.c) fails
\* exactly then.
LEMMA EndIsSlot ==
  ASSUME NEW r \in registers_data, NEW i, i.list \in SUBSET Reg, 15 \in i.list,
         i.rn \in Reg, i.P \in 0..1, i.U \in 0..1
  PROVE  end_adr(r, i) = slot(r, i, 15) <=> ~assertion_fails(r, i)
<1>1. PICK v \in Word : v = arm_read_register(r, i.rn) BY CoreReadIsWord
<1>2. PICK c \in Nat : c = Cardinality(i.list) BY ListIsFinite
<1>3. PICK N \in Word : N = (4 * c) % (UINT32_MAX + 1)
  <2>1. 4 * c \in Nat OBVIOUS
  <2> QED BY <2>1, RemainderIsWord
<1>4. below(i.list, 15) = c - 1 /\ c - 1 \in Nat
  <2>1. below(i.list, 15) \in Nat BY ListIsFinite
  <2> QED BY <1>2, <2>1, BelowLast
<1>5. PICK B \in Word : B = (4 * (c - 1)) % (UINT32_MAX + 1)
  <2>1. 4 * (c - 1) \in Nat BY <1>4
  <2> QED BY <2>1, RemainderIsWord
<1>6. v \in Int /\ N \in Int /\ B \in Int /\ 4 \in Int /\ 4 \in Word
  BY RegistersAssumption, SumsAreWords DEF Word
<1>7. SameWord(B, N - 4)
  <2>1. 4 * c \in Nat /\ 4 * (c - 1) \in Nat BY <1>4
  <2>2. SameWord(N, 4 * c) BY <1>3, <2>1, RemainderIsSame
  <2>3. SameWord(B, 4 * (c - 1)) BY <1>5, <2>1, RemainderIsSame
  <2>4. SameWord(4, 4) BY SameWordReflexive
  <2>5. SameWord(N - 4, 4 * c - 4) BY <2>2, <2>4, SameWordAdds
  <2>6. PICK d : d = 4 * (c - 1) OBVIOUS
  <2>7. d = 4 * c - 4 BY <2>6
  <2>8. SameWord(N - 4, d) /\ SameWord(B, d) BY <2>3, <2>5, <2>6, <2>7
  <2>9. SameWord(d, N - 4) BY <2>8, SameWordAdds
  <2> QED BY <2>8, <2>9, SameWordChains
<1>8. /\ end_adr(r, i) =
           IF i.P = 0 /\ i.U = 1 THEN minus(plus(i.rn, N), 4)
           ELSE IF i.P = 1 /\ i.U = 1 THEN plus(v, N)
           ELSE IF i.P = 0 /\ i.U = 0 THEN v ELSE minus(v, 4)
      /\ start_adr(r, i) =
           IF i.P = 0 /\ i.U = 1 THEN v
           ELSE IF i.P = 1 /\ i.U = 1 THEN plus(v, 4)
           ELSE IF i.P = 0 /\ i.U = 0 THEN plus(minus(v, N), 4) ELSE minus(v, N)
  BY <1>1, <1>2, <1>3 DEF end_adr, start_adr, count_set_bits
<1>9. PICK start : start = start_adr(r, i) OBVIOUS
<1>10. slot(r, i, 15) = plus(start, B) BY <1>4, <1>5, <1>9 DEF slot
<1>11. ASSUME NEW x \in Int, start \in Word, SameWord(start, x)
       PROVE  SameWord(plus(start, B), x + (N - 4)) /\ plus(start, B) \in Word
  <2>1. SameWord(plus(start, B), start + B) BY <1>11, SumsAreSame
  <2>2. SameWord(start + B, x + (N - 4)) BY <1>7, <1>11, SameWordAdds
  <2>3. plus(start, B) \in Word BY <1>11, SumsAreWords
  <2> QED BY <2>1, <2>2, <2>3, SameWordChains
<1>12. ASSUME NEW e \in Word, NEW x \in Int, NEW y \in Int, SameWord(e, y),
              start \in Word, SameWord(start, x), y = x + (N - 4)
       PROVE  e = plus(start, B)
  <2>1. SameWord(plus(start, B), y) /\ plus(start, B) \in Word BY <1>11, <1>12
  <2>2. SameWord(y, e) BY <1>12, SameWordAdds
  <2>3. SameWord(plus(start, B), e) BY <2>1, <2>2, SameWordChains
  <2>4. plus(start, B) = e BY <2>1, <2>3, SameWordsEqual
  <2> QED BY <2>4
<1>13. CASE i.P = 1 /\ i.U = 1
  <2>1. end_adr(r, i) = plus(v, N) /\ start = plus(v, 4) BY <1>8, <1>9, <1>13
  <2>2. SameWord(plus(v, N), v + N) /\ plus(v, N) \in Word BY SumsAreSame, SumsAreWords
  <2>3. SameWord(start, v + 4) /\ start \in Word BY <1>6, <2>1, SumsAreSame, SumsAreWords
  <2>4. v + N \in Int /\ v + 4 \in Int /\ v + N = (v + 4) + (N - 4) BY <1>6
  <2>5. plus(v, N) = plus(start, B) BY <1>12, <2>2, <2>3, <2>4
  <2> QED BY <1>10, <1>13, <2>1, <2>5 DEF assertion_fails
<1>14. CASE i.P = 0 /\ i.U = 0
  <2>1. end_adr(r, i) = v /\ start = plus(minus(v, N), 4) BY <1>8, <1>9, <1>14
  <2>2. SameWord(v, v) BY <1>6, SameWordReflexive
  <2>3. PICK d \in Word : d = minus(v, N) BY SumsAreWords
  <2>4. SameWord(d, v - N) BY <2>3, SumsAreSame
  <2>5. SameWord(start, d + 4) /\ start \in Word BY <1>6, <2>1, <2>3, SumsAreSame, SumsAreWords
  <2>6. SameWord(4, 4) BY <1>6, SameWordReflexive
  <2>7. SameWord(d + 4, (v - N) + 4) BY <2>4, <2>6, SameWordAdds
  <2>8. SameWord(start, (v - N) + 4) BY <2>5, <2>7, SameWordChains
  <2>9. (v - N) + 4 \in Int /\ v = ((v - N) + 4) + (N - 4) BY <1>6
  <2>10. v = plus(start, B) BY <1>6, <1>12, <2>2, <2>5, <2>8, <2>9
  <2> QED BY <1>10, <1>14, <2>1, <2>10 DEF assertion_fails
<1>15. CASE i.P = 1 /\ i.U = 0
  <2>1. end_adr(r, i) = minus(v, 4) /\ start = minus(v, N) BY <1>8, <1>9, <1>15
  <2>2. SameWord(minus(v, 4), v - 4) /\ minus(v, 4) \in Word
    BY <1>6, SumsAreSame, SumsAreWords
  <2>3. SameWord(start, v - N) /\ start \in Word BY <2>1, SumsAreSame, SumsAreWords
  <2>4. v - N \in Int /\ v - 4 \in Int /\ v - 4 = (v - N) + (N - 4) BY <1>6
  <2>5. minus(v, 4) = plus(start, B) BY <1>12, <2>2, <2>3, <2>4
  <2> QED BY <1>10, <1>15, <2>1, <2>5 DEF assertion_fails
<1>16. CASE i.P = 0 /\ i.U = 1
  <2>1. end_adr(r, i) = minus(plus(i.rn, N), 4) /\ start = v BY <1>8, <1>9, <1>16
  <2>2. i.rn \in Word /\ i.rn \in Int
    <3>1. i.rn \in 0..15 BY RegistersAssumption DEF Reg
    <3>2. UINT32_MAX \in Nat /\ UINT32_MAX >= 28
      BY RegistersAssumption, ExceptionAssumption
    <3> QED BY <3>1, <3>2 DEF Word
  <2>3. PICK p \in Word : p = plus(i.rn, N) BY <2>2, SumsAreWords
  <2>4. PICK e \in Word : e = minus(p, 4) BY <1>6, <2>3, SumsAreWords
  <2>5. SameWord(p, i.rn + N) BY <2>2, <2>3, SumsAreSame
  <2>6. SameWord(e, p - 4) BY <1>6, <2>4, SumsAreSame
  <2>7. SameWord(4, 4) BY <1>6, SameWordReflexive
  <2>8. SameWord(p - 4, (i.rn + N) - 4) BY <2>5, <2>7, SameWordAdds
  <2>9. SameWord(e, (i.rn + N) - 4) BY <2>6, <2>8, SameWordChains
  <2>10. (i.rn + N) - 4 = i.rn + (N - 4) /\ i.rn + (N - 4) \in Int /\ N - 4 \in Int
    BY <1>6, <2>2
  <2>11. SameWord(e, i.rn + (N - 4)) BY <2>9, <2>10
  <2>12. SameWord(v, v) BY <1>6, SameWordReflexive
  <2>13. i.rn = v => e = plus(start, B)
    BY <1>6, <1>12, <2>1, <2>10, <2>11, <2>12
  <2>14. ASSUME e = plus(start, B) PROVE i.rn = v
    <3>1. SameWord(e, v + (N - 4)) BY <1>6, <1>11, <2>1, <2>12, <2>14
    <3>2. SameWord(v + (N - 4), e) BY <3>1, SameWordAdds
    <3>3. SameWord(v + (N - 4), i.rn + (N - 4)) BY <2>11, <3>2, SameWordChains
    <3>4. SameWord(N - 4, N - 4) BY <2>10, SameWordReflexive
    <3>5. SameWord((v + (N - 4)) - (N - 4), (i.rn + (N - 4)) - (N - 4))
      BY <3>3, <3>4, SameWordAdds
    <3>6. (v + (N - 4)) - (N - 4) = v /\ (i.rn + (N - 4)) - (N - 4) = i.rn
      BY <1>6, <2>2
    <3>7. SameWord(v, i.rn) BY <3>5, <3>6
    <3> QED BY <2>2, <3>7, SameWordsEqual
  <2>15. assertion_fails(r, i) <=> v # i.rn BY <1>1, <1>16 DEF assertion_fails
  <2> QED BY <1>10, <2>1, <2>3, <2>4, <2>13, <2>14, <2>15
<1> QED BY <1>13, <1>14, <1>15, <1>16

\* load_all looks at nothing but the words of the registers it loads.
LEMMA LoadAllAgrees ==
  ASSUME NEW r \in registers_data, NEW list, NEW f, NEW g, \A n \in list : f[n] = g[n]
  PROVE  load_all(r, list, f) = load_all(r, list, g)
<1> DEFINE mode == registers_get_mode(r)
           high == IF mode \in Modes THEN list ELSE {}
           pc(h) == IF 15 \in list THEN clear_bit_0(h[15]) ELSE r.pc
           lo(h) == [n \in LowRegs |-> IF n \in list THEN h[n] ELSE r.tab_r0_r7[n]]
           mid(h) == [n \in MidRegs |-> [k \in 0..1 |->
                        IF n \in list /\ k = r8_r12_bank(mode)
                        THEN h[n] ELSE r.tab_r8_r12[n][k]]]
           hi(h) == [n \in HighRegs |-> [k \in 0..5 |->
                       IF n \in high /\ k = r13_r14_bank(mode)
                       THEN h[n] ELSE r.tab_r13_r14[n][k]]]
<1>1. pc(f) = pc(g) OBVIOUS
<1>2. lo(f) = lo(g) OBVIOUS
<1>3. mid(f) = mid(g)
  <2>1. \A n \in MidRegs, k \in 0..1 :
          (IF n \in list /\ k = r8_r12_bank(mode) THEN f[n] ELSE r.tab_r8_r12[n][k])
            = (IF n \in list /\ k = r8_r12_bank(mode) THEN g[n] ELSE r.tab_r8_r12[n][k])
    OBVIOUS
  <2> QED BY <2>1
<1>4. hi(f) = hi(g)
  <2>1. \A n \in HighRegs, k \in 0..5 :
          (IF n \in high /\ k = r13_r14_bank(mode) THEN f[n] ELSE r.tab_r13_r14[n][k])
            = (IF n \in high /\ k = r13_r14_bank(mode) THEN g[n] ELSE r.tab_r13_r14[n][k])
    OBVIOUS
  <2> QED BY <2>1
<1>5. load_all(r, list, f) =
        [r EXCEPT !.pc = pc(f), !.tab_r0_r7 = lo(f), !.tab_r8_r12 = mid(f),
                  !.tab_r13_r14 = hi(f)]
  BY DEF load_all
<1>6. load_all(r, list, g) =
        [r EXCEPT !.pc = pc(g), !.tab_r0_r7 = lo(g), !.tab_r8_r12 = mid(g),
                  !.tab_r13_r14 = hi(g)]
  BY DEF load_all
<1> HIDE DEF pc, lo, mid, hi
<1> QED BY <1>1, <1>2, <1>3, <1>4, <1>5, <1>6

\* A multiple transfer and the class of its instruction.
LEMMA MultipleInClass ==
  ASSUME NEW r \in registers_data, NEW m, NEW i \in Instructions, i.op \in {"ldm", "stm"},
         NEW o \in arm_load_store_multiple(r, m, i)
  PROVE  Outcome(o.reg, o.result) \in OutcomesOfClass(r, m, i)
<1>1. i.list \in SUBSET Reg /\ i.rn \in Reg /\ i.P \in 0..1 /\ i.U \in 0..1
  BY DEF Instructions
<1>2. PICK w : w = start_end_adresse(r, i) OBVIOUS
<1>3. CASE i.op = "stm"
  <2>1. o = store_multiple(r, m, i) BY <1>3 DEF arm_load_store_multiple
  <2>2. o.reg = w /\ o.result = 0 BY <1>2, <2>1 DEF store_multiple, Transferred
  <2>3. OutcomesOfClass(r, m, i) = {Outcome(w, 0)} BY <1>2, <1>3 DEF OutcomesOfClass, stm
  <2> QED BY <2>2, <2>3
<1>4. CASE i.op = "ldm"
  <2>1. PICK unread \in Unread : o = load_multiple(r, m, i, unread)
    BY <1>4 DEF arm_load_store_multiple
  <2>2. PICK value : value = word_read(r, m, i, unread) OBVIOUS
  <2>3. PICK f : f = [n \in i.list |-> value[n]] OBVIOUS
  <2>4. PICK g : g = load_all(w, i.list, f) OBVIOUS
  <2>5. PICK x : x = IF 15 \in i.list => end_adr(r, i) = slot(r, i, 15) THEN 0 ELSE Aborted
    OBVIOUS
  <2>6. o = Transferred(g, m, x)
    BY <1>2, <2>1, <2>2, <2>3, <2>4, <2>5 DEF load_multiple
  <2>7. x = IF assertion_fails(r, i) THEN Aborted ELSE 0
    <3>1. CASE 15 \in i.list BY <1>1, <2>5, <3>1, EndIsSlot
    <3>2. CASE 15 \notin i.list BY <2>5, <3>2 DEF assertion_fails
    <3> QED BY <3>1, <3>2
  <2>8. w \in registers_data BY <1>1, <1>2, BaseTyped
  <2>9. g = load_all(w, i.list, value)
    <3>1. \A n \in i.list : f[n] = value[n] BY <2>3
    <3> QED BY <2>4, <2>8, <3>1, LoadAllAgrees
  <2>10. Outcome(g, x) \in ldm(r, i, value) BY <1>2, <2>7, <2>9 DEF ldm
  <2>11. OutcomesOfClass(r, m, i) =
           UNION {ldm(r, i, word_read(r, m, i, u)) : u \in Unread}
    BY <1>4 DEF OutcomesOfClass
  <2>12. Outcome(g, x) \in OutcomesOfClass(r, m, i) BY <2>2, <2>10, <2>11, Zenon
  <2>13. o.reg = g /\ o.result = x BY <2>6 DEF Transferred
  <2> QED BY <2>12, <2>13
<1> QED BY <1>3, <1>4

-----------------------------------------------------------------------------
(* The program. *)

\* What the class of an instruction allows is typed, whatever the class.
LEMMA ClassTyped ==
  ASSUME NEW r \in registers_data, NEW m \in [0..MemSize - 1 -> Byte],
         NEW i \in Instructions, NEW x \in OutcomesOfClass(r, m, i)
  PROVE  Typed(x)
<1>1. i.op \in {"dp", "single", "ldm", "stm"} BY DEF Instructions
<1>2. CASE i.op = "dp"
  <2>1. i.code \in Codes /\ i.sh \in Shifters BY <1>2 DEF Instructions
  <2>2. PICK sh : sh = carry(r, i.sh) OBVIOUS
  <2>3. PICK op1 \in Word : op1 = arm_read_register(r, i.rn) BY CoreReadIsWord
  <2>4. PICK v : v = computed(i.code, op1, sh.operand, sh.c) OBVIOUS
  <2>5. v = computed(i.code, arm_read_register(r, i.rn), sh.operand, sh.c)
    BY <2>3, <2>4
  <2>6. IsShifted(sh) BY <2>1, <2>2, CarryTyped
  <2>7. v \in Word BY <2>1, <2>4, <2>6, ComputedTyped DEF IsShifted
  <2>8. CASE i.code \in {"tst", "cmp", "cmn"}
    <3>1. x \in test(r, v) BY <1>2, <2>2, <2>5, <2>8, ClassOfDataProcessing
    <3> QED BY <3>1, TestTyped
  <2>9. CASE i.code = "teq"
    <3>1. x \in teq(r, i.rd, v) BY <1>2, <2>2, <2>5, <2>9, ClassOfDataProcessing
    <3> QED BY <2>7, <3>1, TeqTyped
  <2>10. CASE i.code = "adc"
    <3>1. x \in UNION {adc(r, i.rd, i.S, v, sum) :
                         sum \in {plus(arm_read_register(o.reg, i.rd), sh.c) :
                                    o \in alu(r, i.rd, i.S, v)}}
      BY <1>2, <2>2, <2>5, <2>10, ClassOfDataProcessing
    <3>2. PICK o \in alu(r, i.rd, i.S, v) :
            x \in adc(r, i.rd, i.S, v, plus(arm_read_register(o.reg, i.rd), sh.c))
      BY <3>1
    <3>3. o.reg \in registers_data BY <2>7, AluTyped DEF Typed
    <3>4. sh.c \in Word
      BY <2>6, RegistersAssumption, ExceptionAssumption DEF IsShifted, Word
    <3>5. plus(arm_read_register(o.reg, i.rd), sh.c) \in Word
      BY <3>3, <3>4, CoreReadIsWord, SumsAreWords
    <3> QED BY <2>7, <3>2, <3>5, AdcTyped
  <2>11. CASE i.code \notin Compares \cup {"adc"}
    <3>1. x \in alu(r, i.rd, i.S, v) BY <1>2, <2>2, <2>5, <2>11, ClassOfDataProcessing
    <3> QED BY <2>7, <3>1, AluTyped
  <2> QED BY <2>8, <2>9, <2>10, <2>11 DEF Compares
<1>3. CASE i.op = "single"
  <2>1. /\ i.L \in 0..1 /\ i.off \in Offsets /\ i.size \in Sizes
        /\ i.P \in 0..1 /\ i.W \in BOOLEAN
    BY <1>3 DEF Instructions
  <2>2. PICK a : a = calculate_address(r, i.rn, offset_of(r, i.off), i.U) OBVIOUS
  <2>3. PICK moves : moves = [rn |-> i.rn, rd |-> i.rd, wb |-> i.P = 0 \/ i.W] OBVIOUS
  <2>4. a \in Word BY <2>1, <2>2, OffsetTyped, AddressTyped
  <2>5. CASE i.P = 0 /\ i.W
    <3>1. x = Outcome(r, UNDEFINED_INSTRUCTION)
      BY <1>3, <2>1, <2>2, <2>3, <2>5, ClassOfSingle
    <3> QED BY <3>1 DEF Typed, Outcome, UNDEFINED_INSTRUCTION
  <2>6. CASE ~(i.P = 0 /\ i.W) /\ i.L = 1
    <3>1. PICK v : v = IF read_fits(i.size, a) THEN value_of(m, i.size, a, ENDIANESS) ELSE 0
      OBVIOUS
    <3>2. v \in Word
      BY <2>1, <2>4, <3>1, ReadValueIsWord, TransferAssumption, SumsAreWords
    <3>3. x \in ldr(r, moves, a, v)
      BY <1>3, <2>1, <2>2, <2>3, <2>6, <3>1, ClassOfSingle
    <3> QED BY <2>4, <3>2, <3>3, LoadStoreTyped
  <2>7. CASE ~(i.P = 0 /\ i.W) /\ i.L = 0
    <3>1. x \in str(r, moves, a)
      BY <1>3, <2>1, <2>2, <2>3, <2>7, ClassOfSingle
    <3> QED BY <2>4, <3>1, LoadStoreTyped
  <2> QED BY <2>1, <2>5, <2>6, <2>7
<1>4. CASE i.op = "ldm"
  <2>1. i.list \in SUBSET Reg BY <1>4 DEF Instructions
  <2>2. OutcomesOfClass(r, m, i) =
          UNION {ldm(r, i, word_read(r, m, i, u)) : u \in Unread}
    BY <1>4 DEF OutcomesOfClass
  <2>3. PICK u \in Unread : x \in ldm(r, i, word_read(r, m, i, u)) BY <2>2
  <2>4. \A n \in i.list : word_read(r, m, i, u)[n] \in Word
    BY <2>1, WordsRead, TransferAssumption
  <2> QED BY <2>1, <2>3, <2>4, MultipleTyped
<1>5. CASE i.op = "stm"
  <2>1. i.list \in SUBSET Reg BY <1>5 DEF Instructions
  <2>2. x = Outcome(start_end_adresse(r, i), 0) BY <1>5 DEF OutcomesOfClass, stm
  <2> QED BY <2>1, <2>2, BaseTyped DEF Typed, Outcome
<1> QED BY <1>1, <1>2, <1>3, <1>4, <1>5

\* Every instruction that is executed ends as its class allows.
LEMMA ExecuteInClass ==
  ASSUME NEW r \in registers_data, NEW m, NEW i \in Instructions,
         ConditionPassed(r.cpsr.bits, i.cond), NEW o \in execute(r, m, i)
  PROVE  Outcome(o.reg, o.result) \in OutcomesOfClass(r, m, i)
<1>1. i.op \in {"dp", "single", "ldm", "stm"} BY DEF Instructions
<1>2. CASE i.op = "dp"
  <2>1. PICK p : p = arm_data_processing_shift(r, i) OBVIOUS
  <2>2. o = beside(p, m) BY <1>2, <2>1 DEF execute
  <2>3. \E w, x : p = Outcome(w, x)
    <3>1. PICK op1, sh : p = operation(r, i, op1, sh.operand, sh.c)
      BY <2>1 DEF arm_data_processing_shift
    <3> QED BY <3>1, OperationIsOutcome
  <2>4. Outcome(o.reg, o.result) = p BY <2>2, <2>3 DEF beside, Transferred, Outcome
  <2> QED BY <1>2, <2>1, <2>4, DataProcessingInClass
<1>3. CASE i.op = "single"
  <2>1. o = arm_load_store(r, m, i) BY <1>3 DEF execute
  <2> QED BY <1>3, <2>1, SingleInClass
<1>4. CASE i.op \in {"ldm", "stm"}
  <2>1. o \in arm_load_store_multiple(r, m, i) BY <1>4 DEF execute
  <2> QED BY <1>4, <2>1, MultipleInClass
<1> QED BY <1>1, <1>2, <1>3, <1>4

\* What it leaves: words in the registers, bytes in the memory.
LEMMA ExecutionTyped ==
  ASSUME NEW r \in registers_data, NEW m \in [0..MemSize - 1 -> Byte],
         NEW i \in Instructions, NEW o \in execute(r, m, i)
  PROVE  /\ o.reg \in registers_data /\ o.result \in 0..256
         /\ o.mem \in [0..MemSize - 1 -> Byte]
<1>1. i.op \in {"dp", "single", "ldm", "stm"} BY DEF Instructions
<1>2. CASE ~ConditionPassed(r.cpsr.bits, i.cond)
  <2>1. o = Transferred(r, m, INTERRUPT) BY <1>2 DEF execute
  <2> QED BY <2>1 DEF Transferred, INTERRUPT
<1>3. CASE ConditionPassed(r.cpsr.bits, i.cond)
  <2>1. Typed(Outcome(o.reg, o.result)) BY <1>3, ExecuteInClass, ClassTyped
  <2>2. o.mem \in [0..MemSize - 1 -> Byte]
    <3>1. CASE i.op = "dp"
      <4>1. o.mem = m BY <1>3, <3>1 DEF execute, beside, Transferred
      <4> QED BY <4>1
    <3>2. CASE i.op = "single"
      <4>1. o = arm_load_store(r, m, i) BY <1>3, <3>2 DEF execute
      <4> QED BY <3>2, <4>1, SingleKeepsBytes
    <3>3. CASE i.op = "stm"
      <4>1. o = store_multiple(r, m, i)
        BY <1>3, <3>3 DEF execute, arm_load_store_multiple
      <4>2. i.list \in SUBSET Reg BY <3>3 DEF Instructions
      <4> QED BY <4>1, <4>2, StoresKeepBytes
    <3>4. CASE i.op = "ldm"
      <4>1. o \in arm_load_store_multiple(r, m, i) BY <1>3, <3>4 DEF execute
      <4>2. PICK unread : o = load_multiple(r, m, i, unread)
        BY <3>4, <4>1 DEF arm_load_store_multiple
      <4>3. \E w, x : o = Transferred(w, m, x) BY <4>2, Zenon DEF load_multiple
      <4> QED BY <4>3 DEF Transferred
    <3> QED BY <1>1, <3>1, <3>2, <3>3, <3>4
  <2> QED BY <2>1, <2>2 DEF Typed, Outcome
<1> QED BY <1>2, <1>3

\* Every step of the program keeps the types.
LEMMA ProgramStep ==
  ASSUME TypeOK, [Next]_vars
  PROVE  TypeOK'
<1>1. Program \subseteq Instructions /\ MaxSteps \in Nat BY MachineAssumption
<1>2. CASE Fetch
  <2>1. reg' = arm_fetch(reg) /\ ins' \in Program /\ steps' = steps + 1
        /\ mem' = mem /\ result' = result /\ steps < MaxSteps
    BY <1>2 DEF Fetch, Ready
  <2>2. reg' \in registers_data BY <2>1, FetchUndone DEF TypeOK
  <2>3. steps' \in 0..MaxSteps BY <1>1, <2>1 DEF TypeOK
  <2> QED BY <2>1, <2>2, <2>3 DEF TypeOK
<1>3. CASE FetchAbort
  <2>1. PICK o : o = fetch_fails(arm_fetch(reg)) OBVIOUS
  <2>2. arm_fetch(reg) \in registers_data BY FetchUndone DEF TypeOK
  <2>3. Typed(o) BY <2>1, <2>2, FetchFailsTyped
  <2>4. reg' = o.reg /\ result' = o.result /\ steps' = steps + 1
        /\ mem' = mem /\ ins' = ins /\ steps < MaxSteps
    BY <1>3, <2>1 DEF FetchAbort, Ready
  <2>5. steps' \in 0..MaxSteps BY <1>1, <2>4 DEF TypeOK
  <2> QED BY <2>3, <2>4, <2>5 DEF TypeOK, Typed
<1>4. CASE Execute
  <2>1. ins \in Instructions
    <3>1. ins # None /\ ins \in Program \cup {None} BY <1>4 DEF Execute, TypeOK
    <3> QED BY <1>1, <3>1
  <2>2. PICK o \in execute(reg, mem, ins) :
          LET entered == IF o.result \in {0, Aborted}
                         THEN Outcome(o.reg, o.result)
                         ELSE arm_exception(o.reg, o.result, "other")
          IN  /\ reg' = entered.reg
              /\ result' = entered.result
              /\ mem' = o.mem
    BY <1>4 DEF Execute
  <2>3. /\ o.reg \in registers_data /\ o.result \in 0..256
        /\ o.mem \in [0..MemSize - 1 -> Byte]
    BY <2>1, ExecutionTyped DEF TypeOK
  <2>4. PICK entered : entered = IF o.result \in {0, Aborted}
                                 THEN Outcome(o.reg, o.result)
                                 ELSE arm_exception(o.reg, o.result, "other")
    OBVIOUS
  <2>5. Typed(entered)
    <3>1. CASE o.result \in {0, Aborted} BY <2>3, <2>4, <3>1 DEF Typed, Outcome
    <3>2. CASE o.result \notin {0, Aborted}
      <4>1. o.result \in 0..255 BY <2>3, <3>2 DEF Aborted
      <4> QED BY <2>3, <2>4, <3>2, <4>1, ExceptionTyped
    <3> QED BY <3>1, <3>2
  <2>6. reg' = entered.reg /\ result' = entered.result /\ mem' = o.mem
    BY <2>2, <2>4
  <2>7. ins' = None /\ steps' = steps BY <1>4 DEF Execute
  <2> QED BY <2>3, <2>5, <2>6, <2>7 DEF TypeOK, Typed
<1>5. CASE UNCHANGED vars BY <1>5 DEF vars, TypeOK
<1> QED BY <1>2, <1>3, <1>4, <1>5 DEF Next

\* Whatever the program, its instructions compute words and transfer bytes: no
\* sum, shift, load or store of the simulator leaves a register or a cell of the
\* memory outside its range (arm_data_processing.c, arm_load_store.c).
THEOREM ProgramTypeCorrect == Spec => []TypeOK
<1>1. Init => TypeOK
  <2> SUFFICES ASSUME Init PROVE TypeOK OBVIOUS
  <2>1. reg \in registers_data /\ mem \in [0..MemSize - 1 -> Byte]
    BY MachineAssumption DEF Init, mode_update
  <2>2. ins = None /\ result = 0 /\ steps = 0 BY DEF Init
  <2>3. MaxSteps \in Nat BY MachineAssumption
  <2> QED BY <2>1, <2>2, <2>3 DEF TypeOK
<1>2. TypeOK /\ [Next]_vars => TypeOK' BY ProgramStep
<1> QED BY <1>1, <1>2, PTL DEF Spec

\* Every instruction, with the words it computes or finds in the memory, ends in
\* an outcome ArmInstruction allows its class: what is proved of ArmCore, which
\* takes any words, holds of programs (arm_instruction.c:98).
THEOREM InstructionsKeepToTheirClass == Spec => []ImplementsClass
<1>1. TypeOK => ImplementsClass
  <2> SUFFICES ASSUME TypeOK, ins # None, ConditionPassed(reg.cpsr.bits, ins.cond),
                      NEW o \in execute(reg, mem, ins)
               PROVE  Outcome(o.reg, o.result) \in OutcomesOfClass(reg, mem, ins)
    BY DEF ImplementsClass
  <2>1. reg \in registers_data /\ ins \in Instructions
    BY MachineAssumption DEF TypeOK
  <2> QED BY <2>1, ExecuteInClass
<1> QED BY <1>1, ProgramTypeCorrect, PTL

-----------------------------------------------------------------------------
(* What a compare decides. *)

\* A difference of words wraps around when it borrows.
LEMMA MinusIs ==
  ASSUME NEW x \in Word, NEW y \in Word
  PROVE  minus(x, y) = IF x >= y THEN x - y ELSE x - y + (UINT32_MAX + 1)
<1>1. PICK M \in Nat \ {0} : M = UINT32_MAX + 1 BY RegistersAssumption
<1>2. x \in 0..M - 1 /\ y \in 0..M - 1
  <2>1. M - 1 = UINT32_MAX BY <1>1, RegistersAssumption
  <2> QED BY <2>1 DEF Word
<1>3. minus(x, y) = (x + M - y) % M BY <1>1 DEF minus
<1>4. CASE x >= y
  <2>1. x - y \in 0..M - 1 BY <1>2, <1>4
  <2>2. x + M - y = M * 1 + (x - y) BY <1>2
  <2>3. (x + M - y) % M = x - y BY <2>1, <2>2
  <2> QED BY <1>3, <1>4, <2>3
<1>5. CASE ~(x >= y)
  <2>1. x + M - y \in 0..M - 1 BY <1>2, <1>5
  <2>2. (x + M - y) % M = x + M - y BY <2>1
  <2> QED BY <1>1, <1>2, <1>3, <1>5, <2>2
<1> QED BY <1>4, <1>5


\* The flags of a status register after they have been set.
LEMMA FlagsSet ==
  ASSUME NEW r \in registers_data, NEW v, NEW c, NEW o
  PROVE  LET bits == nzc_shifftercarry_update(r, v, c, o).cpsr.bits
         IN  /\ "N" \in bits <=> negative(v)
             /\ "Z" \in bits <=> v = 0
             /\ "C" \in bits <=> c
             /\ "V" \in bits <=> o
<1> DEFINE f == {g \in Flags : \/ g = "N" /\ negative(v)
                               \/ g = "Z" /\ v = 0
                               \/ g = "C" /\ c
                               \/ g = "V" /\ o}
           bits == nzc_shifftercarry_update(r, v, c, o).cpsr.bits
<1>1. Flags = {"N", "Z", "C", "V"} BY MachineAssumption DEF Flags
<1>2. /\ "N" \in f <=> negative(v)
      /\ "Z" \in f <=> v = 0
      /\ "C" \in f <=> c
      /\ "V" \in f <=> o
  BY <1>1
<1>3. nzc_shifftercarry_update(r, v, c, o) = set_flags(r, f)
  BY DEF nzc_shifftercarry_update
<1> HIDE DEF f
<1>4. set_flags(r, f).cpsr.bits = (r.cpsr.bits \ Flags) \cup f
  <2>1. r.cpsr \in Psr BY DEF registers_data
  <2>2. PICK psr : psr = [r.cpsr EXCEPT !.bits = (@ \ Flags) \cup f] OBVIOUS
  <2>3. psr.bits = (r.cpsr.bits \ Flags) \cup f BY <2>1, <2>2 DEF Psr
  <2>4. registers_write_cpsr(r, psr).cpsr = psr
    BY DEF registers_write_cpsr, registers_data
  <2>5. set_flags(r, f) = registers_write_cpsr(r, psr) BY <2>2 DEF set_flags
  <2> QED BY <2>3, <2>4, <2>5
<1>5. bits = (r.cpsr.bits \ Flags) \cup f BY <1>3, <1>4
<1> HIDE DEF bits
<1>6. \A g \in Flags : g \in bits <=> g \in f BY <1>5
<1>7. /\ "N" \in bits <=> negative(v)
      /\ "Z" \in bits <=> v = 0
      /\ "C" \in bits <=> c
      /\ "V" \in bits <=> o
  BY <1>1, <1>2, <1>6
<1> QED BY <1>7 DEF bits

\* Comparisons of a word with what is left of it.
LEMMA CompareOrders ==
  ASSUME NEW bits, NEW x \in Word, NEW y \in Word,
         "N" \in bits <=> negative(minus(x, y)), "Z" \in bits <=> minus(x, y) = 0,
         "C" \in bits <=> minus(x, y) > x,
         "V" \in bits <=> negative(x) /\ ~negative(minus(x, y))
  PROVE  DecidedBy(bits, x, y)
<1>1. PICK P \in Nat \ {0} : P = exp2[TopBit] BY WordsHaveBits
<1>2. exp2[WordBits] = 2 * P /\ UINT32_MAX + 1 = 2 * P BY <1>1, WordsHaveBits
<1>3. x \in 0..(2 * P) - 1 /\ y \in 0..(2 * P) - 1
  BY <1>1, WordsHaveBits
<1>4. PICK v : v = minus(x, y) OBVIOUS
<1>5. v = IF x >= y THEN x - y ELSE x - y + 2 * P BY <1>2, <1>4, MinusIs
<1>6. v \in Word BY <1>4, SumsAreWords
<1>7. v \in 0..(2 * P) - 1 BY <1>3, <1>5
<1>8. (v = 0 <=> x = y) /\ (v > x <=> x < y) /\ (x >= y <=> ~(v > x))
  BY <1>3, <1>5
<1>9. /\ ConditionPassed(bits, "EQ") <=> v = 0
      /\ ConditionPassed(bits, "CC") <=> ~(v > x)
      /\ ConditionPassed(bits, "HI") <=> v > x /\ ~(v = 0)
      /\ ConditionPassed(bits, "GE") <=>
           (negative(v) <=> negative(x) /\ ~negative(v))
  <2>1. /\ ConditionPassed(bits, "EQ") <=> "Z" \in bits
        /\ ConditionPassed(bits, "CC") <=> ~("C" \in bits)
        /\ ConditionPassed(bits, "HI") <=> "C" \in bits /\ ~("Z" \in bits)
        /\ ConditionPassed(bits, "GE") <=> ("N" \in bits <=> "V" \in bits)
    BY DEF ConditionPassed
  <2> QED BY <1>4, <2>1
<1>10. /\ negative(x) <=> x >= P
       /\ negative(y) <=> y >= P
       /\ negative(v) <=> v >= P
  BY <1>1, <1>6, NegativeIs
<1>11. PICK sx : sx = signed(x) OBVIOUS
<1>12. PICK sy : sy = signed(y) OBVIOUS
<1>13. /\ sx = IF x >= P THEN x - 2 * P ELSE x
       /\ sy = IF y >= P THEN y - 2 * P ELSE y
  BY <1>2, <1>10, <1>11, <1>12 DEF signed
<1>14. ASSUME ~negative(x), sx - sy < P
       PROVE  ConditionPassed(bits, "GE") <=> sx >= sy
  <2>1. ConditionPassed(bits, "GE") <=> ~(v >= P) BY <1>9, <1>10, <1>14
  <2>2. x < P BY <1>3, <1>10, <1>14
  <2>3. ~(v >= P) <=> sx >= sy BY <1>3, <1>5, <1>13, <1>14, <2>2
  <2> QED BY <2>1, <2>3
<1>15. /\ ConditionPassed(bits, "EQ") <=> x = y
       /\ ConditionPassed(bits, "CC") <=> x >= y
       /\ ConditionPassed(bits, "HI") <=> x < y
  <2>1. x < y => v # 0 BY <1>3, <1>8
  <2> QED BY <1>8, <1>9, <2>1
<1> QED BY <1>1, <1>11, <1>12, <1>14, <1>15 DEF DecidedBy

\* What cmp leaves in the status register is what the conditions after it ask
\* for: equal, below as unsigned and, for a positive first operand, as signed
\* words (arm_data_processing_functions.c, arm_instruction.c:57).
THEOREM ComparesDecide == Spec => []CompareDecides
<1>1. TypeOK => CompareDecides
  <2> SUFFICES ASSUME TypeOK, Runs("dp"), ins.code = "cmp"
               PROVE  DecidedBy(arm_data_processing_shift(reg, ins).reg.cpsr.bits,
                                arm_read_register(reg, ins.rn),
                                carry(reg, ins.sh).operand)
    BY DEF CompareDecides
  <2>1. ins.op = "dp" BY DEF Runs
  <2>2. reg \in registers_data /\ ins \in Program BY <2>1 DEF TypeOK, None
  <2>3. ins.sh \in Shifters BY <2>1, <2>2, MachineAssumption DEF Instructions
  <2>4. PICK sh : sh = carry(reg, ins.sh) OBVIOUS
  <2>5. PICK x \in Word : x = arm_read_register(reg, ins.rn) BY <2>2, CoreReadIsWord
  <2>6. IsShifted(sh) BY <2>2, <2>3, <2>4, CarryTyped
  <2>7. PICK y \in Word : y = sh.operand BY <2>6 DEF IsShifted
  <2>8. PICK bits : bits = arm_data_processing_shift(reg, ins).reg.cpsr.bits OBVIOUS
  <2>9. arm_data_processing_shift(reg, ins) = compare(reg, "cmp", x, y, minus(x, y), sh.c)
    <3>1. arm_data_processing_shift(reg, ins) = operation(reg, ins, x, y, sh.c)
      BY <2>4, <2>5, <2>7 DEF arm_data_processing_shift
    <3>2. computed("cmp", x, y, sh.c) = minus(x, y) BY DEF computed
    <3> QED BY <3>1, <3>2 DEF operation
  <2>10. PICK v : v = minus(x, y) OBVIOUS
  <2>11. PICK k : k = sets_carry("cmp", x, y, v, sh.c) OBVIOUS
  <2>12. PICK o : o = sets_overflow(reg, "cmp", x, y, v) OBVIOUS
  <2>13. bits = nzc_shifftercarry_update(reg, v, k, o).cpsr.bits
    BY <2>8, <2>9, <2>10, <2>11, <2>12 DEF compare, flagged, Outcome
  <2>14. /\ "N" \in bits <=> negative(v)
         /\ "Z" \in bits <=> v = 0
         /\ "C" \in bits <=> k
         /\ "V" \in bits <=> o
    BY <2>2, <2>13, FlagsSet
  <2>15. (k <=> v > x) /\ (o <=> negative(x) /\ ~negative(v))
    BY <2>11, <2>12 DEF sets_carry, sets_overflow
  <2>16. DecidedBy(bits, x, y) BY <2>10, <2>14, <2>15, CompareOrders
  <2> QED BY <2>4, <2>5, <2>7, <2>8, <2>16
<1> QED BY <1>1, ProgramTypeCorrect, PTL

-----------------------------------------------------------------------------
(* The mode and the registers between two instructions. *)

\* The bank of the registers is the one that the status register names.
Tracks(r) == r \in registers_data /\ r.current_mode = mode_update(r.cpsr)

\* A register write moves neither the status register nor the mode.
LEMMA WriteTracks ==
  ASSUME NEW r, Tracks(r), NEW n, NEW v \in Word
  PROVE  Tracks(arm_write_register(r, n, v))
BY WriteKeepsType DEF Tracks, arm_write_register

\* A status register write moves both.
LEMMA StatusTracks ==
  ASSUME NEW r \in registers_data, NEW psr \in Psr
  PROVE  Tracks(registers_write_cpsr(r, psr))
BY WriteCpsrKeepsType DEF Tracks

\* Setting the flags keeps the mode the status register names.
LEMMA FlagsTrack ==
  ASSUME NEW r \in registers_data, NEW f \in SUBSET Flags
  PROVE  Tracks(set_flags(r, f))
<1>1. PICK psr : psr = [r.cpsr EXCEPT !.bits = (@ \ Flags) \cup f] OBVIOUS
<1>2. r.cpsr \in Psr BY DEF registers_data
<1>3. psr \in Psr BY <1>1, <1>2 DEF Psr, Flags
<1> QED BY <1>1, <1>3, StatusTracks DEF set_flags

\* So does an operation, a return from an exception included,
LEMMA AluTracks ==
  ASSUME NEW r, Tracks(r), NEW rd, NEW S, NEW v \in Word, NEW o \in alu(r, rd, S, v)
  PROVE  Tracks(o.reg)
<1>1. PICK w : w = arm_write_register(r, rd, v) OBVIOUS
<1>2. Tracks(w) BY <1>1, WriteTracks
<1>3. w \in registers_data BY <1>2 DEF Tracks
<1>4. \/ \E x : o = Outcome(w, x)
      \/ \E f \in flags_of(v) : o = Outcome(set_flags(w, f), 0)
      \/ o = Outcome(registers_write_cpsr(w, arm_read_spsr(w)), 0)
  BY <1>1, Zenon DEF alu
<1>5. arm_read_spsr(w) \in Psr BY <1>3, ReadSpsrIsPsr DEF arm_read_spsr
<1>6. CASE \E x : o = Outcome(w, x) BY <1>2, <1>6 DEF Outcome
<1>7. CASE \E f \in flags_of(v) : o = Outcome(set_flags(w, f), 0)
  BY <1>3, <1>7, FlagsTrack DEF flags_of, Outcome
<1>8. CASE o = Outcome(registers_write_cpsr(w, arm_read_spsr(w)), 0)
  BY <1>3, <1>5, <1>8, StatusTracks DEF Outcome
<1> QED BY <1>4, <1>6, <1>7, <1>8

\* a test,
LEMMA TestTracks ==
  ASSUME NEW r \in registers_data, NEW v, NEW o \in test(r, v)
  PROVE  Tracks(o.reg)
<1>1. PICK f \in flags_of(v) : o = Outcome(set_flags(r, f), 0) BY DEF test
<1> QED BY <1>1, FlagsTrack DEF flags_of, Outcome

\* Loads and stores write registers only.
LEMMA BaseTracks ==
  ASSUME NEW r, Tracks(r), NEW i, i.list \in SUBSET Reg
  PROVE  Tracks(start_end_adresse(r, i))
<1>1. r \in registers_data BY DEF Tracks
<1>2. PICK v \in Word : v = arm_read_register(r, i.rn) BY <1>1, CoreReadIsWord
<1>3. PICK size : size = (4 * Cardinality(i.list)) % (UINT32_MAX + 1) OBVIOUS
<1>4. size \in Word
  <2>1. PICK c \in Nat : c = Cardinality(i.list) BY ListIsFinite
  <2>2. 4 * c \in Nat OBVIOUS
  <2> QED BY <1>3, <2>1, <2>2, RemainderIsWord
<1>5. plus(v, size) \in Word /\ minus(v, size) \in Word BY <1>4, SumsAreWords
<1>6. \E n : \E x \in {v, plus(v, size), minus(v, size)} :
        start_end_adresse(r, i) = arm_write_register(r, n, x)
  BY <1>2, <1>3 DEF start_end_adresse
<1> QED BY <1>5, <1>6, WriteTracks

\* the load of a list of registers,
LEMMA LoadAllTracks ==
  ASSUME NEW r, Tracks(r), NEW list \in SUBSET Reg, NEW f, \A n \in list : f[n] \in Word
  PROVE  Tracks(load_all(r, list, f))
<1>1. r \in registers_data BY DEF Tracks
<1>2. load_all(r, list, f) \in registers_data BY <1>1, LoadAllTyped
<1>3. load_all(r, list, f).current_mode = r.current_mode BY <1>1, LoadAllTyped
<1>4. load_all(r, list, f).cpsr = r.cpsr BY <1>1 DEF load_all, registers_data
<1> QED BY <1>2, <1>3, <1>4 DEF Tracks

\* Whatever its class, an instruction leaves the mode the status register names.
LEMMA ClassTracks ==
  ASSUME NEW r, Tracks(r), NEW m \in [0..MemSize - 1 -> Byte],
         NEW i \in Instructions, NEW x \in OutcomesOfClass(r, m, i)
  PROVE  Tracks(x.reg)
<1>0. r \in registers_data BY DEF Tracks
<1>1. i.op \in {"dp", "single", "ldm", "stm"} BY DEF Instructions
<1>2. CASE i.op = "dp"
  <2>1. i.code \in Codes /\ i.sh \in Shifters BY <1>2 DEF Instructions
  <2>2. PICK sh : sh = carry(r, i.sh) OBVIOUS
  <2>3. PICK op1 \in Word : op1 = arm_read_register(r, i.rn) BY <1>0, CoreReadIsWord
  <2>4. PICK v : v = computed(i.code, op1, sh.operand, sh.c) OBVIOUS
  <2>5. v = computed(i.code, arm_read_register(r, i.rn), sh.operand, sh.c)
    BY <2>3, <2>4
  <2>6. IsShifted(sh) BY <1>0, <2>1, <2>2, CarryTyped
  <2>7. v \in Word BY <2>1, <2>4, <2>6, ComputedTyped DEF IsShifted
  <2>8. CASE i.code \in {"tst", "cmp", "cmn"}
    <3>1. x \in test(r, v) BY <1>2, <2>2, <2>5, <2>8, ClassOfDataProcessing
    <3> QED BY <1>0, <3>1, TestTracks
  <2>9. CASE i.code = "teq"
    <3>1. x \in teq(r, i.rd, v) BY <1>2, <2>2, <2>5, <2>9, ClassOfDataProcessing
    <3>2. PICK o \in alu(r, i.rd, TRUE, v) : x \in test(o.reg, o.result)
      BY <3>1 DEF teq
    <3>3. o.reg \in registers_data BY <1>0, <2>7, AluTyped DEF Typed
    <3> QED BY <3>2, <3>3, TestTracks
  <2>10. CASE i.code = "adc"
    <3>1. x \in UNION {adc(r, i.rd, i.S, v, sum) :
                         sum \in {plus(arm_read_register(o.reg, i.rd), sh.c) :
                                    o \in alu(r, i.rd, i.S, v)}}
      BY <1>2, <2>2, <2>5, <2>10, ClassOfDataProcessing
    <3>2. PICK o \in alu(r, i.rd, i.S, v) :
            x \in adc(r, i.rd, i.S, v, plus(arm_read_register(o.reg, i.rd), sh.c))
      BY <3>1
    <3>3. o.reg \in registers_data BY <1>0, <2>7, AluTyped DEF Typed
    <3>4. sh.c \in Word
      BY <2>6, RegistersAssumption, ExceptionAssumption DEF IsShifted, Word
    <3>5. PICK sum \in Word : sum = plus(arm_read_register(o.reg, i.rd), sh.c)
      BY <3>3, <3>4, CoreReadIsWord, SumsAreWords
    <3>6. PICK first \in alu(r, i.rd, i.S, v) :
            x \in IF first.result = 0 THEN alu(first.reg, i.rd, i.S, sum) ELSE {first}
      BY <3>2, <3>5 DEF adc
    <3>7. Tracks(first.reg) BY <2>7, AluTracks
    <3>8. CASE first.result = 0 BY <3>6, <3>7, <3>8, AluTracks
    <3>9. CASE first.result # 0 BY <3>6, <3>7, <3>9
    <3> QED BY <3>8, <3>9
  <2>11. CASE i.code \notin Compares \cup {"adc"}
    <3>1. x \in alu(r, i.rd, i.S, v) BY <1>2, <2>2, <2>5, <2>11, ClassOfDataProcessing
    <3> QED BY <2>7, <3>1, AluTracks
  <2> QED BY <2>8, <2>9, <2>10, <2>11 DEF Compares
<1>3. CASE i.op = "single"
  <2>1. /\ i.L \in 0..1 /\ i.off \in Offsets /\ i.size \in Sizes
        /\ i.P \in 0..1 /\ i.W \in BOOLEAN
    BY <1>3 DEF Instructions
  <2>2. PICK a : a = calculate_address(r, i.rn, offset_of(r, i.off), i.U) OBVIOUS
  <2>3. PICK moves : moves = [rn |-> i.rn, rd |-> i.rd, wb |-> i.P = 0 \/ i.W] OBVIOUS
  <2>4. a \in Word BY <1>0, <2>1, <2>2, OffsetTyped, AddressTyped
  <2>5. CASE i.P = 0 /\ i.W
    <3>1. x = Outcome(r, UNDEFINED_INSTRUCTION)
      BY <1>3, <2>1, <2>2, <2>3, <2>5, ClassOfSingle
    <3> QED BY <3>1 DEF Outcome
  <2>6. PICK w : w = write_back(r, moves.rn, moves.wb, a) OBVIOUS
  <2>7. Tracks(w) BY <2>4, <2>6, WriteTracks DEF write_back
  <2>8. CASE ~(i.P = 0 /\ i.W) /\ i.L = 1
    <3>1. PICK v : v = IF read_fits(i.size, a) THEN value_of(m, i.size, a, ENDIANESS) ELSE 0
      OBVIOUS
    <3>2. v \in Word
      BY <2>1, <2>4, <3>1, ReadValueIsWord, TransferAssumption, SumsAreWords
    <3>3. x \in ldr(r, moves, a, v)
      BY <1>3, <2>1, <2>2, <2>3, <2>8, <3>1, ClassOfSingle
    <3>4. x \in {Outcome(w, AccessFailed), Outcome(arm_write_register(w, moves.rd, v), 0)}
      BY <2>6, <3>3 DEF ldr
    <3>5. Tracks(arm_write_register(w, moves.rd, v)) BY <2>7, <3>2, WriteTracks
    <3> QED BY <2>7, <3>4, <3>5 DEF Outcome
  <2>9. CASE ~(i.P = 0 /\ i.W) /\ i.L = 0
    <3>1. x \in str(r, moves, a)
      BY <1>3, <2>1, <2>2, <2>3, <2>9, ClassOfSingle
    <3>2. \E y : x = Outcome(w, y) BY <2>6, <3>1 DEF str
    <3> QED BY <2>7, <3>2 DEF Outcome
  <2> QED BY <2>1, <2>5, <2>8, <2>9
<1>4. CASE i.op = "ldm"
  <2>1. i.list \in SUBSET Reg BY <1>4 DEF Instructions
  <2>2. OutcomesOfClass(r, m, i) =
          UNION {ldm(r, i, word_read(r, m, i, u)) : u \in Unread}
    BY <1>4 DEF OutcomesOfClass
  <2>3. PICK u \in Unread : x \in ldm(r, i, word_read(r, m, i, u)) BY <2>2
  <2>4. PICK f : f = word_read(r, m, i, u) OBVIOUS
  <2>5. \A n \in i.list : f[n] \in Word
    BY <1>0, <2>1, <2>4, WordsRead, TransferAssumption
  <2>6. x.reg = load_all(start_end_adresse(r, i), i.list, f)
    BY <2>3, <2>4 DEF ldm, Outcome
  <2> QED BY <2>1, <2>5, <2>6, BaseTracks, LoadAllTracks
<1>5. CASE i.op = "stm"
  <2>1. i.list \in SUBSET Reg BY <1>5 DEF Instructions
  <2>2. x = Outcome(start_end_adresse(r, i), 0) BY <1>5 DEF OutcomesOfClass, stm
  <2> QED BY <2>1, <2>2, BaseTracks DEF Outcome
<1> QED BY <1>1, <1>2, <1>3, <1>4, <1>5

\* So does an exception.
LEMMA EnterTracks ==
  ASSUME NEW r, Tracks(r), NEW link \in Word, NEW mode \in Modes, NEW bit6,
         NEW vector \in Word
  PROVE  Tracks(enter(r, link, mode, bit6, vector))
<1>1. PICK l : l = arm_write_register(r, 14, link) OBVIOUS
<1>2. l \in registers_data BY <1>1, WriteTracks DEF Tracks
<1>3. PICK saved : saved = arm_write_spsr(l, l.cpsr) OBVIOUS
<1>4. l.cpsr \in Psr BY <1>2 DEF registers_data
<1>5. saved \in registers_data BY <1>2, <1>3, <1>4, SaveTyped
<1>6. PICK psr : psr = [M |-> mode,
                        bits |-> (l.cpsr.bits \ {"T", "E"}) \cup
                          ((IF bit6 THEN {"F", "I", "A"} ELSE {"I", "A"}) \cap PsrBits)]
  OBVIOUS
<1>7. psr \in Psr BY <1>4, <1>6 DEF Psr, Modes, USR, FIQ, IRQ, SVC, ABT, UND, SYS
<1>8. enter(r, link, mode, bit6, vector) =
        arm_write_register(registers_write_cpsr(saved, psr), 15, vector)
  BY <1>1, <1>3, <1>6 DEF enter, set_exception_cpsr
<1> QED BY <1>5, <1>7, <1>8, StatusTracks, WriteTracks

\* and the entry of every exception.
LEMMA ExceptionTracks ==
  ASSUME NEW r, Tracks(r), NEW e, NEW swi
  PROVE  Tracks(arm_exception(r, e, swi).reg)
<1>1. PICK pc \in Word : pc = arm_read_register(r, 15) BY CoreReadIsWord DEF Tracks
<1>2. PICK p : p = minus(pc, 4) OBVIOUS
<1>3. /\ p \in Word /\ plus(p, 8) \in Word /\ plus(p, 4) \in Word /\ plus(pc, 4) \in Word
      /\ {4, 12, 16, 24, 28, 0} \subseteq Word
  BY <1>2, SumsAreWords
<1>4. ABT \in Modes /\ IRQ \in Modes /\ UND \in Modes /\ FIQ \in Modes BY DEF Modes
<1>5. Tracks(data_abort(r)) BY <1>1, <1>2, <1>3, <1>4, EnterTracks DEF data_abort
<1>6. Tracks(unterrupt(r)) BY <1>1, <1>2, <1>3, <1>4, EnterTracks DEF unterrupt
<1>7. Tracks(undefined_unstruction(r))
  BY <1>1, <1>2, <1>3, <1>4, EnterTracks DEF undefined_unstruction
<1>8. Tracks(fetch_abort(r)) BY <1>1, <1>2, <1>3, <1>4, EnterTracks DEF fetch_abort
<1>9. Tracks(fast_interrupt_request(r))
  BY <1>1, <1>2, <1>3, <1>4, EnterTracks DEF fast_interrupt_request
<1>10. Tracks(reset(r))
  <2>1. [M |-> SVC, bits |-> {"F", "I", "A"} \cap PsrBits] \in Psr BY DEF Psr, SVC
  <2> QED BY <1>3, <2>1, StatusTracks, WriteTracks DEF reset, Tracks
<1>11. arm_exception(r, e, swi).reg
         \in {r, reset(r), data_abort(r), unterrupt(r), undefined_unstruction(r),
              fetch_abort(r), fast_interrupt_request(r)}
  <2>1. arm_exception(r, e, swi)
          \in {Outcome(r, END_SIMULATION), Outcome(r, 0), Outcome(reset(r), e),
               Outcome(data_abort(r), e), Outcome(unterrupt(r), e),
               Outcome(undefined_unstruction(r), e), Outcome(fetch_abort(r), e),
               Outcome(fast_interrupt_request(r), e), Outcome(r, e)}
    BY DEF arm_exception
  <2> QED BY <2>1 DEF Outcome
<1> QED BY <1>5, <1>6, <1>7, <1>8, <1>9, <1>10, <1>11

\* Every step of the program leaves the mode its status register names.
LEMMA ProgramTracks == Spec => []Tracks(reg)
<1>1. Init => Tracks(reg) BY MachineAssumption DEF Init, Tracks
<1>2. TypeOK /\ Tracks(reg) /\ [Next]_vars => Tracks(reg)'
  <2> SUFFICES ASSUME TypeOK, Tracks(reg), [Next]_vars PROVE Tracks(reg') OBVIOUS
  <2>1. ASSUME NEW r, Tracks(r) PROVE Tracks(arm_fetch(r))
    <3>1. arm_fetch(r) \in registers_data BY <2>1, FetchUndone DEF Tracks
    <3>2. arm_fetch(r).cpsr = r.cpsr /\ arm_fetch(r).current_mode = r.current_mode
      BY <2>1 DEF Tracks, arm_fetch, registers_data
    <3> QED BY <2>1, <3>1, <3>2 DEF Tracks
  <2>2. CASE Fetch BY <2>1, <2>2 DEF Fetch
  <2>3. CASE FetchAbort
    <3>1. reg' = fetch_fails(arm_fetch(reg)).reg BY <2>3 DEF FetchAbort
    <3> QED BY <2>1, <3>1, ExceptionTracks DEF fetch_fails
  <2>4. CASE Execute
    <3>1. ins \in Instructions
      <4>1. ins # None /\ ins \in Program \cup {None} BY <2>4 DEF Execute, TypeOK
      <4> QED BY <4>1, MachineAssumption
    <3>2. PICK o \in execute(reg, mem, ins) :
            LET entered == IF o.result \in {0, Aborted}
                           THEN Outcome(o.reg, o.result)
                           ELSE arm_exception(o.reg, o.result, "other")
            IN  reg' = entered.reg
      BY <2>4 DEF Execute
    <3>3. Tracks(o.reg)
      <4>1. CASE ConditionPassed(reg.cpsr.bits, ins.cond)
        <5>1. PICK x : x = Outcome(o.reg, o.result) OBVIOUS
        <5>2. x \in OutcomesOfClass(reg, mem, ins)
          BY <3>1, <4>1, <5>1, ExecuteInClass DEF TypeOK
        <5>3. Tracks(x.reg) BY <3>1, <5>2, ClassTracks DEF TypeOK
        <5> QED BY <5>1, <5>3 DEF Outcome
      <4>2. CASE ~ConditionPassed(reg.cpsr.bits, ins.cond)
        <5>1. o = Transferred(reg, mem, INTERRUPT) BY <4>2 DEF execute
        <5> QED BY <5>1 DEF Transferred
      <4> QED BY <4>1, <4>2
    <3>4. CASE o.result \in {0, Aborted} BY <3>2, <3>3, <3>4 DEF Outcome
    <3>5. CASE o.result \notin {0, Aborted} BY <3>2, <3>3, <3>5, ExceptionTracks
    <3> QED BY <3>4, <3>5
  <2>5. CASE UNCHANGED vars BY <2>5 DEF vars
  <2> QED BY <2>2, <2>3, <2>4, <2>5 DEF Next
<1> QED BY <1>1, <1>2, ProgramTypeCorrect, PTL DEF Spec

\* In a mode, what is written to a register other than the pc is read there and
\* nowhere else.
LEMMA ReadsAfterWrite ==
  ASSUME NEW r \in registers_data, NEW n \in Reg \ {15}, NEW v \in Word,
         r.current_mode \in Modes
  PROVE  LET w == arm_write_register(r, n, v)
         IN  /\ arm_read_register(w, n) = v
             /\ \A k \in Reg \ {n} : arm_read_register(w, k) = arm_read_register(r, k)
<1>1. PICK mode \in Modes : mode = r.current_mode OBVIOUS
<1>2. PICK w : w = arm_write_register(r, n, v) OBVIOUS
<1>3. w.current_mode = mode
  BY <1>1, <1>2, WriteKeepsType DEF arm_write_register
<1>4. \A k \in Reg : registers_read(w, k, mode) =
        IF k = n /\ SamePlace(n, mode, mode) THEN v ELSE registers_read(r, k, mode)
  BY <1>1, <1>2, WriteIsRead DEF Reg, arm_write_register, registers_get_mode
<1>5. SamePlace(n, mode, mode) BY RegisterKinds DEF SamePlace, Reg
<1> QED BY <1>1, <1>2, <1>3, <1>4, <1>5 DEF arm_read_register, registers_get_mode

\* A write of the status register moves no pc, and its flags no bank.
LEMMA StatusKeepsPc ==
  ASSUME NEW r \in registers_data, NEW psr \in Psr
  PROVE  arm_read_register(registers_write_cpsr(r, psr), 15) = arm_read_register(r, 15)
<1>1. registers_write_cpsr(r, psr).pc = r.pc
  BY DEF registers_write_cpsr, registers_data
<1> QED BY <1>1 DEF arm_read_register, registers_read

\* The flags of an operation move no bank.
LEMMA FlagsKeepMode ==
  ASSUME NEW r, Tracks(r), NEW v, NEW c, NEW o, NEW w,
         w = nzc_shifftercarry_update(r, v, c, o)
  PROVE  Tracks(w) /\ w.current_mode = r.current_mode
<1>1. PICK f \in SUBSET Flags : w = set_flags(r, f)
  BY DEF nzc_shifftercarry_update
<1>2. r \in registers_data /\ r.cpsr \in Psr BY DEF Tracks, registers_data
<1>3. Tracks(w) BY <1>1, <1>2, FlagsTrack
<1>4. PICK psr : psr = [r.cpsr EXCEPT !.bits = (@ \ Flags) \cup f] OBVIOUS
<1>5. psr.M = r.cpsr.M /\ psr \in Psr BY <1>2, <1>4 DEF Psr, Flags
<1>6. w.current_mode = mode_update(psr)
  BY <1>1, <1>2, <1>4, <1>5, WriteCpsrKeepsType DEF set_flags
<1> QED BY <1>3, <1>5, <1>6 DEF Tracks, mode_update

-----------------------------------------------------------------------------
(* Numbers of two words. *)

\* The carry that an addition sets is that of the sum.
LEMMA SumsCarry ==
  ASSUME NEW x \in Word, NEW y \in Word
  PROVE  /\ plus(x, y) = (x + y) % exp2[WordBits]
         /\ (x + y) \div exp2[WordBits] = IF plus(x, y) < x THEN 1 ELSE 0
<1>1. PICK M \in Nat \ {0} : M = exp2[WordBits] BY WordsHaveBits
<1>2. M = UINT32_MAX + 1 BY <1>1, WordsHaveBits, RegistersAssumption
<1>3. x \in 0..M - 1 /\ y \in 0..M - 1 BY <1>1, WordsHaveBits
<1>4. plus(x, y) = (x + y) % M BY <1>2 DEF plus
<1>5. CASE x + y < M
  <2>1. (x + y) % M = x + y /\ (x + y) \div M = 0 BY <1>3, <1>5
  <2> QED BY <1>1, <1>3, <1>4, <2>1
<1>6. CASE ~(x + y < M)
  <2>1. x + y = M * 1 + (x + y - M) /\ x + y - M \in 0..M - 1 BY <1>3, <1>6
  <2>2. (x + y) % M = x + y - M /\ (x + y) \div M = 1 BY <1>3, <2>1
  <2>3. x + y - M < x BY <1>3
  <2> QED BY <1>1, <1>4, <2>2, <2>3
<1> QED BY <1>5, <1>6

\* Adding a register to itself with the carry doubles it and adds the carry.
LEMMA AdcDoubles ==
  ASSUME NEW low \in registers_data, low.current_mode \in Modes, NEW rd \in Reg,
         NEW sum, sum = arm_read_register(low, rd),
         NEW i, i = [code |-> "adc", S |-> FALSE, rd |-> 14, rn |-> rd,
                     sh |-> [by |-> "amount", kind |-> 0, rm |-> rd, amount |-> 0]]
  PROVE  arm_read_register(arm_data_processing_shift(low, i).reg, 14)
           = (2 * sum + C_flag(low)) % exp2[WordBits]
<1>1. sum \in Word BY CoreReadIsWord
<1>2. PICK c \in 0..1 : c = C_flag(low) BY DEF C_flag
<1>3. carry(low, i.sh) = Shifted(sum, c)
  <2>1. PICK sh : sh = i.sh OBVIOUS
  <2>2. sh.by = "amount" /\ sh.kind = 0 /\ sh.rm = rd /\ sh.amount = 0 BY <2>1
  <2>3. 0 % 2 = 0 OBVIOUS
  <2>4. carry(low, sh) = logical_shift_left_by_immediate(low, 0, sum)
    BY <2>2, <2>3 DEF carry
  <2>5. logical_shift_left_by_immediate(low, 0, sum) = Shifted(sum, c)
    BY <1>2 DEF logical_shift_left_by_immediate
  <2> QED BY <2>1, <2>4, <2>5
<1>4. PICK o : o = arm_data_processing_shift(low, i) OBVIOUS
<1>5. o = operation(low, i, sum, sum, c)
  BY <1>3, <1>4 DEF arm_data_processing_shift, Shifted
<1>6. o = add_carry(operate(low, "adc", 14, FALSE, sum, sum, c), 14, FALSE, c)
  BY <1>5 DEF operation
<1>7. PICK d \in Word : d = plus(sum, sum) BY <1>1, SumsAreWords
<1>8. PICK w : w = arm_write_register(low, 14, d) OBVIOUS
<1>9. operate(low, "adc", 14, FALSE, sum, sum, c) = Outcome(w, 0)
  <2>1. computed("adc", sum, sum, c) = d BY <1>7 DEF computed
  <2> QED BY <1>8, <2>1 DEF operate
<1>10. 14 \in Reg \ {15} BY RegistersAssumption DEF Reg
<1>11. w \in registers_data /\ w.current_mode \in Modes
  BY <1>8, WriteKeepsType DEF arm_write_register
<1>12. arm_read_register(w, 14) = d BY <1>8, <1>10, ReadsAfterWrite
<1>13. c \in Word BY RegistersAssumption, ExceptionAssumption DEF Word
<1>14. PICK e \in Word : e = plus(d, c) BY <1>13, SumsAreWords
<1>15. o = Outcome(arm_write_register(w, 14, e), 0)
  <2>1. o = operate(w, "add", 14, FALSE, d, c, c)
    <3>1. PICK first : first = operate(low, "adc", 14, FALSE, sum, sum, c) OBVIOUS
    <3>2. first.reg = w /\ first.result = 0
      <4>1. first = Outcome(w, 0) BY <1>9, <3>1
      <4> QED BY <4>1 DEF Outcome
    <3>3. o = add_carry(first, 14, FALSE, c) BY <1>6, <3>1
    <3> QED BY <1>12, <3>2, <3>3 DEF add_carry
  <2>2. computed("add", d, c, c) = e BY <1>14 DEF computed
  <2> QED BY <2>1, <2>2 DEF operate
<1>16. arm_read_register(o.reg, 14) = e
  BY <1>10, <1>11, <1>15, ReadsAfterWrite DEF Outcome
<1>17. e = (2 * sum + c) % (UINT32_MAX + 1)
  <2>1. PICK s \in Nat : s = sum BY <1>1, RegistersAssumption DEF Word
  <2>2. SameWord(d, s + s) BY <1>1, <1>7, <2>1, SumsAreSame
  <2>3. SameWord(c, c) BY SameWordReflexive
  <2>4. SameWord(d + c, (s + s) + c) BY <2>2, <2>3, SameWordAdds
  <2>5. SameWord(e, d + c) BY <1>13, <1>14, SumsAreSame
  <2>6. PICK t \in Nat : t = 2 * s + c OBVIOUS
  <2>7. (s + s) + c = t BY <2>6
  <2>8. SameWord(e, t) BY <2>4, <2>5, <2>7, SameWordChains
  <2>9. PICK f \in Word : f = t % (UINT32_MAX + 1) BY RemainderIsWord
  <2>10. SameWord(f, t) BY <2>9, RemainderIsSame
  <2>11. SameWord(t, f) BY <2>10, SameWordAdds
  <2>12. SameWord(e, f) BY <2>8, <2>11, SameWordChains
  <2>13. e = f BY <2>12, SameWordsEqual
  <2> QED BY <2>1, <2>6, <2>9, <2>13
<1>18. exp2[WordBits] = UINT32_MAX + 1 BY WordsHaveBits, RegistersAssumption
<1> QED BY <1>2, <1>4, <1>16, <1>17, <1>18

\* Adding and adding with carry make the sum of numbers of two words: the carry
\* that add leaves in the status register is the one that adc adds, whatever the
\* registers hold and unless add has taken its destination for the pc
\* (arm_data_processing_functions.c).
THEOREM CarryReachesHighWord == Spec => []SumsChain
<1>1. TypeOK /\ Tracks(reg) => SumsChain
  <2> SUFFICES ASSUME TypeOK, Tracks(reg), Runs("dp"), InMode, ins.code = "add", ins.S,
                      ins.rd # 15
               PROVE  Chained(arm_data_processing_shift(reg, ins).reg, ins.rd,
                              arm_read_register(reg, ins.rn)
                                + carry(reg, ins.sh).operand)
    BY DEF SumsChain
  <2>1. ins.op = "dp" BY DEF Runs
  <2>2. reg \in registers_data /\ ins \in Program BY <2>1 DEF TypeOK, None
  <2>3. ins.sh \in Shifters /\ ins.rd \in Reg \ {15}
    BY <2>1, <2>2, MachineAssumption DEF Instructions
  <2>4. PICK rd \in Reg \ {15} : rd = ins.rd BY <2>3
  <2>5. PICK sh : sh = carry(reg, ins.sh) OBVIOUS
  <2>6. PICK x \in Word : x = arm_read_register(reg, ins.rn) BY <2>2, CoreReadIsWord
  <2>7. IsShifted(sh) BY <2>2, <2>3, <2>5, CarryTyped
  <2>8. PICK y \in Word : y = sh.operand BY <2>7 DEF IsShifted
  <2>9. PICK v \in Word : v = plus(x, y) BY SumsAreWords
  <2>10. PICK w : w = arm_write_register(reg, rd, v) OBVIOUS
  <2>11. PICK o : o = arm_data_processing_shift(reg, ins) OBVIOUS
  <2>12. PICK low : low = o.reg OBVIOUS
  <2>13. o = set_cond(w, rd, "add", x, y, v, sh.c)
    <3>1. o = operation(reg, ins, x, y, sh.c)
      BY <2>5, <2>6, <2>8, <2>11 DEF arm_data_processing_shift
    <3>2. o = operate(reg, "add", rd, TRUE, x, y, sh.c)
      <4>1. o = operate(reg, ins.code, ins.rd, ins.S, x, y, sh.c) BY <3>1 DEF operation
      <4>2. ins.S = TRUE BY <2>1, <2>2, MachineAssumption DEF Instructions
      <4> QED BY <2>4, <4>1, <4>2
    <3>3. computed("add", x, y, sh.c) = v BY <2>9 DEF computed
    <3> QED BY <2>10, <3>2, <3>3 DEF operate
  <2>14. Tracks(w) BY <2>10, WriteTracks
  <2>15. w \in registers_data /\ w.current_mode = reg.current_mode
    BY <2>2, <2>10, WriteKeepsType DEF arm_write_register
  <2>16. arm_read_register(w, rd) = v BY <2>2, <2>10, ReadsAfterWrite DEF InMode
  <2>17. PICK pc : pc = arm_read_register(w, 15) OBVIOUS
  <2>18. CASE v = pc
    <3>1. o \in {Outcome(registers_write_cpsr(w, arm_read_spsr(w)), 0),
                 Outcome(w, UNDEFINED_INSTRUCTION)}
      BY <2>13, <2>16, <2>17, <2>18 DEF set_cond
    <3>2. low \in {registers_write_cpsr(w, arm_read_spsr(w)), w}
      BY <2>12, <3>1 DEF Outcome
    <3>3. arm_read_spsr(w) \in Psr BY <2>15, ReadSpsrIsPsr DEF arm_read_spsr
    <3>4. arm_read_register(low, 15) = pc BY <2>15, <2>17, <3>2, <3>3, StatusKeepsPc
    <3>5. (x + y) % exp2[WordBits] = pc BY <2>9, <2>18, SumsCarry
    <3> QED BY <2>4, <2>5, <2>6, <2>8, <2>11, <2>12, <3>4, <3>5 DEF Chained
  <2>19. CASE v # pc
    <3>1. PICK k : k = sets_carry("add", x, y, v, sh.c) OBVIOUS
    <3>2. PICK over : over = sets_overflow(w, "add", x, y, v) OBVIOUS
    <3>3. o = Outcome(nzc_shifftercarry_update(w, v, k, over), 0)
      BY <2>13, <2>16, <2>17, <2>19, <3>1, <3>2 DEF set_cond, flagged
    <3>4. low = nzc_shifftercarry_update(w, v, k, over) BY <2>12, <3>3 DEF Outcome
    <3>5. k <=> v < x BY <3>1 DEF sets_carry
    <3>6. "C" \in low.cpsr.bits <=> v < x BY <2>15, <3>4, <3>5, FlagsSet
    <3>7. C_flag(low) = (x + y) \div exp2[WordBits]
      BY <2>9, <3>6, SumsCarry DEF C_flag
    <3>8. low \in registers_data /\ low.current_mode \in Modes
      BY <2>14, <2>15, <3>4, FlagsKeepMode DEF Tracks, InMode
    <3>9. PICK sum : sum = arm_read_register(low, rd) OBVIOUS
    <3>10. PICK i : i = [code |-> "adc", S |-> FALSE, rd |-> 14, rn |-> rd,
                         sh |-> [by |-> "amount", kind |-> 0, rm |-> rd, amount |-> 0]]
      OBVIOUS
    <3>11. arm_read_register(arm_data_processing_shift(low, i).reg, 14)
             = (2 * sum + C_flag(low)) % exp2[WordBits]
      BY <3>8, <3>9, <3>10, AdcDoubles
    <3> QED BY <2>4, <2>5, <2>6, <2>8, <2>11, <2>12, <3>7, <3>9, <3>10, <3>11
            DEF Chained
  <2> QED BY <2>18, <2>19
<1> QED BY <1>1, ProgramTypeCorrect, ProgramTracks, PTL

-----------------------------------------------------------------------------
(* The shifter and the shifts of the architecture. *)

\* A division by c * d divides by c and then by d.
LEMMA DivisionInSteps ==
  ASSUME NEW x \in Nat, NEW c \in Nat \ {0}, NEW d \in Nat \ {0}
  PROVE  /\ x \div (c * d) = (x \div c) \div d
         /\ x % (c * d) = c * ((x \div c) % d) + (x % c)
<1>1. PICK q : q = x \div c OBVIOUS
<1>2. PICK e : e = x % c OBVIOUS
<1>3. q \in Nat /\ e \in 0..c - 1 /\ x = c * q + e BY <1>1, <1>2
<1>4. PICK s : s = q \div d OBVIOUS
<1>5. PICK t : t = q % d OBVIOUS
<1>6. s \in Nat /\ t \in 0..d - 1 /\ q = d * s + t BY <1>3, <1>4, <1>5
<1>7. PICK m \in Nat \ {0} : m = c * d OBVIOUS
<1>8. PICK ct \in Nat : ct = c * t BY <1>6
<1>9. ct <= m - c
  <2>1. c * t <= c * (d - 1) BY <1>6
  <2>2. c * (d - 1) = m - c BY <1>7
  <2> QED BY <1>8, <2>1, <2>2
<1>10. PICK u \in 0..m - 1 : u = ct + e BY <1>3, <1>7, <1>8, <1>9
<1>11. x = m * s + u
  <2>1. c * q = c * (d * s) + c * t BY <1>6
  <2>2. c * (d * s) = (c * d) * s BY <1>6
  <2>3. PICK ms \in Nat : ms = m * s BY <1>6
  <2>4. c * q = ms + ct BY <1>7, <1>8, <2>1, <2>2, <2>3
  <2>5. x = (ms + ct) + e BY <1>3, <2>4
  <2> QED BY <1>3, <1>10, <2>3, <2>5
<1>12. x \div m = s /\ x % m = u BY <1>6, <1>10, <1>11
<1> QED BY <1>1, <1>2, <1>4, <1>5, <1>7, <1>8, <1>10, <1>12

\* A number that is moved down by n bits has its bit j from the bit n + j.
LEMMA BitOfQuotient ==
  ASSUME NEW v \in Nat, NEW n \in Nat, NEW j \in Nat, n + j <= RsBase
  PROVE  get_bit(v \div exp2[n], j) = get_bit(v, n + j)
<1>1. n \in 0..RsBase /\ j \in 0..RsBase BY ArithmeticAssumption
<1>2. PICK p \in Nat \ {0} : p = exp2[n] BY <1>1, Exp2Positive
<1>3. PICK q \in Nat \ {0} : q = exp2[j] BY <1>1, Exp2Positive
<1>4. exp2[n + j] = p * q BY <1>2, <1>3, Exp2Sum
<1>5. v \div (p * q) = (v \div p) \div q BY DivisionInSteps
<1> QED BY <1>2, <1>3, <1>4, <1>5 DEF get_bit

\* The k + 1 low bits of a number are its k low bits and its bit k.
LEMMA LowBits ==
  ASSUME NEW v \in Nat, NEW k \in Nat, k + 1 <= RsBase
  PROVE  v % exp2[k + 1] = (v % exp2[k]) + (IF get_bit(v, k) = 1 THEN exp2[k] ELSE 0)
<1>1. k \in 0..RsBase /\ k + 1 \in 1..RsBase /\ (k + 1) - 1 = k
  BY ArithmeticAssumption
<1>2. PICK p \in Nat \ {0} : p = exp2[k] BY <1>1, Exp2Positive
<1>3. exp2[k + 1] = p * 2
  <2>1. exp2[k + 1] = 2 * p BY <1>1, <1>2, Exp2Doubles
  <2> QED BY <2>1
<1>4. PICK bit : bit = get_bit(v, k) OBVIOUS
<1>5. bit = (v \div p) % 2 BY <1>2, <1>4 DEF get_bit
<1>6. bit \in 0..1 BY <1>1, <1>4, BitIsBit
<1>7. v % (p * 2) = p * bit + (v % p)
  <2>1. v % (p * 2) = p * ((v \div p) % 2) + (v % p)
    <3>1. 2 \in Nat \ {0} OBVIOUS
    <3> QED BY <3>1, DivisionInSteps
  <2> QED BY <1>5, <2>1
<1>8. PICK e \in Nat : e = v % p OBVIOUS
<1>9. v % (p * 2) = e + (IF bit = 1 THEN p ELSE 0) BY <1>6, <1>7, <1>8
<1> QED BY <1>2, <1>3, <1>4, <1>8, <1>9

\* Where a rotation to the right by n takes the bits of a word.
Turned(v, n) == {(i + WordBits - (n % WordBits)) % WordBits : i \in bits_of(v)}

\* A bit of a word turned to the right is one further up.
LEMMA TurnedBits ==
  ASSUME NEW v, NEW n \in 1..TopBit, NEW j \in 0..TopBit
  PROVE  j \in Turned(v, n) <=>
           get_bit(v, IF j < WordBits - n THEN n + j ELSE j - (WordBits - n)) = 1
<1>1. PICK W \in Nat \ {0} : W = WordBits BY WordsHaveBits
<1>2. TopBit = W - 1 /\ n \in 1..W - 1 /\ j \in 0..W - 1 BY <1>1 DEF TopBit
<1>3. n % W = n BY <1>2
<1>4. \A i \in 0..W - 1 : (i + W - n) % W = IF i >= n THEN i - n ELSE i + W - n
  <2> SUFFICES ASSUME NEW i \in 0..W - 1
               PROVE  (i + W - n) % W = IF i >= n THEN i - n ELSE i + W - n
    OBVIOUS
  <2>1. CASE i >= n
    <3>1. i + W - n = W * 1 + (i - n) /\ i - n \in 0..W - 1 BY <1>2, <2>1
    <3> QED BY <2>1, <3>1
  <2>2. CASE ~(i >= n)
    <3>1. i + W - n \in 0..W - 1 BY <1>2, <2>2
    <3> QED BY <2>2, <3>1
  <2> QED BY <2>1, <2>2
<1>5. PICK from : from = IF j < W - n THEN n + j ELSE j - (W - n) OBVIOUS
<1>6. from \in 0..W - 1 /\ (from + W - n) % W = j BY <1>2, <1>4, <1>5
<1>7. \A i \in 0..W - 1 : (i + W - n) % W = j => i = from BY <1>2, <1>4, <1>5
<1>8. j \in Turned(v, n) <=> from \in bits_of(v)
  BY <1>1, <1>2, <1>3, <1>6, <1>7 DEF Turned, bits_of
<1> QED BY <1>1, <1>2, <1>5, <1>6, <1>8 DEF bits_of

\* The sums of the weights of the turned bits: first the bits from n on, then
\* those below n over them.
LEMMA TurnedSum ==
  ASSUME NEW v \in Word, NEW n \in 1..TopBit, NEW f, IsSum(f, Turned(v, n), WordBits)
  PROVE  f[WordBits] = ror(v, n)
<1>1. PICK W \in Nat \ {0} : W = WordBits BY WordsHaveBits
<1>2. TopBit = W - 1 /\ n \in 1..W - 1 /\ RsBase \in Nat /\ W < RsBase
  BY <1>1, WordsHaveBits DEF TopBit
<1>3. PICK h \in 1..W - 1 : h = W - n BY <1>2
<1>4. PICK d \in Nat : d = v \div exp2[n] BY <1>1, <1>2, Halves
<1>5. v \in Nat BY WordsHaveBits
<1>6. \A k \in 0..RsBase : exp2[k] \in Nat \ {0} BY Exp2Positive
<1>7. d < exp2[h] BY <1>1, <1>2, <1>3, <1>4, Halves
<1>8. f[0] = 0 /\ \A k \in 0..W - 1 :
        f[k + 1] = f[k] + (IF k \in Turned(v, n) THEN exp2[k] ELSE 0)
  <2>1. \A k \in 0..W : f[k] =
          IF k = 0 THEN 0
          ELSE f[k - 1] + (IF k - 1 \in Turned(v, n) THEN exp2[k - 1] ELSE 0)
    BY <1>1 DEF IsSum
  <2>2. 0 \in 0..W BY <1>1
  <2>3. \A k \in 0..W - 1 : k + 1 \in 0..W /\ k + 1 # 0 /\ (k + 1) - 1 = k BY <1>1
  <2> QED BY <2>1, <2>2, <2>3
<1>9. \A k \in Nat : k <= h => f[k] = d % exp2[k]
  <2> DEFINE S == {k \in Nat : k <= h => f[k] = d % exp2[k]}
  <2>1. 0 \in S
    <3>1. exp2[0] = 1 BY Exp2Doubles
    <3>2. d % 1 = 0 OBVIOUS
    <3> QED BY <1>8, <3>1, <3>2
  <2>2. ASSUME NEW k \in Nat, k \in S PROVE k + 1 \in S
    <3> SUFFICES ASSUME k + 1 <= h PROVE f[k + 1] = d % exp2[k + 1] OBVIOUS
    <3>1. k \in 0..W - 1 /\ k < h /\ k <= h /\ n + k <= RsBase /\ k + 1 <= RsBase
      BY <1>1, <1>2, <1>3
    <3>2. f[k] = d % exp2[k] BY <2>2, <3>1
    <3>3. k \in Turned(v, n) <=> get_bit(v, n + k) = 1
      BY <1>1, <1>2, <1>3, <3>1, TurnedBits
    <3>4. get_bit(d, k) = get_bit(v, n + k) BY <1>2, <1>4, <1>5, <3>1, BitOfQuotient
    <3>5. d % exp2[k + 1] = (d % exp2[k]) + (IF get_bit(d, k) = 1 THEN exp2[k] ELSE 0)
      BY <3>1, LowBits
    <3>6. f[k + 1] = f[k] + (IF k \in Turned(v, n) THEN exp2[k] ELSE 0) BY <1>8, <3>1
    <3> QED BY <3>2, <3>3, <3>4, <3>5, <3>6
  <2> HIDE DEF S
  <2>3. \A k \in Nat : k \in S BY <2>1, <2>2, Induction
  <2> QED BY <2>3 DEF S
<1>10. PICK q \in Nat \ {0} : q = exp2[h] BY <1>2, <1>3, <1>6
<1>11. \A k \in Nat : k <= n => f[h + k] = d + q * (v % exp2[k])
  <2> DEFINE S == {k \in Nat : k <= n => f[h + k] = d + q * (v % exp2[k])}
  <2>1. 0 \in S
    <3>1. exp2[0] = 1 BY Exp2Doubles
    <3>2. v % 1 = 0 BY <1>5
    <3>3. f[h] = d % q BY <1>3, <1>9, <1>10
    <3>4. d % q = d BY <1>7, <1>10
    <3> QED BY <1>3, <3>1, <3>2, <3>3, <3>4
  <2>2. ASSUME NEW k \in Nat, k \in S PROVE k + 1 \in S
    <3> SUFFICES ASSUME k + 1 <= n PROVE f[h + (k + 1)] = d + q * (v % exp2[k + 1])
      OBVIOUS
    <3>1. /\ h + k \in 0..W - 1 /\ k <= n /\ ~(h + k < h) /\ (h + k) - h = k
          /\ h + k <= RsBase /\ k + 1 <= RsBase /\ (h + k) + 1 = h + (k + 1)
          /\ k \in 0..RsBase
      BY <1>1, <1>2, <1>3
    <3>2. f[h + k] = d + q * (v % exp2[k]) BY <2>2, <3>1
    <3>3. h + k \in Turned(v, n) <=> get_bit(v, k) = 1
      <4>1. PICK j \in 0..TopBit : j = h + k BY <1>2, <3>1
      <4>2. ~(j < WordBits - n) /\ j - (WordBits - n) = k BY <1>1, <1>3, <3>1, <4>1
      <4> QED BY <1>2, <4>1, <4>2, TurnedBits
    <3>4. PICK p \in Nat \ {0} : p = exp2[k] BY <1>6, <3>1
    <3>5. PICK e \in Nat : e = v % p BY <1>5
    <3>6. v % exp2[k + 1] = e + (IF get_bit(v, k) = 1 THEN p ELSE 0)
      BY <1>5, <3>1, <3>4, <3>5, LowBits
    <3>7. exp2[h + k] = q * p BY <1>3, <1>10, <3>1, <3>4, Exp2Sum
    <3>8. f[h + (k + 1)] = f[h + k] + (IF h + k \in Turned(v, n) THEN exp2[h + k] ELSE 0)
      BY <1>8, <3>1
    <3>9. PICK qe \in Nat : qe = q * e OBVIOUS
    <3>10. PICK qp \in Nat : qp = q * p OBVIOUS
    <3>11. q * (e + p) = qe + qp /\ q * (e + 0) = qe BY <3>9, <3>10
    <3>12. f[h + k] = d + qe BY <3>2, <3>4, <3>5, <3>9
    <3>13. CASE get_bit(v, k) = 1
      <4>1. f[h + (k + 1)] = (d + qe) + qp BY <3>3, <3>7, <3>8, <3>10, <3>12, <3>13
      <4>2. q * (v % exp2[k + 1]) = qe + qp BY <3>6, <3>11, <3>13
      <4>3. PICK low : low = q * (v % exp2[k + 1]) OBVIOUS
      <4>4. f[h + (k + 1)] = d + low BY <4>1, <4>2, <4>3
      <4> QED BY <4>3, <4>4
    <3>14. CASE get_bit(v, k) # 1
      <4>1. f[h + (k + 1)] = (d + qe) + 0 BY <3>3, <3>8, <3>12, <3>14
      <4>2. v % exp2[k + 1] = e + 0 BY <3>6, <3>14
      <4> QED BY <3>11, <4>1, <4>2
    <3> QED BY <3>13, <3>14
  <2> HIDE DEF S
  <2>3. \A k \in Nat : k \in S BY <2>1, <2>2, Induction
  <2> QED BY <2>3 DEF S
<1>12. f[W] = d + q * (v % exp2[n])
  <2>1. n \in Nat /\ n <= n /\ h + n = W BY <1>2, <1>3
  <2> QED BY <1>11, <2>1
<1>13. PICK e \in Nat : e = v % exp2[n] BY <1>1, <1>2, Halves
<1>14. q * e = e * q OBVIOUS
<1> QED BY <1>1, <1>3, <1>4, <1>10, <1>12, <1>13, <1>14 DEF ror

\* A rotation is the sum of what it moves down and of what it moves round, and
\* its carry is the last bit it has moved round.
LEMMA RotationTurns ==
  ASSUME NEW v \in Word, NEW n \in 1..TopBit, NEW C
  PROVE  Shift(3, v, n, C) = Shifted(ror(v, n), get_bit(v, n - 1))
<1>1. PICK f : IsSum(f, Turned(v, n), WordBits) /\ word_of(Turned(v, n)) = f[WordBits]
  BY WordOfIsSum
<1>2. PICK x : x = word_of(Turned(v, n)) OBVIOUS
<1>3. x = ror(v, n) BY <1>1, <1>2, TurnedSum
<1>4. PICK top \in Nat : top = TopBit BY WordsHaveBits
<1>5. top \in 0..WordBits /\ top + 1 \in 0..WordBits /\ top + 1 = WordBits
      /\ (top + 1) - 1 = top /\ top + 1 # 0
  BY <1>4, WordsHaveBits
<1>6. f[top] \in Nat /\ f[top] < exp2[top] BY <1>1, <1>5, SumIsBelow
<1>7. f[top + 1] = f[top] + (IF top \in Turned(v, n) THEN exp2[top] ELSE 0)
  BY <1>1, <1>5 DEF IsSum
<1>8. exp2[top] \in Nat BY <1>4, WordsHaveBits
<1>9. x >= exp2[top] <=> top \in Turned(v, n) BY <1>1, <1>2, <1>5, <1>6, <1>7, <1>8
<1>10. top \in Turned(v, n) <=> get_bit(v, n - 1) = 1
  <2>1. ~(top < WordBits - n) /\ top - (WordBits - n) = n - 1 BY <1>4, <1>5
  <2>2. top \in 0..TopBit BY <1>4
  <2> QED BY <1>4, <2>1, <2>2, TurnedBits
<1>11. x \in Word BY <1>2, WordOfIsWord
<1>12. get_bit(x, TopBit) = IF x >= exp2[top] THEN 1 ELSE 0 BY <1>4, <1>11, NegativeIs
<1>13. n \in 1..WordBits BY <1>4, <1>5
<1>14. get_bit(v, n - 1) \in 0..1 BY <1>13, CarriesAreBits
<1>15. get_bit(x, TopBit) = get_bit(v, n - 1) BY <1>9, <1>10, <1>12, <1>14
<1>16. Shift(3, v, n, C) = Shifted(x, get_bit(x, TopBit))
  <2>1. n # 0 /\ n > 0 BY <1>4
  <2> QED BY <1>2, <2>1 DEF Shift, Turned
<1> QED BY <1>3, <1>15, <1>16

\* The carry of a shift to the left is the lowest bit above the word.
LEMMA LeftShifts ==
  ASSUME NEW v \in Word, NEW n \in 1..WordBits, NEW C
  PROVE  /\ Shift(0, v, n, C) = Shifted(logical_shift_left(v, n), get_bit(v, WordBits - n))
         /\ n = WordBits => logical_shift_left(v, n) = 0 /\ get_bit(v, WordBits - n) = get_bit(v, 0)
<1>1. PICK W \in Nat \ {0} : W = WordBits BY WordsHaveBits
<1>2. n \in 0..W /\ n # 0 /\ n > 0 BY <1>1
<1>3. PICK p \in Nat \ {0} : p = exp2[n] BY <1>1, <1>2, Halves
<1>4. PICK q \in Nat \ {0} : q = exp2[W - n] BY <1>1, <1>2, Halves
<1>5. PICK m \in Nat \ {0} : m = p * q OBVIOUS
<1>6. exp2[WordBits] = m BY <1>1, <1>2, <1>3, <1>4, <1>5, Halves
<1>7. v \in Nat BY WordsHaveBits
<1>8. PICK x \in Nat : x = v * p BY <1>7
<1>9. x \div p = v BY <1>7, <1>8
<1>10. x \div m = v \div q
  <2>1. x \div (p * q) = (x \div p) \div q BY DivisionInSteps
  <2> QED BY <1>5, <1>9, <2>1
<1>11. Shift(0, v, n, C) = Shifted(x % m, (x \div m) % 2)
  BY <1>2, <1>3, <1>6, <1>8 DEF Shift
<1>12. logical_shift_left(v, n) = x % m BY <1>3, <1>6, <1>8 DEF logical_shift_left
<1>13. get_bit(v, WordBits - n) = (v \div q) % 2 BY <1>1, <1>4 DEF get_bit
<1>14. CASE n = WordBits
  <2>1. W - n = 0 BY <1>1, <1>14
  <2>2. q = 1 BY <1>4, <2>1, Exp2Doubles
  <2>3. m = p BY <1>5, <2>2
  <2>4. x % p = 0 BY <1>7, <1>8
  <2> QED BY <1>1, <1>10, <1>11, <1>12, <1>13, <2>1, <2>3, <2>4
<1>15. CASE n # WordBits BY <1>10, <1>11, <1>12, <1>13, <1>15
<1> QED BY <1>14, <1>15

\* A shift by more than a word leaves nothing.
LEMMA Beyond ==
  ASSUME NEW v \in Word, NEW n \in 0..RsBase, n >= WordBits
  PROVE  /\ v \div exp2[n] = 0
         /\ n > WordBits =>
              /\ (v * exp2[n]) % exp2[WordBits] = 0
              /\ ((v * exp2[n]) \div exp2[WordBits]) % 2 = 0
              /\ (v \div exp2[n - 1]) % 2 = 0
<1>1. PICK W \in Nat \ {0} : W = WordBits BY WordsHaveBits
<1>2. RsBase \in Nat /\ v \in Nat BY WordsHaveBits
<1>3. PICK M \in Nat \ {0} : M = exp2[WordBits] /\ v < M
  <2>1. exp2[WordBits] \in Nat /\ exp2[WordBits] >= 1 /\ v < exp2[WordBits]
    BY WordsHaveBits
  <2> QED BY <2>1
<1>4. ASSUME NEW k \in 0..RsBase, k >= W PROVE v \div exp2[k] = 0
  <2>1. k - W \in 0..RsBase /\ W + (k - W) = k /\ k <= RsBase BY <1>1, <1>2, <1>4
  <2>2. PICK q \in Nat \ {0} : q = exp2[k - W] BY <2>1, Exp2Positive
  <2>3. exp2[k] = M * q BY <1>1, <1>2, <1>3, <2>1, <2>2, Exp2Sum
  <2>4. M * q >= M OBVIOUS
  <2>5. PICK p \in Nat \ {0} : p = M * q OBVIOUS
  <2>6. v \in 0..p - 1 BY <1>2, <1>3, <2>4, <2>5
  <2>7. v = p * 0 + v BY <1>2
  <2>8. v \div p = 0 BY <1>2, <2>6, <2>7
  <2> QED BY <2>3, <2>5, <2>8
<1>5. v \div exp2[n] = 0 BY <1>1, <1>4
<1>6. ASSUME n > W
      PROVE  /\ (v * exp2[n]) % exp2[WordBits] = 0
             /\ ((v * exp2[n]) \div exp2[WordBits]) % 2 = 0
             /\ (v \div exp2[n - 1]) % 2 = 0
  <2>1. /\ n - W \in 1..RsBase /\ W + (n - W) = n /\ n <= RsBase
        /\ n - 1 \in 0..RsBase /\ n - 1 >= W /\ (n - W) - 1 \in 0..RsBase
    BY <1>1, <1>2, <1>6
  <2>2. PICK h \in Nat \ {0} : h = exp2[(n - W) - 1] BY <2>1, Exp2Positive
  <2>3. exp2[n - W] = 2 * h BY <2>1, <2>2, Exp2Doubles
  <2>4. exp2[n] = M * (2 * h) BY <1>1, <1>2, <1>3, <2>1, <2>3, Exp2Sum
  <2>5. PICK x \in Nat : x = v * h BY <1>2
  <2>6. PICK y \in Nat : y = 2 * x OBVIOUS
  <2>7. v * (M * (2 * h)) = y * M
    <3>1. v * (M * (2 * h)) = (2 * (v * h)) * M BY <1>2
    <3> QED BY <2>5, <2>6, <3>1
  <2>8. (y * M) % M = 0 /\ (y * M) \div M = y OBVIOUS
  <2>9. y % 2 = 0 BY <2>6
  <2>10. (v * exp2[n]) % M = 0 /\ ((v * exp2[n]) \div M) % 2 = 0
    BY <2>4, <2>7, <2>8, <2>9
  <2>11. v \div exp2[n - 1] = 0 BY <1>4, <2>1
  <2> QED BY <1>3, <2>10, <2>11
<1> QED BY <1>1, <1>5, <1>6

\* A shift to the right leaves the bits above and moves out the last below.
LEMMA RightShifts ==
  ASSUME NEW v, NEW n \in 1..RsBase, NEW C
  PROVE  Shift(1, v, n, C) = Shifted(logical_shift_right(v, n), get_bit(v, n - 1))
<1>1. n # 0 /\ n > 0 BY WordsHaveBits
<1> QED BY <1>1 DEF Shift, logical_shift_right, get_bit

\* The powers of two grow.
LEMMA Exp2Grows ==
  ASSUME NEW a \in Nat, NEW c \in Nat, a <= c, c <= RsBase
  PROVE  exp2[a] <= exp2[c]
<1>1. /\ RsBase \in Nat /\ a \in 0..RsBase /\ c - a \in 0..RsBase
      /\ c - a \in Nat /\ a + (c - a) = c
  BY WordsHaveBits
<1>2. PICK p \in Nat \ {0} : p = exp2[a] BY <1>1, Exp2Positive
<1>3. PICK q \in Nat \ {0} : q = exp2[c - a] BY <1>1, Exp2Positive
<1>4. exp2[c] = p * q BY <1>1, <1>2, <1>3, Exp2Sum
<1>5. p * q >= p OBVIOUS
<1> QED BY <1>2, <1>4, <1>5

\* The quotient of a number below 0 is rounded down.
LEMMA NegativeDivision ==
  ASSUME NEW x \in Nat, NEW p \in Nat \ {0}, NEW q \in Nat
  PROVE  (x - p * q) \div p = (x \div p) - q
<1>1. PICK d \in Nat : d = x \div p OBVIOUS
<1>2. PICK e \in 0..p - 1 : x = p * d + e BY <1>1
<1>3. PICK m \in Int : m = d - q OBVIOUS
<1>4. x - p * q = p * m + e
  <2>1. p * m = p * d - p * q BY <1>3
  <2>2. PICK pd \in Nat : pd = p * d OBVIOUS
  <2>3. PICK pq \in Nat : pq = p * q OBVIOUS
  <2>4. p * m = pd - pq BY <2>1, <2>2, <2>3
  <2>5. x = pd + e BY <1>2, <2>2
  <2>6. x - pq = (pd - pq) + e BY <2>5
  <2> QED BY <2>3, <2>4, <2>6
<1>5. (p * m + e) \div p = m BY <1>2
<1> QED BY <1>1, <1>3, <1>4, <1>5

\* An arithmetic shift divides the signed word and rounds down.
LEMMA ArithmeticShifts ==
  ASSUME NEW v \in Word, NEW n \in 1..TopBit, NEW C
  PROVE  Shift(2, v, n, C) = Shifted(asr(v, n), get_bit(v, n - 1))
<1>1. PICK W \in Nat \ {0} : W = WordBits BY WordsHaveBits
<1>2. /\ n \in 0..W /\ n # 0 /\ n > 0 /\ W - n \in Nat /\ n \in 1..W - 1
      /\ W < RsBase /\ RsBase \in Nat
  BY <1>1, WordsHaveBits DEF TopBit
<1>3. PICK p \in Nat \ {0} : p = exp2[n] BY <1>1, <1>2, Halves
<1>4. PICK q \in Nat \ {0} : q = exp2[W - n] BY <1>1, <1>2, Halves
<1>5. PICK m \in Nat \ {0} : m = p * q OBVIOUS
<1>6. exp2[WordBits] = m BY <1>1, <1>2, <1>3, <1>4, <1>5, Halves
<1>7. PICK d \in Nat : d = v \div p /\ d < q BY <1>1, <1>2, <1>3, <1>4, Halves
<1>8. q <= m
  <2>1. p * q >= q OBVIOUS
  <2> QED BY <1>5, <2>1
<1>9. v \in Nat BY WordsHaveBits
<1>10. PICK h \in Nat \ {0} : h = exp2[n - 1]
  <2>1. n - 1 \in 0..RsBase BY <1>2
  <2> QED BY <2>1, Exp2Positive
<1>11. m = h * (2 * q)
  <2>1. p = 2 * h
    <3>1. n \in 1..RsBase BY <1>2
    <3> QED BY <1>3, <1>10, <3>1, Exp2Doubles
  <2>2. (2 * h) * q = h * (2 * q) OBVIOUS
  <2> QED BY <1>5, <2>1, <2>2
<1>12. PICK s \in Int : s = signed(v)
  <2>1. signed(v) \in {v, v - m} BY <1>6 DEF signed
  <2> QED BY <1>9, <2>1
<1>13. Shift(2, v, n, C) = Shifted((s \div p) % m, (s \div h) % 2)
  BY <1>2, <1>3, <1>6, <1>10, <1>12 DEF Shift
<1>14. asr(v, n) = d + (IF negative(v) THEN m - q ELSE 0)
  BY <1>1, <1>3, <1>4, <1>6, <1>7 DEF asr
<1>15. get_bit(v, n - 1) = (v \div h) % 2 BY <1>10 DEF get_bit
<1>16. CASE negative(v)
  <2>1. s = v - p * q BY <1>5, <1>6, <1>12, <1>16 DEF signed
  <2>2. s \div p = d - q BY <1>7, <1>9, <2>1, NegativeDivision
  <2>3. PICK x \in 0..m - 1 : x = d + (m - q) BY <1>7, <1>8
  <2>4. d - q = m * (-1) + x BY <2>3
  <2>5. (d - q) % m = x BY <2>3, <2>4
  <2>6. s = v - h * (2 * q) BY <1>5, <1>11, <2>1
  <2>7. s \div h = (v \div h) - 2 * q
    <3>1. 2 * q \in Nat OBVIOUS
    <3> QED BY <1>9, <2>6, <3>1, NegativeDivision
  <2>8. PICK y \in Nat : y = v \div h BY <1>9
  <2>9. (y - 2 * q) % 2 = y % 2 OBVIOUS
  <2> QED BY <1>13, <1>14, <1>15, <1>16, <2>2, <2>3, <2>5, <2>7, <2>8, <2>9
<1>17. CASE ~negative(v)
  <2>1. s = v BY <1>12, <1>17 DEF signed
  <2>2. d \in 0..m - 1 BY <1>7, <1>8
  <2>3. d % m = d BY <2>2
  <2>4. asr(v, n) = d BY <1>14, <1>17
  <2> QED BY <1>7, <1>13, <1>15, <2>1, <2>3, <2>4
<1> QED BY <1>16, <1>17

\* By a word or more it leaves copies of the sign.
LEMMA SignFills ==
  ASSUME NEW v \in Word, NEW n \in 0..RsBase, n >= WordBits, NEW C
  PROVE  Shift(2, v, n, C) = sign_fill(v)
<1>1. PICK P \in Nat \ {0} : P = exp2[TopBit] BY WordsHaveBits
<1>2. PICK M \in Nat \ {0} : M = exp2[WordBits] BY WordsHaveBits
<1>3. M = 2 * P /\ v \in 0..M - 1 /\ UINT32_MAX = M - 1 BY <1>1, <1>2, WordsHaveBits
<1>4. /\ n > 0 /\ n # 0 /\ n \in Nat /\ n - 1 \in Nat /\ n <= RsBase /\ n - 1 <= RsBase
      /\ TopBit <= n - 1 /\ TopBit \in Nat /\ WordBits \in Nat
      /\ n - 1 \in 0..RsBase
  BY WordsHaveBits
<1>5. PICK p \in Nat \ {0} : p = exp2[n] BY Exp2Positive
<1>6. PICK h \in Nat \ {0} : h = exp2[n - 1] BY <1>4, Exp2Positive
<1>7. M <= p BY <1>2, <1>4, <1>5, Exp2Grows
<1>8. P <= h BY <1>1, <1>4, <1>6, Exp2Grows
<1>9. PICK s : s = signed(v) OBVIOUS
<1>10. Shift(2, v, n, C) = Shifted((s \div p) % M, (s \div h) % 2)
  BY <1>2, <1>4, <1>5, <1>6, <1>9 DEF Shift
<1>11. /\ negative(v) <=> v >= P
       /\ get_bit(v, TopBit) = IF v >= P THEN 1 ELSE 0
  BY <1>1, NegativeIs
<1>12. CASE v >= P
  <2>1. s = v - M BY <1>2, <1>9, <1>11, <1>12 DEF signed
  <2>2. PICK x \in 0..p - 1 : x = s + p BY <1>3, <1>7, <2>1
  <2>3. PICK y \in 0..h - 1 : y = s + h BY <1>3, <1>8, <1>12, <2>1
  <2>4. s \in Int /\ s = p * (-1) + x /\ s = h * (-1) + y BY <1>3, <2>1, <2>2, <2>3
  <2>5. s \div p = -1 /\ s \div h = -1 BY <2>2, <2>3, <2>4
  <2>6. (-1) % M = M - 1 /\ (-1) % 2 = 1
    <3>1. PICK z \in 0..M - 1 : z = M - 1 OBVIOUS
    <3>2. PICK k \in Int : k = -1 OBVIOUS
    <3>3. k = M * k + z BY <3>1, <3>2
    <3>4. (M * k + z) % M = z BY <3>1
    <3>5. k % 2 = 1
      <4>1. k = 2 * k + 1 BY <3>2
      <4>2. (2 * k + 1) % 2 = 1 OBVIOUS
      <4> QED BY <4>1, <4>2
    <3> QED BY <3>1, <3>2, <3>3, <3>4, <3>5
  <2> QED BY <1>3, <1>10, <1>11, <1>12, <2>5, <2>6 DEF sign_fill
<1>13. CASE ~(v >= P)
  <2>1. s = v BY <1>9, <1>11, <1>13 DEF signed
  <2>2. v \in 0..p - 1 /\ v \in 0..h - 1 BY <1>3, <1>7, <1>8, <1>13
  <2>3. v = p * 0 + v /\ v = h * 0 + v BY <1>3
  <2>4. v \div p = 0 /\ v \div h = 0 BY <2>2, <2>3
  <2>5. 0 % M = 0 /\ 0 % 2 = 0 OBVIOUS
  <2> QED BY <1>10, <1>11, <1>13, <2>1, <2>4, <2>5 DEF sign_fill
<1> QED BY <1>12, <1>13

\* RRX brings the carry in above the word.
LEMMA ExtendedIs ==
  ASSUME NEW v \in Word, NEW C \in 0..1
  PROVE  /\ (v + C * exp2[WordBits]) \div 2 = C * exp2[TopBit] + logical_shift_right(v, 1)
         /\ v % 2 = get_bit(v, 0)
<1>1. PICK P \in Nat \ {0} : P = exp2[TopBit] BY WordsHaveBits
<1>2. exp2[WordBits] = 2 * P /\ v \in Nat BY <1>1, WordsHaveBits
<1>3. exp2[0] = 1 /\ exp2[1] = 2
  <2>1. 1 \in 1..RsBase /\ 1 - 1 = 0 BY WordsHaveBits
  <2> QED BY <2>1, Exp2Doubles
<1>4. logical_shift_right(v, 1) = v \div 2 BY <1>3 DEF logical_shift_right
<1>5. get_bit(v, 0) = v % 2
  <2>1. v \div 1 = v BY <1>2
  <2> QED BY <1>3, <2>1 DEF get_bit
<1>6. CASE C = 0 BY <1>1, <1>2, <1>4, <1>5, <1>6
<1>7. CASE C = 1
  <2>1. (v + 2 * P) \div 2 = P + (v \div 2) BY <1>2
  <2> QED BY <1>1, <1>2, <1>4, <1>5, <1>7, <2>1
<1> QED BY <1>6, <1>7

\* The shifts by an amount in the instruction.
LEMMA AmountShifts ==
  ASSUME NEW r \in registers_data, NEW v \in Word, NEW n \in 0..TopBit,
         NEW C, C = C_flag(r)
  PROVE  /\ ShiftByAmount(0, v, n, C) = logical_shift_left_by_immediate(r, n, v)
         /\ ShiftByAmount(0, v, n, C) = logical_shift_left_by_register(r, v, n)
         /\ ShiftByAmount(1, v, n, C) = logical_shift_right_by_immediate(n, v)
         /\ ShiftByAmount(2, v, n, C) = Arithmetic_shift_right_by_immediate(n, v)
         /\ ShiftByAmount(3, v, n, C) = Rotate_right_by_immediate(r, n, v)
<1>1. /\ WordBits \in Nat \ {0} /\ TopBit \in Nat /\ TopBit + 1 = WordBits
      /\ RsBase \in Nat /\ WordBits < RsBase
  BY WordsHaveBits
<1>2. C \in 0..1 BY DEF C_flag
<1>3. CASE n = 0
  <2>1. ShiftByAmount(0, v, n, C) = Shifted(v, C)
    BY <1>3 DEF ShiftByAmount, Shift
  <2>2. n % RsBase = 0 BY <1>1, <1>3
  <2>3. WordBits \in 1..RsBase /\ WordBits \in 0..RsBase BY <1>1
  <2>4. ShiftByAmount(1, v, n, C) = Shifted(0, get_bit(v, TopBit))
    <3>1. ShiftByAmount(1, v, n, C) = Shift(1, v, WordBits, C) BY <1>3 DEF ShiftByAmount
    <3>2. logical_shift_right(v, WordBits) = 0 BY <2>3, Beyond DEF logical_shift_right
    <3> QED BY <2>3, <3>1, <3>2, RightShifts DEF TopBit
  <2>5. ShiftByAmount(2, v, n, C) = sign_fill(v)
    <3>1. ShiftByAmount(2, v, n, C) = Shift(2, v, WordBits, C) BY <1>3 DEF ShiftByAmount
    <3> QED BY <2>3, <3>1, SignFills
  <2>6. ShiftByAmount(3, v, n, C) = rotate_right_with_extend(r, v)
    <3>1. ShiftByAmount(3, v, n, C) = Shifted((v + C * exp2[WordBits]) \div 2, v % 2)
      BY <1>3 DEF ShiftByAmount
    <3> QED BY <1>2, <3>1, ExtendedIs DEF rotate_right_with_extend
  <2>7. logical_shift_left_by_register(r, v, n) = Shifted(v, C)
    <3>1. 0 \notin 1..TopBit /\ 0 # WordBits BY <1>1
    <3> QED BY <2>2, <3>1 DEF logical_shift_left_by_register
  <2>8. logical_shift_left_by_immediate(r, n, v) = Shifted(v, C)
    BY <1>3 DEF logical_shift_left_by_immediate
  <2>9. logical_shift_right_by_immediate(n, v) = Shifted(0, get_bit(v, TopBit))
    BY <1>3 DEF logical_shift_right_by_immediate
  <2>10. Arithmetic_shift_right_by_immediate(n, v) = sign_fill(v)
    BY <1>3 DEF Arithmetic_shift_right_by_immediate
  <2>11. Rotate_right_by_immediate(r, n, v) = rotate_right_with_extend(r, v)
    BY <1>3 DEF Rotate_right_by_immediate
  <2> QED BY <2>1, <2>4, <2>5, <2>6, <2>7, <2>8, <2>9, <2>10, <2>11
<1>4. CASE n # 0
  <2>1. /\ n \in 1..TopBit /\ n \in 1..WordBits /\ n \in 1..RsBase
        /\ n % RsBase = n /\ n # WordBits
    BY <1>1, <1>4
  <2>2. \A kind \in 0..3 : ShiftByAmount(kind, v, n, C) = Shift(kind, v, n, C)
    BY <1>4 DEF ShiftByAmount
  <2>3. Shift(0, v, n, C) = Shifted(logical_shift_left(v, n), get_bit(v, WordBits - n))
    BY <2>1, LeftShifts
  <2>4. Shift(1, v, n, C) = Shifted(logical_shift_right(v, n), get_bit(v, n - 1))
    BY <2>1, RightShifts
  <2>5. Shift(2, v, n, C) = Shifted(asr(v, n), get_bit(v, n - 1))
    BY <2>1, ArithmeticShifts
  <2>6. Shift(3, v, n, C) = Shifted(ror(v, n), get_bit(v, n - 1)) BY <2>1, RotationTurns
  <2>7. logical_shift_left_by_register(r, v, n) =
          Shifted(logical_shift_left(v, n), get_bit(v, WordBits - n))
    BY <1>4, <2>1 DEF logical_shift_left_by_register
  <2> QED
    BY <1>4, <2>2, <2>3, <2>4, <2>5, <2>6, <2>7
    DEF logical_shift_left_by_immediate, logical_shift_right_by_immediate,
        Arithmetic_shift_right_by_immediate, Rotate_right_by_immediate
<1> QED BY <1>3, <1>4

\* The shifts by an amount in a register.
LEMMA RegisterShifts ==
  ASSUME NEW r \in registers_data, NEW v \in Word, NEW a \in Nat,
         NEW C, C = C_flag(r), NEW n, n = a % RsBase
  PROVE  /\ Shift(0, v, n, C) = logical_shift_left_by_register(r, v, a)
         /\ Shift(1, v, n, C) = logical_shift_right_by_register(r, a, v)
         /\ Shift(2, v, n, C) = Arithmetic_shift_right_by_register(r, a, v)
<1>1. /\ WordBits \in Nat \ {0} /\ TopBit \in Nat /\ TopBit + 1 = WordBits
      /\ RsBase \in Nat \ {0} /\ WordBits < RsBase
  BY WordsHaveBits
<1>2. n \in 0..RsBase - 1 BY <1>1
<1>3. n \in Nat /\ n \in 0..RsBase BY <1>1, <1>2
<1>4. CASE n = 0
  <2>1. /\ Shift(0, v, n, C) = Shifted(v, C) /\ Shift(1, v, n, C) = Shifted(v, C)
        /\ Shift(2, v, n, C) = Shifted(v, C)
    BY <1>1, <1>4 DEF Shift
  <2>2. 0 \notin 1..TopBit /\ 0 # WordBits BY <1>1
  <2>3. logical_shift_left_by_register(r, v, a) = Shifted(v, C)
    BY <1>4, <2>2 DEF logical_shift_left_by_register
  <2>4. logical_shift_right_by_register(r, a, v) = Shifted(v, C)
    BY <1>4, <2>2 DEF logical_shift_right_by_register
  <2>5. Arithmetic_shift_right_by_register(r, a, v) = Shifted(v, C)
    BY <1>4, <2>2 DEF Arithmetic_shift_right_by_register
  <2> QED BY <2>1, <2>3, <2>4, <2>5
<1>5. CASE n \in 1..TopBit
  <2>1. n # 0 /\ n # WordBits /\ n \in 1..WordBits /\ n \in 1..RsBase BY <1>1, <1>5
  <2>2. Shift(0, v, n, C) = Shifted(logical_shift_left(v, n), get_bit(v, WordBits - n))
    BY <2>1, LeftShifts
  <2>3. Shift(1, v, n, C) = Shifted(logical_shift_right(v, n), get_bit(v, n - 1))
    BY <2>1, RightShifts
  <2>4. Shift(2, v, n, C) = Shifted(asr(v, n), get_bit(v, n - 1))
    BY <1>5, ArithmeticShifts
  <2>5. logical_shift_left_by_register(r, v, a) =
          Shifted(logical_shift_left(v, n), get_bit(v, WordBits - n))
    BY <1>5, <2>1 DEF logical_shift_left_by_register
  <2>6. logical_shift_right_by_register(r, a, v) =
          Shifted(logical_shift_right(v, n), get_bit(v, n - 1))
    BY <1>5, <2>1 DEF logical_shift_right_by_register
  <2>7. Arithmetic_shift_right_by_register(r, a, v) =
          Shifted(asr(v, n), get_bit(v, n - 1))
    BY <1>5, <2>1 DEF Arithmetic_shift_right_by_register
  <2> QED BY <2>2, <2>3, <2>4, <2>5, <2>6, <2>7
<1>6. CASE n >= WordBits
  <2>1. n # 0 /\ n \notin 1..TopBit /\ n > 0 /\ n \in 1..RsBase BY <1>1, <1>3, <1>6
  <2>2. Arithmetic_shift_right_by_register(r, a, v) = sign_fill(v)
    BY <2>1 DEF Arithmetic_shift_right_by_register
  <2>3. Shift(2, v, n, C) = sign_fill(v) BY <1>3, <1>6, SignFills
  <2>4. logical_shift_right(v, n) = 0 BY <1>3, <1>6, Beyond DEF logical_shift_right
  <2>5. Shift(1, v, n, C) = Shifted(0, get_bit(v, n - 1)) BY <2>1, <2>4, RightShifts
  <2>6. CASE n = WordBits
    <3>1. logical_shift_left_by_register(r, v, a) = Shifted(0, get_bit(v, 0))
      BY <2>1, <2>6 DEF logical_shift_left_by_register
    <3>2. Shift(0, v, n, C) = Shifted(0, get_bit(v, 0))
      <4>1. n \in 1..WordBits BY <1>1, <2>6
      <4> QED BY <2>6, <4>1, LeftShifts
    <3>3. logical_shift_right_by_register(r, a, v) = Shifted(0, get_bit(v, TopBit))
      BY <2>1, <2>6 DEF logical_shift_right_by_register
    <3>4. n - 1 = TopBit BY <2>6 DEF TopBit
    <3> QED BY <2>2, <2>3, <2>5, <3>1, <3>2, <3>3, <3>4
  <2>7. CASE n # WordBits
    <3>1. n > WordBits BY <1>1, <1>3, <1>6, <2>7
    <3>2. /\ (v * exp2[n]) % exp2[WordBits] = 0
          /\ ((v * exp2[n]) \div exp2[WordBits]) % 2 = 0
          /\ (v \div exp2[n - 1]) % 2 = 0
      BY <1>3, <1>6, <3>1, Beyond
    <3>3. Shift(0, v, n, C) = Shifted(0, 0) BY <2>1, <3>2 DEF Shift
    <3>4. get_bit(v, n - 1) = 0 BY <3>2 DEF get_bit
    <3>5. logical_shift_left_by_register(r, v, a) = Shifted(0, 0)
      BY <2>1, <2>7 DEF logical_shift_left_by_register
    <3>6. logical_shift_right_by_register(r, a, v) = Shifted(0, 0)
      BY <2>1, <2>7 DEF logical_shift_right_by_register
    <3> QED BY <2>2, <2>3, <2>5, <3>3, <3>4, <3>5, <3>6
  <2> QED BY <2>6, <2>7
<1> QED BY <1>1, <1>3, <1>4, <1>5, <1>6

\* The branch of the sequence of tests that an encoding takes.
LEMMA CarryBranch ==
  ASSUME NEW r, NEW sh \in Shifters, sh.by # "immediate", NEW v, NEW n,
         v = arm_read_register(r, sh.rm),
         n = IF sh.by = "amount" THEN sh.amount ELSE arm_read_register(r, sh.rs)
  PROVE  /\ sh.by = "amount" =>
              /\ sh.kind = 0 => carry(r, sh) \in {logical_shift_left_by_immediate(r, n, v),
                                                  logical_shift_left_by_register(r, v, n)}
              /\ sh.kind = 1 => carry(r, sh) = logical_shift_right_by_immediate(n, v)
              /\ sh.kind = 2 => carry(r, sh) = Arithmetic_shift_right_by_immediate(n, v)
              /\ sh.kind = 3 => carry(r, sh) = Rotate_right_by_immediate(r, n, v)
         /\ sh.by = "register" =>
              /\ sh.kind \in {0, 3} => carry(r, sh) = logical_shift_left_by_register(r, v, n)
              /\ sh.kind = 1 => carry(r, sh) = logical_shift_right_by_register(r, n, v)
              /\ sh.kind = 2 => carry(r, sh) = Arithmetic_shift_right_by_register(r, n, v)
<1>1. CASE sh.by = "amount" /\ sh.kind = 0 BY <1>1 DEF carry
<1>2. CASE sh.by = "amount" /\ sh.kind = 1 BY <1>2 DEF carry
<1>3. CASE sh.by = "amount" /\ sh.kind = 2 BY <1>3 DEF carry
<1>4. CASE sh.by = "amount" /\ sh.kind = 3 BY <1>4 DEF carry
<1>5. CASE sh.by = "register" /\ sh.kind \in {0, 3} BY <1>5 DEF carry
<1>6. CASE sh.by = "register" /\ sh.kind = 1 BY <1>6 DEF carry
<1>7. CASE sh.by = "register" /\ sh.kind = 2 BY <1>7 DEF carry
<1>8. sh.by \in {"amount", "register"} /\ sh.kind \in {0, 1, 2, 3} BY DEF Shifters
<1> QED BY <1>1, <1>2, <1>3, <1>4, <1>5, <1>6, <1>7, <1>8

\* Whatever the encoding, the register shifted and the amount, the shifter gives
\* the operand and the carry of the architecture, and a rotation by a register
\* those of a left shift (arm_data_processing_functions.c:174).
THEOREM ShifterFollowsArchitecture == Spec => []ShifterIsArchitectural
<1>1. TypeOK => ShifterIsArchitectural
  <2> SUFFICES ASSUME TypeOK, Runs("dp"), ins.sh.by # "immediate",
                      NEW sh, sh = ins.sh, NEW v, v = arm_read_register(reg, sh.rm),
                      NEW C, C = C_flag(reg)
               PROVE  carry(reg, sh) =
                        IF sh.by = "amount"
                        THEN ShiftByAmount(sh.kind, v, sh.amount, C)
                        ELSE Shift(IF sh.kind = 3 THEN 0 ELSE sh.kind, v,
                                   arm_read_register(reg, sh.rs) % RsBase, C)
    BY DEF ShifterIsArchitectural
  <2>1. ins.op = "dp" BY DEF Runs
  <2>2. reg \in registers_data /\ ins \in Program BY <2>1 DEF TypeOK, None
  <2>3. sh \in Shifters BY <2>1, <2>2, MachineAssumption DEF Instructions
  <2>4. v \in Word BY <2>2, CoreReadIsWord
  <2>5. sh.kind \in {0, 1, 2, 3} BY <2>3 DEF Shifters
  <2>6. CASE sh.by = "amount"
    <3>1. PICK n \in 0..TopBit : n = sh.amount BY <2>3, <2>6 DEF Shifters
    <3>2. carry(reg, sh) = ShiftByAmount(sh.kind, v, n, C)
      BY <2>2, <2>3, <2>4, <2>5, <2>6, <3>1, CarryBranch, AmountShifts
    <3> QED BY <2>6, <3>1, <3>2
  <2>7. CASE sh.by # "amount"
    <3>1. sh.by = "register" BY <2>3, <2>7 DEF Shifters
    <3>2. PICK a : a = arm_read_register(reg, sh.rs) OBVIOUS
    <3>3. a \in Word BY <2>2, <3>2, CoreReadIsWord
    <3>4. a \in Nat BY <3>3, WordsHaveBits
    <3>5. PICK n : n = a % RsBase OBVIOUS
    <3>6. /\ Shift(0, v, n, C) = logical_shift_left_by_register(reg, v, a)
          /\ Shift(1, v, n, C) = logical_shift_right_by_register(reg, a, v)
          /\ Shift(2, v, n, C) = Arithmetic_shift_right_by_register(reg, a, v)
      BY <2>2, <2>4, <3>4, <3>5, RegisterShifts
    <3>7. /\ sh.kind \in {0, 3} => carry(reg, sh) = logical_shift_left_by_register(reg, v, a)
          /\ sh.kind = 1 => carry(reg, sh) = logical_shift_right_by_register(reg, a, v)
          /\ sh.kind = 2 => carry(reg, sh) = Arithmetic_shift_right_by_register(reg, a, v)
      BY <2>3, <2>7, <3>1, <3>2, CarryBranch
    <3> QED BY <2>5, <2>7, <3>2, <3>5, <3>6, <3>7
  <2> QED BY <2>6, <2>7
<1> QED BY <1>1, ProgramTypeCorrect, PTL

-----------------------------------------------------------------------------
(* What a single transfer moves. *)

\* A number below a power of a base is the sum of its digits.
LEMMA Digits ==
  ASSUME NEW B \in Nat \ {0}, NEW x \in Nat
  PROVE  /\ x % (B * B) = (x % B) + ((x \div B) % B) * B
         /\ x % (B * (B * (B * B))) =
              (x % B) + ((x \div B) % B) * B
                + ((x \div (B * B)) % B) * (B * B)
                + ((x \div (B * (B * B))) % B) * (B * (B * B))
<1>1. PICK P2 \in Nat \ {0} : P2 = B * B OBVIOUS
<1>2. PICK P3 \in Nat \ {0} : P3 = B * P2 OBVIOUS
<1>3. PICK x1 \in Nat : x1 = x \div B OBVIOUS
<1>4. PICK x2 \in Nat : x2 = x1 \div B OBVIOUS
<1>5. PICK x3 \in Nat : x3 = x2 \div B OBVIOUS
<1>6. PICK d0 \in Nat : d0 = x % B OBVIOUS
<1>7. PICK d1 \in Nat : d1 = x1 % B OBVIOUS
<1>8. PICK d2 \in Nat : d2 = x2 % B OBVIOUS
<1>9. PICK d3 \in Nat : d3 = x3 % B OBVIOUS
<1>10. x \div P2 = x2 BY <1>1, <1>3, <1>4, DivisionInSteps
<1>11. x \div P3 = x3
  <2>1. x \div P3 = x1 \div P2 BY <1>2, <1>3, DivisionInSteps
  <2>2. x1 \div P2 = x3 BY <1>1, <1>4, <1>5, DivisionInSteps
  <2> QED BY <2>1, <2>2
<1>12. x % P2 = B * d1 + d0 BY <1>1, <1>3, <1>6, <1>7, DivisionInSteps
<1>13. x2 % P2 = B * d3 + d2 BY <1>1, <1>5, <1>8, <1>9, DivisionInSteps
<1>14. x1 % P3 = B * (B * d3 + d2) + d1
  <2>1. x1 % (B * P2) = B * ((x1 \div B) % P2) + (x1 % B) BY DivisionInSteps
  <2> QED BY <1>2, <1>4, <1>7, <1>13, <2>1
<1>15. x % (B * P3) = B * (B * (B * d3 + d2) + d1) + d0
  <2>1. x % (B * P3) = B * ((x \div B) % P3) + (x % B) BY DivisionInSteps
  <2> QED BY <1>3, <1>6, <1>14, <2>1
<1>16. PICK e1 \in Nat : e1 = d1 * B OBVIOUS
<1>17. PICK e2 \in Nat : e2 = d2 * P2 OBVIOUS
<1>18. PICK e3 \in Nat : e3 = d3 * P3 OBVIOUS
<1>19. B * (B * (B * d3 + d2) + d1) + d0 = e3 + e2 + e1 + d0
  <2>1. B * (B * d3 + d2) = B * (B * d3) + B * d2 OBVIOUS
  <2>2. B * (B * (B * d3) + B * d2 + d1) = B * (B * (B * d3)) + B * (B * d2) + B * d1
    OBVIOUS
  <2>3. B * (B * (B * d3)) = e3
    <3>1. B * (B * (B * d3)) = d3 * (B * (B * B)) OBVIOUS
    <3> QED BY <1>1, <1>2, <1>18, <3>1
  <2>4. B * (B * d2) = e2
    <3>1. B * (B * d2) = d2 * (B * B) OBVIOUS
    <3> QED BY <1>1, <1>17, <3>1
  <2>5. B * d1 = e1 BY <1>16
  <2> QED BY <2>1, <2>2, <2>3, <2>4, <2>5
<1>20. x % (B * P3) = d0 + e1 + e2 + e3 BY <1>15, <1>19
<1>21. x % P2 = d0 + e1
  <2>1. B * d1 = e1 BY <1>16
  <2> QED BY <1>12, <2>1
<1> QED BY <1>1, <1>2, <1>3, <1>6, <1>7, <1>8, <1>9, <1>10, <1>11, <1>16, <1>17, <1>18,
           <1>20, <1>21

\* What a store has put into the memory is the value that a load finds there,
\* in either byte order.
LEMMA StoredIsRead ==
  ASSUME NEW m \in [0..MemSize - 1 -> Byte], NEW size \in Sizes, NEW a \in Word,
         a + size - 1 < MemSize, NEW be \in BOOLEAN, NEW x \in 0..power[size] - 1
  PROVE  value_of(stored(m, size, a, x, be), size, a, be) = x
<1>1. PICK B \in Nat \ {0} : B = ByteBase BY TransferAssumption
<1>2. PICK P2 \in Nat \ {0} : P2 = B * B OBVIOUS
<1>3. PICK P3 \in Nat \ {0} : P3 = B * P2 OBVIOUS
<1>4. PICK P4 \in Nat \ {0} : P4 = B * P3 OBVIOUS
<1>5. power[0] = 1 /\ power[1] = B /\ power[2] = P2 /\ power[3] = P3 /\ power[4] = P4
  BY <1>1, <1>2, <1>3, <1>4, Powers
<1>6. MemSize \in Nat /\ a \in Nat BY StepAssumption, RegistersAssumption DEF Word
<1>7. size = 1 \/ size = 2 \/ size = 4 BY DEF Sizes
<1>8. x \in Nat BY <1>5, <1>7
<1>9. PICK s : s = stored(m, size, a, x, be) OBVIOUS
<1>10. \A i \in 0..size - 1 : s[a + i] = (x \div weight(size, i, be)) % B
  <2> SUFFICES ASSUME NEW i \in 0..size - 1
               PROVE  s[a + i] = (x \div weight(size, i, be)) % B
    OBVIOUS
  <2>1. PICK at : at = a + i OBVIOUS
  <2>2. at \in 0..MemSize - 1 /\ at \in a..a + size - 1 /\ at - a = i
    BY <1>6, <1>7, <2>1
  <2>3. at \in DOMAIN m BY <2>2
  <2>4. s[at] = byte_of(x, size, at - a, be) BY <1>9, <2>2, <2>3 DEF stored
  <2> QED BY <1>1, <2>1, <2>2, <2>4 DEF byte_of
<1>11. PICK d0 \in Nat : d0 = x % B BY <1>8
<1>12. PICK d1 \in Nat : d1 = (x \div B) % B BY <1>8
<1>13. PICK d2 \in Nat : d2 = (x \div P2) % B BY <1>8
<1>14. PICK d3 \in Nat : d3 = (x \div P3) % B BY <1>8
<1>15. x \div 1 = x BY <1>8
<1>16. PICK e1 \in Nat : e1 = d1 * B OBVIOUS
<1>17. PICK e2 \in Nat : e2 = d2 * P2 OBVIOUS
<1>18. PICK e3 \in Nat : e3 = d3 * P3 OBVIOUS
<1>19. x % P2 = d0 + e1 BY <1>2, <1>8, <1>11, <1>12, <1>16, Digits
<1>20. x % P4 = d0 + e1 + e2 + e3
  <2>1. x % (B * (B * (B * B))) =
          (x % B) + ((x \div B) % B) * B
            + ((x \div (B * B)) % B) * (B * B)
            + ((x \div (B * (B * B))) % B) * (B * (B * B))
    BY <1>8, Digits
  <2> QED BY <1>2, <1>3, <1>4, <1>11, <1>12, <1>13, <1>14, <1>16, <1>17, <1>18, <2>1
<1>21. CASE size = 1
  <2>1. weight(size, 0, be) = 1 BY <1>5, <1>21 DEF weight
  <2>2. 0 \in 0..size - 1 BY <1>21
  <2>3. s[a + 0] = d0 BY <1>10, <1>11, <1>15, <2>1, <2>2
  <2>4. value_of(s, size, a, be) = d0 * 1 BY <1>21, <2>1, <2>3 DEF value_of
  <2>5. x \in 0..B - 1 BY <1>5, <1>21
  <2>6. x % B = x BY <2>5
  <2> QED BY <1>9, <1>11, <2>4, <2>6
<1>22. CASE size = 2
  <2>1. 0 \in 0..size - 1 /\ 1 \in 0..size - 1 BY <1>22
  <2>2. x \in 0..P2 - 1 BY <1>5, <1>22
  <2>3. x = d0 + e1 BY <1>19, <2>2
  <2>4. CASE be
    <3>1. weight(size, 0, be) = B /\ weight(size, 1, be) = 1
      BY <1>5, <1>22, <2>4 DEF weight
    <3>2. s[a + 0] = d1 /\ s[a + 1] = d0 BY <1>10, <1>11, <1>12, <1>15, <2>1, <3>1
    <3>3. value_of(s, size, a, be) = d1 * B + d0 * 1
      BY <1>22, <3>1, <3>2 DEF value_of
    <3> QED BY <1>9, <1>16, <2>3, <3>3
  <2>5. CASE ~be
    <3>1. weight(size, 0, be) = 1 /\ weight(size, 1, be) = B
      BY <1>5, <1>22, <2>5 DEF weight
    <3>2. s[a + 0] = d0 /\ s[a + 1] = d1 BY <1>10, <1>11, <1>12, <1>15, <2>1, <3>1
    <3>3. value_of(s, size, a, be) = d0 * 1 + d1 * B
      BY <1>22, <3>1, <3>2 DEF value_of
    <3> QED BY <1>9, <1>16, <2>3, <3>3
  <2> QED BY <2>4, <2>5
<1>23. CASE size = 4
  <2>1. /\ 0 \in 0..size - 1 /\ 1 \in 0..size - 1
        /\ 2 \in 0..size - 1 /\ 3 \in 0..size - 1
    BY <1>23
  <2>2. x \in 0..P4 - 1 BY <1>5, <1>23
  <2>3. x = d0 + e1 + e2 + e3 BY <1>20, <2>2
  <2>4. CASE be
    <3>1. /\ weight(size, 0, be) = P3 /\ weight(size, 1, be) = P2
          /\ weight(size, 2, be) = B /\ weight(size, 3, be) = 1
      BY <1>5, <1>23, <2>4 DEF weight
    <3>2. s[a + 0] = d3 /\ s[a + 1] = d2 /\ s[a + 2] = d1 /\ s[a + 3] = d0
      BY <1>10, <1>11, <1>12, <1>13, <1>14, <1>15, <2>1, <3>1
    <3>3. value_of(s, size, a, be) = d3 * P3 + d2 * P2 + d1 * B + d0 * 1
      BY <1>23, <3>1, <3>2 DEF value_of
    <3>4. value_of(s, size, a, be) = e3 + e2 + e1 + d0
      BY <1>16, <1>17, <1>18, <3>3
    <3> QED BY <1>9, <2>3, <3>4
  <2>5. CASE ~be
    <3>1. /\ weight(size, 0, be) = 1 /\ weight(size, 1, be) = B
          /\ weight(size, 2, be) = P2 /\ weight(size, 3, be) = P3
      BY <1>5, <1>23, <2>5 DEF weight
    <3>2. s[a + 0] = d0 /\ s[a + 1] = d1 /\ s[a + 2] = d2 /\ s[a + 3] = d3
      BY <1>10, <1>11, <1>12, <1>13, <1>14, <1>15, <2>1, <3>1
    <3>3. value_of(s, size, a, be) = d0 * 1 + d1 * B + d2 * P2 + d3 * P3
      BY <1>23, <3>1, <3>2 DEF value_of
    <3>4. value_of(s, size, a, be) = d0 + e1 + e2 + e3
      BY <1>16, <1>17, <1>18, <3>3
    <3> QED BY <1>9, <2>3, <3>4
  <2> QED BY <2>4, <2>5
<1> QED BY <1>7, <1>21, <1>22, <1>23

\* The offset that a transfer adds to its base is the architectural one.
LEMMA OffsetIs ==
  ASSUME NEW r \in registers_data, NEW off \in Offsets
  PROVE  offset_of(r, off) =
           IF off.by = "immediate"
           THEN off.imm
           ELSE ShiftByAmount(off.kind, arm_read_register(r, off.rm), off.amount,
                              C_flag(r)).operand
<1>1. CASE off.by = "immediate" BY <1>1 DEF offset_of
<1>2. CASE off.by # "immediate"
  <2>1. PICK v \in Word : v = arm_read_register(r, off.rm) BY CoreReadIsWord
  <2>2. PICK n \in 0..TopBit : n = off.amount BY <1>2 DEF Offsets
  <2>3. PICK c : c = C_flag(r) OBVIOUS
  <2>4. PICK kind \in {0, 1, 2, 3} : kind = off.kind BY <1>2 DEF Offsets
  <2>5. PICK x : x = calculate_address_scaled_register(v, kind, n, c) OBVIOUS
  <2>6. offset_of(r, off) = x BY <1>2, <2>1, <2>2, <2>3, <2>4, <2>5 DEF offset_of
  <2>7. CASE kind = 0
    <3>1. x = logical_shift_left(v, n)
      BY <2>5, <2>7 DEF calculate_address_scaled_register
    <3>2. logical_shift_left(v, 0) = v
      <4>1. PICK M \in Nat \ {0} : M = exp2[WordBits] /\ v \in 0..M - 1
        BY WordsHaveBits, Exp2Positive
      <4>2. v * 1 = v /\ v % M = v BY <4>1
      <4> QED BY <4>1, <4>2, Exp2Doubles DEF logical_shift_left
    <3>3. logical_shift_left_by_immediate(r, n, v).operand = x
      BY <3>1, <3>2 DEF logical_shift_left_by_immediate, Shifted
    <3> QED BY <1>2, <2>1, <2>2, <2>3, <2>4, <2>6, <2>7, <3>3, AmountShifts
  <2>8. CASE kind = 1
    <3>1. x = IF n = 0 THEN 0 ELSE logical_shift_right(v, n)
      BY <2>5, <2>8 DEF calculate_address_scaled_register
    <3>2. logical_shift_right_by_immediate(n, v).operand = x
      BY <3>1 DEF logical_shift_right_by_immediate, Shifted
    <3> QED BY <1>2, <2>1, <2>2, <2>3, <2>4, <2>6, <2>8, <3>2, AmountShifts
  <2>9. CASE kind = 2
    <3>1. x = IF n = 0 THEN (IF negative(v) THEN UINT32_MAX ELSE 0) ELSE asr(v, n)
      BY <2>5, <2>9 DEF calculate_address_scaled_register
    <3>2. Arithmetic_shift_right_by_immediate(n, v).operand = x
      BY <3>1 DEF Arithmetic_shift_right_by_immediate, sign_fill, Shifted
    <3> QED BY <1>2, <2>1, <2>2, <2>3, <2>4, <2>6, <2>9, <3>2, AmountShifts
  <2>10. CASE kind = 3
    <3>1. x = IF n = 0 THEN c * exp2[TopBit] + logical_shift_right(v, 1) ELSE ror(v, n)
      BY <2>5, <2>10 DEF calculate_address_scaled_register
    <3>2. Rotate_right_by_immediate(r, n, v).operand = x
      BY <2>3, <3>1 DEF Rotate_right_by_immediate, rotate_right_with_extend, Shifted
    <3> QED BY <1>2, <2>1, <2>2, <2>3, <2>4, <2>6, <2>10, <3>2, AmountShifts
  <2> QED BY <2>7, <2>8, <2>9, <2>10
<1> QED BY <1>1, <1>2

\* A write to a register moves no other in the mode.
LEMMA OthersKept ==
  ASSUME NEW r \in registers_data, NEW n \in Reg, NEW v \in Word, NEW k \in Reg \ {n},
         NEW w, w = arm_write_register(r, n, v)
  PROVE  arm_read_register(w, k) = arm_read_register(r, k)
<1>1. PICK mode : mode = r.current_mode OBVIOUS
<1>2. mode \in Modes \cup {NoMode} BY <1>1 DEF registers_data
<1>3. w.current_mode = mode BY <1>1, WriteKeepsType DEF arm_write_register
<1>4. registers_read(w, k, mode) = registers_read(r, k, mode)
  BY <1>1, <1>2, WriteIsRead DEF Reg, arm_write_register, registers_get_mode
<1> QED BY <1>1, <1>3, <1>4 DEF arm_read_register, registers_get_mode

\* The ways a single transfer at the address a can end.
Ending(w, m, i, a, o) ==
  /\ o.result \in {0, AccessFailed, Aborted}
  /\ o.result = 0 =>
       /\ a..a + i.size - 1 \subseteq DOMAIN m
       /\ \A at \in DOMAIN m \ (a..a + i.size - 1) : o.mem[at] = m[at]
       /\ i.rd # 15 =>
            value_of(o.mem, i.size, a, ENDIANESS) =
              IF i.L = 1 THEN arm_read_register(o.reg, i.rd)
              ELSE arm_read_register(o.reg, i.rd) % power[i.size]
  /\ o.result = AccessFailed =>
       ~(a..a + i.size - 1 \subseteq DOMAIN m) /\ o.mem = m /\ o.reg = w

\* An access at an address ends in one of these ways, and agrees with it.
LEMMA AccessAgrees ==
  ASSUME NEW w \in registers_data, w.current_mode \in Modes,
         NEW m \in [0..MemSize - 1 -> Byte], NEW i, i.size \in Sizes, i.rd \in Reg,
         i.L \in 0..1, NEW a \in Word, NEW o, o = process_memory_access(w, m, i, a)
  PROVE  Ending(w, m, i, a, o)
<1>1. PICK cap \in Nat : cap = MemSize BY StepAssumption, RegistersAssumption DEF Word
<1>2. PICK size \in {1, 2, 4} : size = i.size BY DEF Sizes
<1>3. a \in Nat /\ cap >= 4 BY <1>1, TransferAssumption, RegistersAssumption DEF Word
<1>4. DOMAIN m = 0..cap - 1 BY <1>1
<1>5. AccessFailed # 0 /\ Aborted # 0 /\ AccessFailed # Aborted
  BY DEF AccessFailed, Aborted
<1>6. ENDIANESS \in BOOLEAN BY TransferAssumption
<1>7. PICK bytes : bytes = a..a + size - 1 OBVIOUS
<1>8. a + size - 1 < cap => bytes \subseteq 0..cap - 1 BY <1>3, <1>7
<1>9. ~(a + size - 1 < cap) => ~(bytes \subseteq 0..cap - 1)
  <2>1. a + size - 1 \in bytes BY <1>3, <1>7
  <2> QED BY <1>3, <2>1
<1>10. read_fits(size, a) <=> a + size - 1 < cap BY <1>1, <1>3 DEF read_fits
<1>11. in_array(size, a) <=> a + size - 1 < cap BY <1>1 DEF in_array
<1>12. a + size - 1 < cap => write_fits(size, a)
  <2>1. CASE size = 2
    <3>1. PICK M \in Nat \ {0} : M = UINT32_MAX + 1 BY RegistersAssumption
    <3>2. write_fits(size, a) <=> (a + 1) % M < cap BY <1>1, <2>1, <3>1 DEF write_fits
    <3>3. ASSUME a + 1 < cap PROVE (a + 1) % M < cap
      <4>1. (a + 1) % M <= a + 1 /\ (a + 1) % M \in Nat
        <5>1. a + 1 \in Nat BY <1>3
        <5> QED BY <5>1, Division, \A x \in Nat : x % M <= x
      <4> QED BY <1>3, <3>3, <4>1
    <3> QED BY <1>3, <2>1, <3>2, <3>3
  <2>2. CASE size # 2 BY <1>1, <1>3, <2>2 DEF write_fits
  <2> QED BY <2>1, <2>2
<1>13. ~write_fits(size, a) => ~(a + size - 1 < cap) BY <1>12
<1>14. CASE i.L = 1
  <2>1. CASE read_fits(size, a)
    <3>1. PICK v \in Word : v = value_of(m, size, a, ENDIANESS)
      BY <1>2, <1>6, <2>1, ReadValueIsWord DEF Sizes
    <3>2. o = Transferred(arm_write_register(w, i.rd, v), m, 0)
      BY <1>2, <1>14, <2>1, <3>1, AccessOutcomes
    <3>3. o.reg = arm_write_register(w, i.rd, v) /\ o.mem = m /\ o.result = 0
      BY <3>2 DEF Transferred
    <3>4. i.rd # 15 => arm_read_register(o.reg, i.rd) = v BY <3>3, ReadsAfterWrite
    <3> QED BY <1>2, <1>4, <1>5, <1>7, <1>8, <1>10, <1>14, <2>1, <3>1, <3>3, <3>4
           DEF Ending
  <2>2. CASE ~read_fits(size, a)
    <3>1. o = Transferred(w, m, AccessFailed) BY <1>2, <1>14, <2>2, AccessOutcomes
    <3>2. o.reg = w /\ o.mem = m /\ o.result = AccessFailed BY <3>1 DEF Transferred
    <3> QED BY <1>2, <1>4, <1>5, <1>7, <1>9, <1>10, <2>2, <3>2 DEF Ending
  <2> QED BY <2>1, <2>2
<1>15. CASE i.L # 1
  <2>1. CASE ~write_fits(size, a)
    <3>1. o = Transferred(w, m, AccessFailed) BY <1>2, <1>15, <2>1, AccessOutcomes
    <3>2. o.reg = w /\ o.mem = m /\ o.result = AccessFailed BY <3>1 DEF Transferred
    <3> QED BY <1>2, <1>4, <1>5, <1>7, <1>9, <1>13, <2>1, <3>2 DEF Ending
  <2>2. CASE write_fits(size, a) /\ ~in_array(size, a)
    <3>1. o = Transferred(w, m, Aborted) BY <1>2, <1>15, <2>2, AccessOutcomes
    <3> QED BY <1>5, <3>1 DEF Transferred, Ending
  <2>3. CASE write_fits(size, a) /\ in_array(size, a)
    <3>1. PICK p \in Nat \ {0} : p = power[size] BY PowersGrow
    <3>2. PICK n \in Nat : n = arm_read_register(w, i.rd)
      BY CoreReadIsWord, RegistersAssumption DEF Word
    <3>3. PICK x \in 0..p - 1 : x = n % p OBVIOUS
    <3>4. PICK s : s = stored(m, size, a, x, ENDIANESS) OBVIOUS
    <3>5. o = Transferred(w, s, 0)
      BY <1>2, <1>15, <2>3, <3>1, <3>2, <3>3, <3>4, AccessOutcomes
    <3>6. o.reg = w /\ o.mem = s /\ o.result = 0 BY <3>5 DEF Transferred
    <3>7. value_of(s, size, a, ENDIANESS) = x
      BY <1>1, <1>2, <1>6, <1>11, <2>3, <3>1, <3>4, StoredIsRead
    <3>8. \A at \in DOMAIN m \ bytes : s[at] = m[at] BY <1>7, <3>4 DEF stored
    <3> QED BY <1>2, <1>4, <1>5, <1>7, <1>8, <1>11, <1>15, <2>3, <3>1, <3>2, <3>3, <3>6,
               <3>7, <3>8 DEF Ending
  <2> QED BY <2>1, <2>2, <2>3
<1> QED BY <1>14, <1>15

\* Every load and store of one value is made in full, register and bytes agreeing
\* in size and order at the base moved by the offset of the architecture, or refused
\* with the bytes and every register but the base as they were (arm_load_store.c:30).
\* That is the architecture's address of the offset and pre-indexed forms only.
THEOREM SingleTransfersAgree == Spec => TransferAgrees
<1> DEFINE Agrees ==
       Runs("single") /\ InMode /\ ~(ins.P = 0 /\ ins.W) /\ result' # Aborted =>
       LET a == TransferAddress
           bytes == a..a + ins.size - 1
           rd == arm_read_register(reg', ins.rd)
       IN  IF result' = 0
           THEN /\ bytes \subseteq DOMAIN mem
                /\ \A at \in DOMAIN mem \ bytes : mem'[at] = mem[at]
                /\ ins.rd # 15 =>
                     value_of(mem', ins.size, a, ENDIANESS) =
                       IF ins.L = 1 THEN rd ELSE rd % power[ins.size]
           ELSE /\ ~(bytes \subseteq DOMAIN mem)
                /\ mem' = mem
                /\ \A n \in RegNums \ {ins.rn} :
                     arm_read_register(reg', n) = arm_read_register(reg, n)
<1>1. TypeOK /\ [Next]_vars => [Agrees]_vars
  <2> SUFFICES ASSUME TypeOK, Next, Runs("single"), InMode, ~(ins.P = 0 /\ ins.W),
                      result' # Aborted
               PROVE  Agrees
    OBVIOUS
  <2>1. ins.op = "single" /\ ConditionPassed(reg.cpsr.bits, ins.cond) BY DEF Runs
  <2>2. ins # None /\ ins \in Program BY <2>1 DEF TypeOK, None
  <2>3. ins \in Instructions BY <2>2, MachineAssumption
  <2>4. /\ ins.size \in Sizes /\ ins.off \in Offsets /\ ins.rd \in Reg /\ ins.rn \in Reg
        /\ ins.L \in 0..1 /\ ins.P \in 0..1 /\ ins.U \in 0..1
    BY <2>1, <2>3 DEF Instructions
  <2>5. reg \in registers_data /\ mem \in [0..MemSize - 1 -> Byte] BY DEF TypeOK
  <2>6. Execute BY <2>2 DEF Next, Fetch, FetchAbort, Ready
  <2>7. PICK o \in execute(reg, mem, ins) :
          LET entered == IF o.result \in {0, Aborted}
                         THEN Outcome(o.reg, o.result)
                         ELSE arm_exception(o.reg, o.result, "other")
          IN  reg' = entered.reg /\ result' = entered.result /\ mem' = o.mem
    BY <2>6 DEF Execute
  <2>8. o = arm_load_store(reg, mem, ins)
    <3>1. execute(reg, mem, ins) = {arm_load_store(reg, mem, ins)} BY <2>1 DEF execute
    <3> QED BY <2>7, <3>1
  <2>9. PICK a \in Word : a = calculate_address(reg, ins.rn, offset_of(reg, ins.off), ins.U)
    BY <2>4, <2>5, OffsetTyped, AddressTyped
  <2>10. a = TransferAddress
    BY <2>4, <2>5, <2>9, OffsetIs DEF TransferAddress, calculate_address
  <2>11. PICK w : w = IF moves_base(ins) THEN arm_write_register(reg, ins.rn, a) ELSE reg
    OBVIOUS
  <2>12. w \in registers_data /\ w.current_mode \in Modes
    BY <2>5, <2>11, WriteKeepsType DEF InMode, arm_write_register
  <2>13. o = process_memory_access(w, mem, ins, a)
    BY <2>4, <2>8, <2>9, <2>11
    DEF arm_load_store, has_addressing_mode, handle_memory_operation
  <2>14. PICK bytes : bytes = a..a + ins.size - 1 OBVIOUS
  <2>15. /\ o.result \in {0, AccessFailed, Aborted}
         /\ o.result = 0 =>
              /\ bytes \subseteq DOMAIN mem
              /\ \A at \in DOMAIN mem \ bytes : o.mem[at] = mem[at]
              /\ ins.rd # 15 =>
                   value_of(o.mem, ins.size, a, ENDIANESS) =
                     IF ins.L = 1 THEN arm_read_register(o.reg, ins.rd)
                     ELSE arm_read_register(o.reg, ins.rd) % power[ins.size]
         /\ o.result = AccessFailed =>
              ~(bytes \subseteq DOMAIN mem) /\ o.mem = mem /\ o.reg = w
    <3>1. Ending(w, mem, ins, a, o) BY <2>4, <2>5, <2>12, <2>13, AccessAgrees
    <3> QED BY <2>14, <3>1 DEF Ending
  <2>16. CASE o.result \in {0, Aborted}
    <3>1. reg' = o.reg /\ result' = o.result /\ mem' = o.mem BY <2>7, <2>16 DEF Outcome
    <3>2. o.result = 0 BY <2>16, <3>1
    <3> QED BY <2>10, <2>14, <2>15, <3>1, <3>2
  <2>17. CASE o.result = AccessFailed
    <3>1. arm_exception(o.reg, o.result, "other") = Outcome(o.reg, AccessFailed)
      BY <2>17 DEF arm_exception, AccessFailed, SOFTWARE_INTERRUPT, RESET, DATA_ABORT,
                   INTERRUPT, UNDEFINED_INSTRUCTION, PREFETCH_ABORT, FAST_INTERRUPT
    <3>2. o.result \notin {0, Aborted} BY <2>17 DEF AccessFailed, Aborted
    <3>3. reg' = o.reg /\ result' = AccessFailed /\ mem' = o.mem
      BY <2>7, <3>1, <3>2 DEF Outcome
    <3>4. AccessFailed # 0 BY DEF AccessFailed
    <3>5. \A n \in RegNums \ {ins.rn} : arm_read_register(w, n) = arm_read_register(reg, n)
      BY <2>4, <2>5, <2>11, OthersKept DEF Reg
    <3> QED BY <2>10, <2>14, <2>15, <2>17, <3>3, <3>4, <3>5
  <2> QED BY <2>15, <2>16, <2>17
<1> QED BY <1>1, ProgramTypeCorrect, PTL DEF Spec, TransferAgrees

-----------------------------------------------------------------------------
(* A store multiple and the load multiple that undoes it. *)

\* The registers of a list are numbered in order, from 0 to at most 16.
LEMMA BelowGrows ==
  ASSUME NEW list \in SUBSET Reg, NEW i \in list, NEW j \in list, i < j
  PROVE  below(list, i) < below(list, j) /\ below(list, j) <= 16
<1>1. list \subseteq 0..15 /\ IsFiniteSet(list) BY ListIsFinite
<1>2. i \in 0..15 /\ j \in 0..15 BY <1>1
<1>3. PICK S : S = {k \in list : k < i} OBVIOUS
<1>4. PICK T : T = {k \in list : k < j} OBVIOUS
<1>5. S \subseteq list /\ T \subseteq list BY <1>3, <1>4
<1>6. IsFiniteSet(S) /\ IsFiniteSet(T) BY <1>1, <1>5, FS_Subset
<1>7. i \notin S BY <1>2, <1>3
<1>8. \A k \in list : k \in 0..15 BY <1>1
<1>9. S \cup {i} \subseteq T
  <2>1. \A k \in list : k < i => k < j BY <1>2, <1>8
  <2> QED BY <1>3, <1>4, <2>1
<1>10. Cardinality(S \cup {i}) = Cardinality(S) + 1 BY <1>6, <1>7, FS_AddElement
<1>11. Cardinality(S \cup {i}) <= Cardinality(T) BY <1>6, <1>9, FS_Subset
<1>12. Cardinality(S) \in Nat /\ Cardinality(T) \in Nat BY <1>6, FS_CardinalityType
<1>13. Cardinality(T) <= 16
  <2>1. 0 \in Int /\ 15 \in Int OBVIOUS
  <2>2. /\ IsFiniteSet(0..15)
        /\ Cardinality(0..15) = IF 0 > 15 THEN 0 ELSE 15 - 0 + 1
    BY <2>1, FS_Interval
  <2>3. T \subseteq 0..15 BY <1>1, <1>5
  <2>4. Cardinality(T) <= Cardinality(0..15) BY <2>2, <2>3, FS_Subset
  <2> QED BY <2>2, <2>4
<1> QED BY <1>3, <1>4, <1>10, <1>11, <1>12, <1>13 DEF below

\* There are more words than any multiple transfer has bytes.
LEMMA ManyWords == UINT32_MAX + 1 >= 81
<1>1. PICK B \in Nat \ {0} : B = ByteBase BY TransferAssumption
<1>2. PICK P2 \in Nat \ {0} : P2 = B * B OBVIOUS
<1>3. PICK P3 \in Nat \ {0} : P3 = B * P2 OBVIOUS
<1>4. PICK P4 \in Nat \ {0} : P4 = B * P3 OBVIOUS
<1>5. P4 = UINT32_MAX + 1 BY <1>1, <1>2, <1>3, <1>4, Powers, TransferAssumption
<1>6. P4 >= 29 BY <1>5, RegistersAssumption, ExceptionAssumption
<1>7. B # 1
  <2>1. B >= 2 BY <1>1, TransferAssumption
  <2> QED BY <2>1
<1>8. B # 2
  <2> SUFFICES ASSUME B = 2 PROVE FALSE OBVIOUS
  <2> QED BY <1>2, <1>3, <1>4, <1>6
<1>9. B >= 3 BY <1>7, <1>8
<1>10. P2 >= 9
  <2>1. B * B >= 3 * B /\ 3 * B >= 9 BY <1>9
  <2> QED BY <1>2, <2>1
<1>11. P3 >= 27
  <2>1. B * P2 >= 3 * P2 /\ 3 * P2 >= 27 BY <1>9, <1>10
  <2> QED BY <1>3, <2>1
<1>12. P4 >= 81
  <2>1. B * P3 >= 3 * P3 /\ 3 * P3 >= 81 BY <1>9, <1>11
  <2> QED BY <1>4, <2>1
<1> QED BY <1>5, <1>12

\* The words of two registers of a list have no byte in common, even where the
\* addresses wrap around.
LEMMA SlotsApart ==
  ASSUME NEW r \in registers_data, NEW i, i.list \in SUBSET Reg,
         NEW j \in i.list, NEW k \in i.list, j < k,
         NEW aj \in Word, aj = slot(r, i, j), NEW ak \in Word, ak = slot(r, i, k)
  PROVE  aj + 4 <= ak \/ ak + 4 <= aj
<1>1. PICK M \in Nat \ {0} : M = UINT32_MAX + 1 BY RegistersAssumption
<1>2. M >= 81 BY <1>1, ManyWords
<1>3. PICK bj \in Nat : bj = below(i.list, j) BY ListIsFinite
<1>4. PICK bk \in Nat : bk = below(i.list, k) BY ListIsFinite
<1>5. bj < bk /\ bk <= 16 BY <1>3, <1>4, BelowGrows
<1>6. PICK dj \in Word : dj = (4 * bj) % (UINT32_MAX + 1)
  <2>1. 4 * bj \in Nat OBVIOUS
  <2> QED BY <2>1, RemainderIsWord
<1>7. PICK dk \in Word : dk = (4 * bk) % (UINT32_MAX + 1)
  <2>1. 4 * bk \in Nat OBVIOUS
  <2> QED BY <2>1, RemainderIsWord
<1>8. 4 * bj \in 0..M - 1 /\ 4 * bk \in 0..M - 1 BY <1>2, <1>5
<1>9. dj = 4 * bj /\ dk = 4 * bk BY <1>1, <1>6, <1>7, <1>8
<1>10. PICK s \in Word : s = start_adr(r, i)
  <2>1. PICK size \in Word : size = (4 * count_set_bits(i.list)) % (UINT32_MAX + 1)
    <3>1. PICK c \in Nat : c = Cardinality(i.list) BY ListIsFinite
    <3>2. 4 * c \in Nat OBVIOUS
    <3> QED BY <3>1, <3>2, RemainderIsWord DEF count_set_bits
  <2>2. PICK v \in Word : v = arm_read_register(r, i.rn) BY CoreReadIsWord
  <2>3. start_adr(r, i) \in {v, plus(v, 4), plus(minus(v, size), 4), minus(v, size)}
    BY <2>1, <2>2, Zenon DEF start_adr
  <2>4. minus(v, size) \in Word BY SumsAreWords
  <2> QED BY <2>2, <2>3, <2>4, SumsAreWords
<1>11. s \in Nat /\ s <= M - 1 /\ aj \in Nat /\ aj <= M - 1 /\ ak \in Nat /\ ak <= M - 1
  BY <1>1, RegistersAssumption DEF Word
<1>12. aj = (s + 4 * bj) % M /\ ak = (s + 4 * bk) % M
  <2>1. aj = plus(s, dj) /\ ak = plus(s, dk) BY <1>3, <1>4, <1>6, <1>7, <1>10 DEF slot
  <2> QED BY <1>1, <1>9, <2>1 DEF plus
<1>13. ASSUME NEW x \in Nat, x <= 64, NEW y, y = (s + x) % M
       PROVE  y = s + x \/ y = s + x - M
  <2>1. CASE s + x < M
    <3>1. s + x \in 0..M - 1 BY <1>11, <1>13, <2>1
    <3> QED BY <1>13, <3>1
  <2>2. CASE s + x >= M
    <3>1. s + x - M \in 0..M - 1 BY <1>2, <1>11, <1>13, <2>2
    <3>2. s + x = M * 1 + (s + x - M) BY <1>11
    <3> QED BY <1>13, <3>1, <3>2
  <2> QED BY <1>11, <2>1, <2>2
<1>14. aj = s + 4 * bj \/ aj = s + 4 * bj - M
  <2>1. 4 * bj \in Nat /\ 4 * bj <= 64 BY <1>5
  <2> QED BY <1>12, <1>13, <2>1
<1>15. ak = s + 4 * bk \/ ak = s + 4 * bk - M
  <2>1. 4 * bk \in Nat /\ 4 * bk <= 64 BY <1>5
  <2> QED BY <1>12, <1>13, <2>1
<1> QED BY <1>2, <1>5, <1>11, <1>14, <1>15

\* What a multiple load puts in a register is read there, and no other register
\* is moved.
LEMMA LoadAllReads ==
  ASSUME NEW r \in registers_data, r.current_mode \in Modes, NEW list \in SUBSET Reg,
         NEW f, NEW n \in Reg \ {15}
  PROVE  arm_read_register(load_all(r, list, f), n) =
           IF n \in list THEN f[n] ELSE arm_read_register(r, n)
<1>1. PICK mode \in Modes : mode = r.current_mode OBVIOUS
<1>2. PICK w : w = load_all(r, list, f) OBVIOUS
<1>3. /\ w.tab_r0_r7 = [k \in LowRegs |-> IF k \in list THEN f[k] ELSE r.tab_r0_r7[k]]
      /\ w.tab_r8_r12 = [k \in MidRegs |-> [bank \in 0..1 |->
           IF k \in list /\ bank = r8_r12_bank(mode) THEN f[k] ELSE r.tab_r8_r12[k][bank]]]
      /\ w.tab_r13_r14 = [k \in HighRegs |-> [bank \in 0..5 |->
           IF k \in list /\ bank = r13_r14_bank(mode) THEN f[k]
           ELSE r.tab_r13_r14[k][bank]]]
      /\ w.current_mode = mode
  BY <1>1, <1>2 DEF load_all, registers_data, registers_get_mode
<1>4. r8_r12_bank(mode) \in 0..1 /\ r13_r14_bank(mode) \in 0..5
  BY DEF r8_r12_bank, r13_r14_bank
<1>5. registers_read(w, n, mode) = IF n \in list THEN f[n] ELSE registers_read(r, n, mode)
  <2>1. n # 15 /\ n \in RegNums BY DEF Reg
  <2>2. CASE n \in LowRegs
    <3>1. registers_read(w, n, mode) = w.tab_r0_r7[n]
          /\ registers_read(r, n, mode) = r.tab_r0_r7[n]
      BY <2>1, <2>2 DEF registers_read, LowRegs, MidRegs, HighRegs
    <3> QED BY <1>3, <2>2, <3>1
  <2>3. CASE n \in MidRegs
    <3>1. registers_read(w, n, mode) = w.tab_r8_r12[n][r8_r12_bank(mode)]
          /\ registers_read(r, n, mode) = r.tab_r8_r12[n][r8_r12_bank(mode)]
      BY <2>1, <2>3 DEF registers_read, LowRegs, MidRegs, HighRegs
    <3> QED BY <1>3, <1>4, <2>3, <3>1
  <2>4. CASE n \in HighRegs
    <3>1. registers_read(w, n, mode) = w.tab_r13_r14[n][r13_r14_bank(mode)]
          /\ registers_read(r, n, mode) = r.tab_r13_r14[n][r13_r14_bank(mode)]
      BY <2>1, <2>4 DEF registers_read, LowRegs, MidRegs, HighRegs
    <3> QED BY <1>3, <1>4, <2>4, <3>1
  <2> QED BY <2>1, <2>2, <2>3, <2>4, RegisterKinds
<1> QED BY <1>1, <1>2, <1>3, <1>5 DEF arm_read_register, registers_get_mode

\* A register written with what it reads is as it was.
LEMMA WriteOwn ==
  ASSUME NEW r \in registers_data, r.current_mode \in Modes, NEW n \in Reg \ {15}
  PROVE  arm_write_register(r, n, arm_read_register(r, n)) = r
<1>1. PICK mode \in Modes : mode = r.current_mode OBVIOUS
<1>2. n # 15 /\ n \in RegNums BY DEF Reg
<1>3. arm_read_register(r, n) = registers_read(r, n, mode)
  BY <1>1, <1>2 DEF arm_read_register, registers_get_mode
<1>4. r8_r12_bank(mode) \in 0..1 /\ r13_r14_bank(mode) \in 0..5
  BY DEF r8_r12_bank, r13_r14_bank
<1>5. CASE n \in LowRegs
  <2>1. arm_write_register(r, n, arm_read_register(r, n)) =
          [r EXCEPT !.tab_r0_r7[n] = r.tab_r0_r7[n]]
    BY <1>2, <1>3, <1>5
    DEF arm_write_register, registers_write, registers_read, LowRegs, MidRegs, HighRegs
  <2>2. [r.tab_r0_r7 EXCEPT ![n] = r.tab_r0_r7[n]] = r.tab_r0_r7
    BY <1>5 DEF registers_data
  <2> QED BY <2>1, <2>2 DEF registers_data
<1>6. CASE n \in MidRegs
  <2>1. arm_write_register(r, n, arm_read_register(r, n)) =
          [r EXCEPT !.tab_r8_r12[n][r8_r12_bank(mode)] = r.tab_r8_r12[n][r8_r12_bank(mode)]]
    BY <1>1, <1>2, <1>3, <1>6
    DEF arm_write_register, registers_write, registers_read, registers_get_mode, LowRegs,
        MidRegs, HighRegs
  <2>2. [r.tab_r8_r12 EXCEPT ![n][r8_r12_bank(mode)] = r.tab_r8_r12[n][r8_r12_bank(mode)]]
          = r.tab_r8_r12
    BY <1>4, <1>6 DEF registers_data
  <2> QED BY <2>1, <2>2 DEF registers_data
<1>7. CASE n \in HighRegs
  <2>1. arm_write_register(r, n, arm_read_register(r, n)) =
          [r EXCEPT !.tab_r13_r14[n][r13_r14_bank(mode)] =
                      r.tab_r13_r14[n][r13_r14_bank(mode)]]
    BY <1>1, <1>2, <1>3, <1>7
    DEF arm_write_register, registers_write, registers_read, registers_get_mode, LowRegs,
        MidRegs, HighRegs
  <2>2. [r.tab_r13_r14 EXCEPT ![n][r13_r14_bank(mode)] =
                                r.tab_r13_r14[n][r13_r14_bank(mode)]]
          = r.tab_r13_r14
    BY <1>4, <1>7 DEF registers_data
  <2> QED BY <2>1, <2>2 DEF registers_data
<1> QED BY <1>2, <1>5, <1>6, <1>7, RegisterKinds

\* Registers overwritten and then loaded with what they held are as they were.
LEMMA LoadAllRestores ==
  ASSUME NEW r \in registers_data, r.current_mode \in Modes,
         NEW list \in SUBSET (Reg \ {15}), NEW f, NEW g,
         \A n \in list : g[n] = arm_read_register(r, n)
  PROVE  load_all(load_all(r, list, f), list, g) = r
<1>1. PICK mode \in Modes : mode = r.current_mode OBVIOUS
<1>2. PICK z : z = load_all(r, list, f) OBVIOUS
<1>3. PICK w : w = load_all(z, list, g) OBVIOUS
<1>4. 15 \notin list OBVIOUS
<1>5. z = [r EXCEPT
        !.pc = r.pc,
        !.tab_r0_r7 = [n \in LowRegs |-> IF n \in list THEN f[n] ELSE r.tab_r0_r7[n]],
        !.tab_r8_r12 = [n \in MidRegs |-> [k \in 0..1 |->
           IF n \in list /\ k = r8_r12_bank(mode) THEN f[n] ELSE r.tab_r8_r12[n][k]]],
        !.tab_r13_r14 = [n \in HighRegs |-> [k \in 0..5 |->
           IF n \in list /\ k = r13_r14_bank(mode) THEN f[n] ELSE r.tab_r13_r14[n][k]]]]
  BY <1>1, <1>2, <1>4 DEF load_all, registers_get_mode
<1>6. PICK lo : lo = [n \in LowRegs |-> IF n \in list THEN g[n] ELSE r.tab_r0_r7[n]] OBVIOUS
<1>7. PICK mid : mid = [n \in MidRegs |-> [k \in 0..1 |->
           IF n \in list /\ k = r8_r12_bank(mode) THEN g[n] ELSE r.tab_r8_r12[n][k]]]
  OBVIOUS
<1>8. PICK hi : hi = [n \in HighRegs |-> [k \in 0..5 |->
           IF n \in list /\ k = r13_r14_bank(mode) THEN g[n] ELSE r.tab_r13_r14[n][k]]]
  OBVIOUS
<1>9. /\ z.pc = r.pc /\ z.current_mode = mode
      /\ \A n \in LowRegs : n \notin list => z.tab_r0_r7[n] = r.tab_r0_r7[n]
      /\ \A n \in MidRegs, k \in 0..1 :
           ~(n \in list /\ k = r8_r12_bank(mode)) => z.tab_r8_r12[n][k] = r.tab_r8_r12[n][k]
      /\ \A n \in HighRegs, k \in 0..5 :
           ~(n \in list /\ k = r13_r14_bank(mode)) =>
             z.tab_r13_r14[n][k] = r.tab_r13_r14[n][k]
  BY <1>1, <1>5 DEF registers_data
<1>10. w = [z EXCEPT
        !.pc = z.pc,
        !.tab_r0_r7 = [n \in LowRegs |-> IF n \in list THEN g[n] ELSE z.tab_r0_r7[n]],
        !.tab_r8_r12 = [n \in MidRegs |-> [k \in 0..1 |->
           IF n \in list /\ k = r8_r12_bank(mode) THEN g[n] ELSE z.tab_r8_r12[n][k]]],
        !.tab_r13_r14 = [n \in HighRegs |-> [k \in 0..5 |->
           IF n \in list /\ k = r13_r14_bank(mode) THEN g[n] ELSE z.tab_r13_r14[n][k]]]]
  BY <1>3, <1>4, <1>9 DEF load_all, registers_get_mode
<1>11. [n \in LowRegs |-> IF n \in list THEN g[n] ELSE z.tab_r0_r7[n]] = lo
  BY <1>6, <1>9
<1>12. [n \in MidRegs |-> [k \in 0..1 |->
          IF n \in list /\ k = r8_r12_bank(mode) THEN g[n] ELSE z.tab_r8_r12[n][k]]] = mid
  BY <1>7, <1>9
<1>13. [n \in HighRegs |-> [k \in 0..5 |->
          IF n \in list /\ k = r13_r14_bank(mode) THEN g[n] ELSE z.tab_r13_r14[n][k]]] = hi
  BY <1>8, <1>9
<1>14. \A n \in list : g[n] = registers_read(r, n, mode)
  BY <1>1 DEF arm_read_register, registers_get_mode
<1>15. lo = r.tab_r0_r7
  <2>1. \A n \in LowRegs : n \in list => g[n] = r.tab_r0_r7[n]
    BY <1>14 DEF registers_read, LowRegs, MidRegs, HighRegs
  <2>2. r.tab_r0_r7 \in [LowRegs -> Word] BY DEF registers_data
  <2> QED BY <1>6, <2>1, <2>2
<1>16. mid = r.tab_r8_r12
  <2>1. \A n \in MidRegs : n \in list => g[n] = r.tab_r8_r12[n][r8_r12_bank(mode)]
    BY <1>14 DEF registers_read, LowRegs, MidRegs, HighRegs
  <2>2. r.tab_r8_r12 \in [MidRegs -> [0..1 -> Word]] BY DEF registers_data
  <2>3. \A n \in MidRegs : mid[n] = r.tab_r8_r12[n]
    <3> SUFFICES ASSUME NEW n \in MidRegs PROVE mid[n] = r.tab_r8_r12[n] OBVIOUS
    <3>1. r.tab_r8_r12[n] \in [0..1 -> Word] BY <2>2
    <3>2. mid[n] = [k \in 0..1 |-> IF n \in list /\ k = r8_r12_bank(mode) THEN g[n]
                                   ELSE r.tab_r8_r12[n][k]]
      BY <1>7
    <3> QED BY <2>1, <3>1, <3>2
  <2> QED BY <1>7, <2>2, <2>3
<1>17. hi = r.tab_r13_r14
  <2>1. \A n \in HighRegs : n \in list => g[n] = r.tab_r13_r14[n][r13_r14_bank(mode)]
    BY <1>14 DEF registers_read, LowRegs, MidRegs, HighRegs
  <2>2. r.tab_r13_r14 \in [HighRegs -> [0..5 -> Word]] BY DEF registers_data
  <2>3. \A n \in HighRegs : hi[n] = r.tab_r13_r14[n]
    <3> SUFFICES ASSUME NEW n \in HighRegs PROVE hi[n] = r.tab_r13_r14[n] OBVIOUS
    <3>1. r.tab_r13_r14[n] \in [0..5 -> Word] BY <2>2
    <3>2. hi[n] = [k \in 0..5 |-> IF n \in list /\ k = r13_r14_bank(mode) THEN g[n]
                                  ELSE r.tab_r13_r14[n][k]]
      BY <1>8
    <3> QED BY <2>1, <3>1, <3>2
  <2> QED BY <1>8, <2>2, <2>3
<1>18. w = [z EXCEPT !.pc = r.pc, !.tab_r0_r7 = r.tab_r0_r7,
                     !.tab_r8_r12 = r.tab_r8_r12, !.tab_r13_r14 = r.tab_r13_r14]
  BY <1>9, <1>10, <1>11, <1>12, <1>13, <1>15, <1>16, <1>17
<1>19. w = r BY <1>5, <1>18 DEF registers_data
<1> QED BY <1>2, <1>3, <1>19

\* A store elsewhere leaves what a word load finds.
LEMMA StoredElsewhere ==
  ASSUME NEW m \in [0..MemSize - 1 -> Byte], NEW a \in Word, NEW c \in Word,
         c + 3 < MemSize, a + 4 <= c \/ c + 4 <= a, NEW v, NEW be
  PROVE  value_of(stored(m, 4, a, v, be), 4, c, be) = value_of(m, 4, c, be)
<1>1. PICK cap \in Nat : cap = MemSize BY StepAssumption, RegistersAssumption DEF Word
<1>2. a \in Nat /\ c \in Nat BY RegistersAssumption DEF Word
<1>3. PICK s : s = stored(m, 4, a, v, be) OBVIOUS
<1>4. DOMAIN m = 0..cap - 1 BY <1>1
<1>5. ASSUME NEW k \in 0..3 PROVE s[c + k] = m[c + k]
  <2>1. c + k \in DOMAIN m BY <1>1, <1>2, <1>4
  <2>2. c + k \notin a..a + 4 - 1 BY <1>2
  <2> QED BY <1>3, <2>1, <2>2 DEF stored
<1>6. s[c + 0] = m[c + 0] /\ s[c + 1] = m[c + 1] /\ s[c + 2] = m[c + 2]
      /\ s[c + 3] = m[c + 3]
  BY <1>5
<1>7. 4 # 1 /\ 4 # 2 OBVIOUS
<1> QED BY <1>3, <1>6, <1>7 DEF value_of

\* After a store multiple whose words are all in the memory, the word of each
\* register is the value the register has once the base has moved.
LEMMA StoresStay ==
  ASSUME NEW r \in registers_data, NEW m \in [0..MemSize - 1 -> Byte],
         NEW i, i.list \in SUBSET (Reg \ {15}),
         \A n \in i.list : write_fits(4, slot(r, i, n)),
         NEW f, StoresOf(f, r, m, i), NEW w, w = start_end_adresse(r, i),
         NEW j \in i.list, NEW a, a = slot(r, i, j)
  PROVE  value_of(f[14], 4, a, ENDIANESS) = arm_read_register(w, j)
<1> DEFINE holds(x, k) ==
       value_of(f[x], 4, slot(r, i, k), ENDIANESS) = arm_read_register(w, k)
<1>0. PICK cap \in Nat : cap = MemSize BY StepAssumption, RegistersAssumption DEF Word
<1>1. i.list \in SUBSET Reg /\ \A n \in i.list : n \in 0..14
  <2>1. i.list \in SUBSET Reg OBVIOUS
  <2>2. i.list \subseteq 0..15 BY <2>1, ListIsFinite
  <2>3. 15 \notin i.list OBVIOUS
  <2>4. \A n \in 0..15 : n # 15 => n \in 0..14 OBVIOUS
  <2> QED BY <2>1, <2>2, <2>3, <2>4
<1>2. w \in registers_data BY <1>1, BaseTyped
<1>3. \A n \in -1..14 : f[n] \in [0..MemSize - 1 -> Byte] BY DEF StoresOf
<1>4. ASSUME NEW n \in i.list PROVE slot(r, i, n) + 3 < cap
  <2>1. PICK c \in Word : c = slot(r, i, n) BY <1>1, SlotIsWord
  <2>2. write_fits(4, c) BY <1>4, <2>1
  <2>3. c < cap - 3 /\ c \in Nat BY <1>0, <2>2, RegistersAssumption DEF write_fits, Word
  <2> QED BY <2>1, <2>3
<1>5. ASSUME NEW n \in 0..14, \A k \in i.list : k <= n - 1 => holds(n - 1, k),
             NEW k \in i.list, k <= n
      PROVE  holds(n, k)
  <2>1. n - 1 \in -1..14 /\ n \in -1..14 OBVIOUS
  <2>2. PICK bytes \in [0..MemSize - 1 -> Byte] : bytes = f[n - 1] BY <1>3, <2>1
  <2>3. PICK c \in Word : c = slot(r, i, k) BY <1>1, SlotIsWord
  <2>4. c + 3 < cap /\ c \in Nat BY <1>4, <2>3, RegistersAssumption DEF Word
  <2>5. CASE n \notin i.list
    <3>1. f[n] = f[n - 1] BY <2>5 DEF StoresOf
    <3>2. k # n /\ k \in 0..14 BY <1>1, <2>5
    <3>3. k <= n - 1 BY <1>5, <3>2
    <3> QED BY <1>5, <3>1, <3>3
  <2>6. CASE n \in i.list
    <3>1. PICK at \in Word : at = slot(r, i, n) BY <1>1, SlotIsWord
    <3>2. at + 3 < cap /\ at \in Nat
      BY <1>4, <2>6, <3>1, RegistersAssumption DEF Word
    <3>3. PICK v \in Word : v = arm_read_register(w, n) BY <1>2, CoreReadIsWord
    <3>4. v % power[4] = v /\ v \in 0..power[4] - 1
      <4>1. PICK M \in Nat \ {0} : M = power[4] BY PowersGrow
      <4>2. v \in 0..M - 1 BY <4>1, TransferAssumption, RegistersAssumption DEF Word
      <4>3. v % M = v BY <4>2
      <4> QED BY <4>1, <4>2, <4>3
    <3>5. PICK s : s = stored(bytes, 4, at, v, ENDIANESS) OBVIOUS
    <3>6. f[n] = s
      <4>1. f[n] = arm_write(w, bytes, 4, at, v).mem
        BY <2>2, <2>6, <3>1, <3>3 DEF StoresOf
      <4>2. write_fits(4, at) BY <2>6, <3>1
      <4>3. in_array(4, at) BY <1>0, <3>2 DEF in_array
      <4>4. arm_write(w, bytes, 4, at, v) =
              Transferred(w, stored(bytes, 4, at, v % power[4], ENDIANESS), 0)
        BY <4>2, <4>3 DEF arm_write
      <4> QED BY <3>4, <3>5, <4>1, <4>4 DEF Transferred
    <3>7. CASE k = n
      <4>1. 4 \in Sizes BY DEF Sizes
      <4>2. at + 4 - 1 < MemSize BY <1>0, <3>2
      <4>3. value_of(s, 4, at, ENDIANESS) = v
        BY <3>4, <3>5, <4>1, <4>2, StoredIsRead, TransferAssumption
      <4> QED BY <3>1, <3>3, <3>6, <3>7, <4>3
    <3>8. CASE k # n
      <4>1. k \in 0..14 BY <1>1
      <4>2. k < n /\ k <= n - 1 BY <1>5, <3>8, <4>1
      <4>3. c + 4 <= at \/ at + 4 <= c BY <1>1, <2>3, <2>6, <3>1, <4>2, SlotsApart
      <4>4. value_of(s, 4, c, ENDIANESS) = value_of(bytes, 4, c, ENDIANESS)
        BY <1>0, <2>4, <3>5, <4>3, StoredElsewhere
      <4>5. holds(n - 1, k) BY <1>5, <4>2
      <4> QED BY <2>2, <2>3, <3>6, <4>4, <4>5
    <3> QED BY <3>7, <3>8
  <2> QED BY <2>5, <2>6
<1> DEFINE S == {n \in Nat : n <= 15 => \A k \in i.list : k <= n - 1 => holds(n - 1, k)}
<1> HIDE DEF holds
<1>6. 0 \in S
  <2>1. \A k \in i.list : ~(k <= 0 - 1) BY <1>1
  <2> QED BY <2>1
<1>7. ASSUME NEW n \in Nat, n \in S PROVE n + 1 \in S
  <2> SUFFICES ASSUME n + 1 <= 15, NEW k \in i.list, k <= (n + 1) - 1
               PROVE  holds((n + 1) - 1, k)
    OBVIOUS
  <2>1. n \in 0..14 /\ (n + 1) - 1 = n OBVIOUS
  <2>2. \A l \in i.list : l <= n - 1 => holds(n - 1, l) BY <1>7
  <2> QED BY <1>5, <2>1, <2>2
<1>8. 15 \in S
  <2>1. 15 \in Nat OBVIOUS
  <2> HIDE DEF S
  <2> QED BY <1>6, <1>7, <2>1, Induction
<1>9. holds(14, j)
  <2>1. 15 - 1 = 14 /\ 15 <= 15 OBVIOUS
  <2>2. \A k \in i.list : k <= 15 - 1 => holds(15 - 1, k) BY <1>8, <2>1
  <2>3. j <= 15 - 1 BY <1>1
  <2> QED BY <2>1, <2>2, <2>3
<1> QED BY <1>9 DEF holds

\* What is added and then taken away leaves the word.
LEMMA MinusPlus ==
  ASSUME NEW v \in Word, NEW n \in Word
  PROVE  minus(plus(v, n), n) = v
<1>1. PICK s \in Word : s = plus(v, n) BY SumsAreWords
<1>2. PICK d \in Word : d = minus(s, n) BY SumsAreWords
<1>3. v \in Int /\ n \in Int /\ s \in Int BY RegistersAssumption DEF Word
<1>4. SameWord(d, s - n) BY <1>2, SumsAreSame
<1>5. SameWord(s, v + n) BY <1>1, SumsAreSame
<1>6. SameWord(n, n) BY <1>3, SameWordReflexive
<1>7. SameWord(s - n, (v + n) - n) BY <1>5, <1>6, SameWordAdds
<1>8. SameWord(d, (v + n) - n) BY <1>4, <1>7, SameWordChains
<1>9. (v + n) - n = v BY <1>3
<1>10. d = v BY <1>8, <1>9, SameWordsEqual
<1> QED BY <1>1, <1>2, <1>10

\* A store multiple that moves its base, and the load multiple that undoes it.
Pushes(i) ==
  /\ i \in Instructions /\ i.op = "stm" /\ i.W /\ ~(i.P = 0 /\ i.U = 1)
  /\ i.rn # 15 /\ {i.rn, 15} \cap i.list = {}

Opposite(back, i) == back = [i EXCEPT !.P = 1 - @, !.U = 1 - @, !.W = FALSE]

\* The opposite direction and order start where the store started, once the base
\* has moved.
LEMMA StartsBack ==
  ASSUME NEW r \in registers_data, r.current_mode \in Modes,
         NEW i, Pushes(i), NEW back, Opposite(back, i),
         NEW z, arm_read_register(z, i.rn) =
                  arm_read_register(start_end_adresse(r, i), i.rn),
         NEW n
  PROVE  slot(z, back, n) = slot(r, i, n)
<1>1. /\ i.list \in SUBSET Reg /\ i.rn \in Reg \ {15} /\ i.P \in 0..1 /\ i.U \in 0..1
      /\ i.W /\ ~(i.P = 0 /\ i.U = 1)
  BY DEF Pushes, Instructions
<1>2. /\ back.list = i.list /\ back.rn = i.rn /\ back.P = 1 - i.P /\ back.U = 1 - i.U
  BY DEF Pushes, Opposite, Instructions
<1>3. PICK v \in Word : v = arm_read_register(r, i.rn) BY CoreReadIsWord
<1>4. PICK size \in Word : size = (4 * Cardinality(i.list)) % (UINT32_MAX + 1)
  <2>1. PICK c \in Nat : c = Cardinality(i.list) BY <1>1, ListIsFinite
  <2>2. 4 * c \in Nat OBVIOUS
  <2> QED BY <2>1, <2>2, RemainderIsWord
<1>5. plus(v, size) \in Word /\ minus(v, size) \in Word BY SumsAreWords
<1>6. PICK x : x = arm_read_register(z, i.rn) OBVIOUS
<1>7. ASSUME NEW moved \in Word, start_end_adresse(r, i) = arm_write_register(r, i.rn, moved)
      PROVE  x = moved
  BY <1>1, <1>6, <1>7, ReadsAfterWrite
<1>8. start_adr(z, back) = start_adr(r, i)
  <2>1. CASE i.P = 1 /\ i.U = 1
    <3>1. start_end_adresse(r, i) = arm_write_register(r, i.rn, plus(v, size))
      BY <1>3, <1>4, <2>1, <1>1 DEF start_end_adresse
    <3>2. x = plus(v, size) BY <1>5, <1>7, <3>1
    <3>3. start_adr(r, i) = plus(v, 4) BY <1>3, <2>1 DEF start_adr
    <3>4. back.P = 0 /\ back.U = 0 BY <1>2, <2>1
    <3>5. start_adr(z, back) = plus(minus(x, size), 4)
      BY <1>2, <1>4, <1>6, <3>4 DEF start_adr, count_set_bits
    <3> QED BY <3>2, <3>3, <3>5, MinusPlus
  <2>2. CASE i.P = 0 /\ i.U = 0
    <3>1. start_end_adresse(r, i) = arm_write_register(r, i.rn, minus(v, size))
      BY <1>3, <1>4, <2>2, <1>1 DEF start_end_adresse
    <3>2. x = minus(v, size) BY <1>5, <1>7, <3>1
    <3>3. start_adr(r, i) = plus(minus(v, size), 4)
      BY <1>3, <1>4, <2>2 DEF start_adr, count_set_bits
    <3>4. back.P = 1 /\ back.U = 1 BY <1>2, <2>2
    <3>5. start_adr(z, back) = plus(x, 4) BY <1>2, <1>6, <3>4 DEF start_adr
    <3> QED BY <3>2, <3>3, <3>5
  <2>3. CASE i.P = 1 /\ i.U = 0
    <3>1. start_end_adresse(r, i) = arm_write_register(r, i.rn, minus(v, size))
      BY <1>3, <1>4, <2>3, <1>1 DEF start_end_adresse
    <3>2. x = minus(v, size) BY <1>5, <1>7, <3>1
    <3>3. start_adr(r, i) = minus(v, size)
      BY <1>3, <1>4, <2>3 DEF start_adr, count_set_bits
    <3>4. back.P = 0 /\ back.U = 1 BY <1>2, <2>3
    <3>5. start_adr(z, back) = x BY <1>2, <1>6, <3>4 DEF start_adr
    <3> QED BY <3>2, <3>3, <3>5
  <2> QED BY <1>1, <2>1, <2>2, <2>3
<1> QED BY <1>2, <1>8 DEF slot

\* What a store multiple has pushed, a load multiple of the opposite direction
\* and order puts back into the registers.
LEMMA PoppedIsPushed ==
  ASSUME NEW r \in registers_data, r.current_mode \in Modes,
         NEW m \in [0..MemSize - 1 -> Byte],
         NEW i, Pushes(i), \A n \in i.list : write_fits(4, slot(r, i, n)),
         NEW back, Opposite(back, i), NEW pushed, pushed = store_multiple(r, m, i),
         NEW zeroed, zeroed = load_all(pushed.reg, i.list, [n \in i.list |-> 0]),
         NEW unread \in Unread
  PROVE  load_multiple(zeroed, pushed.mem, back, unread).reg = pushed.reg
<1>1. i.list \in SUBSET Reg /\ i.list \in SUBSET (Reg \ {15}) /\ i.rn \in Reg \ {15}
  BY DEF Pushes, Instructions
<1>2. back.list = i.list /\ back.rn = i.rn /\ ~back.W
  BY DEF Pushes, Opposite, Instructions
<1>3. PICK w \in registers_data : w = start_end_adresse(r, i) BY <1>1, BaseTyped
<1>4. PICK f : StoresOf(f, r, m, i) /\ pushed = Transferred(w, f[14], 0)
  BY <1>1, <1>3, StoreLoop
<1>5. pushed.reg = w /\ pushed.mem = f[14] BY <1>4 DEF Transferred
<1>6. f[14] \in [0..MemSize - 1 -> Byte]
  <2>1. 14 \in -1..14 OBVIOUS
  <2> QED BY <1>4, <2>1 DEF StoresOf
<1>7. w.current_mode \in Modes
  <2>1. \E n : \E x \in Word : w = arm_write_register(r, n, x)
    <3>1. PICK v \in Word : v = arm_read_register(r, i.rn) BY CoreReadIsWord
    <3>2. PICK size \in Word : size = (4 * Cardinality(i.list)) % (UINT32_MAX + 1)
      <4>1. PICK c \in Nat : c = Cardinality(i.list) BY <1>1, ListIsFinite
      <4>2. 4 * c \in Nat OBVIOUS
      <4> QED BY <4>1, <4>2, RemainderIsWord
    <3>3. plus(v, size) \in Word /\ minus(v, size) \in Word BY SumsAreWords
    <3>4. \E n : \E x \in {v, plus(v, size), minus(v, size)} :
            w = arm_write_register(r, n, x)
      BY <1>3, <3>1, <3>2 DEF start_end_adresse
    <3> QED BY <3>3, <3>4
  <2> QED BY <2>1, WriteKeepsType DEF arm_write_register
<1>8. PICK zeros : zeros = [n \in i.list |-> 0] OBVIOUS
<1>9. \A n \in i.list : zeros[n] \in Word BY <1>8, SumsAreWords
<1>10. zeroed = load_all(w, i.list, zeros) BY <1>5, <1>8
<1>11. zeroed \in registers_data /\ zeroed.current_mode \in Modes
  BY <1>1, <1>7, <1>9, <1>10, LoadAllTyped
<1>12. arm_read_register(zeroed, i.rn) = arm_read_register(w, i.rn)
  <2>1. i.rn \notin i.list BY DEF Pushes
  <2> QED BY <1>1, <1>7, <1>10, <2>1, LoadAllReads
<1>13. ASSUME NEW n PROVE slot(zeroed, back, n) = slot(r, i, n)
  <2>1. arm_read_register(zeroed, i.rn) =
          arm_read_register(start_end_adresse(r, i), i.rn)
    BY <1>3, <1>12
  <2> QED BY <2>1, StartsBack
<1>14. start_end_adresse(zeroed, back) = zeroed
  <2>1. start_end_adresse(zeroed, back) =
          arm_write_register(zeroed, i.rn, arm_read_register(zeroed, i.rn))
    BY <1>2 DEF start_end_adresse
  <2> QED BY <1>1, <1>11, <2>1, WriteOwn
<1>15. unread \in Word BY TransferAssumption
<1>16. PICK value : value = word_read(zeroed, f[14], back, unread) OBVIOUS
<1>17. ReadsOf(value, zeroed, f[14], back, unread)
  BY <1>1, <1>2, <1>6, <1>11, <1>15, <1>16, ReadLoop
<1>18. ASSUME NEW n \in i.list PROVE value[n] = arm_read_register(w, n)
  <2>1. n \in 0..15 BY <1>1, ListIsFinite
  <2>2. PICK a \in Word : a = slot(r, i, n) BY <1>1, SlotIsWord
  <2>3. write_fits(4, a) BY <2>2
  <2>4. read_fits(4, a) BY <2>3 DEF write_fits, read_fits
  <2>5. value[n] = value_of(f[14], 4, a, ENDIANESS)
    BY <1>2, <1>13, <1>17, <2>1, <2>2, <2>4 DEF ReadsOf
  <2> QED BY <1>1, <1>3, <1>4, <2>2, <2>5, StoresStay
<1>19. PICK g : g = [n \in i.list |-> value[n]] OBVIOUS
<1>20. load_all(zeroed, i.list, g) = w
  <2>1. \A n \in i.list : g[n] = arm_read_register(w, n) BY <1>18, <1>19
  <2> QED BY <1>1, <1>7, <1>10, <2>1, LoadAllRestores
<1>21. load_multiple(zeroed, f[14], back, unread).reg = load_all(zeroed, i.list, g)
  BY <1>2, <1>14, <1>16, <1>19 DEF load_multiple, Transferred
<1> QED BY <1>5, <1>20, <1>21

\* Whatever the base, the direction and the registers, the load multiple of the
\* opposite direction and order takes back all that a store multiple pushed, if
\* its words are in the memory; the increment-after form moves another register
\* and is left out (arm_load_store.c:216).
THEOREM PushedIsPopped == Spec => []PushPop
<1>1. TypeOK => PushPop
  <2> SUFFICES ASSUME TypeOK, ins.op = "stm", InMode, ins.W, ~(ins.P = 0 /\ ins.U = 1),
                      ins.rn # 15, {ins.rn, 15} \cap ins.list = {},
                      NEW pushed, pushed = store_multiple(reg, mem, ins),
                      NEW back, back = [ins EXCEPT !.P = 1 - @, !.U = 1 - @, !.W = FALSE],
                      NEW zeroed,
                      zeroed = load_all(pushed.reg, ins.list, [n \in ins.list |-> 0]),
                      \A n \in ins.list : write_fits(4, slot(reg, ins, n)),
                      NEW unread \in Unread
               PROVE  load_multiple(zeroed, pushed.mem, back, unread).reg = pushed.reg
    BY DEF PushPop
  <2>1. ins \in Program BY DEF TypeOK, None
  <2>2. ins \in Instructions BY <2>1, MachineAssumption
  <2>3. reg \in registers_data /\ mem \in [0..MemSize - 1 -> Byte] BY DEF TypeOK
  <2>4. reg.current_mode \in Modes BY DEF InMode
  <2>5. PICK r : r = reg OBVIOUS
  <2>6. PICK m : m = mem OBVIOUS
  <2>7. PICK i : i = ins OBVIOUS
  <2>8. PICK x : x = load_multiple(zeroed, pushed.mem, back, unread).reg OBVIOUS
  <2>9. /\ r \in registers_data /\ r.current_mode \in Modes
        /\ m \in [0..MemSize - 1 -> Byte]
        /\ Pushes(i) /\ Opposite(back, i)
        /\ pushed = store_multiple(r, m, i)
        /\ zeroed = load_all(pushed.reg, i.list, [n \in i.list |-> 0])
        /\ \A n \in i.list : write_fits(4, slot(r, i, n))
    BY <2>2, <2>3, <2>4, <2>5, <2>6, <2>7 DEF Pushes, Opposite
  <2>10. x = pushed.reg
    <3> HIDE <2>5, <2>6, <2>7
    <3> QED BY <2>8, <2>9, PoppedIsPushed
  <2> QED BY <2>8, <2>10
<1> QED BY <1>1, ProgramTypeCorrect, PTL
=============================================================================
