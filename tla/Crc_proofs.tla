----------------------------- MODULE Crc_proofs -----------------------------
(***************************************************************************)
(* Proofs about Crc, for messages of any length over any bytes.  One round *)
(* of the register is linear and loses nothing (its high bit tells which   *)
(* of its two branches was taken), so eight rounds are; a word whose low   *)
(* byte is clear is only shifted by them, which is why the table works.    *)
(***************************************************************************)
EXTENDS Crc, TLAPS

LEMMA XorTyped ==
    ASSUME NEW c \in SUBSET Bits, NEW d \in SUBSET Bits
    PROVE  Xor(c, d) \in SUBSET Bits
BY DEF Xor

LEMMA ShiftTyped ==
    ASSUME NEW c \in SUBSET Bits, NEW n \in Nat
    PROVE  ShiftRight(c, n) \in SUBSET Bits
BY DEF ShiftRight

\* Equal differences from the same word come from equal words.
LEMMA XorInjective ==
    ASSUME NEW b, NEW c, NEW d, Xor(c, b) = Xor(d, b)
    PROVE  c = d
BY DEF Xor

LEMMA XorInjectiveRight ==
    ASSUME NEW b, NEW c, NEW d, Xor(c, b) = Xor(c, d)
    PROVE  b = d
BY DEF Xor

LEMMA ShiftLinear ==
    ASSUME NEW c, NEW d, NEW n \in Nat
    PROVE  ShiftRight(Xor(c, d), n) = Xor(ShiftRight(c, n), ShiftRight(d, n))
BY DEF ShiftRight, Xor

LEMMA PolynomialTyped == polynomial \in SUBSET Bits /\ 31 \in polynomial
BY DEF polynomial, Bits

LEMMA RoundTyped ==
    ASSUME NEW c \in SUBSET Bits
    PROVE  Round(c) \in SUBSET Bits
BY XorTyped, ShiftTyped, PolynomialTyped DEF Round

\* The bit shifted out comes back as the highest bit of the result.
LEMMA RoundHighBit ==
    ASSUME NEW c \in SUBSET Bits
    PROVE  31 \in Round(c) <=> 0 \in c
<1>1. 31 \notin ShiftRight(c, 1)
  BY DEF ShiftRight, Bits
<1>2. CASE 0 \in c
  <2>1. Round(c) = Xor(polynomial, ShiftRight(c, 1))
    BY <1>2 DEF Round
  <2> QED BY <1>1, <1>2, <2>1, PolynomialTyped DEF Xor
<1>3. CASE 0 \notin c
  BY <1>1, <1>3 DEF Round
<1> QED BY <1>2, <1>3

LEMMA ShiftLosesLowBit ==
    ASSUME NEW c \in SUBSET Bits, NEW d \in SUBSET Bits,
           ShiftRight(c, 1) = ShiftRight(d, 1), 0 \in c <=> 0 \in d
    PROVE  c = d
<1>1. ASSUME NEW i \in Bits PROVE i \in c <=> i \in d
  <2>1. CASE i = 0
    BY <2>1
  <2>2. CASE i # 0
    <3>1. i - 1 \in Bits /\ (i - 1) + 1 = i
      BY <2>2 DEF Bits
    <3>2. i \in c <=> i - 1 \in ShiftRight(c, 1)
      BY <3>1 DEF ShiftRight
    <3>3. i \in d <=> i - 1 \in ShiftRight(d, 1)
      BY <3>1 DEF ShiftRight
    <3> QED BY <3>2, <3>3
  <2> QED BY <2>1, <2>2
<1> QED BY <1>1

LEMMA RoundInjective ==
    ASSUME NEW c \in SUBSET Bits, NEW d \in SUBSET Bits, Round(c) = Round(d)
    PROVE  c = d
<1>1. 0 \in c <=> 0 \in d
  BY RoundHighBit
<1>2. ShiftRight(c, 1) = ShiftRight(d, 1)
  <2>1. CASE 0 \in c
    <3>1. Xor(polynomial, ShiftRight(c, 1)) = Xor(polynomial, ShiftRight(d, 1))
      BY <1>1, <2>1 DEF Round
    <3> QED BY <3>1, XorInjectiveRight
  <2>2. CASE 0 \notin c
    BY <1>1, <2>2 DEF Round
  <2> QED BY <2>1, <2>2
<1> QED BY <1>1, <1>2, ShiftLosesLowBit

\* The round of a sum is the sum of the rounds: the polynomial is added once,
\* or twice and so not at all, or never.
LEMMA XorRegroups ==
    ASSUME NEW p, NEW c, NEW d
    PROVE  /\ Xor(p, Xor(c, d)) = Xor(Xor(p, c), d)
           /\ Xor(p, Xor(c, d)) = Xor(c, Xor(p, d))
           /\ Xor(c, d) = Xor(Xor(p, c), Xor(p, d))
BY DEF Xor

LEMMA RoundLinear ==
    ASSUME NEW c \in SUBSET Bits, NEW d \in SUBSET Bits
    PROVE  Round(Xor(c, d)) = Xor(Round(c), Round(d))
<1>1. 0 \in Xor(c, d) <=> ~(0 \in c <=> 0 \in d)
  BY DEF Xor
<1>2. ShiftRight(Xor(c, d), 1) = Xor(ShiftRight(c, 1), ShiftRight(d, 1))
  BY ShiftLinear
<1> DEFINE s == ShiftRight(c, 1)
           t == ShiftRight(d, 1)
<1>3. /\ Xor(polynomial, Xor(s, t)) = Xor(Xor(polynomial, s), t)
      /\ Xor(polynomial, Xor(s, t)) = Xor(s, Xor(polynomial, t))
      /\ Xor(s, t) = Xor(Xor(polynomial, s), Xor(polynomial, t))
  BY XorRegroups
<1>4. Round(Xor(c, d)) = IF 0 \in Xor(c, d) THEN Xor(polynomial, Xor(s, t)) ELSE Xor(s, t)
  BY <1>2 DEF Round
<1>5. /\ Round(c) = IF 0 \in c THEN Xor(polynomial, s) ELSE s
      /\ Round(d) = IF 0 \in d THEN Xor(polynomial, t) ELSE t
  BY DEF Round
<1> HIDE DEF s, t
<1> QED BY <1>1, <1>3, <1>4, <1>5

----------------------------------------------------------------------------
LEMMA RoundsTyped ==
    ASSUME NEW c \in SUBSET Bits
    PROVE  Rounds(c) \in SUBSET Bits
BY RoundTyped DEF Rounds

LEMMA RoundsInjective ==
    ASSUME NEW c \in SUBSET Bits, NEW d \in SUBSET Bits, Rounds(c) = Rounds(d)
    PROVE  c = d
BY RoundTyped, RoundInjective DEF Rounds

LEMMA RoundsLinear ==
    ASSUME NEW c \in SUBSET Bits, NEW d \in SUBSET Bits
    PROVE  Rounds(Xor(c, d)) = Xor(Rounds(c), Rounds(d))
BY RoundTyped, RoundLinear DEF Rounds

\* Without a low bit a round only shifts.
LEMMA RoundShifts ==
    ASSUME NEW k \in 1 .. 8, NEW c \in SUBSET (k .. 31)
    PROVE  Round(c) = ShiftRight(c, 1) /\ Round(c) \in SUBSET (k - 1 .. 31)
<1>1. 0 \notin c
  OBVIOUS
<1>2. Round(c) = ShiftRight(c, 1)
  BY <1>1 DEF Round
<1>3. ShiftRight(c, 1) \in SUBSET (k - 1 .. 31)
  BY DEF ShiftRight, Bits
<1> QED BY <1>2, <1>3

LEMMA ShiftTwice ==
    ASSUME NEW n \in 1 .. 7, NEW c \in SUBSET (8 .. 31)
    PROVE  ShiftRight(ShiftRight(c, n), 1) = ShiftRight(c, n + 1)
<1>1. ASSUME NEW i \in Bits
      PROVE  i \in ShiftRight(ShiftRight(c, n), 1) <=> i \in ShiftRight(c, n + 1)
  BY DEF ShiftRight, Bits
<1> QED BY <1>1 DEF ShiftRight

LEMMA RoundsOfHighBits ==
    ASSUME NEW c \in SUBSET (8 .. 31)
    PROVE  Rounds(c) = ShiftRight(c, 8)
<1> DEFINE r1 == Round(c)
           r2 == Round(r1)
           r3 == Round(r2)
           r4 == Round(r3)
           r5 == Round(r4)
           r6 == Round(r5)
           r7 == Round(r6)
           r8 == Round(r7)
<1>1. r1 \in SUBSET (7 .. 31) /\ r1 = ShiftRight(c, 1)
  BY RoundShifts, 8 - 1 = 7, 8 \in 1 .. 8
<1>2. r2 \in SUBSET (6 .. 31) /\ r2 = ShiftRight(c, 2)
  BY <1>1, RoundShifts, ShiftTwice, 7 - 1 = 6, 7 \in 1 .. 8, 1 + 1 = 2, 1 \in 1 .. 7
<1>3. r3 \in SUBSET (5 .. 31) /\ r3 = ShiftRight(c, 3)
  BY <1>2, RoundShifts, ShiftTwice, 6 - 1 = 5, 6 \in 1 .. 8, 2 + 1 = 3, 2 \in 1 .. 7
<1>4. r4 \in SUBSET (4 .. 31) /\ r4 = ShiftRight(c, 4)
  BY <1>3, RoundShifts, ShiftTwice, 5 - 1 = 4, 5 \in 1 .. 8, 3 + 1 = 4, 3 \in 1 .. 7
<1>5. r5 \in SUBSET (3 .. 31) /\ r5 = ShiftRight(c, 5)
  BY <1>4, RoundShifts, ShiftTwice, 4 - 1 = 3, 4 \in 1 .. 8, 4 + 1 = 5, 4 \in 1 .. 7
<1>6. r6 \in SUBSET (2 .. 31) /\ r6 = ShiftRight(c, 6)
  BY <1>5, RoundShifts, ShiftTwice, 3 - 1 = 2, 3 \in 1 .. 8, 5 + 1 = 6, 5 \in 1 .. 7
<1>7. r7 \in SUBSET (1 .. 31) /\ r7 = ShiftRight(c, 7)
  BY <1>6, RoundShifts, ShiftTwice, 2 - 1 = 1, 2 \in 1 .. 8, 6 + 1 = 7, 6 \in 1 .. 7
<1>8. r8 = ShiftRight(c, 8)
  BY <1>7, RoundShifts, ShiftTwice, 1 \in 1 .. 8, 7 + 1 = 8, 7 \in 1 .. 7
<1> QED BY <1>8 DEF Rounds

----------------------------------------------------------------------------
\* Looking the low byte up and adding the shifted rest is eight rounds.
LEMMA UpdateIsRounds ==
    ASSUME NEW c \in SUBSET Bits, NEW byte \in SUBSET ByteBits
    PROVE  Update(c, byte) = Rounds(Xor(c, byte))
<1> DEFINE x    == Xor(c, byte)
           low  == x \cap ByteBits
           high == x \ ByteBits
<1>1. byte \in SUBSET Bits
  BY DEF Bits, ByteBits
<1>2. x \in SUBSET Bits
  BY <1>1, XorTyped
<1>3. low \in SUBSET ByteBits /\ low \in SUBSET Bits
  BY <1>2
<1>4. high \in SUBSET (8 .. 31) /\ high \in SUBSET Bits
  BY <1>2 DEF Bits, ByteBits
<1>5. x = Xor(low, high)
  BY DEF Xor
<1>6. crc32_table[low] = Rounds(low)
  BY <1>3 DEF crc32_table
<1>7. ShiftRight(c, 8) = ShiftRight(high, 8)
  <2>1. ASSUME NEW i \in Bits
        PROVE  i + 8 \in c <=> i + 8 \in high
    <3>1. i + 8 \notin ByteBits
      BY DEF Bits, ByteBits
    <3> QED BY <3>1 DEF Xor
  <2> QED BY <2>1 DEF ShiftRight
<1>8. Rounds(high) = ShiftRight(c, 8)
  BY <1>4, <1>7, RoundsOfHighBits
<1>9. Rounds(x) = Xor(Rounds(low), Rounds(high))
  <2> HIDE DEF x, low, high
  <2> QED BY <1>3, <1>4, <1>5, RoundsLinear
<1> QED BY <1>6, <1>8, <1>9 DEF Update

LEMMA UpdateTyped ==
    ASSUME NEW c \in SUBSET Bits, NEW byte \in SUBSET ByteBits
    PROVE  Update(c, byte) \in SUBSET Bits
<1>1. byte \in SUBSET Bits
  BY DEF Bits, ByteBits
<1> QED BY <1>1, UpdateIsRounds, XorTyped, RoundsTyped

\* Two words or two bytes that differ give words that differ.
LEMMA UpdateInjective ==
    ASSUME NEW c \in SUBSET Bits, NEW d \in SUBSET Bits, NEW byte \in SUBSET ByteBits,
           Update(c, byte) = Update(d, byte)
    PROVE  c = d
<1>1. byte \in SUBSET Bits
  BY DEF Bits, ByteBits
<1>2. Xor(c, byte) = Xor(d, byte)
  BY <1>1, UpdateIsRounds, XorTyped, RoundsInjective
<1> QED BY <1>2, XorInjective

LEMMA UpdateTellsBytes ==
    ASSUME NEW c \in SUBSET Bits, NEW byte \in SUBSET ByteBits, NEW other \in SUBSET ByteBits,
           Update(c, byte) = Update(c, other)
    PROVE  byte = other
<1>1. byte \in SUBSET Bits /\ other \in SUBSET Bits
  BY DEF Bits, ByteBits
<1>2. Xor(c, byte) = Xor(c, other)
  BY <1>1, UpdateIsRounds, XorTyped, RoundsInjective
<1> QED BY <1>2, XorInjectiveRight

----------------------------------------------------------------------------
\* The inductive invariant: the copy's register is the message's until a byte
\* is altered, and never again after that.
IInv == TypeOK /\ TableIsShiftRegister /\ (altered <=> copy # crc)

LEMMA InitIInv == Init => IInv
<1> SUFFICES ASSUME Init PROVE IInv
  OBVIOUS
<1>1. length \in 0 .. MaxLength
  BY LengthIsNatural DEF Init
<1>2. altered \in BOOLEAN /\ ~altered /\ copy = crc
  BY DEF Init
<1>3. crc \subseteq Bits /\ register \subseteq Bits /\ copy \subseteq Bits /\ crc = register
  BY DEF Init, Ones
<1> QED BY <1>1, <1>2, <1>3 DEF IInv, TypeOK, TableIsShiftRegister

LEMMA ReadKeeps ==
    ASSUME IInv, NEW byte \in Bytes, NEW other \in Bytes, Read(byte, other)
    PROVE  /\ length' \in 0 .. MaxLength
           /\ crc' \in SUBSET Bits /\ register' \in SUBSET Bits /\ copy' \in SUBSET Bits
           /\ crc' = register'
<1>1. byte \in SUBSET ByteBits /\ other \in SUBSET ByteBits
  BY BytesAreBytes
<1>2. crc \in SUBSET Bits /\ copy \in SUBSET Bits /\ crc = register
  BY DEF IInv, TypeOK, TableIsShiftRegister
<1>3. crc' = Update(crc, byte) /\ copy' = Update(copy, other) /\ register' = Rounds(Xor(crc, byte))
  BY <1>2 DEF Read
<1>4. length' \in 0 .. MaxLength
  BY LengthIsNatural DEF IInv, TypeOK, Read
<1>5. crc' \in SUBSET Bits /\ copy' \in SUBSET Bits
  BY <1>1, <1>2, <1>3, UpdateTyped
<1>6. crc' = register'
  BY <1>1, <1>2, <1>3, UpdateIsRounds
<1> QED BY <1>4, <1>5, <1>6

LEMMA NextIInv == IInv /\ [Next]_vars => IInv'
<1> SUFFICES ASSUME IInv, [Next]_vars
             PROVE  IInv'
  OBVIOUS
<1> USE DEF IInv
<1>1. crc \in SUBSET Bits /\ copy \in SUBSET Bits
  BY DEF TypeOK
<1>2. CASE ReadSame
  <2>1. PICK byte \in Bytes : Read(byte, byte) /\ UNCHANGED altered
    BY <1>2 DEF ReadSame
  <2>2. byte \in SUBSET ByteBits
    BY BytesAreBytes
  <2>3. crc' = Update(crc, byte) /\ copy' = Update(copy, byte)
    BY <2>1 DEF Read
  <2>4. copy' = crc' <=> copy = crc
    BY <1>1, <2>2, <2>3, UpdateInjective
  <2> QED BY <2>1, <2>4, ReadKeeps DEF TypeOK, TableIsShiftRegister
<1>3. CASE ReadAltered
  <2>1. PICK byte, other \in Bytes : byte # other /\ Read(byte, other)
    BY <1>3 DEF ReadAltered
  <2>2. byte \in SUBSET ByteBits /\ other \in SUBSET ByteBits
    BY BytesAreBytes
  <2>3. altered' = TRUE /\ copy = crc
    BY <1>3 DEF ReadAltered
  <2>4. crc' = Update(crc, byte) /\ copy' = Update(crc, other)
    BY <2>1, <2>3 DEF Read
  <2>5. copy' # crc'
    BY <1>1, <2>1, <2>2, <2>4, UpdateTellsBytes
  <2> QED BY <2>1, <2>3, <2>5, ReadKeeps DEF TypeOK, TableIsShiftRegister
<1>4. CASE UNCHANGED vars
  BY <1>4 DEF vars, TypeOK, TableIsShiftRegister
<1> QED BY <1>2, <1>3, <1>4 DEF Next

\* Whatever is shifted and read, the words stay 32 bits wide.
THEOREM WordsOf32Bits == Spec => []TypeOK
<1>1. IInv => TypeOK
  BY DEF IInv
<1> QED BY <1>1, InitIInv, NextIInv, PTL DEF Spec

\* For every message the words are 32 bits wide and the table-driven loop of
\* calculate_crc32 is the shift register of the ZIP polynomial.
THEOREM TableRight == Spec => [](TypeOK /\ TableIsShiftRegister)
<1>1. IInv => TypeOK /\ TableIsShiftRegister
  BY DEF IInv
<1> QED BY <1>1, InitIInv, NextIInv, PTL DEF Spec

\* calculate_crc32 of a message and of the same message with one byte altered
\* differ, whatever the bytes and the length.
THEOREM AlteredByteAlwaysNoticed == Spec => []AlteredByteNoticed
<1>1. IInv => AlteredByteNoticed
  <2> SUFFICES ASSUME IInv, altered
               PROVE  Bits \ copy # Bits \ crc
    BY DEF AlteredByteNoticed, calculate_crc32
  <2>1. copy # crc /\ copy \in SUBSET Bits /\ crc \in SUBSET Bits
    BY DEF IInv, TypeOK
  <2> QED BY <2>1
<1> QED BY <1>1, InitIInv, NextIInv, PTL DEF Spec
=============================================================================
