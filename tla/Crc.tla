-------------------------------- MODULE Crc --------------------------------
(***************************************************************************)
(* src/algorithm/crc.c.  A 32-bit word is the set of its one bits, so xor  *)
(* is the symmetric difference.  The machine reads a message byte by byte, *)
(* as calculate_crc32 does, and beside it the same message with one byte   *)
(* altered, and the message once more with the plain shift register that   *)
(* the table stands for.                                                   *)
(***************************************************************************)
EXTENDS Integers, FiniteSets

CONSTANTS
    Bytes,      \* the bytes messages are made of
    MaxLength   \* bound: the longest message

Bits     == 0 .. 31
ByteBits == 0 .. 7

ASSUME BytesAreBytes == Bytes \subseteq SUBSET ByteBits
ASSUME LengthIsNatural == MaxLength \in Nat

VARIABLES
    length,    \* bytes read so far
    crc,       \* of the message
    register,  \* of the message, without the table
    altered,   \* has a byte of the copy been altered?
    copy       \* crc of the copy

vars == <<length, crc, register, altered, copy>>

----------------------------------------------------------------------------
Xor(c, d) == (c \ d) \cup (d \ c)

ShiftRight(c, n) == {i \in Bits : i + n \in c}

\* 0xEDB88320 (mutant: 0x1DB710641, all 33 terms, in a wider type)
polynomial_AllTerms == {0, 6, 9, 10, 16, 20, 21, 22, 24, 25, 27, 28, 30, 31, 32}
polynomial == {5, 8, 9, 15, 19, 20, 21, 23, 24, 26, 27, 29, 30, 31}

\* One round of init_crc32_table's inner loop, and eight of them.
Round(c)  == IF 0 \in c THEN Xor(polynomial, ShiftRight(c, 1)) ELSE ShiftRight(c, 1)
Rounds(c) == Round(Round(Round(Round(Round(Round(Round(Round(c))))))))

crc32_table_SevenRounds ==
    [i \in SUBSET ByteBits |-> Round(Round(Round(Round(Round(Round(Round(i)))))))]
crc32_table == [i \in SUBSET ByteBits |-> Rounds(i)]

\* crc32_table[(crc ^ byte) & 0xFF] ^ (crc >> 8)
Update_ByteOnly(c, byte) == Xor(crc32_table[byte], ShiftRight(c, 8))
Update(c, byte) == Xor(crc32_table[Xor(c, byte) \cap ByteBits], ShiftRight(c, 8))

Ones == Bits    \* 0xFFFFFFFF

calculate_crc32(c) == Bits \ c   \* the value returned, ~crc

----------------------------------------------------------------------------
Init ==
    /\ length = 0
    /\ crc = Ones /\ register = Ones /\ copy = Ones
    /\ altered = FALSE

\* The next byte of the message, and the byte at its place in the copy.
Read(byte, other) ==
    /\ length < MaxLength
    /\ length' = length + 1
    /\ crc' = Update(crc, byte)
    /\ register' = Rounds(Xor(register, byte))
    /\ copy' = Update(copy, other)

ReadSame == \E byte \in Bytes : Read(byte, byte) /\ UNCHANGED altered

ReadAltered ==
    /\ ~altered
    /\ \E byte, other \in Bytes : byte # other /\ Read(byte, other)
    /\ altered' = TRUE

Next == ReadSame \/ ReadAltered

Spec == Init /\ [][Next]_vars

----------------------------------------------------------------------------
\* The words stay words of 32 bits, whatever is shifted and read.
TypeOK ==
    /\ length \in 0 .. MaxLength
    /\ altered \in BOOLEAN
    /\ crc \subseteq Bits /\ register \subseteq Bits /\ copy \subseteq Bits

\* crc32_table takes eight rounds in one: the loop of calculate_crc32 computes
\* what the shift register with the same polynomial does, bit by bit.
TableIsShiftRegister == crc = register

\* What pager_verify_db and the journal rely on: wherever in a message a byte
\* is altered, and however long the message goes on, the checksum differs.
AlteredByteNoticed == altered => calculate_crc32(copy) # calculate_crc32(crc)
=============================================================================
