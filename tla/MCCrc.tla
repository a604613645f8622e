------------------------------- MODULE MCCrc -------------------------------
(***************************************************************************)
(* An instance of Crc: messages of up to five bytes, longer than the word, *)
(* of a zero byte, the byte 1, the byte 128 and a byte of ones.            *)
(***************************************************************************)
EXTENDS Crc

MCBytes == {{}, {0}, {7}, ByteBits}
=============================================================================
