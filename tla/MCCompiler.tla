----------------------------- MODULE MCCompiler -----------------------------
(* Model values for Compiler.  Two of the number lexemes are one int, the    *)
(* default length of a VARCHAR; one is too large for an int and is cut to    *)
(* the -1 an INT column has for a length; "0" is a literal that the program  *)
(* of a text value also holds.  1000 is an int nobody wrote.                 *)
EXTENDS Compiler

MCNames   == {"a", "b"}
MCNumbers == {"0", "255", "0255", "4294967295"}
MCTexts   == {"'x'"}
MCInts    == {-1, 0, 255, 1000}
MCAtoi    == [n \in MCNumbers |-> CASE n = "0" -> 0 [] n = "4294967295" -> -1 [] OTHER -> 255]
=============================================================================
