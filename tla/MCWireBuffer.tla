---------------------------- MODULE MCWireBuffer ----------------------------
(* Bytes of three bits, varints of three and varlongs of five.  The texts   *)
(* have at most one character (of one or two bytes) where the code allows   *)
(* 32767 (of up to four); 8 is a character above Latin-1.                   *)
EXTENDS WireBuffer

MCNumbers == {-16, -5, -4, -1, 3}
MCFixed == {-5, 40}
MCStrings == {<< >>, <<1>>, <<2, 0>>, <<8>>, <<6, 4>>, <<3, 3, 3, 3>>}
MCNoise == UNION {[1 .. n -> Byte] : n \in 1 .. 3}
=============================================================================
