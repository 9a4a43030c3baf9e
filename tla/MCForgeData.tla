---------------------------- MODULE MCForgeData ----------------------------
(* Bytes of three bits in characters of five: as in the code, one character  *)
(* refills the register for one byte and leaves bits over.                  *)
EXTENDS ForgeData

MCMods == [server : BOOLEAN, channels : {<< >>, <<2>>, <<2, 4>>}]
MCContents ==
    [mods : UNION {[1 .. n -> MCMods] : n \in 0 .. 2},
     extra : {<< >>, <<1>>, <<3, 1>>}]
=============================================================================
