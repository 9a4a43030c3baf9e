--------------------------- MODULE MCJavaSession ---------------------------
(***************************************************************************)
(* Instances of JavaSession for TLC.  JSON and tokens get small values, so *)
(* that a byte misread as a length can still be satisfied by the stream.   *)
(***************************************************************************)
EXTENDS JavaSession

\* ping_token=None: every try draws a token of its own.
RandomTokens == [k \in 1 .. Tries |-> 5 + k]
=============================================================================
