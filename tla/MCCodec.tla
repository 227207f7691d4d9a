-------------------------------- MODULE MCCodec --------------------------------
(***************************************************************************)
(* Instance of Codec for TLC: eight values of a byte, so that a number     *)
(* takes two of them, and strings that are empty, differ only in case, or  *)
(* hold a byte with the sign bit set.                                      *)
(***************************************************************************)
EXTENDS Codec

SomeStrings == {<<>>, <<1>>, <<3>>, <<1, 5>>}
=============================================================================
