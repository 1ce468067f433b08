------------------------- MODULE MCStreamConverter -------------------------
(* Model of StreamConverter: an S-box of four entries, one key, one stream   *)
(* of two bytes.                                                             *)
EXTENDS StreamConverter

TwoByteKeys == {<<1, 2>>}
TwoByteStreams == {<<2, 3>>}
=============================================================================
