---------------------------- MODULE MCByteStream ----------------------------
(* Model of ByteStream: asymmetric numbers of each width (a wrong byte order *)
(* shows), the empty string, one byte, two, and two of which one is zero.    *)
EXTENDS ByteStream

Numbers == {<<7>>, <<1, 2>>, <<200, 3, 0, 4>>, <<0, 0, 0, 0, 0, 5, 0, 6>>}
Strings == {<<>>, <<65>>, <<65, 66>>, <<65, 0>>}
=============================================================================
