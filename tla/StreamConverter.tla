-------------------------- MODULE StreamConverter --------------------------
(* SonyNetworking: a converter encrypts and decrypts a stream in place, each *)
(* time with a new CRC4 object for its key.                                  *)
EXTENDS Integers, Sequences, SequencesExt, Bitwise

CONSTANTS
  N,        \* size of the S-box, 256 in the code; bytes are 0..N-1
  Excess,   \* the key array is that much longer than the S-box (its length is
            \* kept in front of it): 4 in the code
  Keys,     \* keys, sequences of bytes
  Streams,  \* contents of streams
  MaxConversions   \* bound: conversions of one stream

Byte == 0..N - 1

VARIABLES
  encKey,     \* the converter's key
  data,       \* the buffer, which is the stream's own
  plain,      \* history: what the stream held first
  starts      \* history: where each conversion started

vars == <<encKey, data, plain, starts>>

(* A CRC4 object in memory, from its S-box on: the entry N is sbox_free, the *)
(* entries after it are what the memory after the object holds.  A new       *)
(* object has nothing in it but what was there before.                       *)
NewCRC4 == {[i \in 0..N + Excess - 1 |-> IF i < N THEN i ELSE junk[i]] : junk \in [N..N + Excess - 1 -> Byte]}

Swap(s, i, j) == [s EXCEPT ![i] = s[j], ![j] = s[i]]

(* Initialize: the key schedule runs to the end of the stored key.  s is the *)
(* object with the identity in its S-box.                                    *)
Mixed(s, key) ==
  LET Step(st, i) ==
        LET j == (st.j + key[(i % Len(key)) + 1] + st.s[i]) % N
        IN [j |-> j, s |-> Swap(st.s, i, j)]
  IN FoldLeft(Step, [j |-> 0, s |-> s], [k \in 1..N + Excess |-> k - 1]).s
Initialize(s, key) == [Mixed(s, key) EXCEPT ![N] = 1]

(* Encrypt, in either direction: the bytes are combined with the key stream. *)
Encrypt(s, bytes) ==
  LET Step(st, b) ==
        LET i == (st.i + 1) % N
            j == (st.j + st.s[i]) % N
            t == Swap(st.s, i, j)
        IN [i |-> i, j |-> j, s |-> t, out |-> Append(st.out, t[(t[i] + t[j]) % N] ^^ b)]
  IN FoldLeft(Step, [i |-> 0, j |-> 0, s |-> s, out |-> <<>>], bytes).out

Init ==
  /\ encKey \in Keys /\ data \in Streams
  /\ plain = data /\ starts = <<>>

(* Convert: a key longer than the S-box is refused, with nothing changed. *)
Convert(start) ==
  /\ Len(encKey) <= N /\ Len(starts) < MaxConversions
  /\ \E crypto \in NewCRC4 :
       data' = SubSeq(data, 1, start) \o
               Encrypt(Initialize(crypto, encKey), SubSeq(data, start + 1, Len(data)))
  /\ starts' = Append(starts, start)
  /\ UNCHANGED <<encKey, plain>>

Next == \E start \in 0..Len(data) : Convert(start)

Spec == Init /\ [][Next]_vars

-----------------------------------------------------------------------------
(* "Encryption == Decryption, it's XOR. Reversable." (StreamConverter.cpp:31) *)
(* A stream converted twice from the same place holds what it held before.   *)
Reversible == Len(starts) = 2 /\ starts[1] = starts[2] => data = plain
=============================================================================
