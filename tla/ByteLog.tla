------------------------------- MODULE ByteLog -------------------------------
(* What a writer of a byte stream relies on: the bytes written so far are a  *)
(* log that only grows.  Nothing already written changes, whatever happens   *)
(* to the memory behind it.                                                  *)
EXTENDS Integers

CONSTANT Byte

VARIABLES
  log,   \* the bytes, a function on 0..len-1
  len

Init == len = 0 /\ log = [k \in {} |-> 0]

Append ==
  /\ len' \in Nat /\ len' > len
  /\ log' \in [0..len' - 1 -> Byte]
  /\ \A k \in 0..len - 1 : log'[k] = log[k]

Spec == Init /\ [][Append]_<<log, len>>
=============================================================================
