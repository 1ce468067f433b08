------------------------------ MODULE RefTable ------------------------------
(* What a caller of luaL_ref / luaL_unref may rely on, with no word about    *)
(* free lists: a reference names the object it was created for until it is   *)
(* released, no live reference is handed out twice, and the table grows only *)
(* when every reference it ever handed out is live.                          *)
EXTENDS Integers

CONSTANTS Value, Nil, MaxRef

VARIABLES
  held,   \* held[r]: the object reference r stands for, Nil when r is not live
  top     \* the highest reference ever handed out

vars == <<held, top>>

Init ==
  /\ held = [r \in 1..MaxRef |-> Nil]
  /\ top = 0

(* Take a reference that is not live: a released one while there is one. *)
Acquire(v) ==
  \E r \in 1..MaxRef :
    /\ held[r] = Nil
    /\ \/ r <= top /\ top' = top
       \/ /\ r = top + 1 /\ top' = r
          /\ \A s \in 1..top : held[s] # Nil
    /\ held' = [held EXCEPT ![r] = v]

Release(r) ==
  /\ held[r] # Nil
  /\ held' = [held EXCEPT ![r] = Nil]
  /\ UNCHANGED top

Next ==
  \/ \E v \in Value : Acquire(v)
  \/ \E r \in 1..MaxRef : Release(r)

Spec == Init /\ [][Next]_vars
=============================================================================
