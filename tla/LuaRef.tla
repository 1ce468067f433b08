------------------------------- MODULE LuaRef -------------------------------
(* The registry under any sequence of calls that keeps the contract of the   *)
(* reference system: a reference is released once, by whoever holds it.      *)
EXTENDS Registry

VARIABLES
  registry,   \* the integer part of LUA_REGISTRYINDEX
  held,       \* history: what each live reference was first created for, else Nil
  top         \* history: the highest reference luaL_ref ever returned

vars == <<registry, held, top>>

(* Types: slots hold objects, nothing, or a link of the free list.           *)
TypeOK ==
  /\ registry \in [0..MaxRef -> Value \cup {Nil} \cup Ref]
  /\ held \in [Ref -> Value \cup {Nil}]
  /\ top \in 0..MaxRef

Init ==
  /\ registry = EmptyTable
  /\ held = [r \in Ref |-> Nil]
  /\ top = 0

(* luaL_ref: nil has the fixed reference LUA_REFNIL and leaves the table as  *)
(* it is; any other value takes a slot.  Were a live reference returned, it  *)
(* would still be its first holder's.                                        *)
luaL_ref(v) ==
  \/ v = Nil /\ UNCHANGED vars
  \/ /\ v # Nil
     /\ \E r \in NewRef(registry) :
          /\ registry' = Stored(registry, r, v)
          /\ held' = [held EXCEPT ![r] = IF @ = Nil THEN v ELSE @]
          /\ top' = IF r > top THEN r ELSE top

(* luaL_unref of a live reference, or of LUA_REFNIL. *)
luaL_unref(r) ==
  /\ r # LUA_REFNIL => held[r] # Nil
  /\ registry' = Unreferenced(registry, r)
  /\ held' = [s \in Ref |-> IF s = r THEN Nil ELSE held[s]]
  /\ UNCHANGED top

Next ==
  \/ \E v \in Value \cup {Nil} : luaL_ref(v)
  \/ \E r \in Ref \cup {LUA_REFNIL} : luaL_unref(r)

Spec == Init /\ [][Next]_vars

-----------------------------------------------------------------------------
(* Every live reference still leads to the object it was created for, after  *)
(* any number of references were taken and released around it (luaL_ref and  *)
(* luaL_unref thread their free list through the very same slots).           *)
Lookup == \A r \in Ref : held[r] # Nil => registry[r] = held[r]

(* The free list promises no more than the abstract table: no live reference *)
(* is handed out again, and no new slot is made while a freed one exists.    *)
Abstract == INSTANCE RefTable
ImplementsRefTable == Abstract!Spec

-----------------------------------------------------------------------------
(* Why Lookup holds: the freed slots form one chain without repetition from  *)
(* slot 0, and together with the live slots they are exactly 1..top.         *)
IsFreeList(n, fl) ==
  /\ \A i, j \in 1..n : fl[i] = fl[j] => i = j
  /\ registry[0] = IF n = 0 THEN Nil ELSE fl[n]
  /\ \A i \in 1..n : registry[fl[i]] = IF i = 1 THEN Nil ELSE fl[i - 1]
  /\ \A i \in 1..n : fl[i] <= top /\ held[fl[i]] = Nil
  /\ \A r \in 1..top : held[r] = Nil => \E i \in 1..n : fl[i] = r

UnusedAbove ==
  \A r \in Ref : r > top => registry[r] = Nil /\ held[r] = Nil

FreeListInv ==
  /\ TypeOK
  /\ Lookup
  /\ UnusedAbove
  /\ \E n \in 0..MaxRef : \E fl \in [1..n -> Ref] : IsFreeList(n, fl)
=============================================================================
