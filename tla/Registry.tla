------------------------------ MODULE Registry ------------------------------
(* The reference system of Lua 5.1's auxiliary library over an integer-keyed *)
(* table (here LUA_REGISTRYINDEX): luaL_ref and luaL_unref as operators on   *)
(* the table.  The bridge between the sockets and Lua keeps every object it  *)
(* must not lose in this table.                                              *)
(*                                                                           *)
(* A table is a function on 0..MaxRef.  Slot 0 (FREELIST_REF) heads a list   *)
(* of freed slots threaded through the slots themselves; Nil is an absent    *)
(* key.                                                                      *)
EXTENDS Integers

CONSTANTS
  Value,    \* what callers store: functions and userdata, never nil
  Nil,      \* Lua's nil
  MaxRef    \* bound: the highest reference the table may grow to

ASSUME RegistryAssumption ==
  /\ MaxRef \in Nat \ {0}
  /\ Nil \notin Value
  /\ Nil \notin Int
  /\ \A v \in Value : v \notin Int

Ref == 1..MaxRef
LUA_REFNIL == -1

EmptyTable == [k \in 0..MaxRef |-> Nil]

(* lua_tointeger of slot 0: what is no number converts to 0, "no free element". *)
FreeHead(t) == IF t[0] \in Int THEN t[0] ELSE 0

(* lua_objlen returns some border of the table: a key whose successor is     *)
(* absent and which is itself present, or 0.                                 *)
Border(t) == {n \in 0..MaxRef - 1 : t[n + 1] = Nil /\ (n # 0 => t[n] # Nil)}

(* The references luaL_ref may return: the first freed one, or, when none is *)
(* free, the successor of the table's length.                                *)
NewRef(t) ==
  IF FreeHead(t) # 0 THEN {FreeHead(t)} ELSE {n + 1 : n \in Border(t)}

(* Faulty variant for Lookup: a recycled slot stays on the free list. *)
StoredUnpopped(t, r, v) == [t EXCEPT ![r] = v]

(* The table after luaL_ref stored v at r \in NewRef(t): a recycled slot is  *)
(* first popped from the free list.                                          *)
Stored(t, r, v) ==
  IF FreeHead(t) # 0 THEN [t EXCEPT ![0] = t[r], ![r] = v]
                     ELSE [t EXCEPT ![r] = v]

(* Faulty variants: the head is set before the slot (FreeListInv), the slot  *)
(* is cleared but not kept for reuse (ImplementsRefTable).                   *)
UnreferencedSwapped(t, r) == [t EXCEPT ![0] = r, ![r] = r]
UnreferencedUnlinked(t, r) == IF r >= 0 THEN [t EXCEPT ![r] = Nil] ELSE t

(* The table after luaL_unref(r): r is pushed on the free list, and nothing  *)
(* checks that it was not there already.                                     *)
Unreferenced(t, r) ==
  IF r >= 0 THEN [t EXCEPT ![r] = t[0], ![0] = r] ELSE t
=============================================================================
