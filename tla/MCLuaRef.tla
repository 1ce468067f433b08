------------------------------ MODULE MCLuaRef ------------------------------
(* Model of LuaRef: two objects and five references, so that the free list   *)
(* reaches length five in every order and each slot is recycled.             *)
EXTENDS LuaRef
=============================================================================
