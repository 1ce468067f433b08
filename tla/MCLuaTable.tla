----------------------------- MODULE MCLuaTable -----------------------------
(* Model of LuaTable: integer keys beyond the array part, a string and an    *)
(* object that hash anywhere, so that every kind of collision comes up.      *)
EXTENDS LuaTable
=============================================================================
