--------------------------- MODULE MCLuaNetSocket ---------------------------
(* Model of LuaNetSocket.  Events are interchangeable, and so are sockets.   *)
EXTENDS LuaNetSocket, TLC

Identical == Permutations(Event) \cup Permutations(Socket)
=============================================================================
