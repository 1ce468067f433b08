---------------------------- MODULE MCServerHost ----------------------------
(* Model of ServerHost: tables for either file that are empty, right, right  *)
(* in another order, unknown or wrong at the first or at a later element.    *)
EXTENDS ServerHost

CONSTANTS other, str, num, empty, main, full, late, numbered, wrong, wrongLate

TableEntries ==
  [t \in Table |->
     CASE t = empty     -> <<>>
       [] t = main      -> <<<<ConfigFile, str>>>>
       [] t = full      -> <<<<ServerName, str>>, <<Host, other>>, <<Port, num>>>>
       [] t = late      -> <<<<Port, num>>, <<Host, str>>, <<other, str>>, <<ServerName, str>>>>
       [] t = numbered  -> <<<<num, str>>>>
       [] t = wrong     -> <<<<ConfigFile, num>>>>
       [] t = wrongLate -> <<<<ServerName, str>>, <<Port, str>>>>]

LuaType ==
  [v \in Value \cup {Nil} |->
     CASE v \in {empty, main, full, late, numbered, wrong, wrongLate} -> "table"
       [] v = num -> "number"
       [] v = Nil -> "nil"
       [] OTHER   -> "string"]
=============================================================================
