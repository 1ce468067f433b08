---------------------------- MODULE MCTableWalk ----------------------------
(* Model of TableWalk: a table whose first element is a table.               *)
EXTENDS TableWalk

CONSTANTS outer, inner, k1, k2, v

TableEntries ==
  [t \in Table |-> IF t = outer THEN <<<<k1, inner>>, <<k2, v>>>>
                                ELSE <<<<k1, v>>>>]

LuaType ==
  [x \in Value \cup {Nil} |->
     IF x \in {outer, inner} THEN "table" ELSE IF x = Nil THEN "nil" ELSE "string"]
=============================================================================
