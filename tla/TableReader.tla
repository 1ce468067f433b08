---------------------------- MODULE TableReader ----------------------------
(* LuaTableReader: iteration over a Lua table whose cursor lives on the      *)
(* Lua stack.  A reader anchors its table in the registry; its first         *)
(* NextElement pushes the table and a key, and from then on every call of it *)
(* trusts that what lies on top of the stack is its own.                     *)
(*                                                                           *)
(* Only the operations are here; TableWalk and ServerHost are their callers. *)
EXTENDS Registry, Sequences, SequencesExt

CONSTANTS
  Table,      \* the values that are tables
  Entries,    \* of each table: its <<key, value>> pairs, in lua_next's order
  TypeOf,     \* lua_type of every value, Nil included
  Reader      \* the reader objects of the caller

ASSUME TableAssumption ==
  /\ Table = {v \in Value : TypeOf[v] = "table"}
  /\ DOMAIN Entries = Table
  /\ \A t \in Table : Entries[t] \in Seq(Value \X Value)
  /\ \A t \in Table : \A i, j \in DOMAIN Entries[t] :
       Entries[t][i][1] = Entries[t][j][1] => i = j

VARIABLES
  stack,      \* the Lua stack above the base of the caller
  registry,   \* integer part of LUA_REGISTRYINDEX
  readers,    \* the fields of each reader, and (history) what it delivered
  fault       \* the stack underflowed, or lua_next got what is no table or no key of it

readerVars == <<stack, registry, readers, fault>>

(* A reader without a state: L is null and table_ref is -1. *)
ClosedReader ==
  [ref |-> LUA_REFNIL, idx |-> -1, more |-> FALSE, table |-> Nil, seen |-> <<>>]

ReaderTypeOK ==
  /\ stack \in Seq(Value \cup {Nil})
  /\ registry \in [0..MaxRef -> Value \cup {Nil} \cup Ref]
  /\ readers \in [Reader ->
       [ref : Ref \cup {LUA_REFNIL}, idx : Int, more : BOOLEAN,
        table : Table \cup {Nil}, seen : Seq(Value \X Value)]]
  /\ fault \in BOOLEAN

IsOpen(r) == readers[r].ref # LUA_REFNIL

(* lua_pop *)
Popped(s, n) == SubSeq(s, 1, Len(s) - n)

(* Setup on the value on top.  It throws, having changed nothing, unless     *)
(* that is a table: this is for the caller to tell.                          *)
Setup(r) ==
  /\ Last(stack) \in Table
  /\ \E n \in NewRef(registry) :
       /\ registry' = Stored(registry, n, Last(stack))
       /\ readers' = [readers EXCEPT ![r] =
            [ClosedReader EXCEPT !.ref = n, !.table = Last(stack)]]
  /\ UNCHANGED <<stack, fault>>

(* Faulty variant for InOrder: the value is left on the stack. *)
CursorKept(r) ==
  IF readers[r].idx = -1 THEN stack \o <<registry[readers[r].ref], Nil>>
                         ELSE stack

(* The stack as NextElement hands it to lua_next: the first call pushes the  *)
(* table and nil, every other removes the value of the element before.       *)
Cursor(r) ==
  IF readers[r].idx = -1 THEN stack \o <<registry[readers[r].ref], Nil>>
                         ELSE Popped(stack, 1)

(* What lua_next(L, -2) needs: a table, and above it nil or one of its keys. *)
Traversable(s) ==
  /\ Len(s) >= 2
  /\ s[Len(s) - 1] \in Table
  /\ Last(s) = Nil \/ \E e \in Range(Entries[s[Len(s) - 1]]) : e[1] = Last(s)

(* The place of the key on top in the table below it: 0 before the first. *)
Place(s) == SelectInSeq(Entries[s[Len(s) - 1]], LAMBDA e : e[1] = Last(s))

(* NextElement: lua_next replaces the key by the next element's key and      *)
(* value, or, at the end, removes the key alone: the table stays.            *)
NextElement(r) ==
  LET s     == Cursor(r)
      table == Entries[s[Len(s) - 1]]
      next  == table[Place(s) + 1]
      more  == Place(s) < Len(table)
  IN  /\ fault' = ~Traversable(s)
      /\ IF Traversable(s)
           THEN /\ stack' = IF more THEN Front(s) \o next ELSE Front(s)
                /\ readers' = [readers EXCEPT
                     ![r].idx = @ + 1,
                     ![r].more = more,
                     ![r].seen = IF more THEN Append(@, next) ELSE @]
           ELSE UNCHANGED <<stack, readers>>
      /\ UNCHANGED registry

(* Faulty variant for SettledWhenRegistered: the table stays anchored. *)
ReleasedNever(t, r) == t

Released(t, r) == Unreferenced(t, r)

(* Close: two values are taken for the reader's and removed, whatever is     *)
(* left of them, unless the reader stands at its first element.              *)
Close(r) ==
  LET n == IF readers[r].idx # 0 THEN 2 ELSE 0
  IN  /\ fault' = (n > Len(stack))
      /\ stack' = Popped(stack, n)
      /\ registry' = Released(registry, readers[r].ref)
      /\ readers' = [readers EXCEPT ![r].ref = LUA_REFNIL]
=============================================================================
