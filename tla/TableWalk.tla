----------------------------- MODULE TableWalk -----------------------------
(* A caller of LuaTableReader that reads tables inside of tables the way the *)
(* header asks for: a reader is opened on the value on top of the stack,     *)
(* advanced and closed, and while a reader inside it is open the outer one   *)
(* is left alone.                                                            *)
EXTENDS TableReader

CONSTANT MaxReaders   \* bound: readers opened in a behaviour

VARIABLE
  open,     \* the open readers, innermost last
  opened    \* readers opened so far

vars == <<readerVars, open, opened>>

(* Require left its result, a table, on the stack. *)
Init ==
  /\ stack \in {<<t>> : t \in Table}
  /\ registry = EmptyTable
  /\ readers = [r \in Reader |-> ClosedReader]
  /\ fault = FALSE
  /\ open = <<>> /\ opened = 0

(* A reader for the result, or for the element the innermost reader is at. *)
Open(r) ==
  /\ opened < MaxReaders
  /\ ~IsOpen(r)
  /\ opened = 0 \/ (open # <<>> /\ readers[Last(open)].more)
  /\ Setup(r)
  /\ open' = Append(open, r)
  /\ opened' = opened + 1

(* while (NextElement()): until it returns false *)
Advance ==
  /\ open # <<>>
  /\ readers[Last(open)].idx = -1 \/ readers[Last(open)].more
  /\ NextElement(Last(open))
  /\ UNCHANGED <<open, opened>>

(* The loop is over, or was left. *)
CloseInnermost ==
  /\ open # <<>>
  /\ readers[Last(open)].idx # -1
  /\ Close(Last(open))
  /\ open' = Front(open)
  /\ UNCHANGED opened

Next ==
  /\ ~fault
  /\ \/ \E r \in Reader : Open(r)
     \/ Advance
     \/ CloseInnermost

Spec == Init /\ [][Next]_vars

(* Types: the readers' fields, and the nesting of the open ones. *)
TypeOK ==
  /\ ReaderTypeOK
  /\ open \in Seq(Reader)
  /\ opened \in 0..MaxReaders

-----------------------------------------------------------------------------
(* A reader delivers its own table from the start, without a gap, also when  *)
(* readers inside it come and go, and no call leaves the stack (Close takes  *)
(* the two top values for its own, NextElement the top three).  Refuted: a   *)
(* reader that was read to its end removes one value of the outer reader.    *)
NestedInOrder ==
  /\ ~fault
  /\ \A r \in Reader : IsOpen(r) => IsPrefix(readers[r].seen, Entries[readers[r].table])
=============================================================================
