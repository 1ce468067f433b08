-------------------------------- MODULE Steps --------------------------------
(* Steps in sequence, each with the value of the state before it.  TLC       *)
(* evaluates an argument where it is first used: without Let, the steps of a *)
(* long sequence would be evaluated inside each other.                       *)
EXTENDS SequencesExt

Let(x, F(_)) == CHOOSE r \in {F(v) : v \in {x}} : TRUE
Fold(op(_, _), base, seq) == FoldLeft(LAMBDA r, x : Let(r, LAMBDA v : op(v, x)), base, seq)
=============================================================================
