------------------------------ MODULE SymbExec ------------------------------
(* The checker of compiled functions (ldebug.c), symbexec: it goes through   *)
(* the code as if all of it ran, and finds the last instruction that set a   *)
(* register, from which the name of a value is taken in error messages.      *)
EXTENDS CodeCheck

(* Does the instruction set the register? *)
Changes(i, reg) ==
  \/ opmodes[i.op].a /\ i.a = reg
  \/ i.op = "LOADNIL" /\ i.a <= reg /\ reg <= i.b
  \/ i.op = "SELF" /\ reg = i.a + 1
  \/ i.op = "TFORLOOP" /\ reg >= i.a + 2
  \/ i.op \in {"CALL", "TAILCALL"} /\ reg >= i.a

(* Where the symbolic execution goes on: past jumps forward, when it looks   *)
(* for a register, and past what is no instruction.                          *)
After(pt, pc, lastpc, reg) ==
  LET i == Ins(pt, pc)
      dest == pc + 1 + i.b
  IN CASE i.op \in {"JMP", "FORLOOP", "FORPREP"} /\ reg # NO_REG /\ pc < dest
            /\ dest <= lastpc -> dest
       [] i.op = "CLOSURE" /\ reg # NO_REG -> pc + 1 + pt.p[i.b + 1].nups
       [] i.op = "SETLIST" /\ i.c = 0 -> pc + 2
       [] OTHER -> pc + 1

(* The address of the last instruction that set reg, or -1 for bad code. *)
RECURSIVE Execute(_, _, _, _, _)
Execute(pt, pc, lastpc, reg, last) ==
  IF pc >= lastpc THEN last
  ELSE IF ~FormatOk(pt, pc, Ins(pt, pc), opmodes[Ins(pt, pc).op]) \/ ~OperationOk(pt, pc) THEN -1
  ELSE Execute(pt, After(pt, pc, lastpc, reg), lastpc, reg,
               IF Changes(Ins(pt, pc), reg) THEN pc ELSE last)
symbexec(pt, lastpc, reg) ==
  IF precheck(pt) THEN Execute(pt, 0, lastpc, reg, Len(pt.code) - 1) ELSE -1

luaG_checkcode(pt) == symbexec(pt, Len(pt.code), NO_REG) # -1

(* The n-th local variable that is active at pc. *)
luaF_getlocalname(pt, n, pc) ==
  LET active == SelectSeq(pt.locvars, LAMBDA v : v.startpc <= pc /\ pc < v.endpc)
  IN IF n <= Len(active) THEN <<active[n].varname>> ELSE <<>>

(* What a register holds at pc, for a message: <<>>, or the kind and name. *)
kname(pt, c) ==
  IF ISK(c) /\ pt.k[INDEXK(c) + 1][1] = "str" THEN pt.k[INDEXK(c) + 1][2] ELSE <<"?">>
RECURSIVE getobjname(_, _, _), NameSetBy(_, _, _)
NameSetBy(pt, pc, i) ==
  CASE i.op = "GETGLOBAL" -> <<"global", pt.k[i.b + 1][2]>>
    [] i.op = "MOVE" /\ i.b < i.a -> getobjname(pt, pc, i.b)
    [] i.op = "GETTABLE" -> <<"field", kname(pt, i.c)>>
    [] i.op = "GETUPVAL" -> <<"upvalue", pt.upvalues[i.b + 1].name>>
    [] i.op = "SELF" -> <<"method", kname(pt, i.c)>>
    [] OTHER -> <<>>
getobjname(pt, pc, reg) ==
  LET local == luaF_getlocalname(pt, reg + 1, pc)
  IN IF local # <<>> THEN <<"local", local[1]>>
     ELSE NameSetBy(pt, pc, Ins(pt, symbexec(pt, pc, reg)))
=============================================================================
