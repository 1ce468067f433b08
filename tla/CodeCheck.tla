------------------------------ MODULE CodeCheck ------------------------------
(* What the checker of compiled functions (ldebug.c) asks of one, and of one *)
(* instruction.                                                              *)
EXTENDS Opcodes

precheck(pt) ==
  /\ pt.maxstacksize <= MAXSTACK
  /\ pt.numparams + (IF "HASARG" \in pt.is_vararg THEN 1 ELSE 0) <= pt.maxstacksize
  /\ "NEEDSARG" \in pt.is_vararg => "HASARG" \in pt.is_vararg
  /\ Len(pt.upvalues) <= pt.nups
  /\ Len(pt.code) > 0 /\ pt.code[Len(pt.code)].op = "RETURN"

Ins(pt, pc) == pt.code[pc + 1]
IsReg(pt, r) == r < pt.maxstacksize

luaG_checkopenop(i) == i.op \in {"CALL", "TAILCALL", "RETURN", "SETLIST"} /\ i.b = 0

checkArgMode(pt, r, mode) ==
  CASE mode = "N" -> r = 0
    [] mode = "U" -> TRUE
    [] mode = "R" -> IsReg(pt, r)
    [] mode = "K" -> IF ISK(r) THEN INDEXK(r) < Len(pt.k) ELSE IsReg(pt, r)

(* What holds of an instruction by its format. *)
FormatOk(pt, pc, i, m) ==
  LET dest == pc + 1 + i.b
  IN /\ IsReg(pt, i.a)
     /\ m.mode = "ABC" => checkArgMode(pt, i.b, m.b) /\ checkArgMode(pt, i.c, m.c)
     /\ m.mode = "ABx" /\ m.b = "K" => i.b < Len(pt.k)
     /\ m.mode = "AsBx" => /\ 0 <= dest /\ dest < Len(pt.code)
                           /\ dest > 0 => Ins(pt, dest - 1).op # "SETLIST" \/ Ins(pt, dest - 1).c # 0
     /\ m.t => pc + 2 < Len(pt.code) /\ Ins(pt, pc + 1).op = "JMP"

(* What holds of it by its operation. *)
OperationOk(pt, pc) ==
  LET i == Ins(pt, pc)
      open == luaG_checkopenop(Ins(pt, pc + 1))
  IN CASE i.op = "LOADBOOL" ->
            i.c = 1 => pc + 2 < Len(pt.code) /\ (Ins(pt, pc + 1).op # "SETLIST"
                                                 \/ Ins(pt, pc + 1).c # 0)
       [] i.op \in {"GETUPVAL", "SETUPVAL"} -> i.b < pt.nups
       [] i.op \in {"GETGLOBAL", "SETGLOBAL"} -> pt.k[i.b + 1][1] = "str"
       [] i.op = "SELF" -> IsReg(pt, i.a + 1)
       [] i.op = "CONCAT" -> i.b < i.c
       [] i.op = "TFORLOOP" -> i.c >= 1 /\ IsReg(pt, i.a + 2 + i.c)
       [] i.op \in {"FORLOOP", "FORPREP"} -> IsReg(pt, i.a + 3)
       [] i.op \in {"CALL", "TAILCALL"} ->
            /\ i.b # 0 => IsReg(pt, i.a + i.b - 1)
            /\ IF i.c - 1 = LUA_MULTRET THEN open ELSE i.c - 1 # 0 => IsReg(pt, i.a + i.c - 2)
       [] i.op = "RETURN" -> i.b - 1 > 0 => IsReg(pt, i.a + i.b - 2)
       [] i.op = "SETLIST" -> /\ i.b > 0 => IsReg(pt, i.a + i.b)
                              /\ i.c = 0 => pc + 1 < Len(pt.code) - 1
       [] i.op = "CLOSURE" ->
            /\ i.b < Len(pt.p) /\ pc + pt.p[i.b + 1].nups < Len(pt.code)
            /\ \A j \in 1..pt.p[i.b + 1].nups : Ins(pt, pc + j).op \in {"GETUPVAL", "MOVE"}
       [] i.op = "VARARG" ->
            /\ "ISVARARG" \in pt.is_vararg /\ "NEEDSARG" \notin pt.is_vararg
            /\ IF i.b - 1 = LUA_MULTRET THEN open ELSE IsReg(pt, i.a + i.b - 2)
       [] OTHER -> TRUE
=============================================================================
