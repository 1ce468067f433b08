------------------------------- MODULE CodeGen -------------------------------
(* The code generator of the embedded Lua (lcode.c).  f is the state of the  *)
(* function that is being compiled (FuncState, with its Proto), e an         *)
(* expression (expdesc); an operator gives the new state, as the field f of  *)
(* a record where there is more to give.  A failed lua_assert is noted in    *)
(* the field ok, a syntax error in err; line numbers are left out.           *)
EXTENDS Opcodes, FiniteSets, Steps

PC(f) == Len(f.code)
At(f, pc) == f.code[pc + 1]
Assert1(f, c) == [f EXCEPT !.ok = @ /\ c]
Fail(f, msg) == [f EXCEPT !.err = IF @ = "" THEN msg ELSE @]

Exp(k, i) == [k |-> k, info |-> i, aux |-> 0, t |-> NO_JUMP, f |-> NO_JUMP]
FE(f, e) == [f |-> f, e |-> e]
In(e, k, i) == [e EXCEPT !.k = k, !.info = i]
hasjumps(e) == e.t # e.f
isnumeral(e) == e.k = "VKNUM" /\ e.t = NO_JUMP /\ e.f = NO_JUMP
hasmultret(e) == e.k \in {"VCALL", "VVARARG"}

-----------------------------------------------------------------------------
(* Lists of jumps: each is linked to the next by its offset.                 *)
getjump(f, pc) ==
  LET offset == At(f, pc).b IN IF offset = NO_JUMP THEN NO_JUMP ELSE pc + 1 + offset

RECURSIVE Jumps(_, _)
Jumps(f, list) == IF list = NO_JUMP THEN {} ELSE {list} \cup Jumps(f, getjump(f, list))

(* The test a jump belongs to, or the jump itself. *)
getjumpcontrol(f, pc) == IF pc >= 1 /\ testTMode(At(f, pc - 1)) THEN pc - 1 ELSE pc
IsTestset(f, j) == At(f, getjumpcontrol(f, j)).op = "TESTSET"
need_value(f, list) == \E j \in Jumps(f, list) : ~IsTestset(f, j)

fixjump(f, pc, dest) ==
  LET offset == dest - (pc + 1)
      g == Assert1([f EXCEPT !.code[pc + 1].b = offset], dest # NO_JUMP)
  IN IF offset > MAXARG_sBx \/ offset < -MAXARG_sBx
       THEN Fail(g, "control structure too long") ELSE g

(* patchtestreg: the value goes to reg, or nowhere. *)
Retest(i, reg) ==
  IF reg # NO_REG /\ reg # i.b THEN [i EXCEPT !.a = reg] ELSE Instr("TEST", i.b, 0, i.c)
patchtestreg(f, S, reg) ==
  LET controls == {getjumpcontrol(f, j) : j \in {j \in S : IsTestset(f, j)}}
  IN [f EXCEPT !.code = FoldSet(LAMBDA c, code : [code EXCEPT ![c + 1] = Retest(@, reg)],
                                @, controls)]
(* Faulty variant for Correct: the values of a negated condition are kept. *)
valueskept(f, list) == f
removevalues(f, list) == patchtestreg(f, Jumps(f, list), NO_REG)

(* Jumps with a value for reg go to vtarget, the others to dtarget. *)
patchlistaux(f, list, vtarget, reg, dtarget) ==
  LET S == Jumps(f, list)
      V == {j \in S : IsTestset(f, j)}
  IN FoldSet(LAMBDA j, g : fixjump(g, j, IF j \in V THEN vtarget ELSE dtarget),
             patchtestreg(f, S, reg), S)

dischargejpc(f) == [patchlistaux(f, f.jpc, PC(f), NO_REG, PC(f)) EXCEPT !.jpc = NO_JUMP]

luaK_code(f, i) == [dischargejpc(f) EXCEPT !.code = Append(@, i)]
codeABC(f, op, a, b, c) == luaK_code(f, Instr(op, a, b, c))
codeABx(f, op, a, b) == luaK_code(f, Instr(op, a, b, 0))

luaK_getlabel(f) == [f EXCEPT !.lasttarget = PC(f)]

(* Faulty variant for Ends: a list is not linked to one before it. *)
lostlist(f, l1, l2) == [f |-> f, l |-> IF l1 = NO_JUMP THEN l2 ELSE l1]
(* The list l1 with l2 after it. *)
luaK_concat(f, l1, l2) ==
  IF l2 = NO_JUMP THEN [f |-> f, l |-> l1]
  ELSE IF l1 = NO_JUMP THEN [f |-> f, l |-> l2]
  ELSE LET last == CHOOSE j \in Jumps(f, l1) : getjump(f, j) = NO_JUMP
       IN [f |-> fixjump(f, last, l2), l |-> l1]

(* A jump not yet patched; jumps to it are kept on hold with it. *)
luaK_jump(f) == luaK_concat(codeABx([f EXCEPT !.jpc = NO_JUMP], "JMP", 0, NO_JUMP), PC(f), f.jpc)

luaK_patchtohere(f, list) ==
  LET r == luaK_concat(luaK_getlabel(f), f.jpc, list) IN [r.f EXCEPT !.jpc = r.l]
luaK_patchlist(f, list, target) ==
  IF target = PC(f) THEN luaK_patchtohere(f, list)
  ELSE patchlistaux(Assert1(f, target < PC(f)), list, target, NO_REG, target)

(* The jump of a constant.  Jumps kept on hold with it lose their way: the   *)
(* values they carry reach the end of the expression, which is noted in held. *)
constjump(f) ==
  LET r == luaK_jump(f) IN [r EXCEPT !.f.held = @ \/ f.jpc # NO_JUMP]

condjump(f, op, a, b, c) == luaK_jump(codeABC(f, op, a, b, c))
luaK_ret(f, first, nret) == codeABC(f, "RETURN", first, nret + 1, 0)

(* Nil for n registers; with the LOADNIL before, if no jump comes between.   *)
luaK_nil(f, from, n) ==
  LET prev == At(f, PC(f) - 1)
      free == PC(f) > f.lasttarget
      start == free /\ PC(f) = 0 /\ from >= f.nactvar
      joins == free /\ PC(f) > 0 /\ prev.op = "LOADNIL" /\ prev.a <= from /\ from <= prev.b + 1
  IN IF start THEN f
     ELSE IF joins
       THEN [f EXCEPT !.code[PC(f)].b = IF from + n - 1 > @ THEN from + n - 1 ELSE @]
     ELSE codeABC(f, "LOADNIL", from, from + n - 1, 0)

-----------------------------------------------------------------------------
(* Registers and constants.                                                  *)
luaK_checkstack(f, n) ==
  LET new == f.freereg + n
  IN IF new <= f.maxstacksize THEN f
     ELSE IF new >= MAXSTACK THEN Fail(f, "function or expression too complex")
     ELSE [f EXCEPT !.maxstacksize = new]
luaK_reserveregs(f, n) == [luaK_checkstack(f, n) EXCEPT !.freereg = @ + n]

(* Faulty variant for CompiledWell: the first register above the variables   *)
(* is taken for one of them.                                                 *)
freeregabove(f, reg) ==
  IF ISK(reg) \/ reg <= f.nactvar THEN f
  ELSE Assert1([f EXCEPT !.freereg = @ - 1], reg = f.freereg - 1)
freereg(f, reg) ==
  IF ISK(reg) \/ reg < f.nactvar THEN f
  ELSE Assert1([f EXCEPT !.freereg = @ - 1], reg = f.freereg - 1)
freeexp(f, e) == IF e.k = "VNONRELOC" THEN freereg(f, e.info) ELSE f

(* The index of a constant, which is found or added. *)
addk(f, v) ==
  LET found == {i \in DOMAIN f.k : f.k[i] = v}
  IN IF found # {} THEN [f |-> f, i |-> (CHOOSE i \in found : TRUE) - 1]
     ELSE [f |-> [f EXCEPT !.k = Append(@, v)], i |-> Len(f.k)]

luaK_setreturns(f, e, nresults) ==
  IF e.k = "VCALL" THEN [f EXCEPT !.code[e.info + 1].c = nresults + 1]
  ELSE IF e.k = "VVARARG"
    THEN luaK_reserveregs([f EXCEPT !.code[e.info + 1].b = nresults + 1,
                                    !.code[e.info + 1].a = f.freereg], 1)
  ELSE f

luaK_setoneret(f, e) ==
  CASE e.k = "VCALL" -> FE(f, In(e, "VNONRELOC", At(f, e.info).a))
    [] e.k = "VVARARG" -> FE([f EXCEPT !.code[e.info + 1].b = 2], In(e, "VRELOCABLE", e.info))
    [] OTHER -> FE(f, e)

(* An instruction whose target is still open. *)
Relocable(f, e, op, b, c) == FE(codeABC(f, op, 0, b, c), In(e, "VRELOCABLE", PC(f)))

luaK_dischargevars(f, e) ==
  CASE e.k = "VLOCAL" -> FE(f, In(e, "VNONRELOC", e.info))
    [] e.k = "VUPVAL" -> Relocable(f, e, "GETUPVAL", e.info, 0)
    [] e.k = "VGLOBAL" -> Relocable(f, e, "GETGLOBAL", e.info, 0)
    [] e.k = "VINDEXED" ->
         Relocable(freereg(freereg(f, e.aux), e.info), e, "GETTABLE", e.info, e.aux)
    [] OTHER -> luaK_setoneret(f, e)

discharge2reg(f, e, reg) ==
  LET d == luaK_dischargevars(f, e)
      load(g, v) == LET r == addk(g, v) IN codeABx(r.f, "LOADK", reg, r.i)
      g == CASE d.e.k = "VNIL" -> luaK_nil(d.f, reg, 1)
             [] d.e.k \in {"VFALSE", "VTRUE"} ->
                  codeABC(d.f, "LOADBOOL", reg, IF d.e.k = "VTRUE" THEN 1 ELSE 0, 0)
             [] d.e.k = "VK" -> codeABx(d.f, "LOADK", reg, d.e.info)
             [] d.e.k = "VKNUM" -> load(d.f, <<"num", d.e.info>>)
             [] d.e.k = "VRELOCABLE" -> [d.f EXCEPT !.code[d.e.info + 1].a = reg]
             [] d.e.k = "VNONRELOC" /\ reg # d.e.info -> codeABC(d.f, "MOVE", reg, d.e.info, 0)
             [] OTHER -> d.f
  IN IF d.e.k \in {"VVOID", "VJMP"} THEN d ELSE FE(g, In(d.e, "VNONRELOC", reg))

discharge2anyreg(f, e) ==
  IF e.k = "VNONRELOC" THEN FE(f, e)
  ELSE LET g == luaK_reserveregs(f, 1) IN discharge2reg(g, e, g.freereg - 1)

code_label(f, a, b, jump) == codeABC(luaK_getlabel(f), "LOADBOOL", a, b, jump)

(* The value of e in reg: of jumps without a value, false and true are       *)
(* loaded at the end of the code.                                            *)
exp2reg(f, e, reg) ==
  LET d == discharge2reg(f, e, reg)
      j == IF d.e.k = "VJMP" THEN luaK_concat(d.f, d.e.t, d.e.info) ELSE [f |-> d.f, l |-> d.e.t]
      e1 == [d.e EXCEPT !.t = j.l]
      needs == need_value(j.f, e1.t) \/ need_value(j.f, e1.f)
      fj == IF e1.k = "VJMP" THEN [f |-> j.f, l |-> NO_JUMP] ELSE luaK_jump(j.f)
      p_f == PC(fj.f)
      loads == luaK_patchtohere(code_label(code_label(fj.f, reg, 0, 1), reg, 1, 0), fj.l)
      g == luaK_getlabel(IF needs THEN loads ELSE j.f)
      patched == patchlistaux(
                   patchlistaux(g, e1.f, PC(g), reg, IF needs THEN p_f ELSE NO_JUMP),
                   e1.t, PC(g), reg, IF needs THEN p_f + 1 ELSE NO_JUMP)
  IN FE(IF hasjumps(e1) THEN patched ELSE j.f, Exp("VNONRELOC", reg))

luaK_exp2nextreg(f, e) ==
  LET d == luaK_dischargevars(f, e)
      g == luaK_reserveregs(freeexp(d.f, d.e), 1)
  IN exp2reg(g, d.e, g.freereg - 1)

luaK_exp2anyreg(f, e) ==
  LET d == luaK_dischargevars(f, e)
  IN IF d.e.k = "VNONRELOC" /\ ~hasjumps(d.e) THEN d
     ELSE IF d.e.k = "VNONRELOC" /\ d.e.info >= d.f.nactvar THEN exp2reg(d.f, d.e, d.e.info)
     ELSE luaK_exp2nextreg(d.f, d.e)

luaK_exp2val(f, e) == IF hasjumps(e) THEN luaK_exp2anyreg(f, e) ELSE luaK_dischargevars(f, e)

(* A register or a constant; its operand is the field rk. *)
ConstantOf(e) ==
  CASE e.k = "VNIL" -> <<"nil">> [] e.k = "VKNUM" -> <<"num", e.info>>
    [] OTHER -> <<"bool", e.k = "VTRUE">>
luaK_exp2RK(f, e) ==
  LET d == luaK_exp2val(f, e)
      r == addk(d.f, ConstantOf(d.e))
      any == luaK_exp2anyreg(d.f, d.e)
  IN CASE d.e.k \in {"VKNUM", "VTRUE", "VFALSE", "VNIL"} /\ Len(d.f.k) <= MAXRK ->
            [f |-> r.f, e |-> In(d.e, "VK", r.i), rk |-> RKASK(r.i)]
       [] d.e.k = "VK" /\ d.e.info <= MAXRK -> [f |-> d.f, e |-> d.e, rk |-> RKASK(d.e.info)]
       [] OTHER -> [f |-> any.f, e |-> any.e, rk |-> any.e.info]

luaK_storevar(f, var, ex) ==
  LET any == luaK_exp2anyreg(f, ex)
      rk == luaK_exp2RK(f, ex)
  IN CASE var.k = "VLOCAL" -> exp2reg(freeexp(f, ex), ex, var.info).f
       [] var.k = "VUPVAL" -> freeexp(codeABC(any.f, "SETUPVAL", any.e.info, var.info, 0), any.e)
       [] var.k = "VGLOBAL" -> freeexp(codeABx(any.f, "SETGLOBAL", any.e.info, var.info), any.e)
       [] var.k = "VINDEXED" ->
            freeexp(codeABC(rk.f, "SETTABLE", var.info, var.aux, rk.rk), rk.e)
       [] OTHER -> Assert1(f, FALSE)

luaK_self(f, e, key) ==
  LET any == luaK_exp2anyreg(f, e)
      g == freeexp(any.f, any.e)
      rk == luaK_exp2RK(luaK_reserveregs(g, 2), key)
  IN FE(freeexp(codeABC(rk.f, "SELF", g.freereg, any.e.info, rk.rk), rk.e),
        In(any.e, "VNONRELOC", g.freereg))

-----------------------------------------------------------------------------
(* Conditions.                                                               *)
invertjump(f, e) ==
  LET c == getjumpcontrol(f, e.info)
  IN Assert1([f EXCEPT !.code[c + 1].a = 1 - @],
             testTMode(At(f, c)) /\ At(f, c).op \notin {"TESTSET", "TEST"})

(* A jump to take if e is true (cond = 1) or false. *)
jumponcond(f, e, cond) ==
  LET i == At(f, e.info)
      d == discharge2anyreg(f, e)
  IN IF e.k = "VRELOCABLE" /\ i.op = "NOT"
       THEN condjump([f EXCEPT !.code = SubSeq(@, 1, PC(f) - 1)], "TEST", i.b, 0, 1 - cond)
       ELSE condjump(freeexp(d.f, d.e), "TESTSET", NO_REG, d.e.info, cond)

luaK_goiftrue(f, e) ==
  LET d == luaK_dischargevars(f, e)
      j == CASE d.e.k \in {"VK", "VKNUM", "VTRUE"} -> [f |-> d.f, l |-> NO_JUMP]
             [] d.e.k = "VFALSE" -> constjump(d.f)
             [] d.e.k = "VJMP" -> [f |-> invertjump(d.f, d.e), l |-> d.e.info]
             [] OTHER -> jumponcond(d.f, d.e, 0)
      r == luaK_concat(j.f, d.e.f, j.l)
  IN FE(luaK_patchtohere(r.f, d.e.t), [d.e EXCEPT !.f = r.l, !.t = NO_JUMP])

luaK_goiffalse(f, e) ==
  LET d == luaK_dischargevars(f, e)
      j == CASE d.e.k \in {"VNIL", "VFALSE"} -> [f |-> d.f, l |-> NO_JUMP]
             [] d.e.k = "VTRUE" -> constjump(d.f)
             [] d.e.k = "VJMP" -> [f |-> d.f, l |-> d.e.info]
             [] OTHER -> jumponcond(d.f, d.e, 1)
      r == luaK_concat(j.f, d.e.t, j.l)
  IN FE(luaK_patchtohere(r.f, d.e.f), [d.e EXCEPT !.t = r.l, !.f = NO_JUMP])

codenot(f, e) ==
  LET d == luaK_dischargevars(f, e)
      any == discharge2anyreg(d.f, d.e)
      n == CASE d.e.k \in {"VNIL", "VFALSE"} -> FE(d.f, [d.e EXCEPT !.k = "VTRUE"])
             [] d.e.k \in {"VK", "VKNUM", "VTRUE"} -> FE(d.f, [d.e EXCEPT !.k = "VFALSE"])
             [] d.e.k = "VJMP" -> FE(invertjump(d.f, d.e), d.e)
             [] OTHER -> Relocable(freeexp(any.f, any.e), any.e, "NOT", any.e.info, 0)
  IN FE(removevalues(removevalues(n.f, n.e.t), n.e.f), [n.e EXCEPT !.t = n.e.f, !.f = n.e.t])

luaK_indexed(f, t, key) ==
  LET rk == luaK_exp2RK(f, key) IN FE(rk.f, [t EXCEPT !.k = "VINDEXED", !.aux = rk.rk])

-----------------------------------------------------------------------------
(* Operators.  Numbers are integers, and nan for the rest of a division by   *)
(* zero.                                                                     *)
Arithmetic(op, x, y) ==
  CASE op = "ADD" -> x + y [] op = "SUB" -> x - y [] op = "MUL" -> x * y
    [] op = "MOD" -> x % y [] op = "POW" -> x ^ y [] op = "UNM" -> -x

constfolding(op, e1, e2) ==
  /\ isnumeral(e1) /\ isnumeral(e2) /\ op # "LEN" /\ op # "CONCAT"
  /\ op = "MOD" => e2.info # 0

codearith(f, op, e1, e2) ==
  LET r2 == IF op \in {"UNM", "LEN"} THEN [f |-> f, e |-> e2, rk |-> 0] ELSE luaK_exp2RK(f, e2)
      r1 == luaK_exp2RK(r2.f, e1)
      g == IF r1.rk > r2.rk THEN freeexp(freeexp(r1.f, r1.e), r2.e)
           ELSE freeexp(freeexp(r1.f, r2.e), r1.e)
  IN IF constfolding(op, e1, e2) THEN FE(f, [e1 EXCEPT !.info = Arithmetic(op, @, e2.info)])
     ELSE Relocable(g, r1.e, op, r1.rk, r2.rk)

codecomp(f, op, cond, e1, e2) ==
  LET r1 == luaK_exp2RK(f, e1)
      r2 == luaK_exp2RK(r1.f, e2)
      g == freeexp(freeexp(r2.f, r2.e), r1.e)
      swap == cond = 0 /\ op # "EQ"
      j == condjump(g, op, IF swap THEN 1 ELSE cond, IF swap THEN r2.rk ELSE r1.rk,
                    IF swap THEN r1.rk ELSE r2.rk)
  IN FE(j.f, In(r1.e, "VJMP", j.l))

luaK_prefix(f, op, e) ==
  LET any == IF op = "-" /\ isnumeral(e) THEN FE(f, e) ELSE luaK_exp2anyreg(f, e)
  IN IF op = "not" THEN codenot(f, e)
     ELSE codearith(any.f, IF op = "-" THEN "UNM" ELSE "LEN", any.e, Exp("VKNUM", 0))

luaK_infix(f, op, v) ==
  CASE op = "and" -> luaK_goiftrue(f, v)
    [] op = "or" -> luaK_goiffalse(f, v)
    [] op = ".." -> luaK_exp2nextreg(f, v)
    [] op \in {"+", "-", "*", "%", "^"} /\ isnumeral(v) -> FE(f, v)
    [] OTHER -> LET r == luaK_exp2RK(f, v) IN FE(r.f, r.e)

BinaryCode ==
  ("+" :> "ADD") @@ ("-" :> "SUB") @@ ("*" :> "MUL") @@ ("%" :> "MOD") @@ ("^" :> "POW") @@
  ("==" :> "EQ") @@ ("~=" :> "EQ") @@ ("<" :> "LT") @@ (">" :> "LT") @@ ("<=" :> "LE") @@
  (">=" :> "LE")

luaK_posfix(f, op, e1, e2) ==
  LET d == luaK_dischargevars(f, e2)
      and == luaK_concat(Assert1(d.f, e1.t = NO_JUMP), d.e.f, e1.f)
      or == luaK_concat(Assert1(d.f, e1.f = NO_JUMP), d.e.t, e1.t)
      val == luaK_exp2val(f, e2)
      next == luaK_exp2nextreg(val.f, val.e)
      joins == val.e.k = "VRELOCABLE" /\ At(val.f, val.e.info).op = "CONCAT"
  IN CASE op = "and" -> FE(and.f, [d.e EXCEPT !.f = and.l])
       [] op = "or" -> FE(or.f, [d.e EXCEPT !.t = or.l])
       [] op = ".." /\ joins ->
            FE([freeexp(Assert1(val.f, e1.info = At(val.f, val.e.info).b - 1), e1)
                  EXCEPT !.code[val.e.info + 1].b = e1.info],
               In(e1, "VRELOCABLE", val.e.info))
       [] op = ".." -> codearith(next.f, "CONCAT", e1, next.e)
       [] op \in {"==", "~=", "<", "<=", ">", ">="} ->
            codecomp(f, BinaryCode[op], IF op \in {"~=", ">", ">="} THEN 0 ELSE 1, e1, e2)
       [] OTHER -> codearith(f, BinaryCode[op], e1, e2)

luaK_setlist(f, base, nelems, tostore) ==
  LET c == (nelems - 1) \div LFIELDS_PER_FLUSH + 1
      b == IF tostore = LUA_MULTRET THEN 0 ELSE tostore
      set == codeABC(Assert1(f, tostore # 0), "SETLIST", base, b, IF c <= MAXARG_C THEN c ELSE 0)
      all == IF c <= MAXARG_C THEN set ELSE luaK_code(set, CountWord(c))
  IN [all EXCEPT !.freereg = base + 1]
=============================================================================
