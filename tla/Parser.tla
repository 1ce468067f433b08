------------------------------- MODULE Parser -------------------------------
(* The compiler of the embedded Lua (lparser.c): the grammar's rules, each   *)
(* with the code it generates.  A chunk is a sequence of statements; an      *)
(* expression is a sequence of tokens, an operator [o |-> ..] or an operand  *)
(* [o |-> "", s |-> ..] that is a simple expression, so that subexpr has     *)
(* the priorities to apply.  The limits of variables, upvalues and levels,   *)
(* which only end a compilation with a message, are left out.                *)
EXTENDS CodeGen

Block(f, breakable) ==
  [breaklist |-> NO_JUMP, nactvar |-> f.nactvar, upval |-> FALSE, isbreakable |-> breakable]
Inner(f) == Len(f.bl)

-----------------------------------------------------------------------------
(* Variables.  actvar has the declared ones, of which nactvar are active.    *)
new_localvar(f, name, n) ==
  [f EXCEPT !.locvars = Append(@, [varname |-> name, startpc |-> 0, endpc |-> 0]),
            !.actvar = Append(SubSeq(@, 1, f.nactvar + n), Len(f.locvars) + 1)]
new_localvars(f, names, n) ==
  FoldLeft(LAMBDA g, i : new_localvar(g, names[i], n + i - 1), f, [i \in 1..Len(names) |-> i])

adjustlocalvars(f, nvars) ==
  LET new == {f.actvar[i] : i \in f.nactvar + 1..f.nactvar + nvars}
  IN [f EXCEPT !.nactvar = @ + nvars,
               !.locvars = [i \in DOMAIN @ |->
                  IF i \in new THEN [@[i] EXCEPT !.startpc = PC(f)] ELSE @[i]]]

removevars(f, tolevel) ==
  LET old == {f.actvar[i] : i \in tolevel + 1..f.nactvar}
  IN [f EXCEPT !.nactvar = tolevel,
               !.locvars = [i \in DOMAIN @ |->
                  IF i \in old THEN [@[i] EXCEPT !.endpc = PC(f)] ELSE @[i]]]

(* The register of a local variable, the one declared last; -1: none. *)
searchvar(f, n) ==
  LET found == {i \in 1..f.nactvar : f.locvars[f.actvar[i]].varname = n}
  IN IF found = {} THEN -1 ELSE (CHOOSE i \in found : \A j \in found : j <= i) - 1

(* The block a variable belongs to must close it when it ends. *)
markupval(f, level) ==
  LET around == {i \in 1..Inner(f) : f.bl[i].nactvar <= level}
  IN IF around = {} THEN f
     ELSE [f EXCEPT !.bl[CHOOSE i \in around : \A j \in around : j <= i].upval = TRUE]

indexupvalue(f, n, e) ==
  LET found == {i \in DOMAIN f.upvalues : f.upvalues[i].k = e.k /\ f.upvalues[i].info = e.info}
  IN IF found # {} THEN FE(f, Exp("VUPVAL", (CHOOSE i \in found : TRUE) - 1))
     ELSE FE([f EXCEPT !.upvalues = Append(@, [k |-> e.k, info |-> e.info, name |-> n])],
             Exp("VUPVAL", Len(f.upvalues)))

(* A name is looked up in the function (prev: in those around it). *)
RECURSIVE singlevaraux(_, _, _)
singlevaraux(f, n, base) ==
  LET v == searchvar(f, n)
      up == singlevaraux(f.prev[1], n, FALSE)
      g == [f EXCEPT !.prev = <<up.f>>]
  IN IF v >= 0 THEN FE(IF base THEN f ELSE markupval(f, v), Exp("VLOCAL", v))
     ELSE IF f.prev = <<>> THEN FE(f, Exp("VGLOBAL", NO_REG))
     ELSE IF up.e.k = "VGLOBAL" THEN FE(g, up.e)
     ELSE indexupvalue(g, n, up.e)

codestring(f, s) == LET r == addk(f, <<"str", s>>) IN FE(r.f, Exp("VK", r.i))

singlevar(f, n) ==
  LET r == singlevaraux(f, n, TRUE)
      c == codestring(r.f, n)
  IN IF r.e.k = "VGLOBAL" THEN FE(c.f, In(r.e, "VGLOBAL", c.e.info)) ELSE r

adjust_assign(f, nvars, nexps, e) ==
  LET extra == nvars - nexps
      more == IF extra + 1 < 0 THEN 0 ELSE extra + 1
      g == luaK_setreturns(f, e, more)
      h == IF e.k = "VVOID" THEN f ELSE luaK_exp2nextreg(f, e).f
  IN IF hasmultret(e) THEN IF more > 1 THEN luaK_reserveregs(g, more - 1) ELSE g
     ELSE IF extra > 0 THEN luaK_nil(luaK_reserveregs(h, extra), h.freereg, extra) ELSE h

enterblock(f, breakable) ==
  Assert1([f EXCEPT !.bl = Append(@, Block(f, breakable))], f.freereg = f.nactvar)

leaveblock(f) ==
  LET bl == Last(f.bl)
      g == removevars([f EXCEPT !.bl = Front(@)], bl.nactvar)
      h == Assert1(IF bl.upval THEN codeABC(g, "CLOSE", bl.nactvar, 0, 0) ELSE g,
                   ~bl.isbreakable \/ ~bl.upval)
  IN luaK_patchtohere([h EXCEPT !.freereg = h.nactvar], bl.breaklist)

-----------------------------------------------------------------------------
(* Functions.  name: what funcstat leaves in the field Proto has for it.     *)
open_func(prev) ==
  [code |-> <<>>, jpc |-> NO_JUMP, lasttarget |-> -1, freereg |-> 0, k |-> <<>>, p |-> <<>>,
   nactvar |-> 0, actvar |-> <<>>, locvars |-> <<>>, upvalues |-> <<>>, bl |-> <<>>,
   maxstacksize |-> 2, numparams |-> 0, is_vararg |-> {}, prev |-> prev, ok |-> TRUE,
   err |-> "", name |-> <<>>, held |-> FALSE]

close_func(f) ==
  LET g == luaK_ret(removevars(f, 0), 0, 0)
  IN Assert1(g, g.bl = <<>>)

Proto(f) ==
  [code |-> f.code, k |-> f.k, p |-> f.p, nups |-> Len(f.upvalues), upvalues |-> f.upvalues,
   locvars |-> f.locvars, maxstacksize |-> f.maxstacksize, numparams |-> f.numparams,
   is_vararg |-> f.is_vararg, name |-> f.name]

(* The closure of a function, with a pseudo-instruction for each upvalue. *)
pushclosure(func) ==
  LET f == [func.prev[1] EXCEPT !.p = Append(@, Proto(func)), !.ok = @ /\ func.ok,
                                !.held = @ \/ func.held,
                                !.err = IF @ = "" THEN func.err ELSE @]
      upvalue(g, u) == codeABC(g, IF u.k = "VLOCAL" THEN "MOVE" ELSE "GETUPVAL", 0, u.info, 0)
  IN FE(FoldLeft(upvalue, codeABx(f, "CLOSURE", 0, Len(f.p) - 1), func.upvalues),
        Exp("VRELOCABLE", PC(f)))

parlist(f, params, dots) ==
  LET g == new_localvars(f, IF dots THEN Append(params, <<"arg">>) ELSE params, 0)
      h == adjustlocalvars(g, Len(params) + (IF dots THEN 1 ELSE 0))
  IN luaK_reserveregs(
       [h EXCEPT !.is_vararg = IF dots THEN {"HASARG", "NEEDSARG", "ISVARARG"} ELSE {},
                 !.numparams = h.nactvar - (IF dots THEN 1 ELSE 0)],
       h.nactvar)

-----------------------------------------------------------------------------
(* Expressions.                                                              *)
priority(op) ==       \* left and right
  CASE op \in {"+", "-"} -> <<6, 6>> [] op \in {"*", "%"} -> <<7, 7>>
    [] op = "^" -> <<10, 9>> [] op = ".." -> <<5, 4>> [] op = "and" -> <<2, 2>>
    [] op = "or" -> <<1, 1>> [] OTHER -> <<3, 3>>
UNARY_PRIORITY == 8

RECURSIVE subexpr(_, _, _), binaries(_, _, _, _), simpleexp(_, _), primaryexp(_, _),
          constructor(_, _), body(_, _, _), funcargs(_, _, _), chunk(_, _)

expr(f, ts) == Let(f, LAMBDA g : subexpr(g, ts, 0))

(* A subexpression and the operators after it with a priority above limit;   *)
(* rest: the tokens left.                                                    *)
subexpr(f, ts, limit) ==
  LET op == ts[1].o
      sub == subexpr(f, Tail(ts), UNARY_PRIORITY)
      un == luaK_prefix(sub.f, op, sub.e)
      simple == simpleexp(f, ts[1].s)
  IN IF op # "" THEN binaries(un.f, un.e, sub.rest, limit)
     ELSE binaries(simple.f, simple.e, Tail(ts), limit)

binaries(f, v, ts, limit) ==
  LET op == ts[1].o
      in == luaK_infix(f, op, v)
      sub == subexpr(in.f, Tail(ts), priority(op)[2])
      post == luaK_posfix(sub.f, op, in.e, sub.e)
  IN IF ts = <<>> THEN [f |-> f, e |-> v, rest |-> ts]
     ELSE IF priority(op)[1] <= limit THEN [f |-> f, e |-> v, rest |-> ts]
     ELSE binaries(post.f, post.e, sub.rest, limit)

simpleexp(f, s) ==
  CASE s.k = "num" -> FE(f, Exp("VKNUM", s.n))
    [] s.k = "str" -> codestring(f, s.v)
    [] s.k = "nil" -> FE(f, Exp("VNIL", 0))
    [] s.k = "true" -> FE(f, Exp("VTRUE", 0))
    [] s.k = "false" -> FE(f, Exp("VFALSE", 0))
    [] s.k = "..." ->
         IF f.is_vararg = {}
           THEN FE(Fail(f, "cannot use '...' outside a vararg function"), Exp("VNIL", 0))
           ELSE FE(codeABC([f EXCEPT !.is_vararg = @ \ {"NEEDSARG"}], "VARARG", 0, 1, 0),
                   Exp("VVARARG", PC(f)))
    [] s.k = "table" -> constructor(f, s.fields)
    [] s.k = "function" -> body(f, s, FALSE)
    [] OTHER -> primaryexp(f, s)

(* field, yindex: v.name, v[exp]. *)
field(f, v, name) ==
  LET t == luaK_exp2anyreg(f, v)
      key == codestring(t.f, name)
  IN luaK_indexed(key.f, t.e, key.e)
yindex(f, ts) == LET r == expr(f, ts) IN luaK_exp2val(r.f, r.e)

(* A name or an expression in parentheses, and what is applied to it. *)
primaryexp(f, s) ==
  LET paren == expr(f, s.base.e)
      prefix == IF s.base.k = "name" THEN singlevar(f, s.base.n)
                ELSE luaK_dischargevars(paren.f, paren.e)
      suffix(v, x) ==
        CASE x.k = "." -> field(v.f, v.e, x.name)
          [] x.k = "[]" -> LET t == luaK_exp2anyreg(v.f, v.e)
                               key == yindex(t.f, x.e)
                           IN luaK_indexed(key.f, t.e, key.e)
          [] x.k = ":" -> LET key == codestring(v.f, x.name)
                              self == luaK_self(key.f, v.e, key.e)
                          IN funcargs(self.f, self.e, x.args)
          [] x.k = "call" -> LET func == luaK_exp2nextreg(v.f, v.e)
                             IN funcargs(func.f, func.e, x.args)
  IN Fold(suffix, prefix, s.suffixes)

explist1(f, es) ==
  Fold(LAMBDA v, ts : LET r == luaK_exp2nextreg(v.f, v.e) IN expr(r.f, ts),
           expr(f, es[1]), Tail(es))

(* Arguments: a list in parentheses, or a constructor or a string alone. *)
funcargs(f, v, args) ==
  LET list == explist1(f, args.es)
      a == CASE args.k # "list" -> simpleexp(f, args)
             [] args.es = <<>> -> FE(f, Exp("VVOID", 0))
             [] OTHER -> FE(luaK_setreturns(list.f, list.e, LUA_MULTRET), list.e)
      g == IF hasmultret(a.e) \/ a.e.k = "VVOID" THEN a.f ELSE luaK_exp2nextreg(a.f, a.e).f
      nparams == IF hasmultret(a.e) THEN LUA_MULTRET ELSE g.freereg - (v.info + 1)
  IN FE([codeABC(Assert1(g, v.k = "VNONRELOC"), "CALL", v.info, nparams + 1, 2)
           EXCEPT !.freereg = v.info + 1],
        Exp("VCALL", PC(g)))

(* cc: na, nh, tostore, and v, the last item read and not yet stored. *)
recfield(f, cc, x) ==
  LET key == IF x.k = "." THEN codestring(f, x.name) ELSE yindex(f, x.key)
      rk == luaK_exp2RK(key.f, key.e)
      val == expr(rk.f, x.e)
      rv == luaK_exp2RK(val.f, val.e)
  IN [f |-> [codeABC(rv.f, "SETTABLE", cc.t, rk.rk, rv.rk) EXCEPT !.freereg = f.freereg],
      cc |-> [cc EXCEPT !.nh = @ + 1]]

closelistfield(f, cc) ==
  LET r == luaK_exp2nextreg(f, cc.v)
      full == cc.tostore = LFIELDS_PER_FLUSH
  IN IF cc.v.k = "VVOID" THEN [f |-> f, cc |-> cc]
     ELSE [f |-> IF full THEN luaK_setlist(r.f, cc.t, cc.na, cc.tostore) ELSE r.f,
           cc |-> [cc EXCEPT !.v = Exp("VVOID", 0), !.tostore = IF full THEN 0 ELSE @]]

lastlistfield(f, cc) ==
  LET g == luaK_setreturns(f, cc.v, LUA_MULTRET)
      h == IF cc.v.k = "VVOID" THEN f ELSE luaK_exp2nextreg(f, cc.v).f
  IN IF cc.tostore = 0 THEN [f |-> f, na |-> cc.na]
     ELSE IF hasmultret(cc.v)
       THEN [f |-> luaK_setlist(g, cc.t, cc.na, LUA_MULTRET), na |-> cc.na - 1]
     ELSE [f |-> luaK_setlist(h, cc.t, cc.na, cc.tostore), na |-> cc.na]

listfield(f, cc, ts) ==
  LET r == expr(f, ts)
  IN [f |-> r.f, cc |-> [cc EXCEPT !.v = r.e, !.na = @ + 1, !.tostore = @ + 1]]

constructor(f, fields) ==
  LET pc == PC(f)
      t == luaK_exp2nextreg(codeABC(f, "NEWTABLE", 0, 0, 0), Exp("VRELOCABLE", pc))
      item(r, x) ==
        LET c == closelistfield(Assert1(r.f, r.cc.v.k = "VVOID" \/ r.cc.tostore > 0), r.cc)
        IN IF x.k = "item" THEN listfield(c.f, c.cc, x.e) ELSE recfield(c.f, c.cc, x)
      all == Fold(item, [f |-> t.f, cc |-> [t |-> t.e.info, v |-> Exp("VVOID", 0),
                                               na |-> 0, nh |-> 0, tostore |-> 0]], fields)
      last == lastlistfield(all.f, all.cc)
  IN FE([last.f EXCEPT !.code[pc + 1].b = last.na, !.code[pc + 1].c = all.cc.nh], t.e)

body(f, s, needself) ==
  LET new == open_func(<<f>>)
      g == IF needself THEN adjustlocalvars(new_localvar(new, <<"self">>, 0), 1) ELSE new
  IN pushclosure(close_func(chunk(parlist(g, s.params, s.dots), s.body)))

-----------------------------------------------------------------------------
(* Statements.                                                               *)
block(f, stats) ==
  LET g == chunk(enterblock(f, FALSE), stats)
  IN leaveblock(Assert1(g, Last(g.bl).breaklist = NO_JUMP))

(* An assignment to a local variable that an indexed variable to its left    *)
(* uses: a safe copy is made for that one.                                   *)
check_conflict(f, lh, v) ==
  LET extra == f.freereg
      uses(x) == x.k = "VINDEXED" /\ (x.info = v.info \/ x.aux = v.info)
      safe(x) == [x EXCEPT !.info = IF @ = v.info THEN extra ELSE @,
                           !.aux = IF @ = v.info THEN extra ELSE @]
  IN IF \E i \in DOMAIN lh : uses(lh[i])
       THEN [f |-> luaK_reserveregs(codeABC(f, "MOVE", extra, v.info, 0), 1),
             lh |-> [i \in DOMAIN lh |-> IF uses(lh[i]) THEN safe(lh[i]) ELSE lh[i]]]
       ELSE [f |-> f, lh |-> lh]

assignment(f, first, vars, es) ==
  LET variable(v) == v.k \in {"VLOCAL", "VUPVAL", "VGLOBAL", "VINDEXED"}
      next(r, s) ==
        LET v == primaryexp(r.f, s)
            c == IF v.e.k = "VLOCAL" THEN check_conflict(v.f, r.lh, v.e)
                 ELSE [f |-> v.f, lh |-> r.lh]
        IN [f |-> c.f, lh |-> Append(c.lh, v.e)]
      left == Fold(next, [f |-> f, lh |-> <<first>>], vars)
      right == explist1(left.f, es)
      nvars == Len(left.lh)
      default(g, v) == luaK_storevar(g, v, Exp("VNONRELOC", g.freereg - 1))
      one == luaK_setoneret(right.f, right.e)
      adjusted == adjust_assign(right.f, nvars, Len(es), right.e)
      extra == IF Len(es) > nvars THEN Len(es) - nvars ELSE 0
  IN IF \E i \in 1..nvars : ~variable(left.lh[i]) THEN Fail(left.f, "syntax error")
     ELSE IF Len(es) = nvars
       THEN Fold(default, luaK_storevar(one.f, left.lh[nvars], one.e),
                     Reverse(Front(left.lh)))
     ELSE Fold(default, [adjusted EXCEPT !.freereg = @ - extra], Reverse(left.lh))

cond(f, ts) ==
  LET v == expr(f, ts)
      r == luaK_goiftrue(v.f, [v.e EXCEPT !.k = IF @ = "VNIL" THEN "VFALSE" ELSE @])
  IN [f |-> r.f, l |-> r.e.f]

breakstat(f) ==
  LET loops == {i \in 1..Inner(f) : f.bl[i].isbreakable}
      i == CHOOSE i \in loops : \A j \in loops : j <= i
      upval == \E j \in i + 1..Inner(f) : f.bl[j].upval
      j == luaK_jump(IF upval THEN codeABC(f, "CLOSE", f.bl[i].nactvar, 0, 0) ELSE f)
      r == luaK_concat(j.f, j.f.bl[i].breaklist, j.l)
  IN IF loops = {} THEN Fail(f, "no loop to break") ELSE [r.f EXCEPT !.bl[i].breaklist = r.l]

whilestat(f, s) ==
  LET c == cond(luaK_getlabel(f), s.e)
      j == luaK_jump(block(enterblock(c.f, TRUE), s.body))
  IN luaK_patchtohere(leaveblock(luaK_patchlist(j.f, j.l, PC(f))), c.l)

repeatstat(f, s) ==
  LET c == cond(chunk(enterblock(enterblock(luaK_getlabel(f), TRUE), FALSE), s.body), s.e)
      plain == luaK_patchlist(leaveblock(c.f), c.l, PC(f))
      j == luaK_jump(leaveblock(luaK_patchtohere(breakstat(c.f), c.l)))
  IN leaveblock(IF Last(c.f.bl).upval THEN luaK_patchlist(j.f, j.l, PC(f)) ELSE plain)

forbody(f, base, stats, nvars, isnum) ==
  LET g == adjustlocalvars(f, 3)
      prep == IF isnum THEN [f |-> codeABx(g, "FORPREP", base, NO_JUMP), l |-> PC(g)]
              ELSE luaK_jump(g)
      in == luaK_reserveregs(adjustlocalvars(enterblock(prep.f, FALSE), nvars), nvars)
      out == luaK_patchtohere(leaveblock(block(in, stats)), prep.l)
      end == IF isnum THEN [f |-> codeABx(out, "FORLOOP", base, NO_JUMP), l |-> PC(out)]
             ELSE luaK_jump(codeABC(out, "TFORLOOP", base, 0, nvars))
  IN luaK_patchlist(end.f, end.l, prep.l + 1)

exp1(f, ts) == LET r == expr(f, ts) IN luaK_exp2nextreg(r.f, r.e).f
fornum(f, s) ==
  LET g == new_localvars(f, <<<<"(index)">>, <<"(limit)">>, <<"(step)">>, s.name>>, 0)
      h == exp1(exp1(g, s.init), s.limit)
      one == addk(h, <<"num", 1>>)
      default == luaK_reserveregs(codeABx(one.f, "LOADK", h.freereg, one.i), 1)
  IN forbody(IF s.step = <<>> THEN default ELSE exp1(h, s.step), f.freereg, s.body, 1, TRUE)

forlist(f, s) ==
  LET g == new_localvars(f, <<<<"(generator)">>, <<"(state)">>, <<"(control)">>>> \o s.names, 0)
      r == explist1(g, s.es)
      h == luaK_checkstack(adjust_assign(r.f, 3, Len(s.es), r.e), 3)
  IN forbody(h, f.freereg, s.body, Len(s.names), FALSE)

forstat(f, s) ==
  LET g == enterblock(f, TRUE) IN leaveblock(IF s.k = "fornum" THEN fornum(g, s) ELSE forlist(g, s))

(* conds: the conditions with their blocks; else: <<>> or a block. *)
ifstat(f, s) ==
  LET test_then_block(g, c) == LET r == cond(g, c.e) IN [f |-> block(r.f, c.body), l |-> r.l]
      escape(r, esc) ==
        LET j == luaK_jump(r.f)
            e == luaK_concat(j.f, esc, j.l)
        IN [f |-> luaK_patchtohere(e.f, r.l), esc |-> e.l]
      elseif(r, c) ==
        LET e == escape(r, r.esc)
            t == test_then_block(e.f, c)
        IN [f |-> t.f, l |-> t.l, esc |-> e.esc]
      if == test_then_block(f, s.conds[1])
      all == Fold(elseif, [f |-> if.f, l |-> if.l, esc |-> NO_JUMP], Tail(s.conds))
      else == escape(all, all.esc)
      none == luaK_concat(all.f, all.esc, all.l)
  IN IF s.else = <<>> THEN luaK_patchtohere(none.f, none.l)
     ELSE luaK_patchtohere(block(else.f, s.else[1]), else.esc)

localfunc(f, s) ==
  LET g == adjustlocalvars(luaK_reserveregs(new_localvar(f, s.name, 0), 1), 1)
      b == body(g, s, FALSE)
      h == luaK_storevar(b.f, Exp("VLOCAL", f.freereg), b.e)
  IN [h EXCEPT !.locvars[Last(h.actvar)].startpc = PC(h)]

localstat(f, s) ==
  LET g == new_localvars(f, s.names, 0)
      r == IF s.es = <<>> THEN FE(g, Exp("VVOID", 0)) ELSE explist1(g, s.es)
  IN adjustlocalvars(adjust_assign(r.f, Len(s.names), Len(s.es), r.e), Len(s.names))

(* This repository's addition: the function around the one that is defined   *)
(* gets as its name an element of its own vectors, at the index that         *)
(* describes the variable; beyond what was stored there, what it reads is    *)
(* undefined.                                                                *)
NameOf(f, k, i) ==
  LET from == IF k = "VLOCAL" THEN [j \in DOMAIN f.locvars |-> <<"str", f.locvars[j].varname>>]
              ELSE f.k
  IN IF i < Len(from) THEN from[i + 1] ELSE <<"undefined">>

funcstat(f, s) ==
  LET var == singlevar(f, s.name)
      v == FoldLeft(LAMBDA r, n : field(r.f, r.e, n), var, s.fields)
      b == body(v.f, s, s.method)
      g == luaK_storevar(b.f, v.e, b.e)
  IN [g EXCEPT !.name = Append(@, NameOf(g, var.e.k, v.e.info))]

exprstat(f, s) ==
  LET v == primaryexp(f, s.var)
  IN IF v.e.k = "VCALL" THEN [v.f EXCEPT !.code[v.e.info + 1].c = 1]
     ELSE assignment(v.f, v.e, s.vars, s.es)

retstat(f, s) ==
  LET r == explist1(f, s.es)
      multi == luaK_setreturns(r.f, r.e, LUA_MULTRET)
      tail == r.e.k = "VCALL" /\ Len(s.es) = 1
      one == luaK_exp2anyreg(r.f, r.e)
      all == luaK_exp2nextreg(r.f, r.e).f
  IN IF s.es = <<>> THEN luaK_ret(f, 0, 0)
     ELSE IF hasmultret(r.e)
       THEN luaK_ret(IF tail THEN [Assert1(multi, At(multi, r.e.info).a = multi.nactvar)
                                     EXCEPT !.code[r.e.info + 1].op = "TAILCALL"]
                     ELSE multi, multi.nactvar, LUA_MULTRET)
     ELSE IF Len(s.es) = 1 THEN luaK_ret(one.f, one.e.info, 1)
     ELSE luaK_ret(Assert1(all, Len(s.es) = all.freereg - all.nactvar), all.nactvar, Len(s.es))

statement(f, s) ==
  CASE s.k = "if" -> ifstat(f, s) [] s.k = "while" -> whilestat(f, s)
    [] s.k = "do" -> block(f, s.body) [] s.k \in {"fornum", "forlist"} -> forstat(f, s)
    [] s.k = "repeat" -> repeatstat(f, s) [] s.k = "function" -> funcstat(f, s)
    [] s.k = "localfunction" -> localfunc(f, s) [] s.k = "local" -> localstat(f, s)
    [] s.k = "return" -> retstat(f, s) [] s.k = "break" -> breakstat(f)
    [] s.k = "expr" -> exprstat(f, s)

chunk(f, stats) ==
  Fold(LAMBDA g, s :
             LET h == statement(g, s)
             IN [Assert1(h, h.maxstacksize >= h.freereg /\ h.freereg >= h.nactvar)
                   EXCEPT !.freereg = h.nactvar],
           f, stats)

(* The main function is a vararg function; its state when it is closed. *)
luaY_parser(stats) ==
  LET f == close_func(chunk([open_func(<<>>) EXCEPT !.is_vararg = {"ISVARARG"}], stats))
  IN Assert1(f, f.upvalues = <<>>)
=============================================================================
