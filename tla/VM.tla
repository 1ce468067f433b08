---------------------------------- MODULE VM ----------------------------------
(* The virtual machine of the embedded Lua: the interpreter of compiled      *)
(* functions (lvm.c), calls and errors (ldo.c), upvalues (lfunc.c), tag      *)
(* methods (ltm.c) and the functions of the base library that call back or   *)
(* switch coroutines (lbaselib.c).  vm is the state of the machine:          *)
(*   threads  the coroutines, thread 1 the main one: stack (the slot i is    *)
(*            stack[i + 1]), base, top, pc (savedpc), ci (the CallInfos) and *)
(*            status;                                                        *)
(*   C        what runs on the C stack: activations of luaV_execute, and     *)
(*            calls made from C that wait for their results;                 *)
(*   cfun     the C function that was called and runs next, NIL: none;       *)
(*   tables, funs, matches  the objects, by the number they are made with;   *)
(*            matches are the iterators of gmatch;                           *)
(*   upvals   the upvalues;                                                  *)
(*   out      <<>>, or the outcome of the program.                           *)
(* Tables 1 to 5 are the globals, the three libraries and the metatable of   *)
(* strings.  The compiler, the string library and the names in messages are  *)
(* parameters: what the machine does is the same with any.                   *)
(* Numbers are integers, and there is no division.  A table keeps its keys   *)
(* in the order they were made in, which is the order next gives them in.    *)
EXTENDS CodeCheck, LuaValues, FiniteSets

CONSTANTS Programs,         \* the programs, by what distinguishes them
          Main(_),          \* the main function of a program, compiled
          NameOfRegister(_, _, _),              \* getobjname
          StringFunction(_, _, _),              \* a function of the string library
          NewMatching(_, _), NextMatch(_, _),   \* gmatch
          GsubBegun(_, _, _, _), GsubStep(_), GsubAsked(_), GsubAnswered(_, _),   \* gsub
          LUAI_MAXCALLS,    \* limit of nested calls
          LUAI_MAXCCALLS,   \* limit of nested calls made from C
          MAXTAGLOOP        \* limit of a chain of tag methods that are tables

VARIABLES prog,             \* the program that runs
          main,             \* its main function
          vm,
          selfmeta          \* history: the tables that were their own metatable

vars == <<prog, main, vm, selfmeta>>

-----------------------------------------------------------------------------
(* The thread that runs and its stack.                                       *)
Cur(s) == Last(s.C).th
L(s) == s.threads[Cur(s)]
Ci(s) == Last(L(s).ci)
With(s, l) == [s EXCEPT !.threads[Cur(s)] = l]
Top(s, t) == With(s, [L(s) EXCEPT !.top = t])
Goto(s, pc) == With(s, [L(s) EXCEPT !.pc = pc])
PushC(s, frame) == [s EXCEPT !.C = Append(@, frame)]
PopC(s) == [s EXCEPT !.C = Front(@)]

Val(s, i) == IF i < Len(L(s).stack) THEN L(s).stack[i + 1] ELSE NIL
Slots(s, from, to) ==
  IF to < from THEN <<>> ELSE [j \in 1..to - from |-> Val(s, from + j - 1)]
SetFrom(s, i, vs) ==
  LET n == IF i + Len(vs) > Len(L(s).stack) THEN i + Len(vs) ELSE Len(L(s).stack)
  IN With(s, [L(s) EXCEPT !.stack = [j \in 1..n |->
       IF i < j /\ j <= i + Len(vs) THEN vs[j - i] ELSE Val(s, j - 1)]])
Setobj(s, i, v) == SetFrom(s, i, <<v>>)
Push(s, vs) == Top(SetFrom(s, L(s).top, vs), L(s).top + Len(vs))
Nils(n) == IF n < 0 THEN <<>> ELSE [j \in 1..n |-> NIL]

ProtoOf(s, id) == FoldLeft(LAMBDA p, n : p.p[n + 1], main, s.funs[id].path)
Cl(s) == Val(s, Ci(s).func)[2]
isLua(s) == Len(L(s).ci) > 1 /\ Val(s, Ci(s).func)[1] = "fun"

-----------------------------------------------------------------------------
(* Upvalues: open, a slot of a thread's stack, or closed, with the value.    *)
Upval(s, u) ==
  LET x == s.upvals[u] IN IF x.open THEN s.threads[x.th].stack[x.i + 1] ELSE x.v
SetUpval(s, u, v) ==
  IF s.upvals[u].open THEN [s EXCEPT !.threads[s.upvals[u].th].stack[s.upvals[u].i + 1] = v]
  ELSE [s EXCEPT !.upvals[u].v = v]
OpenHere(s, u) == s.upvals[u].open /\ s.upvals[u].th = Cur(s)
(* Faulty variant for UpvaluesOpen: the slot at the level is not included. *)
OpenAbove(s, u, level) == OpenHere(s, u) /\ s.upvals[u].i > level
OpenAt(s, u, level) == OpenHere(s, u) /\ s.upvals[u].i >= level

(* The upvalues that are open at the levels are found, the others made, each *)
(* numbered by the function it is made for and its level. *)
OpenOf(s, level) ==
  CHOOSE u \in DOMAIN s.upvals : OpenHere(s, u) /\ s.upvals[u].i = level
luaF_findupvals(s, levels) ==
  LET open == {s.upvals[u].i : u \in {u \in DOMAIN s.upvals : OpenHere(s, u)}}
      made == {<<Len(s.funs) + 1, i>> : i \in levels \ open}
  IN [s EXCEPT !.upvals = [u \in DOMAIN @ \cup made |->
        IF u \in made THEN [open |-> TRUE, th |-> Cur(s), i |-> u[2], v |-> NIL] ELSE @[u]]]

luaF_close(s, level) ==
  [s EXCEPT !.upvals = [u \in DOMAIN @ |->
     IF OpenAt(s, u, level) THEN [open |-> FALSE, th |-> 0, i |-> 0, v |-> Upval(s, u)] ELSE @[u]]]

-----------------------------------------------------------------------------
(* Tables.  flags: the tag methods known to be absent.                       *)
FastEvents == {"__index", "__newindex", "__eq"}
NewTable == [map |-> [k \in {NIL} |-> NIL], keys |-> <<>>, meta |-> 0, flags |-> FastEvents]
luaH_made(s, t) == [s |-> [s EXCEPT !.tables = Append(@, t)], v |-> <<"table", Len(s.tables) + 1>>]
luaH_new(s) == luaH_made(s, NewTable)

luaH_get(s, h, k) == IF k \in DOMAIN s.tables[h].map THEN s.tables[h].map[k] ELSE NIL
Store(s, h, k, v) ==
  [s EXCEPT !.tables[h].keys = IF k \in DOMAIN s.tables[h].map THEN @ ELSE Append(@, k),
            !.tables[h].map = [x \in {k} \cup DOMAIN @ |-> IF x = k THEN v ELSE @[x]]]
(* The values vs under the numbers from first on. *)
StoreFrom(s, h, first, vs) ==
  LET new == {Num(first + i - 1) : i \in DOMAIN vs}
      made == SelectSeq([i \in DOMAIN vs |-> Num(first + i - 1)],
                        LAMBDA k : k \notin DOMAIN s.tables[h].map)
  IN [s EXCEPT !.tables[h].keys = @ \o made,
               !.tables[h].map = [x \in new \cup DOMAIN @ |->
                                    IF x \in new THEN vs[x[2] + 1 - first] ELSE @[x]]]
(* Faulty variant for FlagsTrue: what is known to be absent stays so. *)
SetUnflagged(s, h, k) == Store(s, h, k, luaH_get(s, h, k))
(* luaH_set gives the place of a key, which is made if it is not there. *)
luaH_set(s, h, k) == [Store(s, h, k, luaH_get(s, h, k)) EXCEPT !.tables[h].flags = {}]
luaH_getn(s, h) ==
  CHOOSE n \in 0..Len(s.tables[h].keys) :
    (n > 0 => luaH_get(s, h, Num(n)) # NIL) /\ luaH_get(s, h, Num(n + 1)) = NIL

fasttm(s, mt, e) ==
  LET tm == luaH_get(s, mt, Str(<<e>>))
  IN IF mt = 0 \/ e \in s.tables[mt].flags THEN [s |-> s, tm |-> NIL]
     ELSE [s |-> IF tm = NIL THEN [s EXCEPT !.tables[mt].flags = @ \cup {e}] ELSE s, tm |-> tm]
(* The number of the metatable, 0: none. *)
Metatable(s, v) == IF v[1] = "table" THEN s.tables[v[2]].meta ELSE IF v[1] = "str" THEN 5 ELSE 0
luaT_gettmbyobj(s, v, e) ==
  IF Metatable(s, v) = 0 THEN NIL ELSE luaH_get(s, Metatable(s, v), Str(<<e>>))

-----------------------------------------------------------------------------
(* Calls.  The end of a function: its results go where the call was.         *)
luaD_poscall(s, vals) ==
  LET ci == Ci(s)
      before == L(s).ci[Len(L(s).ci) - 1]
      res == IF ci.nresults = LUA_MULTRET THEN vals
             ELSE SubSeq(vals \o Nils(ci.nresults), 1, ci.nresults)
      t == With(s, [L(s) EXCEPT !.ci = Front(@), !.base = before.base, !.pc = before.savedpc])
  IN Top(SetFrom(t, ci.func, res), ci.func + Len(res))

(* Faulty variant for InFrame: the top stays where the results end. *)
FinishAtResults(s, vals) == luaD_poscall(s, vals)
(* A C function ends; where OP_CALL called it, the top is corrected. *)
Corrected(s, fixed) == IF fixed THEN Top(s, Ci(s).top) ELSE s
Finish(s, vals) ==
  Corrected(luaD_poscall(s, vals), Last(s.C).k = "execute" /\ Ci(s).nresults # LUA_MULTRET)

(* The position in the function at a level of a thread's calls, if it is a   *)
(* Lua function; the calls that tail calls replaced count (lua_getstack).    *)
luaL_where(s, th, level) ==
  LET cis == s.threads[th].ci
      lua(i) == s.threads[th].stack[cis[i].func + 1][1] = "fun"
      levels(k) == FoldLeft(LAMBDA n, ci : n + 1 + ci.tailcalls, 0, SubSeq(cis, Len(cis) - k + 1, Len(cis)))
  IN IF \E k \in 0..Len(cis) - 2 : levels(k) = level /\ lua(Len(cis) - k) THEN Position ELSE <<>>

(* An error: the last pcall or resume gets it, and what was called since is  *)
(* gone.  A coroutine that was wrapped hands it on to where it was resumed,  *)
(* and what was a string or a number gets that position too (luaB_auxwrap).  *)
Catching(s) ==
  {i \in DOMAIN s.C : s.C[i].k = "pcall" \/ (s.C[i].k = "resume" /\ ~s.C[i].wrap)}
Restored(s, c) ==
  With(s, [L(s) EXCEPT !.ci = SubSeq(@, 1, c.ci), !.base = L(s).ci[c.ci].base,
                       !.pc = L(s).ci[c.ci].savedpc])
(* The n-th activation on the C stack and what is above it are gone; the     *)
(* coroutines that were resumed from there on are dead.                      *)
Dying(s, n) == {s.C[i].co : i \in {i \in DOMAIN s.C : n <= i /\ s.C[i].k = "resume"}}
Unwound(s, n) ==
  [s EXCEPT !.threads = [co \in DOMAIN s.threads |->
              IF co \in Dying(s, n) THEN [s.threads[co] EXCEPT !.status = "error"]
              ELSE s.threads[co]],
            !.C = SubSeq(@, 1, n - 1)]
Failed(s, v) == Finish(s, <<Bool(FALSE), v>>)
Caught(s, c, v) == Failed(IF c.k = "pcall" THEN Restored(luaF_close(s, c.top), c) ELSE s, v)
HandedOn(s, v) ==
  FoldRight(LAMBDA c, e : IF c.k = "resume" /\ IsStr(e) THEN Str(luaL_where(s, c.th, 1) \o TextOf(e)) ELSE e,
            SubSeq(s.C, Max({0} \cup Catching(s)) + 1, Len(s.C)), v)
luaD_throw(s, v) ==
  IF Catching(s) = {} THEN [Unwound(s, 1) EXCEPT !.out = <<"error", HandedOn(s, v)>>]
  ELSE LET n == Max(Catching(s)) IN Caught(Unwound(s, n), s.C[n], HandedOn(s, v))
(* The errors of the machine name the position in the function that runs,    *)
(* those of the libraries that in its caller.                                *)
luaG_runerror(s, msg) == luaD_throw(s, Str(luaL_where(s, Cur(s), 0) \o msg))
luaL_error(s, msg) == luaD_throw(s, Str(luaL_where(s, Cur(s), 1) \o msg))

(* luaG_typeerror: where is the slot of the value, or -1. *)
luaG_typeerror(s, v, where, op) ==
  LET named == where >= 0 /\ isLua(s)
      name == NameOfRegister(ProtoOf(s, Cl(s)), L(s).pc - 1, where - L(s).base)
  IN luaG_runerror(s, <<"attempt to", op, TypeName[v[1]], IF named THEN name ELSE <<>>>>)

(* A vararg function has its extra arguments below its base; one that does   *)
(* not use '...' itself gets them in the table arg.                          *)
ArgTable(extra) ==
  LET n == Str(<<"n">>)
  IN [NewTable EXCEPT !.keys = [i \in DOMAIN extra |-> Num(i)] \o <<n>>,
        !.map = [k \in {NIL, n} \cup {Num(i) : i \in DOMAIN extra} |->
                   CASE k = NIL -> NIL [] k = n -> Num(Len(extra)) [] OTHER -> extra[k[2]]]]
Adjusted(s, func, p, given, arg) ==
  LET base == func + 1 + Len(given)
      fixed == SubSeq(given, 1, p.numparams) \o arg
      extra == SubSeq(given, p.numparams + 1, Len(given))
  IN [s |-> SetFrom(s, func + 1, Nils(p.numparams) \o extra \o fixed),
      base |-> base, top |-> base + Len(fixed)]
adjust_varargs(s, func, p, args) ==
  LET given == args \o Nils(p.numparams - Len(args))
      arg == luaH_made(s, ArgTable(SubSeq(given, p.numparams + 1, Len(given))))
  IN IF "NEEDSARG" \in p.is_vararg THEN Adjusted(arg.s, func, p, given, <<arg.v>>)
     ELSE Adjusted(s, func, p, given, <<>>)

PushCi(s, func, base, top, nresults) ==
  LET cis == L(s).ci
  IN With(s, [L(s) EXCEPT !.ci = Append([cis EXCEPT ![Len(cis)].savedpc = L(s).pc],
                                   [func |-> func, base |-> base, top |-> top, savedpc |-> 0,
                                    nresults |-> nresults, tailcalls |-> 0]),
                          !.base = base])

(* The call of a Lua function starts: by OP_CALL (op) in the activation of   *)
(* luaV_execute that runs, from C in one of its own.                         *)
Plain(s, func, p) ==
  LET base == func + 1
      top == IF L(s).top > base + p.numparams THEN base + p.numparams ELSE L(s).top
  IN [s |-> s, base |-> base, top |-> top]
Entered(a, func, nresults, citop) ==
  Goto(Top(SetFrom(PushCi(a.s, func, a.base, citop, nresults), a.top, Nils(citop - a.top)), citop), 0)
Framed(a, func, nresults, p) == Entered(a, func, nresults, a.base + p.maxstacksize)
Activated(t, op) ==
  IF op THEN [t EXCEPT !.C[Len(t.C)].n = @ + 1]
  ELSE PushC(t, [k |-> "execute", th |-> Cur(t), ci |-> Len(L(t).ci) - 1, n |-> 1])
Enter(s, v, func, nresults, op) ==
  LET p == ProtoOf(s, v[2])
      a == IF p.is_vararg = {} THEN Plain(s, func, p)
           ELSE adjust_varargs(s, func, p, Slots(s, func + 1, L(s).top))
  IN Activated(Framed(a, func, nresults, p), op)

(* v: the function that is called, at the slot func. *)
Precalled(s, v, func, nresults, op) ==
  IF Len(L(s).ci) >= LUAI_MAXCALLS THEN luaG_runerror(s, <<"stack overflow">>)
  ELSE IF v[1] = "fun" THEN Enter(s, v, func, nresults, op)
  ELSE [PushCi(s, func, func + 1, L(s).top, nresults) EXCEPT !.cfun = v]
(* What is no function is the first argument of its tag method. *)
tryfuncTM(s, func, tm) ==
  Top(SetFrom(s, func, <<tm>> \o Slots(s, func, L(s).top)), L(s).top + 1)
luaD_precall(s, func, nresults, op) ==
  LET v == Val(s, func)
      tm == luaT_gettmbyobj(s, v, "__call")
  IN IF ttisfunction(v) THEN Precalled(s, v, func, nresults, op)
     ELSE IF ttisfunction(tm) THEN Precalled(tryfuncTM(s, func, tm), tm, func, nresults, op)
     ELSE luaG_typeerror(s, v, func, "call")

(* A call from C; frame says what waits for it, and how many CallInfos its   *)
(* thread had. *)
nCcalls(s) == Cardinality({i \in DOMAIN s.C : s.C[i].k # "execute"})
ErrorErr == LUAI_MAXCCALLS + LUAI_MAXCCALLS \div 8
luaD_call(s, func, nresults, frame) ==
  LET t == PushC(s, frame)
      n == nCcalls(t)
  IN IF n = LUAI_MAXCCALLS \/ n >= ErrorErr
     THEN IF n < ErrorErr THEN luaG_runerror(t, <<"C stack overflow">>)
          ELSE luaD_throw(t, Str(<<"error in error handling">>))
     ELSE luaD_precall(t, func, nresults, FALSE)

(* A function is called above the top of the stack. *)
callTM(s, f, ps, nresults, frame) ==
  luaD_call(Push(s, <<f>> \o ps), L(s).top, nresults, frame)

OrderTM(s, p1, p2, e) ==
  LET tm == luaT_gettmbyobj(s, p1, e)
  IN IF luaT_gettmbyobj(s, p2, e) = tm THEN tm ELSE NIL
luaG_ordererror(s, x, y) ==
  luaG_runerror(s, <<"attempt to", "compare", TypeName[x[1]], TypeName[y[1]]>>)

(* The functions of the base library; the arguments are on the stack.        *)
Unstarted(l) == l.status = "ok" /\ Len(l.ci) = 1 /\ l.top # l.base
Suspended(s) ==
  {co \in DOMAIN s.threads \ {Cur(s)} :
     s.threads[co].status = "yield" \/ Unstarted(s.threads[co])}
costatus(s, co) ==
  IF Cur(s) = co THEN "running"
  ELSE IF co \in Suspended(s) THEN "suspended"
  ELSE IF s.threads[co].status = "ok" /\ Len(s.threads[co].ci) > 1 THEN "normal"
  ELSE "dead"

(* Faulty variant for ResumedOnce: a coroutine that was resumed still counts *)
(* as yielded. *)
StillYielding(s, co) == s
Woken(s, co) == [s EXCEPT !.threads[co].status = "ok"]

(* The interrupted call of yield ends in the coroutine, or its function      *)
(* starts; args are moved there.                                             *)
Switched(s, co, nargs, wrap) ==
  [s EXCEPT !.threads[Cur(s)].top = @ - nargs,
            !.C = @ \o <<[k |-> "resume", th |-> Cur(s), ci |-> Len(L(s).ci), co |-> co, wrap |-> wrap],
                         [k |-> "execute", th |-> co, ci |-> 1, n |-> 0]>>]
Goingon(s) == [s EXCEPT !.C[Len(s.C)].n = Len(L(s).ci) - 1]
resume(s, co, args) ==
  IF s.threads[co].status = "ok"
  THEN luaD_precall(Push(s, args), L(s).top - 1, LUA_MULTRET, TRUE)
  ELSE Goingon(Finish(Woken(s, co), args))
auxresume(s, co, args, wrap) ==
  LET may == co \in Suspended(s)
      e == IF may THEN <<"C stack overflow">> ELSE <<"cannot resume", costatus(s, co)>>
      lost == IF may THEN [s EXCEPT !.threads[co].top = Last(s.threads[co].ci).base]
              ELSE s    \* its stack is emptied
  IN IF may /\ nCcalls(s) < LUAI_MAXCCALLS
       THEN resume(Switched(s, co, Len(args), wrap), co, args)
     ELSE IF wrap THEN luaL_error(lost, e) ELSE Failed(lost, Str(e))

(* The values go to the thread that resumed. *)
lua_yield(s, args) ==
  LET n == Len(s.C)
      across == n < 2 \/ s.C[n].k # "execute" \/ s.C[n - 1].k # "resume"
      c == s.C[n - 1]
      top == L(s).top - Len(args)
      out == [s EXCEPT !.threads[Cur(s)] = [L(s) EXCEPT !.status = "yield", !.top = top, !.base = top],
                       !.C = SubSeq(@, 1, n - 2)]
  IN IF across THEN luaG_runerror(s, <<"attempt to yield across metamethod/C-call boundary">>)
     ELSE Finish(out, (IF c.wrap THEN <<>> ELSE <<Bool(TRUE)>>) \o args)

lua_next(s, h, k) ==
  LET ks == s.tables[h].keys
      at == IF k = NIL THEN 0 ELSE CHOOSE i \in DOMAIN ks : ks[i] = k
      later == {i \in at + 1..Len(ks) : luaH_get(s, h, ks[i]) # NIL}
      i == CHOOSE i \in later : \A j \in later : i <= j
  IN IF later = {} THEN <<NIL>> ELSE <<ks[i], luaH_get(s, h, ks[i])>>

Metafield(s, v) == luaT_gettmbyobj(s, v, "__metatable")
luaB_getmetatable(s, v) ==
  IF Metatable(s, v) = 0 THEN NIL
  ELSE IF Metafield(s, v) # NIL THEN Metafield(s, v)
  ELSE <<"table", Metatable(s, v)>>

luaB_error(s, msg, level) ==
  luaD_throw(s, IF IsStr(msg) /\ level > 0 THEN Str(luaL_where(s, Cur(s), level) \o TextOf(msg)) ELSE msg)

luaB_select(args) ==   \* what is selected by args[1], a number or "#"
  LET n == Len(args)
      i == args[1][2]
  IN IF args[1] = Str(<<"#">>) THEN <<Num(n - 1)>>
     ELSE SubSeq(args, IF i < 0 THEN n + i + 1 ELSE i + 1, n)

Newthread(f) ==
  [stack |-> <<NIL, f>>, base |-> 1, top |-> 2, pc |-> 0, status |-> "ok",
   ci |-> <<[func |-> 0, base |-> 1, top |-> 21, savedpc |-> 0, nresults |-> 0, tailcalls |-> 0]>>]

luaB_cocreate(s, f) == [s EXCEPT !.threads = Append(@, Newthread(f))]

-----------------------------------------------------------------------------
(* The table library.  Some functions call back, element by element: c is    *)
(* what they keep on the C stack meanwhile.                                  *)
rawseti(s, h, i, v) == Store(s, h, Num(i), v)
rawgeti(s, h, i) == luaH_get(s, h, Num(i))
maxn(s, h) == Max({0} \cup {k[2] : k \in {x \in DOMAIN s.tables[h].map :
                                     x[1] = "num" /\ luaH_get(s, h, x) # NIL}})
tinsert(s, h, args) ==
  LET e == luaH_getn(s, h) + 1
      pos == IF Len(args) = 2 THEN e ELSE ToNum(args[2])[2]
      last == IF pos > e THEN pos ELSE e
  IN StoreFrom(s, h, pos, <<Last(args)>> \o [i \in 1..last - pos |-> rawgeti(s, h, pos + i - 1)])
Removed(s, h, pos) ==    \* the position that tremove empties, 0: none
  LET e == luaH_getn(s, h)
      p == Optional(pos, e)
  IN IF 1 <= p /\ p <= e THEN p ELSE 0
tremove(s, h, pos) ==
  LET p == Removed(s, h, pos)
      down == [i \in 1..luaH_getn(s, h) - p |-> rawgeti(s, h, p + i)]
  IN IF p = 0 THEN s ELSE StoreFrom(s, h, p, down \o <<NIL>>)
Elements(s, h, from, to) ==    \* by default all of the list
  LET i == Optional(from, 1)
      e == Optional(to, luaH_getn(s, h))
  IN IF e < i THEN <<>> ELSE [j \in 1..e - i + 1 |-> rawgeti(s, h, i + j - 1)]
luaB_unpack(s, h, a) == Elements(s, h, a[2], a[3])
Concatenation(s, h, a) == Elements(s, h, a[3], a[4])    \* the fields that tconcat joins
tconcat(fields, sep) ==
  FoldLeft(LAMBDA t, i : t \o (IF i = 1 \/ sep = NIL THEN <<>> ELSE TextOf(sep)) \o TextOf(fields[i]),
           <<>>, [i \in DOMAIN fields |-> i])

foreachi(s, c) ==
  IF c.i > c.n THEN Finish(s, <<>>)
  ELSE callTM(s, c.f, <<Num(c.i), rawgeti(s, c.h, c.i)>>, 1, c)
foreach(s, c) ==
  LET kv == lua_next(s, c.h, c.key)
  IN IF kv = <<NIL>> THEN Finish(s, <<>>) ELSE callTM(s, c.f, kv, 1, [c EXCEPT !.key = kv[1]])

(* sort.  c: the range [l..u] under way, todo, the ranges after it, the      *)
(* pivot p, and the comparison x < y that is waited for.                     *)
Swap(s, c, i, x, j, y) == rawseti(rawseti(s, c.h, i, x), c.h, j, y)    \* set2
Asking(s, c) ==
  LET e(i) == rawgeti(s, c.h, i)
      q == CASE c.phase = "ends" -> <<e(c.u), e(c.l)>>
             [] c.phase = "middle" -> <<e(c.i), e(c.l)>>
             [] c.phase = "last" -> <<e(c.u), c.x>>
             [] c.phase = "up" -> <<e(c.i), c.p>>
             [] c.phase = "down" -> <<c.p, e(c.j)>>
  IN [c EXCEPT !.x = q[1], !.y = q[2]]
State(s, c) == [s |-> s, c |-> c]
Range1(s, c, ranges) ==    \* the first that has two elements
  LET todo == SelectSeq(ranges \o c.todo, LAMBDA r : r[1] < r[2])
  IN State(s, IF todo = <<>> THEN [c EXCEPT !.phase = "done"]
              ELSE [c EXCEPT !.l = todo[1][1], !.u = todo[1][2], !.todo = Tail(todo), !.phase = "ends"])
Pivot(s, c) ==
  LET p == rawgeti(s, c.h, c.i)
  IN IF c.u - c.l = 2 THEN Range1(s, c, <<>>)
     ELSE State(Swap(s, c, c.i, rawgeti(s, c.h, c.u - 1), c.u - 1, p),
                [c EXCEPT !.p = p, !.i = c.l + 1, !.j = c.u - 1, !.phase = "up"])
Split(s, c) ==    \* the smaller half comes first
  LET t == Swap(s, c, c.u - 1, rawgeti(s, c.h, c.i), c.i, rawgeti(s, c.h, c.u - 1))
      low == <<c.l, c.i - 1>>
      high == <<c.i + 1, c.u>>
  IN Range1(t, c, IF c.i - c.l < c.u - c.i THEN <<low, high>> ELSE <<high, low>>)
Sifted(s, c, less) ==
  CASE c.phase = "ends" ->
         LET t == IF less THEN Swap(s, c, c.l, c.x, c.u, c.y) ELSE s
         IN IF c.u - c.l = 1 THEN Range1(t, c, <<>>)
            ELSE State(t, [c EXCEPT !.i = (c.l + c.u) \div 2, !.phase = "middle"])
    [] c.phase = "middle" -> IF less THEN Pivot(Swap(s, c, c.i, c.y, c.l, c.x), c)
                             ELSE State(s, [c EXCEPT !.phase = "last"])
    [] c.phase = "last" -> Pivot(IF less THEN Swap(s, c, c.i, c.x, c.u, c.y) ELSE s, c)
    [] c.phase = "up" ->
         State(s, IF ~less THEN [c EXCEPT !.ai = c.x, !.j = @ - 1, !.phase = "down"]
                  ELSE IF c.i > c.u THEN [c EXCEPT !.phase = "invalid"] ELSE [c EXCEPT !.i = @ + 1])
    [] OTHER ->    \* "down"
         IF less THEN State(s, IF c.j < c.l THEN [c EXCEPT !.phase = "invalid"] ELSE [c EXCEPT !.j = @ - 1])
         ELSE IF c.j < c.i THEN Split(s, c)
         ELSE State(Swap(s, c, c.i, c.y, c.j, c.ai), [c EXCEPT !.i = @ + 1, !.phase = "up"])
(* Two numbers or strings are compared where they are, without a call. *)
auxsort(s, d) ==
  LET c == Asking(s, d)
      f == IF c.f # NIL THEN c.f ELSE IF c.x[1] = c.y[1] THEN OrderTM(s, c.x, c.y, "__lt") ELSE NIL
      direct == c.f = NIL /\ Comparable(c.x, c.y)
  IN IF d.phase = "done" THEN Finish(s, <<>>)
     ELSE IF d.phase = "invalid" THEN luaL_error(s, <<"invalid order function for sorting">>)
     ELSE IF direct THEN PushC(s, [c EXCEPT !.called = FALSE])
     ELSE IF f = NIL THEN luaG_ordererror(s, c.x, c.y)
     ELSE callTM(s, f, <<c.x, c.y>>, 1, [c EXCEPT !.called = TRUE])
sort(s, h, f) ==
  LET c == [k |-> "sort", th |-> Cur(s), ci |-> Len(L(s).ci), h |-> h, f |-> f, called |-> FALSE,
            l |-> 0, u |-> 0, i |-> 0, j |-> 0, p |-> NIL, ai |-> NIL, x |-> NIL, y |-> NIL,
            todo |-> <<>>, phase |-> ""]
      first == Range1(s, c, <<<<1, luaH_getn(s, h)>>>>)
  IN auxsort(s, first.c)

(* gsub goes on with a function or a table that is asked for what replaces   *)
(* a match.  Tables with tag methods are left out.                           *)
GsubFrame(s, g, called) ==
  [k |-> "gsub", th |-> Cur(s), ci |-> Len(L(s).ci), g |-> g, called |-> called]
str_gsub(s, g) ==
  LET q == GsubAsked(g)
  IN IF g.err # "" THEN luaL_error(s, <<g.err>>)
     ELSE IF g.done THEN Finish(s, <<Str(g.out), Num(g.n)>>)
     ELSE IF q.err # "" THEN luaL_error(s, <<q.err>>)
     ELSE IF g.news[1] = "table"
       THEN PushC(s, GsubFrame(s, GsubAnswered(g, luaH_get(s, g.news[2], q.vs[1])), FALSE))
     ELSE callTM(s, g.news, q.vs, 1, GsubFrame(s, g, TRUE))

-----------------------------------------------------------------------------
(* What the functions refuse in their arguments; a: filled up with nil. *)
Globals == {"pcall", "error", "assert", "type", "setmetatable", "getmetatable", "rawequal",
            "rawget", "rawset", "next", "pairs", "ipairs", "unpack", "select", "tonumber"}
Routines == {"create", "wrap", "resume", "status", "running", "yield"}
TableFunctions == {"concat", "foreach", "foreachi", "getn", "maxn", "insert", "remove", "setn", "sort"}
StringFunctions == {"len", "sub", "reverse", "lower", "upper", "rep", "byte", "char", "find", "match"}
Strings == StringFunctions \cup {"gmatch", "gsub"}
NoInt(v) == ToNum(v) = NIL
BadOption(v) == v # NIL /\ NoInt(v)
BadInTable(f, args, a) ==
  \/ a[1][1] # "table"
  \/ f \in {"foreach", "foreachi"} /\ ~ttisfunction(a[2])
  \/ f = "sort" /\ a[2] # NIL /\ ~ttisfunction(a[2])
  \/ f = "insert" /\ Len(args) = 3 /\ NoInt(a[2])
  \/ f = "remove" /\ BadOption(a[2])
  \/ f = "concat" /\ ((~IsStr(a[2]) /\ a[2] # NIL) \/ BadOption(a[3]) \/ BadOption(a[4]))
BadInString(f, args, a) ==
  \/ f # "char" /\ ~IsStr(a[1])
  \/ f \in {"find", "match", "gmatch", "gsub"} /\ ~IsStr(a[2])
  \/ f \in {"sub", "rep"} /\ NoInt(a[2])
  \/ f \in {"sub", "byte", "find", "match"} /\ BadOption(a[3])
  \/ f = "byte" /\ BadOption(a[2])
  \/ f = "gsub" /\ (a[3][1] \notin {"num", "str", "fun", "cfun", "table"} \/ BadOption(a[4]))
  \/ f = "char" /\ \E i \in DOMAIN args : (NoInt(args[i]) \/ ToNum(args[i])[2] \notin 0..255)
BadArgument(f, args, a) ==
  \/ f \in TableFunctions /\ BadInTable(f, args, a)
  \/ f \in Strings /\ BadInString(f, args, a)
  \/ f \in {"next", "pairs", "ipairs", "ipairsaux", "rawget", "rawset", "unpack", "setmetatable"}
     /\ a[1][1] # "table"
  \/ f = "setmetatable" /\ a[2][1] \notin {"nil", "table"}
  \/ f \in {"create", "wrap"} /\ a[1][1] # "fun"
  \/ f \in {"resume", "status"} /\ a[1][1] # "thread"
  \/ f \in {"pcall", "assert", "type", "getmetatable"} /\ args = <<>>
  \/ f = "error" /\ BadOption(a[2])
  \/ f = "unpack" /\ (BadOption(a[2]) \/ BadOption(a[3]))
  \/ f = "assert" /\ l_isfalse(a[1]) /\ a[2] # NIL /\ ~IsStr(a[2])
  \/ f = "select" /\ a[1] # Str(<<"#">>) /\ (a[1][2] = 0 \/ a[1][2] <= -Len(args))
Refusal(s, f, args, a) ==
  IF BadArgument(f, args, a) THEN Str(<<"bad argument">>)
  ELSE IF f = "assert" /\ l_isfalse(a[1]) THEN IF a[2] = NIL THEN Str(<<"assertion failed!">>) ELSE ToStr(a[2])
  ELSE IF f = "setmetatable" /\ Metafield(s, a[1]) # NIL THEN Str(<<"cannot change a protected metatable">>)
  ELSE IF f = "insert" /\ Len(args) \notin {2, 3} THEN Str(<<"wrong number of arguments to insert">>)
  ELSE IF f = "setn" THEN Str(<<"setn is obsolete">>)
  ELSE IF f = "concat" /\ \E i \in DOMAIN Concatenation(s, a[1][2], a) : ~IsStr(Concatenation(s, a[1][2], a)[i])
    THEN Str(<<"invalid value in table for concat">>)
  ELSE NIL

(* What the functions change that neither call nor switch, and their results. *)
Changed(s, f, args, a) ==
  CASE f = "setmetatable" -> [s EXCEPT !.tables[a[1][2]].meta = IF a[2] = NIL THEN 0 ELSE a[2][2]]
    [] f = "rawset" -> Store(luaH_set(s, a[1][2], a[2]), a[1][2], a[2], a[3])
    [] f \in {"create", "wrap"} -> luaB_cocreate(s, a[1])
    [] f = "insert" -> tinsert(s, a[1][2], args)
    [] f = "remove" -> tremove(s, a[1][2], a[2])
    [] f = "gmatch" -> [s EXCEPT !.matches = Append(@, [m |-> NewMatching(TextOf(a[1]), TextOf(a[2])), at |-> 1])]
    [] OTHER -> s
Results(s, f, args, a) ==
  LET raw == luaH_get(s, a[1][2], Num(a[2][2] + 1))
  IN CASE f = "assert" -> args
       [] f \in {"setmetatable", "rawset"} -> <<a[1]>>
       [] f = "type" -> <<Str(<<TypeName[a[1][1]]>>)>>
       [] f = "getmetatable" -> <<luaB_getmetatable(s, a[1])>>
       [] f = "rawequal" -> <<Bool(a[1] = a[2])>>
       [] f = "rawget" -> <<luaH_get(s, a[1][2], a[2])>>
       [] f = "next" -> lua_next(s, a[1][2], a[2])
       [] f = "pairs" -> <<<<"cfun", "next", 0>>, a[1], NIL>>
       [] f = "ipairs" -> <<<<"cfun", "ipairsaux", 0>>, a[1], Num(0)>>
       [] f = "ipairsaux" -> IF raw = NIL THEN <<>> ELSE <<Num(a[2][2] + 1), raw>>
       [] f = "unpack" -> luaB_unpack(s, a[1][2], a)
       [] f = "select" -> luaB_select(args)
       [] f = "tonumber" -> <<ToNum(a[1])>>
       [] f = "create" -> <<<<"thread", Len(s.threads) + 1>>>>
       [] f = "wrap" -> <<<<"cfun", "auxwrap", Len(s.threads) + 1>>>>
       [] f = "status" -> <<Str(<<costatus(s, a[1][2])>>)>>
       [] f = "getn" -> <<Num(luaH_getn(s, a[1][2]))>>
       [] f = "maxn" -> <<Num(maxn(s, a[1][2]))>>
       [] f = "insert" -> <<>>
       [] f = "remove" -> IF Removed(s, a[1][2], a[2]) = 0 THEN <<>>
                          ELSE <<rawgeti(s, a[1][2], Removed(s, a[1][2], a[2]))>>
       [] f = "concat" -> <<Str(tconcat(Concatenation(s, a[1][2], a), a[2]))>>
       [] f = "gmatch" -> <<<<"cfun", "gmatch_aux", Len(s.matches) + 1>>>>
       [] f = "running" -> <<IF Cur(s) = 1 THEN NIL ELSE <<"thread", Cur(s)>>>>

(* The next match of an iterator. *)
Given(s, r) == IF r.err # "" THEN luaL_error(s, <<r.err>>) ELSE Finish(s, r.vs)
Stepped(s, n, r) == Given([s EXCEPT !.matches[n].at = IF r.at = 0 THEN @ ELSE r.at], r)
Iterate(s, n) == Stepped(s, n, NextMatch(s.matches[n].m, s.matches[n].at))

(* refusal: the message the arguments are refused with, or NIL. *)
Invoked(s, f, args, a, refusal) ==
  LET h == a[1][2]
      text == TextOf(a[1])
  IN CASE refusal # NIL -> luaL_error(s, refusal[2])
       [] refusal = NIL /\ f[2] = "error" -> luaB_error(s, a[1], Optional(a[2], 1))
       [] refusal = NIL /\ f[2] = "rawset" /\ a[2] = NIL -> luaG_runerror(s, <<"table index is nil">>)
       [] refusal = NIL /\ f[2] = "pcall" ->
            luaD_call(s, L(s).base, LUA_MULTRET,
                      [k |-> "pcall", th |-> Cur(s), ci |-> Len(L(s).ci), top |-> L(s).base])
       [] refusal = NIL /\ f[2] \in {"resume", "auxwrap"} ->
            auxresume(s, IF f[2] = "resume" THEN a[1][2] ELSE f[3],
                      IF f[2] = "resume" THEN Tail(args) ELSE args, f[2] = "auxwrap")
       [] refusal = NIL /\ f[2] = "yield" -> lua_yield(s, args)
       [] refusal = NIL /\ f[2] = "foreach" ->
            foreach(s, [k |-> "foreach", th |-> Cur(s), ci |-> Len(L(s).ci),
                        h |-> h, f |-> a[2], key |-> NIL])
       [] refusal = NIL /\ f[2] = "foreachi" ->
            foreachi(s, [k |-> "foreachi", th |-> Cur(s), ci |-> Len(L(s).ci),
                         h |-> h, f |-> a[2], i |-> 1, n |-> luaH_getn(s, h)])
       [] refusal = NIL /\ f[2] = "sort" -> sort(s, h, a[2])
       [] refusal = NIL /\ f[2] \in StringFunctions -> Given(s, StringFunction(f[2], args, a))
       [] refusal = NIL /\ f[2] = "gsub" ->
            str_gsub(s, GsubStep(GsubBegun(text, TextOf(a[2]), a[3], Optional(a[4], Len(text) + 1))))
       [] refusal = NIL /\ f[2] = "gmatch_aux" -> Iterate(s, f[3])
       [] OTHER -> Finish(Changed(s, f[2], args, a), Results(s, f[2], args, a))
CFunction(s, f) ==
  LET args == Slots(s, L(s).base, L(s).top)
      a == args \o Nils(4)
  IN Invoked(s, f, args, a, Refusal(s, f[2], args, a))

-----------------------------------------------------------------------------
(* Tag methods.                                                              *)
callTMres(s, res, f, p1, p2) ==
  callTM(s, f, <<p1, p2>>, 1, [k |-> "TMres", th |-> Cur(s), ci |-> Len(L(s).ci), res |-> res])

(* where: the slot of t, for the message of an error; loop: how many tag     *)
(* methods were tables.  One more is gone on with in a step of its own.      *)
luaV_gettable(s, t, key, res, where, loop) ==
  LET v == luaH_get(s, t[2], key)
      fast == fasttm(s, s.tables[t[2]].meta, "__index")
      tm == IF t[1] = "table" THEN fast.tm ELSE luaT_gettmbyobj(s, t, "__index")
      g == IF t[1] = "table" THEN fast.s ELSE s
  IN IF loop = MAXTAGLOOP THEN luaG_runerror(s, <<"loop in gettable">>)
     ELSE IF t[1] = "table" /\ v # NIL THEN Setobj(s, res, v)
     ELSE IF tm = NIL /\ t[1] = "table" THEN Setobj(g, res, NIL)
     ELSE IF tm = NIL THEN luaG_typeerror(s, t, where, "index")
     ELSE IF ttisfunction(tm) THEN callTMres(g, res, tm, t, key)
     ELSE PushC(g, [k |-> "gettable", th |-> Cur(g), ci |-> Len(L(g).ci),
                    t |-> tm, key |-> key, res |-> res, loop |-> loop + 1])

luaV_settable(s, t, key, val, where, loop) ==
  LET set == luaH_set(s, t[2], key)
      fast == fasttm(set, s.tables[t[2]].meta, "__newindex")
      tm == IF t[1] = "table" THEN fast.tm ELSE luaT_gettmbyobj(s, t, "__newindex")
      g == IF t[1] = "table" THEN fast.s ELSE s
  IN IF loop = MAXTAGLOOP THEN luaG_runerror(s, <<"loop in settable">>)
     ELSE IF t[1] = "table" /\ key = NIL THEN luaG_runerror(s, <<"table index is nil">>)
     ELSE IF t[1] = "table" /\ luaH_get(s, t[2], key) # NIL THEN Store(set, t[2], key, val)
     ELSE IF tm = NIL /\ t[1] = "table" THEN Store(g, t[2], key, val)
     ELSE IF tm = NIL THEN luaG_typeerror(s, t, where, "index")
     ELSE IF ttisfunction(tm)
       THEN callTM(g, tm, <<t, key, val>>, 0, [k |-> "TM", th |-> Cur(s), ci |-> Len(L(s).ci)])
     ELSE PushC(g, [k |-> "settable", th |-> Cur(g), ci |-> Len(L(g).ci),
                    t |-> tm, key |-> key, val |-> val, loop |-> loop + 1])

(* The tag method of an operation with two operands, NIL if there is none. *)
BinTM(s, p1, p2, e) ==
  LET tm == luaT_gettmbyobj(s, p1, e) IN IF tm = NIL THEN luaT_gettmbyobj(s, p2, e) ELSE tm

get_compTM(s, mt1, mt2) ==
  LET one == fasttm(s, mt1, "__eq")
      two == fasttm(one.s, mt2, "__eq")
  IN IF one.tm = NIL \/ mt1 = mt2 THEN one
     ELSE [s |-> two.s, tm |-> IF one.tm = two.tm THEN one.tm ELSE NIL]

(* The error of an operation names the operand that does not fit. *)
luaG_aritherror(s, p1, w1, p2, w2) ==
  IF ToNum(p1) # NIL THEN luaG_typeerror(s, p2, w2, "perform arithmetic on")
  ELSE luaG_typeerror(s, p1, w1, "perform arithmetic on")
luaG_concaterror(s, p1, w1, p2, w2) ==
  IF IsStr(p1) THEN luaG_typeerror(s, p2, w2, "concatenate")
  ELSE luaG_typeerror(s, p1, w1, "concatenate")

Event == ("ADD" :> "__add") @@ ("SUB" :> "__sub") @@ ("MUL" :> "__mul") @@
         ("MOD" :> "__mod") @@ ("POW" :> "__pow") @@ ("UNM" :> "__unm")
Arith(s, ra, p1, w1, p2, w2, op) ==
  LET tm == BinTM(s, p1, p2, Event[op])
  IN IF ToNum(p1) # NIL /\ ToNum(p2) # NIL
       THEN Setobj(s, ra, Num(Calc(op, ToNum(p1)[2], ToNum(p2)[2])))
     ELSE IF tm # NIL THEN callTMres(s, ra, tm, p1, p2)
     ELSE luaG_aritherror(s, p1, w1, p2, w2)

(* The total values that end at the register last are joined from the right, *)
(* as many strings at a time as there are; the result is moved to the target *)
(* of the instruction.                                                       *)
Collected(s, total, at) ==    \* how many of them are joined first
  Max({1} \cup {n \in 2..total : \A j \in 0..n - 1 : IsStr(Val(s, at - j))})
Joined(s, n, at) ==
  IF n = 1 THEN s
  ELSE Setobj(s, at - n + 1, Str(FoldLeft(LAMBDA t, v : t \o TextOf(v), <<>>, Slots(s, at - n + 1, at + 1))))
concatTM(s, total, last) ==
  LET at == L(s).base + last
      x == Val(s, at - 1)
      y == Val(s, at)
      tm == BinTM(s, x, y, "__concat")
  IN IF tm = NIL THEN luaG_concaterror(s, x, at - 1, y, at)
     ELSE callTM(s, tm, <<x, y>>, 1,
                 [k |-> "concat", th |-> Cur(s), ci |-> Len(L(s).ci),
                  res |-> at - 1, total |-> total - 1, last |-> last - 1])
luaV_concat(s, total, last) ==
  LET at == L(s).base + last
      n == Collected(s, total, at)
      t == Joined(s, n, at)
      i == Ins(ProtoOf(s, Cl(s)), L(s).pc - 1)
  IN IF n = total THEN Setobj(t, L(s).base + i.a, Val(t, at - n + 1))
     ELSE concatTM(t, total - n + 1, last - n + 1)

-----------------------------------------------------------------------------
(* The interpreter.  An action stands for the instructions with its names.   *)
LibraryTable(fs) ==
  [NewTable EXCEPT !.map = [k \in {NIL} \cup {Str(<<f>>) : f \in fs} |->
                              IF k = NIL THEN NIL ELSE <<"cfun", k[2][1], 0>>]]
(* The library l, and what else the table has. *)
Library(fs, others) ==
  [LibraryTable(fs) EXCEPT !.map = [k \in DOMAIN @ \cup {Str(<<n>>) : n \in DOMAIN others} |->
                                      IF k \in DOMAIN @ THEN @[k] ELSE others[k[2][1]]]]

Init ==
  /\ prog \in Programs
  /\ main = <<>>
  /\ vm = [threads |-> <<Newthread(<<"fun", 1>>)>>, out |-> <<>>, C |-> <<>>, cfun |-> NIL,
           upvals |-> <<>>, matches |-> <<>>,
           tables |-> <<Library(Globals, [coroutine |-> <<"table", 2>>, string |-> <<"table", 3>>,
                                          table |-> <<"table", 4>>]),
                        LibraryTable(Routines), LibraryTable(Strings), LibraryTable(TableFunctions),
                        [Library({}, [__index |-> <<"table", 3>>]) EXCEPT !.flags = {}]>>,
           funs |-> <<[path |-> <<>>, upvals |-> <<>>]>>]
  /\ selfmeta = {}

SelfMeta(s) == {h \in DOMAIN s.tables : s.tables[h].meta = h}
Do(s) == vm' = s /\ selfmeta' = selfmeta \cup SelfMeta(vm') /\ UNCHANGED <<prog, main>>

(* The program is compiled; its main function is called. *)
Load == main = <<>> /\ main' = Main(prog) /\ UNCHANGED <<prog, vm, selfmeta>>
Start ==
  /\ main # <<>> /\ vm.C = <<>> /\ vm.out = <<>>
  /\ Do(luaD_precall([vm EXCEPT !.C = <<[k |-> "execute", th |-> 1, ci |-> 1, n |-> 0]>>], 1,
                     LUA_MULTRET, TRUE))

G == <<"table", 1>>
Code == ProtoOf(vm, Cl(vm)).code
I == Code[L(vm).pc + 1]
On(k) == vm.C # <<>> /\ vm.out = <<>> /\ vm.cfun = NIL /\ Last(vm.C).k = k
Running(ops) == On("execute") /\ I.op \in ops

(* The machine with the instruction fetched, and the instruction's operands. *)
next == Goto(vm, L(vm).pc + 1)
R(r) == L(vm).base + r
ra == R(I.a)
K(i) == ProtoOf(vm, Cl(vm)).k[i + 1]
RK(x) == IF ISK(x) THEN K(INDEXK(x)) ELSE Val(vm, R(x))
Where(x) == IF ISK(x) THEN -1 ELSE R(x)

(* After a test: the jump that follows is taken, or skipped. *)
Branch(s, taken) ==
  LET pc == L(s).pc IN Goto(s, IF taken THEN pc + 1 + Ins(ProtoOf(s, Cl(s)), pc).b ELSE pc + 1)

(* The C function that was called runs. *)
Cfunction == vm.cfun # NIL /\ vm.out = <<>> /\ Do(CFunction([vm EXCEPT !.cfun = NIL], vm.cfun))

Move == Running({"MOVE"}) /\ Do(Setobj(next, ra, Val(vm, R(I.b))))
Loadk == Running({"LOADK"}) /\ Do(Setobj(next, ra, K(I.b)))
Loadbool ==
  /\ Running({"LOADBOOL"})
  /\ Do(Goto(Setobj(vm, ra, Bool(I.b = 1)), L(vm).pc + (IF I.c = 0 THEN 1 ELSE 2)))
Loadnil == Running({"LOADNIL"}) /\ Do(SetFrom(next, ra, Nils(I.b - I.a + 1)))

UpvalOf(b) == vm.funs[Cl(vm)].upvals[b + 1]
Getupval == Running({"GETUPVAL"}) /\ Do(Setobj(next, ra, Upval(vm, UpvalOf(I.b))))
Setupval == Running({"SETUPVAL"}) /\ Do(SetUpval(next, UpvalOf(I.b), Val(vm, ra)))

Getglobal == Running({"GETGLOBAL"}) /\ Do(luaV_gettable(next, G, K(I.b), ra, -1, 0))
Setglobal == Running({"SETGLOBAL"}) /\ Do(luaV_settable(next, G, K(I.b), Val(vm, ra), -1, 0))
Gettable ==
  Running({"GETTABLE"}) /\ Do(luaV_gettable(next, Val(vm, R(I.b)), RK(I.c), ra, R(I.b), 0))
Settable == Running({"SETTABLE"}) /\ Do(luaV_settable(next, Val(vm, ra), RK(I.b), RK(I.c), ra, 0))
Newtable ==
  Running({"NEWTABLE"}) /\ LET t == luaH_new(next) IN Do(Setobj(t.s, ra, t.v))
Self ==
  /\ Running({"SELF"})
  /\ Do(luaV_gettable(Setobj(next, ra + 1, Val(vm, R(I.b))), Val(vm, R(I.b)), RK(I.c), ra, R(I.b), 0))

Arithmetics ==
  /\ Running({"ADD", "SUB", "MUL", "MOD", "POW", "UNM"})
  /\ LET c == IF I.op = "UNM" THEN I.b ELSE I.c
     IN Do(Arith(next, ra, RK(I.b), Where(I.b), RK(c), Where(c), I.op))
Not == Running({"NOT"}) /\ Do(Setobj(next, ra, Bool(l_isfalse(Val(vm, R(I.b))))))
LenOf ==
  /\ Running({"LEN"})
  /\ LET v == Val(vm, R(I.b))
     IN Do(CASE v[1] = "table" -> Setobj(next, ra, Num(luaH_getn(vm, v[2])))
             [] v[1] = "str" -> Setobj(next, ra, Num(Len(v[2])))
             [] OTHER -> luaG_typeerror(next, v, R(I.b), "get length of"))
Concat == Running({"CONCAT"}) /\ Do(luaV_concat(next, I.c - I.b + 1, I.c))
Jmp == Running({"JMP"}) /\ Do(Goto(vm, L(vm).pc + 1 + I.b))

(* Comparisons with a tag method wait for it; negated: its result is. *)
Comparing(negated) ==
  [k |-> "compare", th |-> Cur(vm), ci |-> Len(L(vm).ci), negated |-> negated, cond |-> I.a = 1]
Eq ==
  /\ Running({"EQ"})
  /\ LET x == RK(I.b)
         y == RK(I.c)
         both == x[1] = "table" /\ y[1] = "table" /\ x # y
         tm == get_compTM(next, vm.tables[x[2]].meta, vm.tables[y[2]].meta)
     IN Do(IF both /\ tm.tm # NIL THEN callTM(tm.s, tm.tm, <<x, y>>, 1, Comparing(FALSE))
           ELSE Branch(IF both THEN tm.s ELSE next, (x = y) = (I.a = 1)))
Order ==
  /\ Running({"LT", "LE"})
  /\ LET x == RK(I.b)
         y == RK(I.c)
         own == OrderTM(vm, x, y, IF I.op = "LT" THEN "__lt" ELSE "__le")
         swapped == IF I.op = "LT" THEN NIL ELSE OrderTM(vm, y, x, "__lt")
         less == IF I.op = "LT" THEN lessthan(x, y) ELSE ~lessthan(y, x)
     IN Do(IF Comparable(x, y) THEN Branch(next, less = (I.a = 1))
           ELSE IF x[1] = y[1] /\ (own # NIL \/ swapped # NIL)
             THEN callTM(next, IF own # NIL THEN own ELSE swapped,
                         IF own # NIL THEN <<x, y>> ELSE <<y, x>>, 1, Comparing(own = NIL))
           ELSE luaG_ordererror(next, x, y))
Test == Running({"TEST"}) /\ Do(Branch(next, l_isfalse(Val(vm, ra)) # (I.c = 1)))
Testset ==
  /\ Running({"TESTSET"})
  /\ LET v == Val(vm, R(I.b))
         taken == l_isfalse(v) # (I.c = 1)
     IN Do(Branch(IF taken THEN Setobj(next, ra, v) ELSE next, taken))

(* The arguments end at the top, or where the instruction says. *)
Called == IF I.b # 0 THEN Top(next, ra + I.b) ELSE next
Call == Running({"CALL"}) /\ Do(luaD_precall(Called, ra, I.c - 1, TRUE))

(* A tail call of a Lua function takes the frame of its caller. *)
ReplaceFrame(s) ==
  LET cis == L(s).ci
      ci == cis[Len(cis) - 1]
      new == Last(cis)
      func == ci.func
      t == luaF_close(s, ci.base)
      moved == SetFrom(t, func, Slots(s, new.func, L(s).top))
      top == func + L(s).top - new.func
      kept == [ci EXCEPT !.base = func + new.base - new.func, !.top = top,
                         !.savedpc = L(s).pc, !.tailcalls = @ + 1]
  IN With(moved, [L(moved) EXCEPT !.ci = Append(SubSeq(cis, 1, Len(cis) - 2), kept),
                                  !.base = kept.base, !.top = top])
Tailcall ==
  /\ Running({"TAILCALL"})
  /\ \E s \in {luaD_precall(Called, ra, LUA_MULTRET, TRUE)} :
       LET lua == /\ s.out = <<>> /\ Last(s.C).k = "execute"
                  /\ Last(s.C).n > Last(vm.C).n /\ Len(s.C) = Len(vm.C)
       IN Do(IF lua THEN ReplaceFrame([s EXCEPT !.C[Len(s.C)].n = @ - 1]) ELSE s)

Return ==
  /\ Running({"RETURN"})
  /\ LET vals == Slots(vm, ra, IF I.b # 0 THEN ra + I.b - 1 ELSE L(vm).top)
         s == luaD_poscall(luaF_close(next, L(vm).base), vals)
         top == IF Ci(vm).nresults # LUA_MULTRET THEN Top(s, Ci(s).top) ELSE s
     IN Do(IF Last(vm.C).n > 1 THEN [top EXCEPT !.C[Len(vm.C)].n = @ - 1]
           ELSE IF Len(vm.C) = 1 THEN [PopC(s) EXCEPT !.out = <<"return", vals>>]
           ELSE PopC(s))

Forprep ==
  /\ Running({"FORPREP"})
  /\ LET x == [j \in 0..2 |-> ToNum(Val(vm, ra + j))]
         s == SetFrom(next, ra, <<Num(x[0][2] - x[2][2]), x[1], x[2]>>)
     IN Do(IF \E j \in 0..2 : x[j] = NIL THEN luaG_runerror(next, <<"for: must be a number">>)
           ELSE Goto(s, L(vm).pc + 1 + I.b))
Forloop ==
  /\ Running({"FORLOOP"})
  /\ LET step == Val(vm, ra + 2)[2]
         idx == Val(vm, ra)[2] + step
         limit == Val(vm, ra + 1)[2]
     IN Do(IF IF step > 0 THEN idx <= limit ELSE limit <= idx
             THEN Goto(Setobj(Setobj(vm, ra, Num(idx)), ra + 3, Num(idx)), L(vm).pc + 1 + I.b)
             ELSE next)
Tforloop ==
  /\ Running({"TFORLOOP"})
  /\ Do(luaD_call(Top(SetFrom(next, ra + 3, Slots(vm, ra, ra + 3)), ra + 6), ra + 3, I.c,
                  [k |-> "TFORLOOP", th |-> Cur(vm), ci |-> Len(L(vm).ci), cb |-> ra + 3]))

Setlist ==
  /\ Running({"SETLIST"})
  /\ LET n == IF I.b = 0 THEN L(vm).top - ra - 1 ELSE I.b
         word == I.c = 0    \* the count is the next word
         first == ((IF word THEN Code[L(vm).pc + 2].c ELSE I.c) - 1) * LFIELDS_PER_FLUSH
         after == Goto(vm, L(vm).pc + (IF word THEN 2 ELSE 1))
         s == IF I.b = 0 THEN Top(after, Ci(vm).top) ELSE after
     IN Do(StoreFrom(s, Val(vm, ra)[2], first + 1, Slots(vm, ra + 1, ra + 1 + n)))
Close == Running({"CLOSE"}) /\ Do(luaF_close(next, ra))

(* The pseudo-instructions after it say where its upvalues are. *)
Closure ==
  /\ Running({"CLOSURE"})
  /\ LET p == ProtoOf(vm, Cl(vm)).p[I.b + 1]
         up == [j \in 1..p.nups |-> Code[L(vm).pc + 1 + j]]
         all == luaF_findupvals(vm, {R(up[j].b) : j \in {j \in DOMAIN up : up[j].op = "MOVE"}})
         us == [j \in 1..p.nups |-> IF up[j].op = "MOVE" THEN OpenOf(all, R(up[j].b)) ELSE UpvalOf(up[j].b)]
         new == [path |-> Append(vm.funs[Cl(vm)].path, I.b), upvals |-> us]
         s == [all EXCEPT !.funs = Append(@, new)]
     IN Do(Goto(Setobj(s, ra, <<"fun", Len(s.funs)>>), L(vm).pc + 1 + p.nups))

Vararg ==
  /\ Running({"VARARG"})
  /\ LET n == Ci(vm).base - Ci(vm).func - ProtoOf(vm, Cl(vm)).numparams - 1
         given == Slots(vm, R(0) - n, R(0))
         b == I.b - 1
     IN Do(IF b = LUA_MULTRET THEN Top(SetFrom(next, ra, given), ra + n)
           ELSE SetFrom(next, ra, SubSeq(given \o Nils(b), 1, b)))

-----------------------------------------------------------------------------
(* The function called from C has returned.                                  *)
Wait == Last(vm.C)
Result == Val(vm, L(vm).top - 1)
Popped == PopC(Top(vm, L(vm).top - 1))

TMres == On("TMres") /\ Do(Setobj(Popped, Wait.res, Result))
TM == On("TM") /\ Do(PopC(vm))
Compared ==
  On("compare") /\ Do(Branch(Popped, (l_isfalse(Result) = Wait.negated) = Wait.cond))
Concatenated ==
  On("concat") /\ Do(luaV_concat(Setobj(Popped, Wait.res, Result), Wait.total, Wait.last))
Got == On("gettable") /\ Do(luaV_gettable(PopC(vm), Wait.t, Wait.key, Wait.res, -1, Wait.loop))
Set == On("settable") /\ Do(luaV_settable(PopC(vm), Wait.t, Wait.key, Wait.val, -1, Wait.loop))
Iterated ==
  /\ On("TFORLOOP")
  /\ LET s == Top(PopC(vm), Ci(vm).top)
         v == Val(vm, Wait.cb)
     IN Do(Branch(IF v = NIL THEN s ELSE Setobj(s, Wait.cb - 1, v), v # NIL))
Pcalled ==
  /\ On("pcall")
  /\ Do(Finish(PopC(vm), <<Bool(TRUE)>> \o Slots(vm, L(vm).base, L(vm).top)))
Foreached ==
  /\ On("foreach")
  /\ Do(IF Result # NIL THEN Finish(Popped, <<Result>>) ELSE foreach(Popped, Wait))
Foreachied ==
  /\ On("foreachi")
  /\ Do(IF Result # NIL THEN Finish(Popped, <<Result>>) ELSE foreachi(Popped, [Wait EXCEPT !.i = @ + 1]))
Sorting ==
  /\ On("sort")
  /\ LET n == IF Wait.called THEN Sifted(Popped, Wait, ~l_isfalse(Result))
              ELSE Sifted(PopC(vm), Wait, lessthan(Wait.x, Wait.y))
     IN Do(auxsort(n.s, n.c))
Substituted ==
  /\ On("gsub")
  /\ Do(IF Wait.called THEN str_gsub(Popped, GsubAnswered(Wait.g, Result)) ELSE str_gsub(PopC(vm), Wait.g))
(* The coroutine has ended; its results go to the thread that resumed it. *)
Resumed ==
  /\ On("resume")
  /\ LET co == vm.threads[Wait.co]
         vals == SubSeq(co.stack, co.base + 1, co.top)
     IN Do(Finish([PopC(vm) EXCEPT !.threads[Wait.co].top = co.base],
                  (IF Wait.wrap THEN <<>> ELSE <<Bool(TRUE)>>) \o vals))

Done == vm.out # <<>> /\ UNCHANGED vars

Step ==
  \/ Move \/ Loadk \/ Loadbool \/ Loadnil \/ Getupval \/ Setupval \/ Getglobal \/ Setglobal
  \/ Gettable \/ Settable \/ Newtable \/ Self \/ Arithmetics \/ Not \/ LenOf \/ Concat \/ Jmp
  \/ Eq \/ Order \/ Test \/ Testset \/ Call \/ Tailcall \/ Return \/ Forprep \/ Forloop
  \/ Tforloop \/ Setlist \/ Close \/ Closure \/ Vararg
  \/ Cfunction \/ TMres \/ TM \/ Compared \/ Concatenated \/ Got \/ Set \/ Iterated \/ Pcalled \/ Resumed
  \/ Foreached \/ Foreachied \/ Sorting \/ Substituted
Next == Load \/ Start \/ Step \/ Done

(* The interpreter goes on while it can: WF_vars(Step), of which Runs is the *)
(* ENABLED.  A jump to itself changes nothing.                               *)
Runs == vm.C # <<>> /\ vm.out = <<>> /\ (On("execute") => I.op # "JMP" \/ I.b # -1)
Spec == Init /\ [][Next]_vars /\ ([]<>~Runs \/ []<><<TRUE>>_vm)

-----------------------------------------------------------------------------
(* At every instruction the frame is that of the CallInfo, and the top is    *)
(* the frame's, except where the instruction takes what is below the top     *)
(* (asserted in lvm.c:398-400).                                              *)
InFrame ==
  On("execute") =>
    /\ L(vm).base = Ci(vm).base
    /\ L(vm).base <= L(vm).top
    /\ L(vm).top = Ci(vm).top \/ luaG_checkopenop(I)

(* No slot of a thread has two open upvalues: the closures that capture a    *)
(* variable share it (luaF_findupval).                                       *)
OneUpvalue ==
  \A u, w \in DOMAIN vm.upvals :
    LET x == vm.upvals[u]
        y == vm.upvals[w]
    IN x.open /\ y.open /\ x.th = y.th /\ x.i = y.i => u = w

(* An open upvalue is a slot in the frame of a function that has not         *)
(* returned, whichever way functions were left; no slot has two.             *)
UpvaluesOpen ==
  /\ OneUpvalue
  /\ \A u \in DOMAIN vm.upvals : vm.upvals[u].open =>
       LET x == vm.upvals[u]
           l == vm.threads[x.th]
       IN \E j \in 2..Len(l.ci) : l.ci[j].base <= x.i /\ x.i < l.ci[j].top

(* "1<<p means tagmethod(p) is not present" (lobject.h:341), except in a     *)
(* table that is its own metatable: luaV_settable resets its flags before it *)
(* looks for __newindex, which sets one again before the value is stored.    *)
FlagsTrue ==
  \A h \in DOMAIN vm.tables : \A e \in vm.tables[h].flags :
    luaH_get(vm, h, Str(<<e>>)) = NIL \/ (e = "__newindex" /\ h \in selfmeta)

(* A coroutine is resumed by one thread at a time: those that wait for each  *)
(* other are a chain from the main thread to the one that runs.              *)
ResumedOnce ==
  LET Below(i) == {j \in 1..i - 1 : vm.C[j].k = "resume"}
  IN \A i \in DOMAIN vm.C :
       /\ IF Below(i) = {} THEN vm.C[i].th = 1
          ELSE \E j \in Below(i) : vm.C[i].th = vm.C[j].co /\ \A m \in Below(i) : m <= j
       /\ vm.C[i].k = "resume" => \A j \in Below(i) : vm.C[j].co # vm.C[i].co

(* A program that was started ends: the limits of nested calls, of calls     *)
(* made from C and of chains of tag methods stop what would not.             *)
Ends == vm.C # <<>> ~> vm.out # <<>>
=============================================================================
