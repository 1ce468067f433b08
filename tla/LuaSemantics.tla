----------------------------- MODULE LuaSemantics -----------------------------
(* What a program of the embedded Lua means: an evaluator of its text, as    *)
(* the parser's module has it, with environments and a store in the place of *)
(* registers, jumps and stacks.  The compiler and the virtual machine are    *)
(* checked against it.                                                       *)
(*   s    the store: cells (variables), tables and funs (closures), and      *)
(*        calls, the functions that are active: in Lua or in C, leaving (it  *)
(*        has come to a tail call) or lost (that tail call took its place);  *)
(*   c    the context of a function's text: env (the cell of each name, and  *)
(*        the function it belongs to), va (the values of '...'), level (how  *)
(*        deep the function is nested) and tail (the call is a tail call).   *)
(* An evaluation gives [s, vs, err]: the values, or the error in err.        *)
EXTENDS LuaValues, FiniteSetsExt, Steps

CONSTANT LUA_MAXCAPTURES
P == INSTANCE PatternMeaning

Ok(s, vs) == [s |-> s, vs |-> vs, err |-> <<>>]
Err(s, v) == [s |-> s, vs |-> <<>>, err |-> <<v>>]
One(r) == IF r.vs = <<>> THEN NIL ELSE r.vs[1]
Then(r, k(_)) == IF r.err # <<>> THEN r ELSE k(r)
Pad(vs, n) == SubSeq(vs \o [i \in 1..n |-> NIL], 1, n)

(* Where the function at a level of the active ones is: known for Lua only.  *)
Prefix(s, level) ==
  LET i == Len(s.calls) - level
  IN IF i >= 1 /\ s.calls[i] \in {"Lua", "leaving"} THEN Position ELSE <<>>
Raised(s, level, words) == Err(s, Str(Prefix(s, level) \o words))
Runtime(s, words) == Raised(s, 0, words)
Message(s, words) == Raised(s, 1, words)
Attempt(s, op, v, name) == Runtime(s, <<"attempt to", op, TypeName[v[1]], name>>)
Calling(s, kind) == [s EXCEPT !.calls = Append(@, kind)]
Marked(s, mark) == [s EXCEPT !.calls = Append(Front(@), mark)]
Back(r, s) == [r EXCEPT !.s.calls = s.calls]

Get(s, t, k) == IF k \in DOMAIN s.tables[t].map THEN s.tables[t].map[k] ELSE NIL
Put(s, t, k, v) == [s EXCEPT !.tables[t].map = (k :> v) @@ @,
                             !.tables[t].keys = IF k \in Range(@) THEN @ ELSE Append(@, k)]
NewObject(s) ==
  [s EXCEPT !.tables = Append(@, [map |-> NIL :> NIL, keys |-> <<>>, meta |-> 0])]
Border(s, t) ==
  CHOOSE n \in 0..Len(s.tables[t].keys) :
    (n > 0 => Get(s, t, Num(n)) # NIL) /\ Get(s, t, Num(n + 1)) = NIL
Meta(s, v, e) ==
  IF v[1] = "str" THEN Get(s, 5, Str(<<e>>))
  ELSE IF v[1] = "table" /\ s.tables[v[2]].meta # 0 THEN Get(s, s.tables[v[2]].meta, Str(<<e>>)) ELSE NIL
Either(s, x, y, e) == IF Meta(s, x, e) # NIL THEN Meta(s, x, e) ELSE Meta(s, y, e)
Same(s, x, y, e) == IF Meta(s, x, e) = Meta(s, y, e) THEN Meta(s, x, e) ELSE NIL

(* New variables, with their values. *)
Declare(s, c, names, vs) ==
  [s |-> [s EXCEPT !.cells = @ \o Pad(vs, Len(names))],
   c |-> [c EXCEPT !.env = FoldLeft(LAMBDA e, i : (names[i] :> <<Len(s.cells) + i, c.level>>) @@ e,
                                    @, [i \in DOMAIN names |-> i])]]

-----------------------------------------------------------------------------
(* Expressions.  The tokens are split at the operator that binds least: the  *)
(* last one, or the first one where the operator is right associative.       *)
Levels == <<{"or"}, {"and"}, {"<", ">", "<=", ">=", "~=", "=="}, {".."}, {"+", "-"}, {"*", "%"}>>
Binary(ts, ops) == {i \in 2..Len(ts) : ts[i].o \in ops /\ ts[i - 1].o = ""}
Lowest(ts) == {l \in DOMAIN Levels : Binary(ts, Levels[l]) # {}}
SplitAt(ts) ==     \* 0: there is no such operator
  LET l == CHOOSE l \in Lowest(ts) : \A m \in Lowest(ts) : l <= m
      at == Binary(ts, IF Lowest(ts) = {} THEN {"^"} ELSE Levels[l])
  IN IF at = {} \/ (Lowest(ts) = {} /\ ts[1].o # "") THEN 0
     ELSE IF Lowest(ts) = {} \/ Levels[l] = {".."}
       THEN CHOOSE i \in at : \A j \in at : i <= j
       ELSE CHOOSE i \in at : \A j \in at : j <= i

(* How a message names the value of an expression. *)
NameIn(c, n) ==
  IF n \notin DOMAIN c.env THEN <<"global", n>>
  ELSE IF c.env[n][2] = c.level THEN <<"local", n>> ELSE <<"upvalue", n>>
NameOfExp(c, ts) ==
  LET p == ts[1].s
      x == Last(p.suffixes)
  IN CASE Len(ts) # 1 \/ p.k # "primary" -> <<>>
       [] Len(ts) = 1 /\ p.k = "primary" /\ p.suffixes = <<>> ->
            IF p.base.k = "name" THEN NameIn(c, p.base.n) ELSE <<>>
       [] OTHER ->
            CASE x.k = "." -> <<"field", x.name>>
              [] x.k = "[]" -> <<"field", IF Len(x.e) = 1 /\ x.e[1].s.k = "str" THEN x.e[1].s.v
                                          ELSE <<"?">>>>
              [] OTHER -> <<>>

RECURSIVE Eval(_, _, _), EvalList(_, _, _), Simple(_, _, _), Primary(_, _, _), Args(_, _, _),
          Apply(_, _, _, _), Index(_, _, _, _), SetIndex(_, _, _, _, _), Builtin(_, _, _), Iterator(_, _),
          Operate(_, _, _, _, _, _), Exec(_, _, _), Block(_, _, _), While(_, _, _), Repeat(_, _, _),
          For(_, _, _, _, _, _), Iterate(_, _, _, _, _, _), Fields(_, _, _, _, _), Store(_, _, _, _)

Single(s, c, ts) == LET r == Eval(s, c, ts) IN IF r.err # <<>> THEN r ELSE Ok(r.s, <<One(r)>>)

Eval(s, c, ts) ==
  LET at == SplitAt(ts)
      op == ts[at].o
      right == SubSeq(ts, at + 1, Len(ts))
      left == Single(s, c, SubSeq(ts, 1, at - 1))
  IN IF at = 0 /\ ts[1].o # ""
       THEN Then(Single(s, c, Tail(ts)), LAMBDA r :
              Operate(r.s, IF ts[1].o = "-" THEN "neg" ELSE ts[1].o, One(r), One(r),
                      NameOfExp(c, Tail(ts)), NameOfExp(c, Tail(ts))))
     ELSE IF at = 0 THEN Simple(s, c, ts[1].s)
     ELSE Then(left, LAMBDA l :
            IF op \in {"and", "or"}
              THEN IF l_isfalse(One(l)) = (op = "and") THEN l ELSE Single(l.s, c, right)
              ELSE Then(Single(l.s, c, right), LAMBDA r :
                     Operate(r.s, op, One(l), One(r), NameOfExp(c, SubSeq(ts, 1, at - 1)),
                             NameOfExp(c, right))))

Arithmetic1 ==
  ("+" :> <<"ADD", "__add">>) @@ ("-" :> <<"SUB", "__sub">>) @@ ("*" :> <<"MUL", "__mul">>) @@
  ("%" :> <<"MOD", "__mod">>) @@ ("^" :> <<"POW", "__pow">>) @@ ("neg" :> <<"UNM", "__unm">>)

First(r) == Then(r, LAMBDA q : Ok(q.s, <<One(q)>>))
Truth(r, want) == Then(r, LAMBDA q : Ok(q.s, <<Bool(l_isfalse(One(q)) # want)>>))
Operate(s, op, x, y, nx, ny) ==
  LET arith == Arithmetic1[op]
      misfit == IF ToNum(x) = NIL THEN Attempt(s, "perform arithmetic on", x, nx)
                ELSE Attempt(s, "perform arithmetic on", y, ny)
      tables == x[1] = "table" /\ y[1] = "table" /\ x # y
      eq == Same(s, x, y, "__eq")
      less == IF op = "<" THEN lessthan(x, y) ELSE ~lessthan(y, x)
      own == Same(s, x, y, IF op = "<" THEN "__lt" ELSE "__le")
      other == IF op = "<" THEN NIL ELSE Same(s, y, x, "__lt")
  IN CASE op = "not" -> Ok(s, <<Bool(l_isfalse(x))>>)
       [] op = "#" -> CASE x[1] = "str" -> Ok(s, <<Num(Len(x[2]))>>)
                        [] x[1] = "table" -> Ok(s, <<Num(Border(s, x[2]))>>)
                        [] OTHER -> Attempt(s, "get length of", x, nx)
       [] op \in {">", ">="} -> Operate(s, IF op = ">" THEN "<" ELSE "<=", y, x, ny, nx)
       [] op \in {"<", "<="} ->
            IF Comparable(x, y) THEN Ok(s, <<Bool(less)>>)
            ELSE IF x[1] = y[1] /\ own # NIL THEN Truth(Apply(s, own, <<x, y>>, <<>>), TRUE)
            ELSE IF x[1] = y[1] /\ other # NIL THEN Truth(Apply(s, other, <<y, x>>, <<>>), FALSE)
            ELSE Runtime(s, <<"attempt to", "compare", TypeName[x[1]], TypeName[y[1]]>>)
       [] op \in {"==", "~="} ->
            IF tables /\ eq # NIL THEN Truth(Apply(s, eq, <<x, y>>, <<>>), op = "==")
            ELSE Ok(s, <<Bool((x = y) = (op = "=="))>>)
       [] op = ".." ->
            IF IsStr(x) /\ IsStr(y) THEN Ok(s, <<Str(ToStr(x)[2] \o ToStr(y)[2])>>)
            ELSE IF Either(s, x, y, "__concat") # NIL
              THEN First(Apply(s, Either(s, x, y, "__concat"), <<x, y>>, <<>>))
            ELSE IF IsStr(x) THEN Attempt(s, "concatenate", y, ny)
            ELSE Attempt(s, "concatenate", x, nx)
       [] OTHER ->
            IF ToNum(x) # NIL /\ ToNum(y) # NIL
              THEN Ok(s, <<Num(Calc(arith[1], ToNum(x)[2], ToNum(y)[2]))>>)
            ELSE IF Either(s, x, y, arith[2]) # NIL
              THEN First(Apply(s, Either(s, x, y, arith[2]), <<x, y>>, <<>>))
            ELSE misfit

(* A list of expressions: all values of the last one. *)
EvalList(s, c, es) ==
  IF es = <<>> THEN Ok(s, <<>>)
  ELSE Fold(LAMBDA r, i :
         Then(r, LAMBDA q :
           LET v == IF i = Len(es) THEN Eval(q.s, c, es[i]) ELSE Single(q.s, c, es[i])
           IN Then(v, LAMBDA w : Ok(w.s, q.vs \o w.vs))),
         Ok(s, <<>>), [i \in DOMAIN es |-> i])

Function(s, c, f, self) ==
  [s EXCEPT !.funs = Append(@, [f |-> f, env |-> c.env, level |-> c.level + 1, self |-> self])]

Simple(s, c, x) ==
  CASE x.k = "num" -> Ok(s, <<Num(x.n)>>)
    [] x.k = "str" -> Ok(s, <<Str(x.v)>>)
    [] x.k = "nil" -> Ok(s, <<NIL>>)
    [] x.k \in {"true", "false"} -> Ok(s, <<Bool(x.k = "true")>>)
    [] x.k = "..." -> Ok(s, c.va)
    [] x.k = "function" -> Ok(Function(s, c, x, FALSE), <<<<"fun", Len(s.funs) + 1>>>>)
    [] x.k = "table" -> Fields(NewObject(s), c, Len(s.tables) + 1, x.fields, 0)
    [] OTHER -> Primary(s, c, x)

(* n: the items so far. *)
Fields(s, c, t, fields, n) ==
  LET x == fields[1]
      set(r, i) == [r EXCEPT !.s = Put(@, t, Num(n + i), r.vs[i])]
      item == IF Len(fields) = 1 THEN Eval(s, c, x.e) ELSE Single(s, c, x.e)
      key == IF x.k = "." THEN Ok(s, <<Str(x.name)>>) ELSE Single(s, c, x.key)
  IN IF fields = <<>> THEN Ok(s, <<<<"table", t>>>>)
     ELSE IF x.k = "item"
       THEN Then(item, LAMBDA r :
              Fields(FoldLeft(set, r, [i \in DOMAIN r.vs |-> i]).s, c, t, Tail(fields),
                     n + Len(r.vs)))
     ELSE Then(key, LAMBDA k :
            Then(Single(k.s, c, x.e), LAMBDA v :
              IF One(k) = NIL THEN Runtime(v.s, <<"table index is nil">>)
              ELSE Fields(Put(v.s, t, One(k), One(v)), c, t, Tail(fields), n)))

(* v[k]; name: of v, for the message. *)
Index(s, v, k, name) ==
  LET m == Meta(s, v, "__index")
  IN IF v[1] = "table" /\ (Get(s, v[2], k) # NIL \/ m = NIL) THEN Ok(s, <<Get(s, v[2], k)>>)
     ELSE IF m = NIL THEN Attempt(s, "index", v, name)
     ELSE IF ttisfunction(m) THEN First(Apply(s, m, <<v, k>>, <<>>))
     ELSE Index(s, m, k, <<>>)

SetIndex(s, v, k, x, name) ==
  LET m == Meta(s, v, "__newindex")
  IN IF v[1] = "table" /\ k = NIL THEN Runtime(s, <<"table index is nil">>)
     ELSE IF v[1] = "table" /\ (Get(s, v[2], k) # NIL \/ m = NIL) THEN Ok(Put(s, v[2], k, x), <<>>)
     ELSE IF m = NIL THEN Attempt(s, "index", v, name)
     ELSE IF ttisfunction(m) THEN Apply(s, m, <<v, k, x>>, <<>>)
     ELSE SetIndex(s, m, k, x, <<>>)

Variable(s, c, n) ==
  IF n \in DOMAIN c.env THEN Ok(s, <<s.cells[c.env[n][1]]>>)
  ELSE Index(s, <<"table", 1>>, Str(n), <<>>)

Args(s, c, a) == IF a.k = "list" THEN EvalList(s, c, a.es) ELSE Simple(s, c, a)

Primary(s, c, p) ==
  LET n == Len(p.suffixes)
      x == p.suffixes[n]
      before == [p EXCEPT !.suffixes = Front(@)]
      name == NameOfExp(c, <<[o |-> "", s |-> before]>>)
      d == [c EXCEPT !.tail = FALSE]
      base == Then(Primary(s, d, before), LAMBDA r : Ok(r.s, <<One(r)>>))
      left(t) == IF c.tail THEN Marked(t, "leaving") ELSE t
  IN IF n = 0 THEN IF p.base.k = "name" THEN Variable(s, c, p.base.n) ELSE Single(s, c, p.base.e)
     ELSE CASE x.k = "." -> Then(base, LAMBDA r : Index(r.s, One(r), Str(x.name), name))
            [] x.k = "[]" -> Then(base, LAMBDA r :
                 Then(Single(r.s, d, x.e), LAMBDA k : Index(k.s, One(r), One(k), name)))
            [] x.k = "call" -> Then(base, LAMBDA f :
                 Then(Args(f.s, d, x.args), LAMBDA a : Apply(left(a.s), One(f), a.vs, name)))
            [] x.k = ":" -> Then(base, LAMBDA o :
                 Then(Index(o.s, One(o), Str(x.name), name), LAMBDA f :
                   Then(Args(f.s, d, x.args), LAMBDA a :
                     Apply(left(a.s), One(f), <<One(o)>> \o a.vs, <<"method", x.name>>))))

(* The call of a value; name: of the function, for the message.  A function  *)
(* in Lua takes the place of one that comes to a tail call; one in C does    *)
(* not.                                                                      *)
Apply(s, f, args, name) ==
  LET x == s.funs[f[2]]
      params == (IF x.self THEN <<<<"self">>>> ELSE <<>>) \o x.f.params
      extra == SubSeq(args, Len(params) + 1, Len(args))
      tab == Put(FoldLeft(LAMBDA t, i : Put(t, Len(t.tables), Num(i), extra[i]), NewObject(s),
                          [i \in DOMAIN extra |-> i]),
                 Len(s.tables) + 1, Str(<<"n">>), Num(Len(extra)))
      arg == x.f.dots /\ ~x.f.uses
      c == [env |-> x.env, va |-> IF x.f.dots THEN extra ELSE <<>>, level |-> x.level, tail |-> FALSE]
      leaving == Last(s.calls) = "leaving"
      in == Calling(IF leaving THEN Marked(s, "lost") ELSE s, "Lua")
      out == Calling(IF leaving THEN Marked(s, "Lua") ELSE s, "C")
      d == Declare(IF arg THEN tab ELSE s, c, IF x.f.dots THEN Append(params, <<"arg">>) ELSE params,
                   IF arg THEN Append(Pad(args, Len(params)), <<"table", Len(s.tables) + 1>>)
                   ELSE Pad(args, Len(params)))
      r == Back(Block([d.s EXCEPT !.calls = in.calls], d.c, x.f.body), s)
  IN IF f[1] = "cfun"
       THEN Back(IF f[2] = "gmatch_aux" THEN Iterator(out, f[3]) ELSE Builtin(out, f[2], args), s)
     ELSE IF f[1] = "fun"
       THEN CASE r.flow = <<>> -> Ok(r.s, <<>>)
              [] r.flow # <<>> /\ r.flow[1] = "return" -> Ok(r.s, r.flow[2])
              [] OTHER -> Err(r.s, r.flow[2])
     ELSE IF ttisfunction(Meta(s, f, "__call"))
       THEN Apply(s, Meta(s, f, "__call"), <<f>> \o args, <<>>)
     ELSE Attempt(s, "call", f, name)

NextOf(s, t, k) ==
  LET ks == s.tables[t].keys
      at == IF k = NIL THEN 0 ELSE CHOOSE i \in DOMAIN ks : ks[i] = k
      later == {i \in at + 1..Len(ks) : Get(s, t, ks[i]) # NIL}
      i == CHOOSE i \in later : \A j \in later : i <= j
  IN IF later = {} THEN <<NIL>> ELSE <<ks[i], Get(s, t, ks[i])>>

-----------------------------------------------------------------------------
(* The string and table libraries.  What a function takes: tables, strings,  *)
(* integers, functions, replacements, and in capitals what may be missing.   *)
Takes ==
  [f \in {"len", "reverse", "lower", "upper"} |-> <<"s">>] @@ [f \in {"find", "match"} |-> <<"s", "s", "I">>]
  @@ ("sub" :> <<"s", "i", "I">>) @@ ("rep" :> <<"s", "i">>) @@ ("byte" :> <<"s", "I", "I">>)
  @@ ("gmatch" :> <<"s", "s">>) @@ ("gsub" :> <<"s", "s", "r", "I">>) @@ ("sort" :> <<"t", "F">>)
  @@ [f \in {"getn", "maxn", "insert", "setn"} |-> <<"t">>] @@ ("remove" :> <<"t", "I">>)
  @@ [f \in {"foreach", "foreachi"} |-> <<"t", "f">>] @@ ("concat" :> <<"t", "S", "I", "I">>) @@ ("char" :> <<>>)
Fits(kind, v) ==
  CASE kind = "t" -> v[1] = "table"
    [] kind \in {"s", "S"} -> IsStr(v) \/ (kind = "S" /\ v = NIL)
    [] kind \in {"i", "I"} -> ToNum(v) # NIL \/ (kind = "I" /\ v = NIL)
    [] kind \in {"f", "F"} -> ttisfunction(v) \/ (kind = "F" /\ v = NIL)
    [] kind = "r" -> IsStr(v) \/ ttisfunction(v) \/ v[1] = "table"
RECURSIVE Library1(_, _, _), Each(_, _, _, _), EachI(_, _, _, _, _), Insertion(_, _, _, _), Subst(_, _, _, _, _)
Elements(s, t, from, to) == IF to < from THEN <<>> ELSE [i \in 1..to - from + 1 |-> Get(s, t, Num(from + i - 1))]
(* Positions from..to of a table get these values. *)
PutAll(s, t, from, vs) == FoldLeft(LAMBDA q, i : Put(q, t, Num(from + i - 1), vs[i]), s, [i \in DOMAIN vs |-> i])

Each(s, t, f, key) ==
  LET kv == NextOf(s, t, key)
  IN IF kv = <<NIL>> THEN Ok(s, <<>>)
     ELSE Then(Apply(s, f, kv, <<>>), LAMBDA r :
            IF One(r) # NIL THEN Ok(r.s, <<One(r)>>) ELSE Each(r.s, t, f, kv[1]))
EachI(s, t, f, i, n) ==
  IF i > n THEN Ok(s, <<>>)
  ELSE Then(Apply(s, f, <<Num(i), Get(s, t, Num(i))>>, <<>>), LAMBDA r :
         IF One(r) # NIL THEN Ok(r.s, <<One(r)>>) ELSE EachI(r.s, t, f, i + 1, n))

(* The list with v before the first element that it is less than. *)
Less(s, f, x, y) == IF f = NIL THEN Operate(s, "<", x, y, <<>>, <<>>) ELSE Apply(s, f, <<x, y>>, <<>>)
Insertion(s, f, v, list) ==
  IF list = <<>> THEN Ok(s, <<v>>)
  ELSE Then(Less(s, f, v, Head(list)), LAMBDA r :
         IF ~l_isfalse(One(r)) THEN Ok(r.s, <<v>> \o list)
         ELSE Then(Insertion(r.s, f, v, Tail(list)), LAMBDA q : Ok(q.s, <<Head(list)>> \o q.vs)))
Sorted(s, f, list) ==
  FoldLeft(LAMBDA r, v : Then(r, LAMBDA q : Insertion(q.s, f, v, q.vs)), Ok(s, <<>>), list)

(* The matches ms replaced, after the text out; at: where it goes on. *)
Subst(s, a, ms, at, out) ==
  LET src == TextOf(a[1])
      m == Head(ms)
      caps == P!Captures(m, src, TRUE)
      new == P!Template(m, src, TextOf(a[3]))
      key == P!Captures([m EXCEPT !.caps = IF @ = <<>> THEN @ ELSE <<Head(@)>>], src, TRUE)
      over == out \o P!Between(src, at, m.from)
      own == P!Between(src, m.from, m.s)
      with(r) == Then(r, LAMBDA q :
        IF ~l_isfalse(One(q)) /\ ~IsStr(One(q)) THEN Message(q.s, <<"invalid replacement value">>)
        ELSE Subst(q.s, a, Tail(ms), m.s, over \o IF l_isfalse(One(q)) THEN own ELSE TextOf(One(q))))
  IN CASE ms = <<>> -> Ok(s, <<Str(out \o SubSeq(src, at, Len(src)))>>)
       [] ms # <<>> /\ m.err # "" -> Message(s, <<m.err>>)
       [] ms # <<>> /\ m.err = "" /\ IsStr(a[3]) ->
            IF new.err # <<>> THEN Message(s, new.err) ELSE Subst(s, a, Tail(ms), m.s, over \o new.text)
       [] ms # <<>> /\ m.err = "" /\ a[3][1] = "table" ->
            IF key.err # <<>> THEN Message(s, key.err) ELSE with(Ok(s, <<Get(s, a[3][2], key.vs[1])>>))
       [] OTHER -> IF caps.err # <<>> THEN Message(s, caps.err) ELSE with(Apply(s, a[3], caps.vs, <<>>))

Library1(s, f, args) ==
  LET a == args \o Pad(<<>>, 4)
      t == a[1][2]
      str == TextOf(a[1])
      len == Len(str)
      int(v, default) == IF v = NIL THEN default ELSE ToNum(v)[2]
      place(n) == IF n < 0 THEN len + 1 + n ELSE n
      slice(i, j) == SelectSeq([p \in 1..len |-> IF place(i) <= p /\ p <= place(j) THEN str[p] ELSE "out"],
                               LAMBDA c : c # "out")
      bytes == slice(int(a[2], 1), int(a[3], int(a[2], 1)))
      n == Border(s, t)
      pos == int(a[2], n)
      fields == Elements(s, t, int(a[3], 1), int(a[4], n))
      joined == FoldLeft(LAMBDA all, i : all \o (IF i = 1 \/ a[2] = NIL THEN <<>> ELSE TextOf(a[2])) \o TextOf(fields[i]),
                         <<>>, [i \in DOMAIN fields |-> i])
      from == CHOOSE i \in 1..len + 1 :    \* the nearest to the place named
                \A j \in 1..len + 1 : (place(int(a[3], 1)) - i) * (place(int(a[3], 1)) - i)
                                      <= (place(int(a[3], 1)) - j) * (place(int(a[3], 1)) - j)
      pat == TextOf(a[2])
      literal == \A c \in Range(pat) : c \notin {"^", "$", "*", "+", "?", ".", "(", "[", "%", "-"}
      ms == P!MatchesOf(pat, str, from, 1)
      caps == P!Captures(ms[1], str, f = "match")
      places == {i \in from..len + 1 - Len(pat) : P!Between(str, i, i + Len(pat)) = pat}
      most == int(a[4], len + 1)
      repl == P!MatchesOf(pat, str, 1, most)
  IN CASE f = "len" -> Ok(s, <<Num(len)>>)
       [] f = "sub" -> Ok(s, <<Str(slice(int(a[2], 1), int(a[3], -1)))>>)
       [] f = "byte" -> Ok(s, [i \in DOMAIN bytes |-> Num(uchar(bytes[i]))])
       [] f = "char" ->
            IF \E i \in DOMAIN args : ToNum(args[i]) = NIL \/ ToNum(args[i])[2] \notin 0..255
              THEN Message(s, <<"bad argument">>)
            ELSE Ok(s, <<Str([i \in DOMAIN args |-> char(ToNum(args[i])[2])])>>)
       [] f = "reverse" -> Ok(s, <<Str(Reverse(str))>>)
       [] f = "lower" -> Ok(s, <<Str([i \in 1..len |-> tolower(str[i])])>>)
       [] f = "upper" -> Ok(s, <<Str([i \in 1..len |-> toupper(str[i])])>>)
       [] f = "rep" -> Ok(s, <<Str(FoldLeft(LAMBDA r, i : r \o str, <<>>, [i \in 1..int(a[2], 1) |-> i]))>>)
       [] f = "find" /\ (literal \/ ~l_isfalse(a[4])) ->
            Ok(s, IF places = {} THEN <<NIL>> ELSE <<Num(Min(places)), Num(Min(places) + Len(pat) - 1)>>)
       [] f \in {"find", "match"} /\ ~(f = "find" /\ (literal \/ ~l_isfalse(a[4]))) ->
            CASE ms = <<>> -> Ok(s, <<NIL>>)
              [] ms # <<>> /\ ms[1].err # "" -> Message(s, <<ms[1].err>>)
              [] OTHER -> IF caps.err # <<>> THEN Message(s, caps.err)
                          ELSE Ok(s, (IF f = "find" THEN <<Num(ms[1].from), Num(ms[1].s - 1)>> ELSE <<>>) \o caps.vs)
       [] f = "gmatch" ->
            Ok([s EXCEPT !.iters = Append(@, [src |-> str, ms |-> P!Matches(P!Parts(pat), str, 1, FALSE, len + 2)])],
               <<<<"cfun", "gmatch_aux", Len(s.iters) + 1>>>>)
       [] f = "gsub" -> Then(Subst(s, a, repl, 1, <<>>), LAMBDA r : Ok(r.s, <<One(r), Num(Len(repl))>>))
       [] f = "getn" -> Ok(s, <<Num(n)>>)
       [] f = "maxn" -> Ok(s, <<Num(Max({0} \cup {k[2] : k \in {k \in Range(s.tables[t].keys) :
                                                   k[1] = "num" /\ Get(s, t, k) # NIL}}))>>)
       [] f = "setn" -> Message(s, <<"setn is obsolete">>)
       [] f = "insert" /\ Len(args) = 2 -> Ok(Put(s, t, Num(n + 1), a[2]), <<>>)
       [] f = "insert" /\ Len(args) # 2 ->
            CASE Len(args) # 3 -> Message(s, <<"wrong number of arguments to insert">>)
              [] Len(args) = 3 /\ ToNum(a[2]) = NIL -> Message(s, <<"bad argument">>)
              [] OTHER -> Ok(PutAll(s, t, pos, <<a[3]>> \o Elements(s, t, pos, n)), <<>>)
       [] f = "remove" ->
            IF pos < 1 \/ pos > n THEN Ok(s, <<>>)
            ELSE Ok(PutAll(s, t, pos, Elements(s, t, pos + 1, n) \o <<NIL>>), <<Get(s, t, Num(pos))>>)
       [] f = "concat" ->
            IF \E i \in DOMAIN fields : ~IsStr(fields[i]) THEN Message(s, <<"invalid value in table for concat">>)
            ELSE Ok(s, <<Str(joined)>>)
       [] f = "foreach" -> Each(s, t, a[2], NIL)
       [] f = "foreachi" -> EachI(s, t, a[2], 1, n)
       [] f = "sort" -> Then(Sorted(s, a[2], Elements(s, t, 1, n)), LAMBDA r : Ok(PutAll(r.s, t, 1, r.vs), <<>>))

(* The next match of an iterator; one that fails goes on failing. *)
Iterator(s, n) ==
  LET x == s.iters[n]
      m == Head(x.ms)
      caps == P!Captures(m, x.src, TRUE)
      t == [s EXCEPT !.iters[n].ms = Tail(@)]
  IN CASE x.ms = <<>> -> Ok(s, <<>>)
       [] x.ms # <<>> /\ m.err # "" -> Message(s, <<m.err>>)
       [] OTHER -> IF caps.err # <<>> THEN Message(t, caps.err) ELSE Ok(t, caps.vs)

-----------------------------------------------------------------------------
Builtin(s, f, args) ==
  LET a == args \o Pad(<<>>, 4)
      t == a[1][2]
      bad == Message(s, <<"bad argument">>)
      called == Apply(s, a[1], Tail(args), <<>>)
      i == a[2][2] + 1
      given(v, default) == IF v = NIL THEN Num(default) ELSE ToNum(v)
      level == given(a[2], 1)
      words == IF a[2] = NIL THEN <<"assertion failed!">> ELSE TextOf(a[2])
      first == given(a[2], 1)
      last == given(a[3], Border(s, t))
  IN CASE f \in DOMAIN Takes ->
            IF \E j \in DOMAIN Takes[f] : ~Fits(Takes[f][j], a[j]) THEN bad ELSE Library1(s, f, args)
       [] f \in {"next", "pairs", "ipairs", "ipairsaux", "rawget", "rawset", "unpack",
                 "setmetatable"} /\ a[1][1] # "table" -> bad
       [] f \in {"pcall", "assert", "type", "getmetatable"} /\ args = <<>> -> bad
       [] f = "setmetatable" /\ a[2][1] \notin {"nil", "table"} -> bad
       [] f = "error" -> CASE level = NIL -> bad
                           [] level # NIL /\ IsStr(a[1]) /\ level[2] > 0 -> Raised(s, level[2], TextOf(a[1]))
                           [] OTHER -> Err(s, a[1])
       [] f = "assert" -> CASE ~l_isfalse(a[1]) -> Ok(s, args)
                            [] l_isfalse(a[1]) /\ a[2] # NIL /\ ~IsStr(a[2]) -> bad
                            [] OTHER -> Message(s, words)
       [] f = "pcall" -> IF called.err # <<>> THEN Ok(called.s, <<Bool(FALSE)>> \o called.err)
                         ELSE Ok(called.s, <<Bool(TRUE)>> \o called.vs)
       [] f = "type" -> Ok(s, <<Str(<<TypeName[a[1][1]]>>)>>)
       [] f = "setmetatable" ->
            IF Meta(s, a[1], "__metatable") # NIL
              THEN Message(s, <<"cannot change a protected metatable">>)
              ELSE Ok([s EXCEPT !.tables[t].meta = IF a[2] = NIL THEN 0 ELSE a[2][2]], <<a[1]>>)
       [] f = "getmetatable" ->
            Ok(s, <<IF a[1][1] = "str" THEN <<"table", 5>>
                    ELSE IF a[1][1] # "table" THEN NIL ELSE IF s.tables[t].meta = 0 THEN NIL
                    ELSE IF Meta(s, a[1], "__metatable") # NIL THEN Meta(s, a[1], "__metatable")
                    ELSE <<"table", s.tables[t].meta>>>>)
       [] f = "rawequal" -> Ok(s, <<Bool(a[1] = a[2])>>)
       [] f = "rawget" -> Ok(s, <<Get(s, t, a[2])>>)
       [] f = "rawset" -> IF a[2] = NIL THEN Runtime(s, <<"table index is nil">>)
                          ELSE Ok(Put(s, t, a[2], a[3]), <<a[1]>>)
       [] f = "next" -> Ok(s, NextOf(s, t, a[2]))
       [] f = "pairs" -> Ok(s, <<<<"cfun", "next", 0>>, a[1], NIL>>)
       [] f = "ipairs" -> Ok(s, <<<<"cfun", "ipairsaux", 0>>, a[1], Num(0)>>)
       [] f = "ipairsaux" -> Ok(s, IF Get(s, t, Num(i)) = NIL THEN <<>>
                                   ELSE <<Num(i), Get(s, t, Num(i))>>)
       [] f = "unpack" -> IF first = NIL \/ last = NIL THEN bad
                          ELSE Ok(s, Elements(s, t, first[2], last[2]))
       [] f = "select" ->
            IF a[1] = Str(<<"#">>) THEN Ok(s, <<Num(Len(args) - 1)>>)
            ELSE LET n == IF a[1][2] < 0 THEN Len(args) + a[1][2] ELSE a[1][2]
                 IN IF n < 1 THEN bad ELSE Ok(s, SubSeq(args, n + 1, Len(args)))
       [] f = "tonumber" -> Ok(s, <<ToNum(a[1])>>)

-----------------------------------------------------------------------------
(* Statements give [s, c, flow]: flow says how they ended, <<>> for by       *)
(* themselves, or with a break, values to return or an error.                *)
Flow(s, c, f) == [s |-> s, c |-> c, flow |-> f]
Going(r, c, k(_)) == IF r.err # <<>> THEN Flow(r.s, c, <<"error", r.err[1]>>) ELSE k(r)
Inner(r, c) == [r EXCEPT !.c = c]

Block(s, c, stats) ==
  Fold(LAMBDA r, x : IF r.flow # <<>> THEN r ELSE Exec(r.s, r.c, x), Flow(s, c, <<>>), stats)

(* The place of an assignment: a cell, or a table and a key. *)
Place(s, c, p) ==
  LET n == Len(p.suffixes)
      x == p.suffixes[n]
      before == [p EXCEPT !.suffixes = Front(@)]
      name == NameOfExp(c, <<[o |-> "", s |-> before]>>)
  IN IF n = 0 THEN Ok(s, <<<<"name", p.base.n>>>>)
     ELSE Then(Primary(s, c, before), LAMBDA r :
            IF x.k = "." THEN Ok(r.s, <<<<"at", One(r), Str(x.name), name>>>>)
            ELSE Then(Single(r.s, c, x.e), LAMBDA k : Ok(k.s, <<<<"at", One(r), One(k), name>>>>)))
Store(s, c, p, v) ==
  IF p[1] = "at" THEN SetIndex(s, p[2], p[3], v, p[4])
  ELSE IF p[2] \in DOMAIN c.env THEN Ok([s EXCEPT !.cells[c.env[p[2]][1]] = v], <<>>)
  ELSE SetIndex(s, <<"table", 1>>, Str(p[2]), v, <<>>)

(* All places and all values are found, then the values are stored, from the *)
(* last one to the first.                                                    *)
Assign(s, c, ps, es) ==
  LET places == Fold(LAMBDA r, p : Then(r, LAMBDA q :
                           Then(Place(q.s, c, p), LAMBDA w : Ok(w.s, q.vs \o w.vs))),
                         Ok(s, <<>>), ps)
  IN Going(places, c, LAMBDA at :
       Going(EvalList(at.s, c, es), c, LAMBDA v :
         LET vs == Pad(v.vs, Len(ps))
             done == FoldRight(LAMBDA i, r : Then(r, LAMBDA q : Store(q.s, c, at.vs[i], vs[i])),
                               [i \in DOMAIN ps |-> i], Ok(v.s, <<>>))
         IN Going(done, c, LAMBDA d : Flow(d.s, c, <<>>))))

While(s, c, x) ==
  Going(Single(s, c, x.e), c, LAMBDA t :
    LET b == Block(t.s, c, x.body)
    IN IF l_isfalse(One(t)) THEN Flow(t.s, c, <<>>)
       ELSE CASE b.flow = <<>> -> While(b.s, c, x)
              [] b.flow = <<"break">> -> Flow(b.s, c, <<>>)
              [] OTHER -> Inner(b, c))

(* The condition sees the variables of the block. *)
Repeat(s, c, x) ==
  LET b == Block(s, c, x.body)
  IN CASE b.flow = <<>> ->
            Going(Single(b.s, b.c, x.e), c, LAMBDA t :
              IF l_isfalse(One(t)) THEN Repeat(t.s, c, x) ELSE Flow(t.s, c, <<>>))
       [] b.flow = <<"break">> -> Flow(b.s, c, <<>>)
       [] OTHER -> Inner(b, c)

For(s, c, x, i, limit, step) ==
  LET d == Declare(s, c, <<x.name>>, <<Num(i)>>)
      b == Block(d.s, d.c, x.body)
  IN IF IF step > 0 THEN i > limit ELSE i < limit THEN Flow(s, c, <<>>)
     ELSE CASE b.flow = <<>> -> For(b.s, c, x, i + step, limit, step)
            [] b.flow = <<"break">> -> Flow(b.s, c, <<>>)
            [] OTHER -> Inner(b, c)

Iterate(s, c, x, f, state, control) ==
  Going(Apply(s, f, <<state, control>>, <<>>), c, LAMBDA r :
    LET d == Declare(r.s, c, x.names, r.vs)
        b == Block(d.s, d.c, x.body)
    IN IF One(r) = NIL THEN Flow(r.s, c, <<>>)
       ELSE CASE b.flow = <<>> -> Iterate(b.s, c, x, f, state, One(r))
              [] b.flow = <<"break">> -> Flow(b.s, c, <<>>)
              [] OTHER -> Inner(b, c))

(* What is returned is a single call. *)
TailCall(es) ==
  /\ Len(es) = 1 /\ Len(es[1]) = 1 /\ es[1][1].o = "" /\ es[1][1].s.k = "primary"
  /\ es[1][1].s.suffixes # <<>> /\ Last(es[1][1].s.suffixes).k \in {"call", ":"}
Exec(s, c, x) ==
  LET chosen == {i \in DOMAIN x.conds : TRUE}
      fun == <<"fun", Len(s.funs) + 1>>
      branch(r, b) ==     \* r: [s, flow, taken]
        IF r.taken THEN r
        ELSE LET t == Single(r.s, c, b.e)
                 in == Block(t.s, c, b.body)
             IN IF t.err # <<>> THEN [s |-> t.s, flow |-> <<"error", t.err[1]>>, taken |-> TRUE]
                ELSE IF l_isfalse(One(t)) THEN [r EXCEPT !.s = t.s]
                ELSE [s |-> in.s, flow |-> in.flow, taken |-> TRUE]
      if == Fold(branch, [s |-> s, flow |-> <<>>, taken |-> FALSE], x.conds)
      else == Block(if.s, c, x.else[1])
  IN CASE x.k = "do" -> Inner(Block(s, c, x.body), c)
       [] x.k = "while" -> While(s, c, x)
       [] x.k = "repeat" -> Repeat(s, c, x)
       [] x.k = "if" -> IF if.taken \/ x.else = <<>> THEN Flow(if.s, c, if.flow) ELSE Inner(else, c)
       [] x.k = "fornum" ->
            Going(EvalList(s, c, <<x.init, x.limit>> \o (IF x.step = <<>> THEN <<>> ELSE <<x.step>>)),
                  c, LAMBDA r :
              LET n == [i \in 1..3 |-> IF i <= Len(r.vs) THEN ToNum(r.vs[i]) ELSE Num(1)]
              IN IF \E i \in 1..3 : n[i] = NIL
                   THEN Going(Runtime(r.s, <<"for: must be a number">>), c, LAMBDA q : Flow(q.s, c, <<>>))
                   ELSE For(r.s, c, x, n[1][2], n[2][2], n[3][2]))
       [] x.k = "forlist" ->
            Going(EvalList(s, c, x.es), c, LAMBDA r :
              LET g == Pad(r.vs, 3) IN Iterate(r.s, c, x, g[1], g[2], g[3]))
       [] x.k = "local" ->
            Going(EvalList(s, c, x.es), c, LAMBDA r :
              LET d == Declare(r.s, c, x.names, r.vs) IN Flow(d.s, d.c, <<>>))
       [] x.k = "localfunction" ->
            LET d == Declare(s, c, <<x.name>>, <<fun>>)
            IN Flow(Function(d.s, d.c, x, FALSE), d.c, <<>>)
       [] x.k = "function" ->
            LET p == [k |-> "primary", base |-> [k |-> "name", n |-> x.name],
                      suffixes |-> [i \in DOMAIN x.fields |-> [k |-> ".", name |-> x.fields[i]]]]
            IN Going(Place(s, c, p), c, LAMBDA at :
                 Going(Store(Function(at.s, c, x, x.method), c, at.vs[1],
                             <<"fun", Len(at.s.funs) + 1>>), c,
                       LAMBDA r : Flow(r.s, c, <<>>)))
       [] x.k = "return" ->
            Going(EvalList(s, [c EXCEPT !.tail = TailCall(x.es)], x.es), c, LAMBDA r : Flow(r.s, c, <<"return", r.vs>>))
       [] x.k = "break" -> Flow(s, c, <<"break">>)
       [] x.k = "expr" ->
            IF x.es = <<>> THEN Going(Primary(s, c, x.var), c, LAMBDA r : Flow(r.s, c, <<>>))
            ELSE Assign(s, c, <<x.var>> \o x.vars, x.es)

-----------------------------------------------------------------------------
(* A program, with the libraries as its globals; its outcome.  Coroutines    *)
(* are left out.                                                             *)
Globals == {"pcall", "error", "assert", "type", "setmetatable", "getmetatable", "rawequal",
            "rawget", "rawset", "next", "pairs", "ipairs", "unpack", "select", "tonumber"}
OfTables == {"getn", "maxn", "insert", "setn", "remove", "foreach", "foreachi", "concat", "sort"}
NoTable == [map |-> NIL :> NIL, keys |-> <<>>, meta |-> 0]
Holding(fs, more) ==
  [NoTable EXCEPT !.map = more @@ [k \in {NIL} \cup {Str(<<f>>) : f \in fs} |->
                                     IF k = NIL THEN NIL ELSE <<"cfun", k[2][1], 0>>]]
Named(n, t) == Str(<<n>>) :> <<"table", t>>
Meaning(stats) ==
  LET main == [params |-> <<>>, dots |-> FALSE, uses |-> FALSE, body |-> stats]
      r == Block([cells |-> <<>>, iters |-> <<>>, calls |-> <<"Lua">>,
                  tables |-> <<Holding(Globals, Named("string", 3) @@ Named("table", 4)), NoTable,
                               Holding(DOMAIN Takes \ OfTables, NIL :> NIL), Holding(OfTables, NIL :> NIL),
                               Holding({}, Named("__index", 3))>>,
                  funs |-> <<[f |-> main, env |-> <<>>, level |-> 1, self |-> FALSE]>>],
                 [env |-> [n \in {} |-> <<0, 0>>], va |-> <<>>, level |-> 1, tail |-> FALSE], stats)
  IN IF r.flow = <<>> THEN <<"return", <<>>>> ELSE r.flow
=============================================================================
