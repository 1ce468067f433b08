------------------------------- MODULE LuaText -------------------------------
(* A notation for the programs of the model: the text of a program, as the   *)
(* parser's module takes it.                                                 *)
EXTENDS Sequences, Integers, TLC

Token(s) == <<[o |-> "", s |-> s]>>
Op(o) == <<[o |-> o]>>
Kind(k) == Token([k |-> k])
Nil == Kind("nil")
True == Kind("true")
False == Kind("false")
Dots == Kind("...")
Numb(n) == Token([k |-> "num", n |-> n])
Signed(n) == IF n < 0 THEN <<[o |-> "-"]>> \o Numb(-n) ELSE Numb(n)
Text(s) == Token([k |-> "str", v |-> s])
Bin(a, o, b) == a \o Op(o) \o b
Un(o, a) == Op(o) \o a

(* A name or an expression in parentheses, with what is applied to it. *)
Base(n) == [k |-> "primary", base |-> [k |-> "name", n |-> <<n>>], suffixes |-> <<>>]
With(p, x) == [p EXCEPT !.suffixes = Append(@, x)]
Dot(p, n) == With(p, [k |-> ".", name |-> <<n>>])
At1(p, e) == With(p, [k |-> "[]", e |-> e])
List(es) == [k |-> "list", es |-> es]
CallOf(p, es) == With(p, [k |-> "call", args |-> List(es)])
Method(p, n, es) == With(p, [k |-> ":", name |-> <<n>>, args |-> List(es)])
Var(n) == Token(Base(n))
Par(e) == Token([k |-> "primary", base |-> [k |-> "paren", e |-> e], suffixes |-> <<>>])
CallE(n, es) == Token(CallOf(Base(n), es))

Fun(params, dots, uses, body) ==
  [k |-> "function", params |-> [i \in DOMAIN params |-> <<params[i]>>], dots |-> dots,
   uses |-> uses, body |-> body]
Lambda(params, body) == Token(Fun(params, FALSE, FALSE, body))
Vararg1(params, body) == Token(Fun(params, TRUE, TRUE, body))

Item(e) == [k |-> "item", e |-> e]
Field(n, e) == [k |-> ".", name |-> <<n>>, e |-> e]
Keyed(key, e) == [k |-> "[]", key |-> key, e |-> e]
Table(fields) == Token([k |-> "table", fields |-> fields])

Local(ns, es) == [k |-> "local", names |-> [i \in DOMAIN ns |-> <<ns[i]>>], es |-> es]
LocalFun(n, params, body) ==
  [Fun(params, FALSE, FALSE, body) EXCEPT !.k = "localfunction"] @@ [name |-> <<n>>]
FunStat(n, fields, method, params, body) ==
  [Fun(params, FALSE, FALSE, body) EXCEPT !.k = "function"] @@
  [name |-> <<n>>, fields |-> [i \in DOMAIN fields |-> <<fields[i]>>], method |-> method]
Assign1(ps, es) == [k |-> "expr", var |-> ps[1], vars |-> Tail(ps), es |-> es]
Set(n, e) == Assign1(<<Base(n)>>, <<e>>)
Do1(p) == [k |-> "expr", var |-> p, vars |-> <<>>, es |-> <<>>]
Ret(es) == [k |-> "return", es |-> es]
If(e, then, else) == [k |-> "if", conds |-> <<[e |-> e, body |-> then]>>, else |-> else]
IfElseif(conds, else) == [k |-> "if", conds |-> conds, else |-> else]
When(e, body) == [e |-> e, body |-> body]
While1(e, body) == [k |-> "while", e |-> e, body |-> body]
RepeatUntil(body, e) == [k |-> "repeat", body |-> body, e |-> e]
Block1(body) == [k |-> "do", body |-> body]
Break == [k |-> "break"]
ForNum(n, i, l, step, body) ==
  [k |-> "fornum", name |-> <<n>>, init |-> i, limit |-> l, step |-> step, body |-> body]
ForIn(ns, es, body) ==
  [k |-> "forlist", names |-> [i \in DOMAIN ns |-> <<ns[i]>>], es |-> es, body |-> body]
=============================================================================
