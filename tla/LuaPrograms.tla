----------------------------- MODULE LuaPrograms -----------------------------
(* The programs that the compiler and the virtual machine run in the model:  *)
(* families, each by what its members differ in, and single ones.            *)
EXTENDS LuaText, SequencesExt, FiniteSets

-----------------------------------------------------------------------------
(* Conditions: and, or and not over constants, the local x, which is false,  *)
(* the global g, which is 7, and a comparison, in the places where a program *)
(* can have one.                                                             *)
Operands == <<Nil, False, Numb(1), Var("x"), Var("g"), Bin(Var("x"), "==", Nil), Un("not", Var("g"))>>
Condition(i) ==
  LET a == Operands[i.a]
      b == Operands[i.b]
      c == Operands[i.c]
  IN CASE i.shape = 1 -> Bin(Bin(a, i.o, b), i.p, c)
       [] i.shape = 2 -> Bin(Par(Bin(a, i.o, b)), i.p, c)
       [] i.shape = 3 -> Un("not", Par(Bin(a, i.o, Un("not", Par(Bin(b, i.p, c))))))
       [] i.shape = 4 -> Bin(Par(Bin(Par(Bin(a, i.o, b)), i.p, c)), i.q, Operands[i.d])
ConditionAt(e, place) ==
  CASE place = 1 -> <<Ret(<<e>>)>>
    [] place = 2 -> <<If(e, <<Ret(<<Numb(1)>>)>>, <<>>), Ret(<<Numb(2)>>)>>
    [] place = 3 -> <<Local(<<"y", "z">>, <<e, Var("x")>>), Ret(<<Var("z"), Var("y")>>)>>
    [] place = 4 ->
         <<Local(<<"y">>, <<Numb(0)>>),
           While1(e, <<Set("y", Bin(Var("y"), "+", Numb(1))),
                       If(Bin(Var("y"), "==", Numb(2)), <<Break>>, <<>>)>>),
           Ret(<<Var("y")>>)>>
Logic == {"and", "or"}
Conditions ==
  [k : {"condition"}, shape : {1}, a : 1..7, b : 1..7, c : 1..7, o : Logic, p : Logic, place : {1}]
  \cup [k : {"condition"}, shape : {1}, a : 1..7, b : 1..7, c : 3..4, o : Logic, p : Logic, place : {4}]
  \cup [k : {"condition"}, shape : {2}, a : 1..7, b : 1..7, c : 1..7, o : Logic, p : Logic, place : {2}]
  \cup [k : {"condition"}, shape : {3}, a : 1..7, b : 3..7, c : 2..6, o : Logic, p : Logic, place : {3}]
  \cup [k : {"condition"}, shape : {4}, a : 1..4, b : {1, 3, 5}, c : 2..3, d : 2..4, o : Logic,
        p : Logic, q : Logic, place : {1}]

-----------------------------------------------------------------------------
(* Operators: their priorities, with constants, which are folded, or not.    *)
Operators == {"+", "-", "*", "%", "^", "..", "==", "<", ">="}
Operation(i) ==
  LET a == IF i.const THEN Numb(2) ELSE Var("a")
      b == IF i.const THEN Numb(3) ELSE Var("b")
  IN <<Local(<<"a", "b">>, <<Numb(2), Numb(3)>>),
       Ret(<<(IF i.minus THEN Un("-", a) ELSE a) \o Op(i.o) \o b \o Op(i.p) \o Numb(2)>>)>>
Operations == [k : {"operation"}, o : Operators, p : Operators, const : BOOLEAN, minus : BOOLEAN]

-----------------------------------------------------------------------------
(* Assignments: of one to three values to variables that use each other.     *)
Left == <<Base("a"), Base("b"), Base("g"), At1(Base("t"), Var("a")), At1(Base("t"), Var("g")),
          Dot(At1(Base("u"), Var("a")), "x"), Base("t")>>
Right == <<<<Var("b")>>, <<Numb(5), Var("a")>>, <<CallE("two", <<>>)>>, <<Var("a"), CallE("two", <<>>)>>,
           <<CallE("two", <<>>), Var("u"), Nil>>>>
Assignment(i) ==
  <<Local(<<"a", "b", "t", "u">>, <<Numb(1), Numb(2), Table(<<>>), Table(<<Item(Table(<<>>)), Item(Nil)>>)>>),
    Set("g", Numb(2)),
    LocalFun("two", <<>>, <<Ret(<<Numb(8), Numb(9)>>)>>),
    Local(<<"v", "w">>, <<Var("t"), Var("u")>>),
    Assign1([j \in DOMAIN i.left |-> Left[i.left[j]]], Right[i.right]),
    Ret(<<Var("a"), Var("b"), Var("g"), Token(At1(Base("v"), Numb(1))), Token(At1(Base("v"), Numb(2))),
          Token(Dot(At1(Base("w"), Numb(1)), "x")), Bin(Var("t"), "==", Var("u"))>>)>>
Assignments ==
  [k : {"assignment"}, left : UNION {[1..n -> 1..7] : n \in 1..2}, right : 1..5]
  \cup [k : {"assignment"}, left : {<<1, 4, 5>>, <<4, 1, 7>>, <<7, 4, 1>>, <<5, 3, 6>>, <<2, 1, 4>>},
        right : 1..5]

-----------------------------------------------------------------------------
(* Calls: parameters, '...' or the table arg, arguments, of which the last   *)
(* can be a call, and what is done with the results.                         *)
Called(i) ==
  LET params == SubSeq(<<"p", "q">>, 1, i.params)
      results == CASE i.dots = "none" -> [j \in DOMAIN params |-> Var(params[j])]
                   [] i.dots = "dots" -> <<IF params = <<>> THEN Numb(0) ELSE Var("p"), Dots>>
                   [] i.dots = "arg" -> <<Token(Dot(Base("arg"), "n")), Token(At1(Base("arg"), Numb(1)))>>
      fun == Token(Fun(params, i.dots # "none", i.dots = "dots", <<Ret(results)>>))
      plain == [j \in 1..i.args |-> Numb(10 + j)]
      args == IF i.multi THEN Append(plain, CallE("two", <<>>)) ELSE plain
      call == CallE("f", args)
      how == CASE i.use = "return" -> <<Ret(<<call>>)>>
               [] i.use = "one" -> <<Ret(<<Par(call), Numb(1)>>)>>
               [] i.use = "list" -> <<Local(<<"x", "y", "z">>, <<Numb(1), call>>), Ret(<<Var("x"), Var("y"), Var("z")>>)>>
               [] i.use = "table" ->
                    <<Local(<<"t">>, <<Table(<<Item(Numb(1)), Item(call), Field("n", Numb(3)), Item(call)>>)>>),
                      Ret(<<Un("#", Var("t")), CallE("unpack", <<Var("t")>>)>>)>>
               [] i.use = "argument" -> <<Ret(<<CallE("select", <<Numb(2), call>>), CallE("select", <<Text(<<"#">>), call>>)>>)>>
  IN <<LocalFun("two", <<>>, <<Ret(<<Numb(8), Numb(9)>>)>>), Local(<<"f">>, <<fun>>)>> \o how
Calls ==
  [k : {"call"}, params : 0..2, dots : {"none", "dots", "arg"}, args : 0..3, multi : BOOLEAN,
   use : {"return", "one", "list", "table", "argument"}]

-----------------------------------------------------------------------------
(* Loops, with closures over their variables, left in each way.              *)
Loop(i) ==
  LET keep == <<Local(<<"c">>, <<Var("i")>>),
                Assign1(<<At1(Base("t"), Bin(Un("#", Var("t")), "+", Numb(1)))>>,
                        <<Lambda(<<>>, <<Set("c", Bin(Var("c"), "+", Numb(1))),
                                         Ret(<<Bin(Var("c"), "*", Numb(10)) \o Op("+") \o Var("i")>>)>>)>>)>>
      stop == If(Bin(Var("i"), "==", Numb(2)),
                 <<CASE i.exit = "break" -> Break [] i.exit = "return" -> Ret(<<Numb(7), CallE("use", <<>>)>>)
                     [] i.exit = "error" -> Do1(CallOf(Base("error"), <<Var("i")>>))
                     [] i.exit = "none" -> Set("n", Var("i"))>>, <<>>)
      body == keep \o <<stop>>
      step == Set("i", Bin(Var("i"), "+", Numb(1)))
      loop == CASE i.loop = "while" -> <<Local(<<"i">>, <<Numb(1)>>),
                                         While1(Bin(Var("i"), "<=", Numb(3)), body \o <<step>>)>>
                [] i.loop = "repeat" -> <<Local(<<"i">>, <<Numb(1)>>),
                                          RepeatUntil(body \o <<step>>, Bin(Var("c"), ">=", Numb(2)))>>
                [] i.loop = "for" -> <<ForNum("i", Numb(1), Numb(3), <<>>, body)>>
                [] i.loop = "in" -> <<ForIn(<<"i">>, <<CallE("pairs", <<Table(<<Item(Numb(4)), Item(Numb(5)), Item(Numb(6))>>)>>)>>, body)>>
                [] i.loop = "block" -> <<Local(<<"i">>, <<Numb(2)>>), While1(True, <<Block1(body), Break>>)>>
  IN <<Local(<<"t", "n">>, <<Table(<<>>), Numb(0)>>),
       LocalFun("use", <<>>, <<ForIn(<<"k", "f">>, <<CallE("ipairs", <<Var("t")>>)>>,
                                      <<Set("n", Bin(Var("n"), "*", Numb(7)) \o Op("+") \o CallE("f", <<>>))>>),
                               Ret(<<Var("n")>>)>>),
       LocalFun("run", <<>>, loop \o <<Ret(<<Numb(5)>>)>>),
       Local(<<"ok", "v">>, <<CallE("pcall", <<Var("run")>>)>>),
       Ret(<<Var("ok"), Var("v"), CallE("use", <<>>), CallE("use", <<>>)>>)>>
Loops == [k : {"loop"}, loop : {"while", "repeat", "for", "in", "block"},
          exit : {"none", "break", "return", "error"}]
Counts == [k : {"count"}, init : -1..2, limit : -1..2, step : {-2, -1, 1, 2}]
Count(i) ==
  <<Local(<<"n">>, <<Numb(0)>>),
    ForNum("i", Signed(i.init), Signed(i.limit), Signed(i.step),
           <<Set("n", Bin(Var("n"), "*", Numb(10)) \o Op("+") \o Var("i")), Set("i", Numb(9))>>),
    Ret(<<Var("n")>>)>>

-----------------------------------------------------------------------------
(* Tag methods: of each operation, for the left or the right operand, as a   *)
(* function, a table or a chain of tables.                                   *)
Meta(n, f) == Do1(CallOf(Base("setmetatable"), <<Var(n), Table(<<f>>)>>))
Tagged(e, f) ==     \* the local t with the tag method e
  <<Local(<<"t", "u">>, <<Table(<<Field("x", Numb(1))>>), Table(<<Field("x", Numb(2))>>)>>),
    Local(<<"m">>, <<Table(<<Field(e, f)>>)>>),
    Do1(CallOf(Base("setmetatable"), <<Var("t"), Var("m")>>)),
    Do1(CallOf(Base("setmetatable"), <<Var("u"), Var("m")>>))>>
Sum == Lambda(<<"p", "q">>, <<Ret(<<CallE("type", <<Var("p")>>), Numb(4)>>)>>)
Compare == Lambda(<<"p", "q">>, <<Ret(<<Bin(Token(Dot(Base("p"), "x")), "<", Token(Dot(Base("q"), "x")))>>)>>)
BinaryTags == <<<<"__add", "+">>, <<"__sub", "-">>, <<"__mul", "*">>, <<"__mod", "%">>, <<"__pow", "^">>,
                <<"__concat", "..">>>>
OrderTags == <<<<"__lt", "<">>, <<"__lt", ">=">>, <<"__le", "<=">>, <<"__le", ">">>, <<"__eq", "==">>, <<"__eq", "~=">>>>
TagPrograms ==
  [i \in 1..6 |-> Tagged(BinaryTags[i][1], Sum) \o
     <<Ret(<<Bin(Var("t"), BinaryTags[i][2], Numb(3)), Bin(Numb(3), BinaryTags[i][2], Var("t")),
             Bin(Var("t"), BinaryTags[i][2], Var("u"))>>)>>] \o
  [i \in 1..6 |-> Tagged(OrderTags[i][1], Compare) \o
     <<Local(<<"b">>, <<Bin(Var("t"), OrderTags[i][2], Var("u"))>>),
       If(Bin(Var("u"), OrderTags[i][2], Var("t")), <<Ret(<<Numb(1), Var("b")>>)>>, <<>>),
       Ret(<<Numb(2), Var("b"), Bin(Var("t"), "==", Var("t"))>>)>>] \o
  [i \in 1..4 |->
     Tagged(IF i < 3 THEN "__index" ELSE "__newindex",
            IF i = 1 THEN Lambda(<<"p", "k">>, <<Ret(<<Var("k"), Numb(9)>>)>>)
            ELSE IF i = 2 THEN Table(<<Field("y", Numb(3))>>)
            ELSE IF i = 3 THEN Lambda(<<"p", "k", "v">>, <<Do1(CallOf(Base("rawset"), <<Var("p"), Text(<<"z">>), Var("v")>>))>>)
            ELSE Table(<<>>)) \o
     <<Assign1(<<Dot(Base("t"), "y"), Dot(Base("t"), "x")>>, <<Numb(6), Numb(7)>>),
       Ret(<<Token(Dot(Base("t"), "x")), Token(Dot(Base("t"), "y")), Token(Dot(Base("t"), "z")),
             CallE("rawget", <<Var("t"), Text(<<"y">>)>>)>>)>>] \o
  << \* the absence of a tag method is cached, until its table changes
     Tagged("__none", Numb(0)) \o
       <<Local(<<"v">>, <<Token(Dot(Base("t"), "y"))>>),
         Assign1(<<Dot(Base("m"), "__index")>>, <<Lambda(<<>>, <<Ret(<<Numb(5)>>)>>)>>),
         Ret(<<Var("v"), Token(Dot(Base("t"), "y")), Bin(Var("t"), "==", Var("u"))>>)>>,
     Tagged("__none", Numb(0)) \o
       <<Local(<<"v">>, <<Token(Dot(Base("t"), "y"))>>),
         Do1(CallOf(Base("rawset"), <<Var("m"), Text(<<"__index">>), Table(<<Field("y", Numb(5))>>)>>)),
         Ret(<<Var("v"), Token(Dot(Base("t"), "y"))>>)>>,
     \* a table is its own metatable for some time
     Tagged("__none", Numb(0)) \o
       <<Do1(CallOf(Base("setmetatable"), <<Var("t"), Var("t")>>)),
         Assign1(<<Dot(Base("t"), "__newindex")>>, <<Sum>>),
         Do1(CallOf(Base("setmetatable"), <<Var("t"), Nil>>)),
         Local(<<"v">>, <<Token(Dot(Base("t"), "y"))>>),
         Assign1(<<Dot(Base("t"), "y")>>, <<Numb(3)>>),
         Ret(<<Var("v"), Token(Dot(Base("t"), "y")), Bin(Var("t"), "==", Var("u"))>>)>>,
     \* a table that can be called, its call tail called
     Tagged("__call", Lambda(<<"self", "p">>, <<Ret(<<Token(Dot(Base("self"), "x")), Var("p")>>)>>)) \o
       <<Local(<<"f">>, <<Lambda(<<"t">>, <<Ret(<<CallE("t", <<Numb(3), Numb(4)>>)>>)>>)>>),
         Ret(<<CallE("t", <<Numb(2)>>), CallE("f", <<Var("u")>>)>>)>>,
     Tagged("__unm", Lambda(<<"p">>, <<Ret(<<Token(Dot(Base("p"), "x"))>>)>>)) \o
       <<Ret(<<Un("-", Var("u")), CallE("getmetatable", <<Numb(1)>>)>>)>>,
     Tagged("__metatable", Numb(3)) \o
       <<Ret(<<CallE("getmetatable", <<Var("t")>>), CallE("pcall", <<Var("setmetatable"), Var("t"), Nil>>)>>)>>,
     \* concatenation of several values with a tag method among them
     Tagged("__concat", Lambda(<<"p", "q">>, <<Ret(<<Text(<<"a">>)>>)>>)) \o
       <<Ret(<<Numb(1) \o Op("..") \o Numb(2) \o Op("..") \o Var("t") \o Op("..") \o Numb(3) \o Op("..") \o Numb(4)>>)>> >>

-----------------------------------------------------------------------------
(* Single programs.                                                          *)
Add(a, b) == Bin(a, "+", b)
Singles == <<
  \* upvalues: shared by two closures, open and closed, and of outer functions
  <<LocalFun("make", <<"n">>, <<Ret(<<Lambda(<<"d">>, <<Set("n", Add(Var("n"), Var("d"))), Ret(<<Var("n")>>)>>),
                                     Lambda(<<>>, <<Ret(<<Var("n")>>)>>)>>)>>),
    Local(<<"inc", "get">>, <<CallE("make", <<Numb(5)>>)>>),
    Local(<<"other">>, <<CallE("make", <<Numb(1)>>)>>),
    Ret(<<CallE("inc", <<Numb(2)>>), CallE("get", <<>>), CallE("other", <<Numb(1)>>), CallE("inc", <<Numb(1)>>), CallE("get", <<>>)>>)>>,
  <<Local(<<"a">>, <<Numb(1)>>),
    LocalFun("f", <<>>, <<LocalFun("g", <<>>, <<Set("a", Add(Var("a"), Numb(1))), Ret(<<Var("a")>>)>>), Ret(<<Var("g")>>)>>),
    Local(<<"g", "h">>, <<CallE("f", <<>>), CallE("f", <<>>)>>),
    Ret(<<CallE("g", <<>>), CallE("h", <<>>), Var("a")>>)>>,
  <<Block1(<<Local(<<"x">>, <<Numb(1)>>), FunStat("f", <<>>, FALSE, <<>>, <<Ret(<<Var("x")>>)>>), Set("x", Numb(2))>>),
    Local(<<"x">>, <<Numb(3)>>), Ret(<<CallE("f", <<>>), Var("x")>>)>>,
  \* functions in fields and methods; recursion, which an overflow ends
  <<Local(<<"t">>, <<Table(<<Field("x", Numb(4)), Field("u", Table(<<>>))>>)>>),
    FunStat("t", <<"get">>, TRUE, <<"d">>, <<Ret(<<Add(Token(Dot(Base("self"), "x")), Var("d"))>>)>>),
    FunStat("t", <<"u", "f">>, FALSE, <<"p">>, <<Ret(<<Var("p"), Var("self")>>)>>),
    Ret(<<Token(Method(Base("t"), "get", <<Numb(3)>>)), Token(CallOf(Dot(Dot(Base("t"), "u"), "f"), <<Numb(6), Numb(7)>>))>>)>>,
  <<LocalFun("fact", <<"n">>, <<If(Bin(Var("n"), "<=", Numb(1)), <<Ret(<<Numb(1)>>)>>, <<>>),
                                Ret(<<Bin(Var("n"), "*", Token(CallOf(Base("fact"), <<Bin(Var("n"), "-", Numb(1))>>)))>>)>>),
    Ret(<<CallE("fact", <<Numb(5)>>)>>)>>,
  \* a loop of tail calls is longer than the limit of nested calls
  <<LocalFun("loop", <<"n", "s">>, <<If(Bin(Var("n"), "==", Numb(0)), <<Ret(<<Var("s"), Lambda(<<>>, <<>>)>>)>>, <<>>),
                                     Local(<<"k">>, <<Lambda(<<>>, <<Ret(<<Var("n")>>)>>)>>),
                                     Ret(<<CallE("loop", <<Bin(Var("n"), "-", Numb(1)), Add(Var("s"), CallE("k", <<>>))>>)>>)>>),
    Ret(<<CallE("loop", <<Numb(10), Numb(0)>>)>>)>>,
  <<FunStat("even", <<>>, FALSE, <<"n">>, <<If(Bin(Var("n"), "==", Numb(0)), <<Ret(<<True>>)>>, <<>>), Ret(<<CallE("odd", <<Bin(Var("n"), "-", Numb(1))>>)>>)>>),
    FunStat("odd", <<>>, FALSE, <<"n">>, <<If(Bin(Var("n"), "==", Numb(0)), <<Ret(<<False>>)>>, <<>>), Ret(<<CallE("even", <<Bin(Var("n"), "-", Numb(1))>>)>>)>>),
    Ret(<<CallE("even", <<Numb(10)>>)>>)>>,
  \* errors: values, nested, through calls made from C, with upvalues open
  <<Local(<<"x", "f">>, <<Numb(1)>>),
    Local(<<"ok", "e">>, <<CallE("pcall", <<Lambda(<<>>, <<Local(<<"y">>, <<Numb(2)>>), Set("f", Lambda(<<>>, <<Set("y", Add(Var("y"), Var("x"))), Ret(<<Var("y")>>)>>)),
                                                           Set("x", Numb(5)), Do1(CallOf(Base("error"), <<Table(<<Field("c", Numb(3))>>)>>))>>)>>)>>),
    Ret(<<Var("ok"), Token(Dot(Base("e"), "c")), CallE("f", <<>>), CallE("f", <<>>)>>)>>,
  <<Ret(<<CallE("pcall", <<Var("pcall"), Var("pcall"), Var("error"), Numb(3)>>)>>)>>,
  <<Ret(<<CallE("pcall", <<Lambda(<<"a">>, <<Local(<<"r", "s">>, <<CallE("pcall", <<Var("error"), Var("a")>>)>>), Do1(CallOf(Base("error"), <<Var("s")>>))>>), Numb(4)>>)>>)>>,
  <<Local(<<"t">>, <<Table(<<>>)>>), Meta("t", Field("__index", Lambda(<<"t", "k">>, <<Do1(CallOf(Base("error"), <<Var("k")>>))>>))),
    Ret(<<CallE("pcall", <<Lambda(<<>>, <<Ret(<<Token(Dot(Base("t"), "z"))>>)>>)>>)>>)>>,
  <<Ret(<<CallE("pcall", <<Lambda(<<>>, <<ForIn(<<"k">>, <<Lambda(<<"s", "c">>, <<Do1(CallOf(Base("error"), <<Numb(9)>>))>>)>>, <<>>)>>)>>), Numb(1)>>)>>,
  <<Local(<<"n">>, <<Numb(0)>>), LocalFun("it", <<"s", "c">>, <<If(Bin(Var("c"), "<", Var("s")), <<Ret(<<Add(Var("c"), Numb(1)), Bin(Var("c"), "*", Numb(2))>>)>>, <<>>)>>),
    ForIn(<<"i", "j">>, <<Var("it"), Numb(4), Numb(0)>>, <<If(Bin(Var("i"), "==", Numb(4)), <<Break>>, <<>>), Set("n", Bin(Var("n"), "*", Numb(10)) \o Op("+") \o Var("j"))>>),
    Ret(<<Var("n")>>)>>,
  <<IfElseif(<<When(Nil, <<Ret(<<Numb(1)>>)>>), When(Bin(Var("g"), "~=", Nil), <<Ret(<<Numb(2)>>)>>), When(Numb(0), <<Set("g", Numb(3))>>)>>, <<<<Ret(<<Numb(4)>>)>>>>), Ret(<<Var("g")>>)>>,
  <<Local(<<"s">>, <<Text(<<"1", "2">>)>>), Ret(<<Add(Var("s"), Numb(1)), Bin(Var("s"), "..", Numb(-3)), Un("#", Var("s")), Un("-", Text(<<"7">>)), CallE("tonumber", <<Text(<<"x">>)>>)>>)>>
>>

(* Errors that name what they are about. *)
Wrong == <<CallE("g", <<>>), Token(CallOf(Dot(Base("t"), "x"), <<>>)), Token(Method(Base("t"), "x", <<>>)), CallE("v", <<>>),
           Token(Dot(Dot(Base("t"), "x"), "y")), Token(At1(At1(Base("t"), Var("v")), Numb(1))), Token(Dot(Base("v"), "y")), Token(Dot(Base("up"), "y")),
           Add(Var("v"), Numb(1)), Add(Numb(1), Token(Dot(Base("t"), "x"))), Bin(Var("up"), "*", Var("v")), Bin(Var("t"), "..", Numb(1)),
           Bin(Numb(1) \o Op("..") \o Var("v"), "..", Numb(2)), Un("-", Var("t")), Un("#", Var("g")), Bin(Var("t"), "<", Numb(1)), Bin(Var("t"), "<=", Var("t")),
           Token(CallOf([k |-> "primary", base |-> [k |-> "paren", e |-> Bin(Var("v"), "or", Var("up"))], suffixes |-> <<>>], <<>>)),
           Token(CallOf(CallOf(Base("type"), <<Numb(1)>>), <<>>)), Bin(Bin(Var("v"), "and", Numb(1)), "or", Token(Dot(Base("up"), "x"))),
           Add(Par(Bin(Var("t"), "and", Token(Dot(Base("t"), "x")))), Numb(1))>>
WrongProgram(i) ==
  <<Local(<<"up">>, <<Nil>>),
    Local(<<"f">>, <<Lambda(<<"t", "v">>, <<Local(<<"a">>, <<Numb(1)>>), If(Var("a"), <<Local(<<"b">>, <<Wrong[i]>>)>>, <<>>), Set("v", Var("up"))>>)>>),
    Ret(<<CallE("pcall", <<Var("f"), Table(<<>>)>>)>>)>>
WrongStores == <<Assign1(<<Dot(Base("v"), "y")>>, <<Numb(1)>>), Assign1(<<Dot(Dot(Base("t"), "x"), "y")>>, <<Numb(1)>>),
                 Assign1(<<At1(Base("t"), Var("v"))>>, <<Numb(1)>>), ForNum("i", Var("t"), Numb(1), <<>>, <<>>),
                 ForIn(<<"i">>, <<Var("v")>>, <<>>), Assign1(<<Base("w"), Dot(Base("up"), "z")>>, <<Numb(1), Numb(2)>>)>>
WrongStore(i) ==
  <<Local(<<"up">>, <<Nil>>),
    Local(<<"f">>, <<Lambda(<<"t", "v">>, <<WrongStores[i], Set("v", Var("up"))>>)>>),
    Ret(<<CallE("pcall", <<Var("f"), Table(<<>>)>>)>>)>>

-----------------------------------------------------------------------------
(* The string library: subjects, patterns and replacements.                  *)
Str1(f) == Dot(Base("string"), f)
StrE(f, es) == Token(CallOf(Str1(f), es))
Tab(f) == Dot(Base("table"), f)
TabE(f, es) == Token(CallOf(Tab(f), es))
TabS(f, es) == Do1(CallOf(Tab(f), es))
Subjects == <<<<>>, <<"a">>, <<"a", "b", "1">>, <<"a", "a", "b", "a", "a">>, <<"x", "(", "a", "(", ")", ")", " ", "1", "1">>>>
Patterns == <<
  <<>>, <<"a">>, <<".">>, <<"a", "*">>, <<"a", "+">>, <<"a", "-">>, <<"a", "?", "a">>, <<"^", "a", "*">>, <<"a", "*", "$">>,
  <<"^", "a", "-", "$">>, <<"$", "a">>, <<".", "-", "b">>, <<"a", "-", "b">>, <<"a", "*", "a", "b">>, <<"a", "?", "a", "?", "a", "?">>,
  <<"(", "a", ")">>, <<"(", ")", "b">>, <<"(", "a", "*", ")", "b">>, <<"(", "a", "*", "(", ")", ")">>, <<"(", "(", "a", ")", "b", "*", ")">>,
  <<"(", ".", ")", "%", "1">>, <<"(", "a", "*", ")", ".", "%", "1">>, <<"(", ")", "%", "1">>, <<"(", "a", "%", "1">>, <<"%", "1">>, <<"(", ".", ")", "%", "0">>,
  <<"(", "a", ")", "?">>, <<"(", "a">>, <<"a", ")">>, <<"(", "a", "(", "b", "(", "1", ")", ")", ")">>, <<"(", ".", "-", ")", "(", ".", "-", ")", "$">>,
  <<"%", "a", "+">>, <<"%", "D", "*">>, <<"%", "w", "-", "%", "d">>, <<"%", "s">>, <<"%", "p", "+">>, <<"%", "x", "%", "U">>, <<"%", "(">>, <<"%", "z">>, <<"%", "C", "%", "l">>,
  <<"[", "a", "b", "]", "+">>, <<"[", "^", "a", "]", "*">>, <<"[", "%", "d", "b", "]">>, <<"[", "a", "-", "c", "]", "+">>, <<"[", "a", "-", "]">>, <<"[", "]", "]">>, <<"[", "^", "]", "a", "]">>,
  <<"[", "%", "]", "1", "]", "+">>, <<"[", "a">>, <<"[", "]">>, <<"[", "a", "%">>, <<"[", "^", "%", "W", "]", "?", "1">>, <<"%">>, <<"a", "*", "%">>, <<"b", "[">>,
  <<"%", "b", "(", ")">>, <<"%", "b", "a", "a">>, <<"(", "%", "b", "(", ")", ")">>, <<"%", "b", "(">>, <<"x", "%", "b", "(", ")", "%", "s", "*">>,
  <<"%", "f", "[", "%", "w", "]", "%", "w", "+">>, <<"%", "f", "[", "^", "a", "]">>, <<"%", "f", "a">>, <<"%", "f", "[">>, <<"%", "f", "[", "%", "z", "]">>>>
Replacements == <<Text(<<"z">>), Text(<<"<", "%", "0", "%", "1", ">">>), Text(<<"%", "2">>), Text(<<"%", "%", "-">>), Text(<<"%">>), Numb(7),
                  Var("h"), Var("m")>>
Matched(i) ==
  LET s == Text(Subjects[i.s])
      p == Text(Patterns[i.p])
  IN <<Local(<<"n">>, <<Numb(0)>>),
       LocalFun("h", <<"c", "d">>, <<Set("n", Add(Var("n"), Numb(1))), If(Bin(Var("n"), "==", Numb(2)), <<Ret(<<Nil>>)>>, <<<<Ret(<<Bin(Var("c"), "..", Var("n"))>>)>>>>)>>),
       Local(<<"m">>, <<Table(<<Field("a", Numb(3)), Keyed(Numb(1), Var("n")), Field("b", False), Field("x", True)>>)>>)>> \o
     (CASE i.f = "find" -> <<Ret(<<CallE("pcall", <<Token(Str1("find")), s, p>>)>>)>>
        [] i.f = "from" -> <<Ret(<<CallE("pcall", <<Token(Str1("match")), s, p, Signed(i.n)>>)>>)>>
        [] i.f = "plain" -> <<Ret(<<Token(Method([k |-> "primary", base |-> [k |-> "paren", e |-> s], suffixes |-> <<>>], "find", <<p, Signed(i.n), True>>))>>)>>
        [] i.f = "gmatch" -> <<Local(<<"r">>, <<Text(<<>>)>>), Local(<<"ok", "e">>, <<CallE("pcall", <<Lambda(<<>>, <<
                               ForIn(<<"c", "d">>, <<StrE("gmatch", <<s, p>>)>>, <<Set("r", Bin(Var("r"), "..", Var("c") \o Op("..") \o Text(<<"/">>)))>>)>>)>>)>>),
                               Ret(<<Var("r"), Var("ok"), Var("e")>>)>>
        [] i.f = "gsub" -> <<Ret(<<CallE("pcall", <<Token(Str1("gsub")), s, p, Replacements[i.n]>>)>>)>>
        [] i.f = "most" -> <<Ret(<<CallE("pcall", <<Token(Str1("gsub")), s, p, Text(<<"<", "%", "1", ">">>), Signed(i.n)>>), Var("n")>>)>>)
Searches ==
  [k : {"match"}, f : {"find"}, s : DOMAIN Subjects, p : DOMAIN Patterns, n : {1}]
  \cup [k : {"match"}, f : {"from"}, s : 4..5, p : DOMAIN Patterns, n : {-2, 3}]
  \cup [k : {"match"}, f : {"from"}, s : 3..4, p : 1..9, n : {9}]
  \cup [k : {"match"}, f : {"plain"}, s : 1..4, p : {1, 2, 3, 9}, n : {-1, 1, 4}]
  \cup [k : {"match"}, f : {"gmatch"}, s : 3..4, p : DOMAIN Patterns, n : {1}]
  \cup [k : {"match"}, f : {"gsub"}, s : {4}, p : DOMAIN Patterns, n : DOMAIN Replacements]
  \cup [k : {"match"}, f : {"gsub"}, s : {3}, p : DOMAIN Patterns, n : {2}]
  \cup [k : {"match"}, f : {"most"}, s : {4}, p : DOMAIN Patterns, n : 0..1]

(* The other functions of the string library. *)
Plainly == <<
  [i \in 1..16 |-> StrE("sub", <<Text(<<"a", "b", "c">>), Signed(<<-4, -2, 0, 2>>[((i - 1) \div 4) + 1]), Signed(<<-4, -1, 0, 5>>[((i - 1) % 4) + 1])>>)],
  [i \in 1..8 |-> StrE("byte", <<Text(<<"a", "B", "~">>), Signed(i - 5), Signed(2)>>)],
  [i \in 1..8 |-> StrE("byte", <<Text(<<"a", "B", "~">>), Signed(i - 5)>>)],
  <<StrE("len", <<Numb(120)>>), StrE("rep", <<Text(<<"a", "b">>), Numb(3)>>), StrE("rep", <<Text(<<"a">>), Signed(-1)>>), StrE("reverse", <<Text(<<"a", "b", "c">>)>>),
    StrE("upper", <<Text(<<"a", "Z", "[", "9">>)>>), StrE("lower", <<Text(<<"A", "z", "@", "Z">>)>>), StrE("char", <<Numb(97), Text(<<"4", "8">>)>>), StrE("byte", <<Text(<<>>)>>)>>,
  [i \in 1..9 |-> CallE("pcall", <<Token(Str1(<<"sub", "rep", "len", "char", "find", "gsub", "gmatch", "char", "byte">>[i])), <<Text(<<"a">>), Text(<<"a">>), Nil, Text(<<"a">>), Text(<<"a">>), Text(<<"a">>), Numb(1), Numb(300), Text(<<"a">>)>>[i],
                                   <<Text(<<"x">>), Nil, Nil, Nil, True, Text(<<"a">>), Nil, Nil, Table(<<>>)>>[i], Nil>>)],
  <<Token(Method([k |-> "primary", base |-> [k |-> "paren", e |-> Text(<<"a">>)], suffixes |-> <<>>], "rep", <<Numb(2)>>)),
    CallE("pcall", <<Lambda(<<>>, <<Ret(<<Token(Dot([k |-> "primary", base |-> [k |-> "paren", e |-> Text(<<"a">>)], suffixes |-> <<>>], "x"))>>)>>)>>),
    Bin(CallE("getmetatable", <<Text(<<>>)>>), "==", CallE("getmetatable", <<Text(<<"b">>)>>))>>
>>

-----------------------------------------------------------------------------
(* The table library.                                                        *)
Lists == <<<<>>, <<4>>, <<2, 1>>, <<1, 2, 3>>, <<3, 1, 2>>, <<2, 2, 1>>, <<3, 2, 1, 4>>, <<1, 3, 2, 4, 2>>, <<5, 1, 4, 2, 3, 6>>, <<2, 1, 2, 2, 1, 2, 1>>>>
ListOf(i) == Table([j \in DOMAIN Lists[i] |-> Item(Numb(Lists[i][j]))])
Orders == <<Nil, Lambda(<<"x", "y">>, <<Ret(<<Bin(Var("x"), ">", Var("y"))>>)>>),
            Lambda(<<"x", "y">>, <<Set("n", Add(Var("n"), Numb(1))), Ret(<<Bin(Bin(Var("x"), "%", Numb(3)) \o Op("*") \o Numb(10), "+", Var("x")) \o Op("<") \o
                                        Bin(Bin(Var("y"), "%", Numb(3)) \o Op("*") \o Numb(10), "+", Var("y"))>>)>>),
            Lambda(<<"x">>, <<Do1(CallOf(Base("error"), <<Numb(8)>>))>>), Token(Base("rawequal")), Numb(1)>>
Tabled(i) ==
  LET show == Ret(<<Var("ok"), Var("e"), Un("#", Var("t")), CallE("unpack", <<Var("t")>>)>>)
      call(f, es) == <<Local(<<"ok", "e">>, <<CallE("pcall", <<Token(Tab(f)), Var("t")>> \o es)>>), show>>
  IN <<Local(<<"t", "n">>, <<ListOf(i.t), Numb(0)>>)>> \o
     (CASE i.f = "sort" -> <<Local(<<"f">>, <<Orders[i.n]>>)>> \o call("sort", <<Var("f")>>)
        [] i.f = "insert" -> call("insert", <<Signed(i.n), Numb(9)>>)
        [] i.f = "remove" -> call("remove", <<Signed(i.n)>>)
        [] i.f = "concat" -> <<Ret(<<CallE("pcall", <<Token(Tab("concat")), Var("t"), Text(<<"-">>), Signed(i.n), Numb(3)>>)>>)>>
        [] i.f = "foreach" ->
             <<LocalFun("f", <<"k", "v">>, <<Set("n", Bin(Var("n"), "*", Numb(10)) \o Op("+") \o Bin(Var("k"), "*", Var("v"))), Assign1(<<At1(Base("t"), Var("k"))>>, <<Nil>>),
                                              If(Bin(Var("v"), "==", Signed(i.n)), <<Ret(<<Text(<<"f", "o", "u", "n", "d">>)>>)>>, <<>>)>>),
               Ret(<<TabE(IF i.n % 2 = 0 THEN "foreach" ELSE "foreachi", <<Var("t"), Var("f")>>), Var("n")>>)>>)
Tables ==
  [k : {"table"}, f : {"sort"}, t : DOMAIN Lists, n : {1, 2, 3, 4, 6}]
  \cup [k : {"table"}, f : {"insert", "remove"}, t : {1, 2, 4}, n : -1..5]
  \cup [k : {"table"}, f : {"concat"}, t : {1, 3, 4, 7}, n : {-1, 1, 2, 3, 4}]
  \cup [k : {"table"}, f : {"foreach"}, t : {1, 3, 4, 7}, n : 0..3]
TableSingles == <<
  <<Local(<<"t">>, <<Table(<<Item(Numb(1)), Item(Text(<<"x">>))>>)>>), Ret(<<CallE("pcall", <<Token(Tab("sort")), Var("t")>>)>>)>>,
  <<Local(<<"t">>, <<Table(<<Item(Table(<<Field("x", Numb(2))>>)), Item(Table(<<Field("x", Numb(1))>>)), Item(Table(<<Field("x", Numb(3))>>)), Item(Table(<<Field("x", Numb(0))>>))>>)>>),
    Local(<<"m">>, <<Table(<<Field("__lt", Compare)>>)>>), ForIn(<<"k", "v">>, <<CallE("ipairs", <<Var("t")>>)>>, <<Do1(CallOf(Base("setmetatable"), <<Var("v"), Var("m")>>))>>),
    TabS("sort", <<Var("t")>>), Ret(<<Token(Dot(At1(Base("t"), Numb(1)), "x")), Token(Dot(At1(Base("t"), Numb(2)), "x")), Token(Dot(At1(Base("t"), Numb(3)), "x"))>>)>>,
  <<Local(<<"t">>, <<Table(<<Item(Numb(5)), Keyed(Numb(7), Nil), Keyed(Numb(9), Numb(1)), Field("x", Numb(2))>>)>>), TabS("insert", <<Var("t"), Numb(6)>>),
    Ret(<<TabE("maxn", <<Var("t")>>), TabE("getn", <<Var("t")>>), TabE("concat", <<Var("t")>>), TabE("remove", <<Var("t")>>), TabE("remove", <<Var("t"), Numb(1)>>), TabE("remove", <<Var("t")>>), Un("#", Var("t"))>>)>>,
  <<Ret(<<Par(CallE("pcall", <<Token(Tab("insert")), Table(<<>>)>>)), CallE("pcall", <<Token(Tab("setn")), Table(<<>>), Numb(1)>>)>>)>>,
  <<Ret(<<Par(CallE("pcall", <<Token(Tab("foreach")), Table(<<>>)>>)), CallE("pcall", <<Token(Tab("concat")), Table(<<Item(Numb(1)), Item(True)>>)>>)>>)>>
>>

-----------------------------------------------------------------------------
(* Coroutines: each program, and what it returns.                            *)
Co(f) == Dot(Base("coroutine"), f)
CoE(f, es) == Token(CallOf(Co(f), es))
Resume(es) == CoE("resume", es)
Yield(es) == CoE("yield", es)
n(i) == <<"num", i>>
b(i) == <<"bool", i>>
m(s) == <<"str", s>>
nil == <<"nil">>
(* The message of a call that fails. *)
Says(f, es) == Par(CallE("select", <<Numb(2), CallE("pcall", <<f>> \o es)>>))
WrapMessages(p) ==    \* of a coroutine that does p, and of the call after that
  <<Local(<<"co">>, <<CoE("wrap", <<Lambda(<<>>, <<Do1(p)>>)>>)>>),
    LocalFun("f", <<>>, <<Do1(CallOf(Base("co"), <<>>))>>),
    Ret(<<Says(Var("f"), <<>>), Says(Var("f"), <<>>)>>)>>
Ordered == <<
  <<<<"a">>, "<", <<"b">>, TRUE>>, <<<<"b">>, "<", <<"a">>, FALSE>>, <<<<"a">>, "<", <<"a">>, FALSE>>, <<<<"a">>, "<=", <<"a">>, TRUE>>,
  <<<<>>, "<", <<"a">>, TRUE>>, <<<<"a">>, "<", <<>>, FALSE>>, <<<<>>, "<", <<>>, FALSE>>, <<<<>>, ">=", <<>>, TRUE>>,
  <<<<"a", "b">>, "<", <<"b">>, TRUE>>, <<<<"a">>, "<", <<"a", "b">>, TRUE>>, <<<<"a", "b">>, "<=", <<"a">>, FALSE>>, <<<<"B">>, "<", <<"a">>, TRUE>>,
  <<<<"1", "0">>, "<", <<"9">>, TRUE>>, <<<<"a">>, ">", <<"b">>, FALSE>>, <<<<"b", "a">>, ">=", <<"b">>, TRUE>>, <<<<"b">>, ">", <<"a", "z">>, TRUE>>>>
at == "source:line: "    \* what a message of a function in Lua starts with
Routines == <<
  \* values go in and out at each switch; a coroutine that has ended is dead
  [text |-> <<Local(<<"co">>, <<CoE("create", <<Lambda(<<"a", "b">>, <<Local(<<"c", "d">>, <<Yield(<<Add(Var("a"), Var("b")), Var("a")>>)>>),
                                 Local(<<"e">>, <<Add(Numb(1), Par(Yield(<<Var("d"), Var("c")>>)))>>), Ret(<<Var("e"), Numb(0)>>)>>)>>)>>),
              Local(<<"p", "q", "r">>, <<Resume(<<Var("co"), Numb(1), Numb(2)>>)>>), Local(<<"s">>, <<CoE("status", <<Var("co")>>)>>),
              Local(<<"x", "y", "z">>, <<Resume(<<Var("co"), Numb(5), Numb(6)>>)>>),
              Local(<<"u", "v", "w">>, <<Resume(<<Var("co"), Numb(7)>>)>>),
              Ret(<<Var("p"), Var("q"), Var("r"), Var("s"), Var("x"), Var("y"), Var("z"), Var("u"), Var("v"), Var("w"), CoE("status", <<Var("co")>>), Resume(<<Var("co")>>)>>)>>,
   out |-> <<b(TRUE), n(3), n(1), m(<<"suspended">>), b(TRUE), n(6), n(5), b(TRUE), n(8), n(0), m(<<"dead">>), b(FALSE), m(<<"cannot resume", "dead">>)>>],
  \* a generator, in a for loop; it keeps its own locals
  [text |-> <<Local(<<"n">>, <<Numb(0)>>),
              ForIn(<<"v">>, <<CoE("wrap", <<Lambda(<<>>, <<ForNum("i", Numb(1), Numb(3), <<>>, <<Do1(CallOf(Co("yield"), <<Var("i")>>))>>)>>)>>)>>,
                    <<Set("n", Bin(Var("n"), "*", Numb(10)) \o Op("+") \o Var("v"))>>),
              Ret(<<Var("n")>>)>>,
   out |-> <<n(123)>>],
  \* an error in a coroutine kills it; one in its pcall does not; no yield from there
  [text |-> <<Local(<<"co">>, <<CoE("create", <<Lambda(<<>>, <<Local(<<"ok">>, <<CallE("pcall", <<Var("error"), Numb(1)>>)>>),
                                 Local(<<"in", "e">>, <<CallE("pcall", <<Token(Co("yield")), Numb(2)>>)>>), Do1(CallOf(Co("yield"), <<Var("ok"), Var("in"), Var("e")>>)),
                                 Do1(CallOf(Base("error"), <<Numb(3)>>))>>)>>)>>),
              Local(<<"p", "q", "r", "s">>, <<Resume(<<Var("co")>>)>>), Local(<<"x", "y">>, <<Resume(<<Var("co")>>)>>),
              Ret(<<Var("p"), Var("q"), Var("r"), Var("s"), Var("x"), Var("y"), CoE("status", <<Var("co")>>)>>)>>,
   out |-> <<b(TRUE), b(FALSE), b(FALSE), m(<<"attempt to yield across metamethod/C-call boundary">>), b(FALSE), m(<<at, "3">>), m(<<"dead">>)>>],
  \* a coroutine resumes another: who runs, who waits
  [text |-> <<Local(<<"a", "b">>, <<>>),
              Set("a", CoE("create", <<Lambda(<<>>, <<Ret(<<CoE("status", <<Var("a")>>), Resume(<<Var("b")>>)>>)>>)>>)),
              Set("b", CoE("create", <<Lambda(<<>>, <<Ret(<<CoE("status", <<Var("a")>>), CoE("status", <<Var("b")>>), Resume(<<Var("a"), Lambda(<<>>, <<Ret(<<Numb(6)>>)>>)>>)>>)>>)>>)),
              Ret(<<Bin(CoE("running", <<>>), "==", Nil), Resume(<<Var("a")>>)>>)>>,
   out |-> <<b(TRUE), b(TRUE), m(<<"running">>), b(TRUE), m(<<"normal">>), m(<<"running">>), b(FALSE), m(<<"cannot resume", "normal">>)>>],
  [text |-> <<Local(<<"a", "b">>, <<>>),
              Set("a", CoE("create", <<Lambda(<<>>, <<Do1(CallOf(Co("yield"), <<>>)), Ret(<<Resume(<<Var("b")>>)>>)>>)>>)),
              Set("b", CoE("create", <<Lambda(<<>>, <<Ret(<<Resume(<<Var("a"), Numb(1)>>)>>)>>)>>)),
              Do1(CallOf(Co("resume"), <<Var("a")>>)), Ret(<<Resume(<<Var("a")>>)>>)>>,
   out |-> <<b(TRUE), b(TRUE), b(FALSE), m(<<"cannot resume", "normal">>)>>],
  \* yield as a tail call, an upvalue of a coroutine used from outside
  [text |-> <<Local(<<"x", "get">>, <<Numb(1)>>),
              Local(<<"co">>, <<CoE("wrap", <<Lambda(<<>>, <<Local(<<"l">>, <<Numb(5)>>), Set("get", Lambda(<<>>, <<Set("l", Add(Var("l"), Var("x"))), Ret(<<Var("l")>>)>>)),
                                 Do1(CallOf(Co("yield"), <<>>)), Set("l", Bin(Var("l"), "*", Numb(2))), Ret(<<CoE("yield", <<Var("l")>>)>>)>>)>>)>>),
              Do1(CallOf(Base("co"), <<>>)), Local(<<"p">>, <<CallE("get", <<>>)>>), Local(<<"q">>, <<CallE("co", <<>>)>>),
              Ret(<<Var("p"), Var("q"), CallE("get", <<>>), CallE("co", <<Numb(3), Numb(4)>>)>>)>>,
   out |-> <<n(6), n(12), n(13), n(3), n(4)>>],
  \* errors through wrap; no yield from the main program, a tag method or an iterator
  [text |-> <<Ret(<<CallE("pcall", <<Token(Co("wrap")), Var("error")>>)>>)>>, out |-> <<b(FALSE), m(<<"bad argument">>)>>],
  \* no yield from the functions that call back
  [text |-> <<Local(<<"co">>, <<CoE("create", <<Lambda(<<>>, <<Do1(CallOf(Tab("sort"), <<Table(<<Item(Numb(2)), Item(Numb(1))>>), Token(Co("yield"))>>))>>)>>)>>),
              Ret(<<Resume(<<Var("co")>>)>>)>>,
   out |-> <<b(FALSE), m(<<"attempt to yield across metamethod/C-call boundary">>)>>],
  \* an order that is none: sort reads past the ends of the list, and stops
  [text |-> <<Local(<<"t">>, <<ListOf(4)>>), Ret(<<CallE("pcall", <<Token(Tab("sort")), Var("t"), Lambda(<<>>, <<Ret(<<True>>)>>)>>)>>)>>,
   out |-> <<b(TRUE)>>],
  [text |-> <<Local(<<"t">>, <<ListOf(7)>>), Ret(<<CallE("pcall", <<Token(Tab("sort")), Var("t"), Lambda(<<>>, <<Ret(<<True>>)>>)>>)>>)>>,
   out |-> <<b(FALSE), m(<<"invalid order function for sorting">>)>>],
  [text |-> <<Local(<<"co">>, <<CoE("wrap", <<Lambda(<<>>, <<Do1(CallOf(Base("error"), <<Numb(2)>>))>>)>>)>>),
              Ret(<<CallE("pcall", <<Var("co")>>), CallE("pcall", <<Var("co")>>)>>)>>,
   out |-> <<b(FALSE), b(FALSE), m(<<"cannot resume", "dead">>)>>],
  [text |-> <<Local(<<"t">>, <<Table(<<>>)>>), Meta("t", Field("__index", Token(Co("yield")))),
              Local(<<"co">>, <<CoE("create", <<Lambda(<<>>, <<Ret(<<Token(Dot(Base("t"), "x"))>>)>>)>>)>>),
              Ret(<<CallE("pcall", <<Token(Co("yield"))>>), Resume(<<Var("co")>>)>>)>>,
   out |-> <<b(FALSE), b(FALSE), m(<<"attempt to yield across metamethod/C-call boundary">>)>>],
  \* an error that is handed on gets the position of the call of the coroutine, a number too
  [text |-> WrapMessages(CallOf(Base("error"), <<Text(<<"x">>)>>)), out |-> <<m(<<at, at, "x">>), m(<<at, "cannot resume", "dead">>)>>],
  [text |-> WrapMessages(CallOf(Base("error"), <<Numb(7), Numb(0)>>)), out |-> <<m(<<at, "7">>), m(<<at, "cannot resume", "dead">>)>>],
  [text |-> WrapMessages(CallOf(Base("error"), <<True>>)), out |-> <<b(TRUE), m(<<at, "cannot resume", "dead">>)>>],
  [text |-> WrapMessages(CallOf(Base("yield"), <<>>)), out |-> <<m(<<at, at, "attempt to", "call", "nil", <<"global", <<"yield">>>>>>), m(<<at, "cannot resume", "dead">>)>>],
  [text |-> WrapMessages(CallOf([k |-> "primary", base |-> [k |-> "paren", e |-> CoE("wrap", <<Lambda(<<>>, <<Do1(CallOf(Base("error"), <<Text(<<"x">>)>>))>>)>>)], suffixes |-> <<>>], <<>>)),
   out |-> <<m(<<at, at, at, "x">>), m(<<at, "cannot resume", "dead">>)>>]
>>

(* Messages and the comparison of strings: each program, and what it returns *)
(* (it is what the evaluator must give for it too). *)
Messages == <<
  \* the levels of error: the function that calls it, its caller, pcall (in C), the main function, none
  [text |-> <<LocalFun("f", <<"l">>, <<Do1(CallOf(Base("error"), <<Text(<<"a">>), Var("l")>>))>>),
              LocalFun("g", <<"l">>, <<Do1(CallOf(Base("f"), <<Var("l")>>))>>),
              Ret([i \in 1..9 |-> Says(Var("g"), <<<<Numb(0), Nil, Numb(1), Numb(2), Numb(3), Numb(4), Numb(5), Text(<<"2">>), Text(<<"l">>)>>[i]>>)])>>,
   out |-> <<m(<<"a">>), m(<<at, "a">>), m(<<at, "a">>), m(<<at, "a">>), m(<<"a">>), m(<<at, "a">>), m(<<"a">>), m(<<at, "a">>), m(<<at, "bad argument">>)>>],
  \* functions that a tail call replaced count, and have no position; a function in C replaces none
  [text |-> <<LocalFun("f", <<"l">>, <<Do1(CallOf(Base("error"), <<Text(<<"a">>), Var("l")>>))>>),
              LocalFun("g", <<"l">>, <<Ret(<<CallE("f", <<Var("l")>>)>>)>>),
              LocalFun("h", <<"l">>, <<Ret(<<CallE("error", <<Text(<<"a">>), Var("l")>>)>>)>>),
              Ret([i \in 1..8 |-> Says(Var(IF i < 6 THEN "g" ELSE "h"), <<Numb(IF i < 6 THEN i ELSE i - 5)>>)])>>,
   out |-> <<m(<<at, "a">>), m(<<"a">>), m(<<"a">>), m(<<at, "a">>), m(<<"a">>), m(<<at, "a">>), m(<<"a">>), m(<<at, "a">>)>>],
  \* a number becomes a string where a position may come before it, other values stay
  [text |-> <<LocalFun("f", <<"v", "l">>, <<Do1(CallOf(Base("error"), <<Var("v"), Var("l")>>))>>),
              Ret(<<Says(Var("f"), <<Numb(5)>>), Says(Var("f"), <<Numb(5), Numb(0)>>), Says(Var("error"), <<Numb(5)>>), Says(Var("f"), <<Nil>>), Says(Var("f"), <<True>>),
                    CallE("type", <<Says(Var("f"), <<Table(<<>>)>>)>>), Bin(Says(Var("error"), <<Text(<<"1">>)>>), "==", Numb(1))>>)>>,
   out |-> <<m(<<at, "5">>), n(5), m(<<"5">>), nil, b(TRUE), m(<<"table">>), b(FALSE)>>],
  [text |-> <<LocalFun("f", <<"c", "v">>, <<Ret(<<CallE("assert", <<Var("c"), Var("v")>>)>>)>>),
              Ret(<<Says(Var("f"), <<False>>), Says(Var("f"), <<Nil, Text(<<"w">>)>>), Says(Var("f"), <<False, Numb(6)>>), Says(Var("f"), <<False, Table(<<>>)>>), Says(Var("assert"), <<False>>),
                    Says(Var("f"), <<Numb(1), True>>)>>)>>,
   out |-> <<m(<<at, "assertion failed!">>), m(<<at, "w">>), m(<<at, "6">>), m(<<at, "bad argument">>), m(<<"assertion failed!">>), n(1)>>],
  \* strings are compared by their characters, and with strings only
  [text |-> <<Ret([i \in DOMAIN Ordered |-> Bin(Text(Ordered[i][1]), Ordered[i][2], Text(Ordered[i][3]))])>>,
   out |-> [i \in DOMAIN Ordered |-> b(Ordered[i][4])]],
  [text |-> <<Local(<<"a", "e">>, <<Text(<<"a">>), Text(<<>>)>>), Local(<<"n">>, <<Numb(0)>>),
              While1(Bin(Var("e"), "<", Var("a")), <<Set("e", Bin(Var("e"), "..", Text(<<"B">>))), Set("n", Add(Var("n"), Numb(1))), If(Bin(Var("n"), "==", Numb(3)), <<Set("e", Text(<<"b">>))>>, <<>>)>>),
              Ret(<<Var("n"), Says(Lambda(<<"x", "y">>, <<Ret(<<Bin(Var("x"), "<", Var("y"))>>)>>), <<Var("a"), Numb(1)>>)>>)>>,
   out |-> <<n(3), m(<<at, "attempt to", "compare", "string", "number">>)>>],
  [text |-> <<Local(<<"t">>, <<Table([i \in 1..5 |-> Item(Text(<<<<"b">>, <<"a", "b">>, <<>>, <<"B", "z">>, <<"a">>>>[i]))])>>), TabS("sort", <<Var("t")>>), Ret(<<CallE("unpack", <<Var("t")>>)>>)>>,
   out |-> <<m(<<>>), m(<<"B", "z">>), m(<<"a">>), m(<<"a", "b">>), m(<<"b">>)>>],
  [text |-> <<Local(<<"t">>, <<Table(<<Item(Text(<<"1">>)), Item(Numb(2))>>)>>), Ret(<<Says(Lambda(<<>>, <<TabS("sort", <<Var("t")>>)>>), <<>>)>>)>>,
   out |-> <<m(<<"attempt to", "compare", "number", "string">>)>>],
  \* parts of a list
  [text |-> <<Local(<<"t">>, <<ListOf(5)>>),
              LocalFun("u", <<"i", "j">>, <<Ret(<<CallE("unpack", <<Var("t"), Var("i"), Var("j")>>)>>)>>),
              Ret(<<CallE("select", <<Text(<<"#">>), CallE("u", <<Numb(3), Numb(2)>>)>>), CallE("select", <<Text(<<"#">>), CallE("u", <<Signed(-1), Numb(1)>>)>>),
                    Says(Var("u"), <<Text(<<"x">>)>>), Says(Var("u"), <<Nil, Table(<<>>)>>), Par(CallE("u", <<Nil, Numb(1)>>)), Par(CallE("u", <<Text(<<"3">>)>>)), CallE("u", <<Numb(2), Numb(5)>>)>>)>>,
   out |-> <<n(0), n(3), m(<<at, "bad argument">>), m(<<at, "bad argument">>), n(3), n(2), n(1), n(2), nil, nil>>],
  \* lists with more parts than the argument of an instruction can count
  [text |-> <<LocalFun("two", <<>>, <<Ret(<<Numb(8), Numb(9)>>)>>), Local(<<"t">>, <<Table([i \in 1..7 |-> Item(Numb(i))])>>),
              Local(<<"u">>, <<Table([i \in 1..6 |-> Item(IF i = 6 THEN CallE("two", <<>>) ELSE Numb(10 + i))])>>),
              Ret(<<Un("#", Var("t")), Token(At1(Base("t"), Numb(7))), Token(At1(Base("t"), Numb(6))), Token(At1(Base("t"), Numb(4))), Un("#", Var("u")), CallE("unpack", <<Var("u")>>)>>)>>,
   out |-> <<n(7), n(7), n(6), n(4), n(7), n(11), n(12), n(13), n(14), n(15), n(8), n(9)>>],
  \* errors of the machine name the function that runs, those of a library the one that called it
  [text |-> <<LocalFun("f", <<"g", "x">>, <<Do1(CallOf(Base("g"), <<Var("x")>>))>>),
              Ret(<<Says(Var("f"), <<Var("unpack")>>), Says(Var("unpack"), <<>>), Says(Lambda(<<"x">>, <<Ret(<<Un("#", Var("x"))>>)>>), <<>>), Says(Var("rawset"), <<Table(<<>>), Nil, Numb(1)>>),
                    Says(Var("f"), <<Token(Tab("setn")), Table(<<>>)>>), Says(Lambda(<<"x">>, <<Ret(<<CallE("x", <<>>)>>)>>), <<>>)>>)>>,
   out |-> <<m(<<at, "bad argument">>), m(<<"bad argument">>), m(<<at, "attempt to", "get length of", "nil", <<"local", <<"x">>>>>>), m(<<"table index is nil">>),
             m(<<at, "setn is obsolete">>), m(<<at, "attempt to", "call", "nil", <<"local", <<"x">>>>>>)>>]
>>

(* Programs that run into a limit: they end, whatever they return. *)
Endless == <<
  <<LocalFun("f", <<"n">>, <<Ret(<<Add(Numb(1), CallE("f", <<Var("n")>>))>>)>>), Local(<<"ok">>, <<CallE("pcall", <<Var("f"), Numb(1)>>)>>), Ret(<<Var("ok")>>)>>,
  <<LocalFun("f", <<>>, <<Ret(<<Numb(1), CallE("f", <<>>)>>)>>), Ret(<<CallE("pcall", <<Var("f")>>)>>)>>,
  <<Local(<<"t">>, <<Table(<<>>)>>), Meta("t", Field("__index", Lambda(<<"t", "k">>, <<Ret(<<Token(At1(Base("t"), Var("k")))>>)>>))),
    Local(<<"f">>, <<Lambda(<<>>, <<Ret(<<Token(Dot(Base("t"), "x"))>>)>>)>>), Ret(<<CallE("pcall", <<Var("f")>>), CallE("pcall", <<Var("f")>>)>>)>>,
  <<Local(<<"t">>, <<Table(<<>>)>>), Do1(CallOf(Base("setmetatable"), <<Var("t"), Var("t")>>)), Assign1(<<Dot(Base("t"), "__index")>>, <<Var("t")>>),
    Ret(<<CallE("pcall", <<Lambda(<<>>, <<Ret(<<Token(Dot(Base("t"), "x"))>>)>>)>>)>>)>>,
  <<Local(<<"f">>, <<>>), Set("f", Lambda(<<>>, <<Ret(<<Token(CallOf(Base("pcall"), <<Var("f")>>))>>)>>)), Ret(<<CallE("f", <<>>)>>)>>,
  <<Local(<<"f">>, <<>>), Set("f", Lambda(<<>>, <<Do1(CallOf([k |-> "primary", base |-> [k |-> "paren", e |-> CoE("wrap", <<Var("f")>>)], suffixes |-> <<>>], <<>>))>>)), Ret(<<CallE("pcall", <<Var("f")>>)>>)>>
>>

-----------------------------------------------------------------------------
TextOf(i) ==
  CASE i.k = "condition" ->
         <<Local(<<"x">>, <<False>>), Set("g", Numb(7))>> \o ConditionAt(Condition(i), i.place)
    [] i.k = "operation" -> Operation(i)
    [] i.k = "assignment" -> Assignment(i)
    [] i.k = "call" -> Called(i)
    [] i.k = "loop" -> Loop(i)
    [] i.k = "count" -> Count(i)
    [] i.k = "tag" -> TagPrograms[i.n]
    [] i.k = "single" -> Singles[i.n]
    [] i.k = "wrong" -> WrongProgram(i.n)
    [] i.k = "store" -> WrongStore(i.n)
    [] i.k = "match" -> Matched(i)
    [] i.k = "plain" -> <<Ret(Plainly[i.n])>>
    [] i.k = "table" -> Tabled(i)
    [] i.k = "tables" -> TableSingles[i.n]
    [] i.k = "routine" -> Routines[i.n].text
    [] i.k = "message" -> Messages[i.n].text
    [] i.k = "endless" -> Endless[i.n]
=============================================================================
