-------------------------------- MODULE MCLua --------------------------------
(* Model: the families of programs, compiled by the model of the compiler.   *)
EXTENDS VM
CONSTANT LUA_MAXCAPTURES   \* limit of the captures of a pattern
Text == INSTANCE LuaPrograms
Checker == INSTANCE SymbExec
Lib == INSTANCE LuaString
Compiler == INSTANCE Parser
Reference == INSTANCE LuaSemantics

Numbered(k, ps) == {[k |-> k, n |-> i] : i \in DOMAIN ps}
MCPrograms ==
  Numbered("single", Text!Singles) \cup Numbered("tag", Text!TagPrograms)
  \cup Numbered("wrong", Text!Wrong) \cup Numbered("store", Text!WrongStores)
  \cup Numbered("routine", Text!Routines) \cup Numbered("message", Text!Messages) \cup Numbered("endless", Text!Endless)
  \cup Text!Loops \cup Text!Counts \cup Text!Calls \cup Text!Assignments \cup Text!Operations
  \cup Text!Conditions \cup Numbered("plain", Text!Plainly) \cup Numbered("tables", Text!TableSingles)
  \cup Text!Searches \cup Text!Tables
Compiled(i) == Compiler!luaY_parser(Text!TextOf(i))
MCMain(i) == LET fs == Compiled(i) IN Compiler!Proto(fs)

(* The parameters of the machine. *)
ObjName(pt, pc, reg) == Checker!getobjname(pt, pc, reg)
StrCall(f, args, a) == Lib!StringCall(f, args, a)
StrMatching(str, pat) == Lib!Matching(str, pat)
StrGmatch(m, at) == Lib!gmatch_aux(m, at)
StrSubstituting(str, pat, news, max_s) == Lib!Substituting(str, pat, news, max_s)
StrGsub(g) == Lib!Gsub(g)
StrAsked(g) == Lib!Asked(g)
StrAnswered(g, v) == Lib!Answered(g, v)

RECURSIVE Valid(_)
Valid(pt) == Checker!luaG_checkcode(pt) /\ \A i \in DOMAIN pt.p : Valid(pt.p[i])
(* What the compiler asserts holds, and its output passes the checker of     *)
(* compiled functions. *)
CompiledWell ==
  [][main = <<>> => LET f == Compiled(prog) IN f.ok /\ f.err = "" /\ Valid(main')]_vars
(* A program gives what its text means: what the reference evaluator gives,  *)
(* and for coroutines and messages what is written beside the text.  Left    *)
(* out: a program with jumps on hold where luaK_goiftrue codes the jump of a *)
(* constant.                                                                 *)
Written == ("routine" :> Text!Routines) @@ ("message" :> Text!Messages)
Correct ==
  [][vm'.out # <<>> /\ prog.k # "endless" /\ ~Compiled(prog).held =>
     /\ prog.k # "routine" => vm'.out = Reference!Meaning(Text!TextOf(prog))
     /\ prog.k \in DOMAIN Written => vm'.out = <<"return", Written[prog.k][prog.n].out>>]_vars
=============================================================================
