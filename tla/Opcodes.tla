------------------------------- MODULE Opcodes -------------------------------
(* Instructions of the embedded Lua's virtual machine (lopcodes.h), as       *)
(* records with the fields op, a, b, c.  Bx and sBx are in b.                *)
EXTENDS Integers, Sequences, TLC

CONSTANTS MAXSTACK,          \* limit of registers
          MAXRK,             \* last constant that fits in an operand (MAXINDEXRK)
          MAXARG_C,          \* largest operand C of a SETLIST
          LFIELDS_PER_FLUSH  \* items of a constructor stored at a time

NO_REG == 255        \* invalid register
NO_JUMP == -1        \* end of a list of jumps
LUA_MULTRET == -1
BITRK == 256
MAXARG_Bx == 2 ^ 18 - 1
MAXARG_sBx == MAXARG_Bx \div 2

(* RK operands: a register or, from BITRK on, a constant. *)
ISK(x) == x >= BITRK
INDEXK(x) == x - BITRK
RKASK(x) == x + BITRK

Instr(op, a, b, c) == [op |-> op, a |-> a, b |-> b, c |-> c]
CountWord(c) == Instr("count", 0, 0, c)    \* the word after a SETLIST, no instruction

(* luaP_opmodes: is it a test, does it set register A, what B and C are (not *)
(* used, used, a register or a jump, a register or a constant), the format.  *)
Modes(T, A, B, C, M) == [t |-> T = 1, a |-> A = 1, b |-> B, c |-> C, mode |-> M]
opmodes ==
  [op \in {"EQ", "LT", "LE"} |-> Modes(1, 0, "K", "K", "ABC")] @@
  [op \in {"ADD", "SUB", "MUL", "DIV", "MOD", "POW"} |-> Modes(0, 1, "K", "K", "ABC")] @@
  [op \in {"UNM", "NOT", "LEN", "MOVE", "LOADNIL"} |-> Modes(0, 1, "R", "N", "ABC")] @@
  [op \in {"GETTABLE", "SELF"} |-> Modes(0, 1, "R", "K", "ABC")] @@
  [op \in {"LOADK", "GETGLOBAL"} |-> Modes(0, 1, "K", "N", "ABx")] @@
  [op \in {"LOADBOOL", "NEWTABLE", "CALL", "TAILCALL"} |-> Modes(0, 1, "U", "U", "ABC")] @@
  [op \in {"GETUPVAL", "VARARG"} |-> Modes(0, 1, "U", "N", "ABC")] @@
  [op \in {"SETUPVAL", "RETURN"} |-> Modes(0, 0, "U", "N", "ABC")] @@
  [op \in {"TEST", "TESTSET"} |-> Modes(1, 1, "R", "U", "ABC")] @@
  [op \in {"FORLOOP", "FORPREP"} |-> Modes(0, 1, "R", "N", "AsBx")] @@
  ("SETGLOBAL" :> Modes(0, 0, "K", "N", "ABx")) @@
  ("SETTABLE" :> Modes(0, 0, "K", "K", "ABC")) @@
  ("CONCAT" :> Modes(0, 1, "R", "R", "ABC")) @@
  ("JMP" :> Modes(0, 0, "R", "N", "AsBx")) @@
  ("TFORLOOP" :> Modes(1, 0, "N", "U", "ABC")) @@
  ("SETLIST" :> Modes(0, 0, "U", "U", "ABC")) @@
  ("CLOSE" :> Modes(0, 0, "N", "N", "ABC")) @@
  ("CLOSURE" :> Modes(0, 1, "U", "N", "ABx"))

testTMode(i) == opmodes[i.op].t
=============================================================================
