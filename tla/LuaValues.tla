------------------------------ MODULE LuaValues ------------------------------
(* The values of the embedded Lua (lobject.h) and their conversions: a value *)
(* is a tuple of its type and its data.  A number is an integer; a string is *)
(* a sequence of characters, a name one of a single token.                   *)
EXTENDS Integers, Sequences, SequencesExt, TLC

NIL == <<"nil">>
Bool(b) == <<"bool", b>>
Num(n) == <<"num", n>>
Str(s) == <<"str", s>>
TypeName ==
  [k \in {"nil", "thread", "table"} |-> k] @@ ("bool" :> "boolean") @@ ("num" :> "number") @@
  ("str" :> "string") @@ [k \in {"fun", "cfun"} |-> "function"]
ttisfunction(v) == v[1] \in {"fun", "cfun"}
l_isfalse(v) == v \in {NIL, Bool(FALSE)}

(* Conversions between numbers and strings. *)
Digits == <<"0", "1", "2", "3", "4", "5", "6", "7", "8", "9">>
DigitOf(c) == (CHOOSE i \in 1..10 : Digits[i] = c) - 1
Decimal(n) ==
  LET digits[m \in Nat] == (IF m < 10 THEN <<>> ELSE digits[m \div 10]) \o <<Digits[(m % 10) + 1]>>
  IN IF n < 0 THEN <<"-">> \o digits[-n] ELSE digits[n]
ToStr(v) == IF v[1] = "num" THEN Str(Decimal(v[2])) ELSE v
IsStr(v) == v[1] \in {"str", "num"}
ToNum(v) ==    \* NIL: no number
  IF v[1] = "str" /\ v[2] # <<>> /\ \A i \in DOMAIN v[2] : v[2][i] \in Range(Digits)
    THEN Num(FoldLeft(LAMBDA n, c : 10 * n + DigitOf(c), 0, v[2]))
  ELSE IF v[1] = "num" THEN v ELSE NIL
TextOf(v) == ToStr(v)[2]
Optional(v, default) == IF v = NIL THEN default ELSE ToNum(v)[2]

(* Characters, in the order of their codes; "" stands for the zero byte, and *)
(* a word for the character no string of TLA+ can hold.                      *)
Printable ==
  <<" ", "!", "\"", "#", "$", "%", "&", "'", "(", ")", "*", "+", ",", "-", ".", "/",
    "0", "1", "2", "3", "4", "5", "6", "7", "8", "9", ":", ";", "<", "=", ">", "?", "@",
    "A", "B", "C", "D", "E", "F", "G", "H", "I", "J", "K", "L", "M",
    "N", "O", "P", "Q", "R", "S", "T", "U", "V", "W", "X", "Y", "Z",
    "[", "\\", "]", "^", "_", "grave",
    "a", "b", "c", "d", "e", "f", "g", "h", "i", "j", "k", "l", "m",
    "n", "o", "p", "q", "r", "s", "t", "u", "v", "w", "x", "y", "z", "{", "|", "}", "~">>
Codes == [c \in Range(Printable) \cup {""} |->
            IF c = "" THEN 0 ELSE 31 + CHOOSE i \in DOMAIN Printable : Printable[i] = c]
FromTo(from, to) == {c \in DOMAIN Codes : Codes[from] <= Codes[c] /\ Codes[c] <= Codes[to]}
Upper == FromTo("A", "Z")
Lower == FromTo("a", "z")
Digital == FromTo("0", "9")
Hexadecimal == Digital \cup FromTo("A", "F") \cup FromTo("a", "f")
Punctuation == DOMAIN Codes \ (Upper \cup Lower \cup Digital \cup {"", " "})
ToLower == [c \in DOMAIN Codes |-> IF c \in Upper THEN Printable[Codes[c] + 1] ELSE c]
ToUpper == [c \in DOMAIN Codes |-> IF c \in Lower THEN Printable[Codes[c] - 63] ELSE c]
uchar(c) == Codes[c]
char(n) == IF n = 0 THEN "" ELSE Printable[n - 31]
islower(c) == c \in Lower
isdigit(c) == c \in Digital
tolower(c) == ToLower[c]
toupper(c) == ToUpper[c]

(* Two numbers or two strings are compared where they are, strings by the    *)
(* codes of their characters (l_strcmp, in the C locale).                    *)
Comparable(x, y) == x[1] = y[1] /\ x[1] \in {"num", "str"}
l_strless(x, y) ==
  \E i \in 1..Len(y) :
    /\ \A j \in 1..i - 1 : j <= Len(x) /\ x[j] = y[j]
    /\ i > Len(x) \/ Codes[x[i]] < Codes[y[i]]
lessthan(x, y) == IF x[1] = "num" THEN x[2] < y[2] ELSE l_strless(x[2], y[2])

(* What a message starts with: the file and the line, as a single token. *)
Position == <<"source:line: ">>

LuaMod(x, y) == IF y > 0 THEN x % y ELSE -((-x) % (-y))
Calc(op, x, y) ==
  CASE op = "ADD" -> x + y [] op = "SUB" -> x - y [] op = "MUL" -> x * y
    [] op = "MOD" -> LuaMod(x, y) [] op = "POW" -> x ^ y [] op = "UNM" -> -x
=============================================================================
