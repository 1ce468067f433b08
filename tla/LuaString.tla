------------------------------ MODULE LuaString ------------------------------
(* The string library of the embedded Lua (lstrlib.c): plain functions, and  *)
(* the pattern matcher, a backtracking interpreter of the pattern's text.    *)
(* A function gives [err, vs]: a message, or "" and the values it returns.   *)
(* Patterns and strings are sequences of characters; a position is that of   *)
(* the next character, one past the end at the end.                          *)
EXTENDS LuaValues, FiniteSetsExt

CONSTANT LUA_MAXCAPTURES

Digit(d) == uchar(d) - uchar("0")
At(str, i) == IF i \in DOMAIN str THEN str[i] ELSE ""

-----------------------------------------------------------------------------
(* The plain functions.                                                      *)
posrelat(pos, len) == LET n == IF pos < 0 THEN pos + len + 1 ELSE pos IN IF n >= 0 THEN n ELSE 0
AtLeast(n, i) == IF i < n THEN n ELSE i
AtMost(n, i) == IF i > n THEN n ELSE i

str_sub(s, i, j) ==
  SubSeq(s, AtLeast(1, posrelat(i, Len(s))), AtMost(Len(s), posrelat(j, Len(s))))
str_reverse(s) == [i \in DOMAIN s |-> s[Len(s) + 1 - i]]
str_lower(s) == [i \in DOMAIN s |-> tolower(s[i])]
str_upper(s) == [i \in DOMAIN s |-> toupper(s[i])]
str_rep(s, n) == [i \in 1..(IF n < 0 THEN 0 ELSE n) * Len(s) |-> s[((i - 1) % Len(s)) + 1]]
str_byte(s, i, j) ==
  LET bytes == str_sub(s, i, j)
  IN [k \in DOMAIN bytes |-> Num(uchar(bytes[k]))]

str_char(args) == [i \in DOMAIN args |-> char(ToNum(args[i])[2])]

-----------------------------------------------------------------------------
(* Items of a pattern.  classend: where what follows the item at p starts;   *)
(* 0: the pattern is malformed.                                              *)
classend(pat, p) ==
  LET close[q \in 1..Len(pat) + 1] ==
        LET r == IF At(pat, q) = "%" /\ q < Len(pat) THEN q + 2 ELSE q + 1
        IN IF q > Len(pat) THEN 0 ELSE IF At(pat, r) = "]" THEN r + 1 ELSE close[r]
  IN CASE At(pat, p) = "%" -> IF p = Len(pat) THEN 0 ELSE p + 2
       [] At(pat, p) = "[" -> close[IF At(pat, p + 1) = "^" THEN p + 2 ELSE p + 1]
       [] OTHER -> p + 1

Class ==
  ("a" :> Upper \cup Lower) @@ ("c" :> {""}) @@ ("d" :> Digital) @@ ("l" :> Lower) @@ ("p" :> Punctuation)
  @@ ("s" :> {" "}) @@ ("u" :> Upper) @@ ("w" :> Upper \cup Lower \cup Digital)
  @@ ("x" :> Hexadecimal) @@ ("z" :> {""})
match_class(c, cl) ==
  IF tolower(cl) \notin DOMAIN Class THEN cl = c ELSE (c \in Class[tolower(cl)]) = islower(cl)

(* The set from p, its bracket, to ec, the closing one. *)
matchbracketclass(c, pat, p, ec) ==
  LET sig == At(pat, p + 1) # "^"
      found[q \in 1..Len(pat) + 3] ==
        /\ q < ec
        /\ IF pat[q] = "%" THEN match_class(c, pat[q + 1]) \/ found[q + 2]
           ELSE IF At(pat, q + 1) = "-" /\ q + 2 < ec
             THEN (uchar(pat[q]) <= uchar(c) /\ uchar(c) <= uchar(pat[q + 2])) \/ found[q + 3]
           ELSE pat[q] = c \/ found[q + 1]
  IN found[IF sig THEN p + 1 ELSE p + 2] = sig

singlematch(c, pat, p, ep) ==
  CASE pat[p] = "." -> TRUE
    [] pat[p] = "%" -> match_class(c, pat[p + 1])
    [] pat[p] = "[" -> matchbracketclass(c, pat, p, ep - 1)
    [] OTHER -> pat[p] = c

-----------------------------------------------------------------------------
(* The matcher.  m: [src, pat, capture, res, err], the MatchState with what  *)
(* match returns: res, the end of the match or 0, or the error it raised.    *)
CAP_UNFINISHED == -1
CAP_POSITION == -2
Matching(src, pat) == [src |-> src, pat |-> pat, capture |-> <<>>, res |-> 0, err |-> ""]
Fail(m) == [m EXCEPT !.res = 0]
Matched(m, s) == [m EXCEPT !.res = s]
Raise(m, msg) == [m EXCEPT !.res = 0, !.err = msg]
Settled(m) == m.res # 0 \/ m.err # ""
Here(m, s, p, ep) == s <= Len(m.src) /\ singlematch(m.src[s], m.pat, p, ep)

(* The end of the balanced stretch at s, 0: there is none. *)
matchbalance(m, s, p) ==
  LET b == At(m.pat, p)
      e == At(m.pat, p + 1)
      end[i \in 1..Len(m.src) + 1, cont \in Nat] ==
        IF i > Len(m.src) THEN 0
        ELSE IF m.src[i] = e THEN (IF cont = 1 THEN i + 1 ELSE end[i + 1, cont - 1])
        ELSE end[i + 1, IF m.src[i] = b THEN cont + 1 ELSE cont]
  IN IF At(m.src, s) # b THEN 0 ELSE end[s + 1, 1]

Captured(m, l) == SubSeq(m.src, m.capture[l].init, m.capture[l].init + m.capture[l].len - 1)
Unfinished(m) == {l \in DOMAIN m.capture : m.capture[l].len = CAP_UNFINISHED}
(* match_capture: the captured text again; a position has the length -2,     *)
(* which is more than is left.                                               *)
match_capture(m, s, l) ==
  IF m.capture[l].len # CAP_POSITION /\ Len(m.src) + 1 - s >= m.capture[l].len
     /\ SubSeq(m.src, s, s + m.capture[l].len - 1) = Captured(m, l)
  THEN s + m.capture[l].len ELSE 0

RECURSIVE match(_, _, _), Shrink(_, _, _, _), max_expand(_, _, _, _), min_expand(_, _, _, _),
          start_capture(_, _, _, _), end_capture(_, _, _), Item(_, _, _, _),
          Frontier(_, _, _, _), Balanced(_, _, _), Again(_, _, _, _)
(* With i repetitions of the item, then with fewer; r: what a try gave. *)
Shorter(r, s, i, ep) == IF Settled(r) \/ i = 0 THEN r ELSE Shrink(r, s, i - 1, ep)
Shrink(m, s, i, ep) == Shorter(match(m, s + i, ep + 1), s, i, ep)
max_expand(m, s, p, ep) ==
  Shrink(m, s, Max({i \in 0..Len(m.src) + 1 - s : \A j \in 0..i - 1 : Here(m, s + j, p, ep)}), ep)
Longer(r, s, p, ep) == IF Settled(r) \/ ~Here(r, s, p, ep) THEN r ELSE min_expand(r, s + 1, p, ep)
min_expand(m, s, p, ep) == Longer(match(m, s, ep + 1), s, p, ep)
Without(r, s, ep) == IF Settled(r) THEN r ELSE match(r, s, ep + 1)

Undone(r) == IF Settled(r) THEN r ELSE [r EXCEPT !.capture = Front(@)]
start_capture(m, s, p, what) ==
  IF Len(m.capture) >= LUA_MAXCAPTURES THEN Raise(m, "too many captures")
  ELSE Undone(match([m EXCEPT !.capture = Append(@, [init |-> s, len |-> what])], s, p))
Reopened(r, l) == IF Settled(r) THEN r ELSE [r EXCEPT !.capture[l].len = CAP_UNFINISHED]
end_capture(m, s, p) ==
  LET l == Max(Unfinished(m))
  IN IF Unfinished(m) = {} THEN Raise(m, "invalid pattern capture")
     ELSE Reopened(match([m EXCEPT !.capture[l].len = s - m.capture[l].init], s, p), l)

(* A pattern item with what may follow it. *)
Item(m, s, p, ep) ==
  LET one == Here(m, s, p, ep)
      suffix == At(m.pat, ep)
  IN CASE ep = 0 -> Raise(m, IF m.pat[p] = "%" THEN "malformed pattern (ends with '%')"
                             ELSE "malformed pattern (missing ']')")
       [] ep > 0 /\ suffix = "?" ->
            Without(IF one THEN match(m, s + 1, ep + 1) ELSE Fail(m), s, ep)
       [] ep > 0 /\ suffix = "*" -> max_expand(m, s, p, ep)
       [] ep > 0 /\ suffix = "+" -> IF one THEN max_expand(m, s + 1, p, ep) ELSE Fail(m)
       [] ep > 0 /\ suffix = "-" -> min_expand(m, s, p, ep)
       [] OTHER -> IF one THEN match(m, s + 1, ep) ELSE Fail(m)

Frontier(m, s, p, ep) ==
  IF At(m.pat, p) # "[" THEN Raise(m, "missing '[' after '%f' in pattern")
  ELSE IF ep = 0 THEN Raise(m, "malformed pattern (missing ']')")
  ELSE IF matchbracketclass(At(m.src, s - 1), m.pat, p, ep - 1)
          \/ ~matchbracketclass(At(m.src, s), m.pat, p, ep - 1) THEN Fail(m)
  ELSE match(m, s, ep)
Balanced(m, s, p) ==
  LET e == matchbalance(m, s, p)
  IN IF p + 1 > Len(m.pat) THEN Raise(m, "unbalanced pattern")
     ELSE IF e = 0 THEN Fail(m) ELSE match(m, e, p + 2)
(* check_capture *)
Again(m, s, p, l) ==
  IF l \notin DOMAIN m.capture \/ l \in Unfinished(m) THEN Raise(m, "invalid capture index")
  ELSE IF match_capture(m, s, l) = 0 THEN Fail(m) ELSE match(m, match_capture(m, s, l), p)

match(m, s, p) ==
  LET c == At(m.pat, p)
      d == At(m.pat, p + 1)
  IN CASE c = "(" -> IF d = ")" THEN start_capture(m, s, p + 2, CAP_POSITION)
                     ELSE start_capture(m, s, p + 1, CAP_UNFINISHED)
       [] c = ")" -> end_capture(m, s, p + 1)
       [] c = "%" /\ d = "b" -> Balanced(m, s, p + 2)
       [] c = "%" /\ d = "f" -> Frontier(m, s, p + 2, classend(m.pat, p + 2))
       [] c = "%" /\ isdigit(d) -> Again(m, s, p + 2, Digit(d))
       [] c = "" -> Matched(m, s)
       [] c = "$" /\ p = Len(m.pat) -> IF s = Len(m.src) + 1 THEN Matched(m, s) ELSE Fail(m)
       [] OTHER -> Item(m, s, p, classend(m.pat, p))

-----------------------------------------------------------------------------
(* Captures as values: of a match from s to e.                               *)
Gave(vs) == [err |-> "", vs |-> vs]
Error(msg) == [err |-> msg, vs |-> <<>>]
Onecapture(m, i, s, e) ==
  IF i \notin DOMAIN m.capture
    THEN IF i = 1 THEN Gave(<<Str(SubSeq(m.src, s, e - 1))>>) ELSE Error("invalid capture index")
  ELSE IF i \in Unfinished(m) THEN Error("unfinished capture")
  ELSE Gave(<<IF m.capture[i].len = CAP_POSITION THEN Num(m.capture[i].init)
              ELSE Str(Captured(m, i))>>)
Join(r, x) == IF r.err # "" THEN r ELSE IF x.err # "" THEN x ELSE Gave(r.vs \o x.vs)
push_captures(m, s, e, whole) ==
  FoldLeft(Join, Gave(<<>>),
           [i \in 1..(IF m.capture = <<>> /\ whole THEN 1 ELSE Len(m.capture)) |-> Onecapture(m, i, s, e)])

-----------------------------------------------------------------------------
(* find and match: the first place from init where the pattern matches.      *)
Specials == {"^", "$", "*", "+", "?", ".", "(", "[", "%", "-"}
lmemfind(s, p, from) == {i \in from..Len(s) + 1 - Len(p) : SubSeq(s, i, i + Len(p) - 1) = p}
PlainFind(s, p, from) ==
  LET i == Min(lmemfind(s, p, from))
  IN Gave(IF lmemfind(s, p, from) = {} THEN <<NIL>> ELSE <<Num(i), Num(i + Len(p) - 1)>>)
RECURSIVE Search(_, _, _, _)
Found(r, s, find, anchor) ==
  CASE r.err # "" -> Error(r.err)
    [] r.err = "" /\ r.res # 0 ->
         Join(Gave(IF find THEN <<Num(s), Num(r.res - 1)>> ELSE <<>>),
              push_captures(r, s, r.res, ~find))
    [] OTHER -> IF s <= Len(r.src) /\ ~anchor THEN Search(r, s + 1, find, anchor)
                ELSE Gave(<<NIL>>)
Search(m, s, find, anchor) ==
  Found(match([m EXCEPT !.capture = <<>>], s, IF anchor THEN 2 ELSE 1), s, find, anchor)
str_find_aux(s, p, init, plain, find) ==
  LET from == AtMost(Len(s), AtLeast(1, posrelat(init, Len(s))) - 1) + 1
  IN IF find /\ (plain \/ Range(p) \cap Specials = {}) THEN PlainFind(s, p, from)
     ELSE Search(Matching(s, p), from, find, At(p, 1) = "^")

-----------------------------------------------------------------------------
(* gmatch: the next match from position s, and where the one after starts;   *)
(* 0: where this one did. *)
RECURSIVE gmatch_aux(_, _)
Iterated(r, s) ==
  IF r.err # "" THEN [at |-> 0] @@ Error(r.err)
  ELSE IF r.res = 0 THEN gmatch_aux(r, s + 1)
  ELSE [at |-> IF r.res = s THEN s + 1 ELSE r.res] @@ push_captures(r, s, r.res, TRUE)
gmatch_aux(m, s) ==
  IF s > Len(m.src) + 1 THEN [at |-> 0] @@ Gave(<<>>)
  ELSE Iterated(match([m EXCEPT !.capture = <<>>], s, 1), s)

-----------------------------------------------------------------------------
(* gsub, up to where it ends or asks for the replacement of a match: a       *)
(* function is called, a table is read.  g: m, the matcher; s, the position; *)
(* news, the replacement; left, how many more; n, out, the results so far.   *)
Substituting(src, pat, news, max_s) ==
  [m |-> Matching(src, pat), s |-> 1, news |-> news, left |-> max_s, n |-> 0, out |-> <<>>,
   done |-> FALSE, err |-> ""]
Anchored(g) == At(g.m.pat, 1) = "^"
Ended(g) == [g EXCEPT !.out = @ \o SubSeq(g.m.src, g.s, Len(g.m.src)), !.done = TRUE]
Refused(g, msg) == [g EXCEPT !.err = msg]

add_s(m, s, e, news) ==
  LET added[i \in 1..Len(news) + 2] ==
        LET d == At(news, i + 1)
            x == CASE news[i] # "%" -> Gave(<<Str(<<news[i]>>)>>)
                   [] news[i] = "%" /\ d = "0" -> Gave(<<Str(SubSeq(m.src, s, e - 1))>>)
                   [] news[i] = "%" /\ d # "0" /\ isdigit(d) -> Onecapture(m, Digit(d), s, e)
                   [] OTHER -> Gave(<<Str(<<d>>)>>)
        IN IF i > Len(news) THEN Gave(<<>>)
           ELSE Join(x, added[IF news[i] = "%" THEN i + 2 ELSE i + 1])
  IN added[1]

(* After a match that ended at e, or none (0). *)
RECURSIVE Gsub(_), Skip(_, _), Added(_, _)
Skip(g, e) ==
  LET over == IF e > g.s THEN [g EXCEPT !.s = e]
              ELSE [g EXCEPT !.out = @ \o SubSeq(g.m.src, g.s, g.s), !.s = @ + 1]
  IN IF e <= g.s /\ g.s > Len(g.m.src) THEN Ended(g)
     ELSE IF Anchored(g) THEN Ended(over) ELSE Gsub(over)
Added(g, text) == Skip([g EXCEPT !.out = @ \o text, !.n = @ + 1, !.left = @ - 1], g.m.res)
Written(g, new) ==
  IF new.err # "" THEN Refused(g, new.err)
  ELSE Added(g, FoldLeft(LAMBDA t, v : t \o TextOf(v), <<>>, new.vs))
Tried(g) ==
  CASE g.m.err # "" -> Refused(g, g.m.err)
    [] g.m.err = "" /\ g.m.res = 0 -> Skip(g, 0)
    [] g.m.res # 0 /\ IsStr(g.news) -> Written(g, add_s(g.m, g.s, g.m.res, TextOf(g.news)))
    [] OTHER -> g
Gsub(g) ==
  IF g.left <= 0 THEN Ended(g)
  ELSE Tried([g EXCEPT !.m = match([@ EXCEPT !.capture = <<>>], g.s, IF Anchored(g) THEN 2 ELSE 1)])
(* add_value: what is asked for, and what the answer v does. *)
Asked(g) ==
  IF g.news[1] = "table" THEN Onecapture(g.m, 1, g.s, g.m.res) ELSE push_captures(g.m, g.s, g.m.res, TRUE)
Answered(g, v) ==
  IF ~l_isfalse(v) /\ ~IsStr(v) THEN Refused(g, "invalid replacement value")
  ELSE Added(g, IF l_isfalse(v) THEN SubSeq(g.m.src, g.s, g.m.res - 1) ELSE TextOf(v))

-----------------------------------------------------------------------------
(* The functions that neither call back nor keep anything, by their names;   *)
(* a: the arguments, filled up with nil.                                     *)
StringCall(f, args, a) ==
  LET s == TextOf(a[1])
      from == Optional(a[2], 1)
  IN CASE f = "len" -> Gave(<<Num(Len(s))>>)
       [] f = "sub" -> Gave(<<Str(str_sub(s, from, Optional(a[3], -1)))>>)
       [] f = "reverse" -> Gave(<<Str(str_reverse(s))>>)
       [] f = "lower" -> Gave(<<Str(str_lower(s))>>)
       [] f = "upper" -> Gave(<<Str(str_upper(s))>>)
       [] f = "rep" -> Gave(<<Str(str_rep(s, from))>>)
       [] f = "byte" -> Gave(str_byte(s, from, Optional(a[3], posrelat(from, Len(s)))))
       [] f = "char" -> Gave(<<Str(str_char(args))>>)
       [] f \in {"find", "match"} ->
            str_find_aux(s, TextOf(a[2]), Optional(a[3], 1), ~l_isfalse(a[4]), f = "find")
=============================================================================
