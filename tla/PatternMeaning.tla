---------------------------- MODULE PatternMeaning ----------------------------
(* What a pattern of the string library means: a sequence of parts, each of  *)
(* which leads from a position to those where the next part is tried, in the *)
(* order of preference.  The matcher is checked against it.                  *)
EXTENDS LuaValues, FiniteSetsExt

CONSTANT LUA_MAXCAPTURES

-----------------------------------------------------------------------------
(* Sets of characters, as a pattern writes them.                             *)
Alphabet == DOMAIN Codes
Classes ==
  ("a" :> Upper \cup Lower) @@ ("d" :> Digital) @@ ("l" :> Lower) @@ ("u" :> Upper)
  @@ ("p" :> Punctuation) @@ ("x" :> Hexadecimal) @@ ("w" :> Upper \cup Lower \cup Digital)
  @@ ("s" :> {" "}) @@ ("c" :> {""}) @@ ("z" :> {""})
Escaped(c) ==
  LET class == Classes
  IN IF c \in DOMAIN class THEN class[c]
     ELSE IF tolower(c) \in DOMAIN class THEN Alphabet \ class[tolower(c)]
     ELSE {c}
RECURSIVE Members(_)
Members(p) ==
  CASE p = <<>> -> {}
    [] p # <<>> /\ p[1] = "%" -> Escaped(p[2]) \cup Members(SubSeq(p, 3, Len(p)))
    [] Len(p) >= 3 /\ p[1] # "%" /\ p[2] = "-" ->
         FromTo(p[1], p[3]) \cup Members(SubSeq(p, 4, Len(p)))
    [] OTHER -> {p[1]} \cup Members(Tail(p))

Head1(p, i) == IF i <= Len(p) THEN p[i] ELSE ""
Rest(p, n) == SubSeq(p, n + 1, Len(p))
(* The bracket that closes a set: not its first member, and not escaped. *)
First(p) == IF Head1(p, 2) = "^" THEN 3 ELSE 2
Bare(p, i) ==
  \E n \in 0..i : /\ \A j \in 1..n : i - j >= First(p) /\ p[i - j] = "%"
                  /\ ~(i - n - 1 >= First(p) /\ p[i - n - 1] = "%") /\ n % 2 = 0
Closing(p) == {i \in First(p) + 1..Len(p) : p[i] = "]" /\ Bare(p, i)}
SetOf(p) ==
  LET members == Members(SubSeq(p, First(p), Min(Closing(p)) - 1))
  IN IF First(p) = 3 THEN Alphabet \ members ELSE members

-----------------------------------------------------------------------------
(* The parts of a pattern; what is malformed is a part that fails with err.  *)
Bad(msg) == <<[k |-> "error", err |-> msg]>>
Suffix == {"?", "*", "+", "-"}
RECURSIVE Parts(_)
Repeated(set, rest) ==
  LET rep == IF Head1(rest, 1) \in Suffix THEN Head1(rest, 1) ELSE ""
  IN <<[k |-> "set", set |-> set, rep |-> rep]>> \o Parts(IF rep = "" THEN rest ELSE Tail(rest))
Parts(p) ==
  LET c == Head1(p, 1)
      d == Head1(p, 2)
      set == Rest(p, 2)
  IN CASE p = <<>> -> <<>>
       [] c = "(" /\ d = ")" -> <<[k |-> "position"]>> \o Parts(Rest(p, 2))
       [] c = "(" /\ d # ")" -> <<[k |-> "open"]>> \o Parts(Tail(p))
       [] c = ")" -> <<[k |-> "close"]>> \o Parts(Tail(p))
       [] p = <<"$">> -> <<[k |-> "end"]>>
       [] c = "%" /\ d = "" -> Bad("malformed pattern (ends with '%')")
       [] c = "%" /\ d = "b" ->
            IF Len(p) < 4 THEN Bad("unbalanced pattern")
            ELSE <<[k |-> "balance", b |-> p[3], e |-> p[4]]>> \o Parts(Rest(p, 4))
       [] c = "%" /\ d = "f" ->
            IF Head1(p, 3) # "[" THEN Bad("missing '[' after '%f' in pattern")
            ELSE IF Closing(set) = {} THEN Bad("malformed pattern (missing ']')")
            ELSE <<[k |-> "frontier", set |-> SetOf(set)]>> \o Parts(Rest(set, Min(Closing(set))))
       [] c = "%" /\ isdigit(d) -> <<[k |-> "back", n |-> DigitOf(d)]>> \o Parts(Rest(p, 2))
       [] c = "%" /\ d \notin {"", "b", "f"} /\ ~isdigit(d) -> Repeated(Escaped(d), Rest(p, 2))
       [] c = "[" -> IF Closing(p) = {} THEN Bad("malformed pattern (missing ']')")
                     ELSE Repeated(SetOf(p), Rest(p, Min(Closing(p))))
       [] c = "." -> Repeated(Range(Printable), Tail(p))
       [] OTHER -> Repeated({c}, Tail(p))

-----------------------------------------------------------------------------
(* Where a part leads from s, with the captures so far.                      *)
To(s, caps) == [err |-> "", s |-> s, caps |-> caps]
Fails(msg) == <<[err |-> msg, s |-> 0, caps |-> <<>>]>>
Nowhere == <<>>
Between(src, from, to) == SubSeq(src, from, to - 1)
Run(set, src, s) == Max({n \in 0..Len(src) + 1 - s : \A i \in s..s + n - 1 : src[i] \in set})
Depth(x, src, s, i) ==
  LET count(c) == Cardinality({j \in s + 1..i : src[j] = c})
  IN 1 - count(x.e) + IF x.b = x.e THEN 0 ELSE count(x.b)
Reach(x, src, s, caps) ==
  LET here == Head1(src, s)
      before == IF s = 1 THEN "" ELSE src[s - 1]
      n == Run(x.set, src, s)
      go(i) == To(s + i, caps)
      opened == {l \in DOMAIN caps : caps[l].k = "open"}
      l == Max(opened)
      ends == {i \in s + 1..Len(src) : Depth(x, src, s, i) = 0}
      old == caps[x.n]
  IN CASE x.k = "error" -> Fails(x.err)
       [] x.k = "set" ->
           (CASE x.rep = "" -> IF n > 0 THEN <<go(1)>> ELSE Nowhere
              [] x.rep = "?" -> IF n > 0 THEN <<go(1), go(0)>> ELSE <<go(0)>>
              [] x.rep = "*" -> [i \in 1..n + 1 |-> go(n + 1 - i)]
              [] x.rep = "+" -> [i \in 1..n |-> go(n + 1 - i)]
              [] x.rep = "-" -> [i \in 1..n + 1 |-> go(i - 1)])
       [] x.k \in {"open", "position"} ->
            IF Len(caps) = LUA_MAXCAPTURES THEN Fails("too many captures")
            ELSE <<To(s, Append(caps, [k |-> x.k, from |-> s, to |-> s]))>>
       [] x.k = "close" ->
            IF opened = {} THEN Fails("invalid pattern capture")
            ELSE <<To(s, [caps EXCEPT ![l].k = "text", ![l].to = s])>>
       [] x.k = "back" ->
           (CASE x.n \notin DOMAIN caps \ opened -> Fails("invalid capture index")
              [] x.n \in DOMAIN caps \ opened /\ old.k = "text"
                 /\ s + old.to - old.from <= Len(src) + 1
                 /\ Between(src, s, s + old.to - old.from) = Between(src, old.from, old.to) -> <<go(old.to - old.from)>>
              [] OTHER -> Nowhere)
       [] x.k = "balance" -> IF here # x.b \/ ends = {} THEN Nowhere ELSE <<To(Min(ends) + 1, caps)>>
       [] x.k = "frontier" -> IF before \notin x.set /\ here \in x.set THEN <<go(0)>> ELSE Nowhere
       [] x.k = "end" -> IF s = Len(src) + 1 THEN <<go(0)>> ELSE Nowhere

(* The preferred way through all the parts, if there is one, or what fails. *)
RECURSIVE Best(_, _, _, _)
Best(parts, src, s, caps) ==
  IF parts = <<>> THEN <<To(s, caps)>>
  ELSE FoldLeft(LAMBDA found, r : IF found # <<>> THEN found ELSE IF r.err # "" THEN <<r>>
                                  ELSE Best(Tail(parts), src, r.s, r.caps),
                <<>>, Reach(Head(parts), src, s, caps))

(* The matches from s on, each after the one before, at most left of them. *)
RECURSIVE Matches(_, _, _, _, _)
Matches(parts, src, s, anchor, left) ==
  LET best == Best(parts, src, s, <<>>)
      m == [from |-> s] @@ best[1]
      next == IF m.s > s THEN m.s ELSE s + 1
  IN IF s > Len(src) + 1 \/ left <= 0 THEN <<>>
     ELSE IF best = <<>>
       THEN IF anchor THEN <<>> ELSE Matches(parts, src, s + 1, anchor, left)
     ELSE IF m.err # "" \/ anchor THEN <<m>>
     ELSE <<m>> \o Matches(parts, src, next, anchor, left - 1)
Anchor(p) == Head1(p, 1) = "^"
MatchesOf(p, src, s, left) ==
  Matches(Parts(IF Anchor(p) THEN Tail(p) ELSE p), src, s, Anchor(p), left)

(* The captures of a match as values; whole: the match itself if there are   *)
(* none.  <<>> in err: all are finished. *)
Captures(m, src, whole) ==
  LET value(c) == IF c.k = "position" THEN Num(c.from) ELSE Str(Between(src, c.from, c.to))
  IN CASE \E i \in DOMAIN m.caps : m.caps[i].k = "open" -> [err |-> <<"unfinished capture">>, vs |-> <<>>]
       [] m.caps = <<>> -> [err |-> <<>>, vs |-> IF whole THEN <<Str(Between(src, m.from, m.s))>> ELSE <<>>]
       [] OTHER -> [err |-> <<>>, vs |-> [i \in DOMAIN m.caps |-> value(m.caps[i])]]

(* A replacement's text, with the captures that it names; a % at its end     *)
(* names the zero byte behind it.                                            *)
RECURSIVE Template(_, _, _)
Template(m, src, text) ==
  LET d == Head1(text, 2)
      rest == Template(m, src, IF text[1] = "%" THEN Rest(text, 2) ELSE Tail(text))
      all == Captures([m EXCEPT !.caps = <<@[DigitOf(d)]>>], src, TRUE)
      first == CASE text[1] # "%" -> [err |-> <<>>, text |-> <<text[1]>>]
                 [] text[1] = "%" /\ ~isdigit(d) -> [err |-> <<>>, text |-> <<d>>]
                 [] text[1] = "%" /\ (d = "0" \/ (d = "1" /\ m.caps = <<>>)) ->
                      [err |-> <<>>, text |-> Between(src, m.from, m.s)]
                 [] text[1] = "%" /\ isdigit(d) /\ d # "0" /\ DigitOf(d) \in DOMAIN m.caps ->
                      [err |-> all.err, text |-> IF all.err = <<>> THEN ToStr(all.vs[1])[2] ELSE <<>>]
                 [] OTHER -> [err |-> <<"invalid capture index">>, text |-> <<>>]
  IN IF text = <<>> THEN [err |-> <<>>, text |-> <<>>]
     ELSE IF first.err # <<>> THEN first
     ELSE [err |-> rest.err, text |-> first.text \o rest.text]
=============================================================================
