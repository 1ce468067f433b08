------------------------------ MODULE VMProofs ------------------------------
EXTENDS VM, SequenceTheorems, FiniteSetTheorems, WellFoundedInduction, TLAPS

-----------------------------------------------------------------------------
(* Sequences of anything.                                                    *)
IsSeq(q) == q \in Seq({q[i] : i \in DOMAIN q})

(* The length of a sequence is a number, and its domain is up to it.         *)
LEMMA SeqIs ==
  ASSUME NEW q, IsSeq(q)
  PROVE  Len(q) \in Nat /\ DOMAIN q = 1..Len(q)
BY LenProperties DEF IsSeq

(* A sequence over a set is one over its own elements.                       *)
LEMMA SeqWhere ==
  ASSUME NEW S, NEW q, q \in Seq(S)
  PROVE  IsSeq(q)
<1> DEFINE T == {q[i] : i \in DOMAIN q}
<1>1. Len(q) \in Nat /\ q \in [1..Len(q) -> S]
  BY LenProperties
<1>2. q \in [1..Len(q) -> T]
  BY <1>1
<1>3. q \in Seq(T)
  BY <1>1, <1>2, SeqDef
<1> QED
  BY <1>3 DEF IsSeq

(* A sequence with one more element.                                         *)
LEMMA SeqAppend ==
  ASSUME NEW q, NEW x, IsSeq(q)
  PROVE  /\ IsSeq(Append(q, x)) /\ Len(Append(q, x)) = Len(q) + 1
         /\ \A i \in DOMAIN q : Append(q, x)[i] = q[i]
         /\ Append(q, x)[Len(q) + 1] = x
<1> DEFINE S == {q[i] : i \in DOMAIN q} \cup {x}
<1>1. q \in Seq(S)
  <2>1. q \in Seq({q[i] : i \in DOMAIN q})
    BY DEF IsSeq
  <2> QED
    BY <2>1, SeqMonotonic
<1>2. Append(q, x) \in Seq(S) /\ Len(Append(q, x)) = Len(q) + 1
      /\ (\A i \in 1..Len(q) : Append(q, x)[i] = q[i]) /\ Append(q, x)[Len(q) + 1] = x
  BY <1>1, AppendProperties
<1>3. DOMAIN q = 1..Len(q)
  BY SeqIs
<1>4. IsSeq(Append(q, x))
  <2> HIDE DEF S
  <2> QED
    BY <1>2, SeqWhere
<1> QED
  BY <1>2, <1>3, <1>4

(* A part of a sequence, from its first element on.                          *)
LEMMA SeqSub ==
  ASSUME NEW q, IsSeq(q), NEW n \in 0..Len(q)
  PROVE  /\ IsSeq(SubSeq(q, 1, n)) /\ Len(SubSeq(q, 1, n)) = n
         /\ \A i \in 1..n : SubSeq(q, 1, n)[i] = q[i]
<1> DEFINE S == {q[i] : i \in DOMAIN q}
<1>1. q \in Seq(S) /\ Len(q) \in Nat /\ DOMAIN q = 1..Len(q)
  BY SeqIs DEF IsSeq
<1>2. \A i \in 1..n : q[i] \in S
  BY <1>1
<1>3. /\ SubSeq(q, 1, n) \in Seq(S)
      /\ Len(SubSeq(q, 1, n)) = IF 1 <= n THEN n - 1 + 1 ELSE 0
      /\ \A i \in 1..n - 1 + 1 : SubSeq(q, 1, n)[i] = q[1 + i - 1]
  <2> HIDE DEF S
  <2> QED
    BY <1>2, SubSeqProperties, n \in Int
<1>4. n = n - 1 + 1 /\ (~(1 <= n) => n = 0) /\ \A i \in 1..n : q[1 + i - 1] = q[i]
  OBVIOUS
<1>5. IsSeq(SubSeq(q, 1, n))
  <2> HIDE DEF S
  <2> QED
    BY <1>3, SeqWhere
<1>6. Len(SubSeq(q, 1, n)) = n
  <2> HIDE DEF S
  <2> QED
    BY <1>3, <1>4
<1>7. ASSUME NEW i \in 1..n PROVE SubSeq(q, 1, n)[i] = q[i]
  <2> HIDE DEF S
  <2>1. i \in 1..n - 1 + 1 /\ 1 + i - 1 = i
    BY <1>4
  <2> QED
    BY <1>3, <2>1
<1> QED
  BY <1>5, <1>6, <1>7

(* A sequence with an element changed as a function of it.                   *)
LEMMA SeqExcept ==
  ASSUME NEW q, NEW i, NEW x, IsSeq(q)
  PROVE  IsSeq([q EXCEPT ![i] = x]) /\ Len([q EXCEPT ![i] = x]) = Len(q)
<1> DEFINE r == [q EXCEPT ![i] = x]
           S == {r[j] : j \in DOMAIN r}
<1>1. Len(q) \in Nat /\ DOMAIN q = 1..Len(q)
  BY SeqIs
<1>2. DOMAIN r = 1..Len(q) /\ r \in [1..Len(q) -> S]
  BY <1>1
<1>3. r \in Seq(S)
  <2> HIDE DEF r, S
  <2> QED
    BY <1>1, <1>2, SeqDef
<1>4. Len(r) \in Nat /\ DOMAIN r = 1..Len(r)
  BY <1>3, LenProperties
<1>5. Len(r) = Len(q)
  BY <1>1, <1>2, <1>4
<1> QED
  BY <1>3, <1>5 DEF IsSeq

(* A sequence with another element in a place.                               *)
LEMMA SeqReplaced ==
  ASSUME NEW q, NEW r, NEW i, NEW x, IsSeq(q), r = [q EXCEPT ![i] = x]
  PROVE  IsSeq(r) /\ DOMAIN r = DOMAIN q /\ Len(r) = Len(q)
<1>1. IsSeq(r) /\ Len(r) = Len(q)
  BY SeqExcept
<1> QED
  BY <1>1

-----------------------------------------------------------------------------
(* What leaves the tables as they are.                                       *)
HasTables(s) == "tables" \in DOMAIN s
Keeps(s, t) == HasTables(t) /\ t.tables = s.tables

(* Steps that keep the tables, one after the other, keep them.               *)
LEMMA KeepsOn ==
  ASSUME NEW s, NEW t, NEW u, Keeps(s, t), Keeps(t, u)
  PROVE  Keeps(s, u)
BY DEF Keeps

(* Another state of the thread that runs keeps the tables.                   *)
LEMMA KeepsWith == ASSUME NEW s, NEW l, HasTables(s) PROVE Keeps(s, With(s, l))
BY DEF Keeps, HasTables, With

(* Another top keeps the tables.                                             *)
LEMMA KeepsTop == ASSUME NEW s, NEW n, HasTables(s) PROVE Keeps(s, Top(s, n))
BY KeepsWith DEF Top

(* A jump keeps the tables.                                                  *)
LEMMA KeepsGoto == ASSUME NEW s, NEW n, HasTables(s) PROVE Keeps(s, Goto(s, n))
BY KeepsWith DEF Goto

(* One more activation keeps the tables.                                     *)
LEMMA KeepsPushC == ASSUME NEW s, NEW f, HasTables(s) PROVE Keeps(s, PushC(s, f))
BY DEF Keeps, HasTables, PushC

(* One activation less keeps the tables.                                     *)
LEMMA KeepsPopC == ASSUME NEW s, HasTables(s) PROVE Keeps(s, PopC(s))
BY DEF Keeps, HasTables, PopC

(* Values on the stack keep the tables.                                      *)
LEMMA KeepsSetFrom == ASSUME NEW s, NEW i, NEW vs, HasTables(s) PROVE Keeps(s, SetFrom(s, i, vs))
BY KeepsWith DEF SetFrom

(* A value on the stack keeps the tables.                                    *)
LEMMA KeepsSetobj == ASSUME NEW s, NEW i, NEW v, HasTables(s) PROVE Keeps(s, Setobj(s, i, v))
BY KeepsSetFrom DEF Setobj

(* Values pushed keep the tables.                                            *)
LEMMA KeepsPush == ASSUME NEW s, NEW vs, HasTables(s) PROVE Keeps(s, Push(s, vs))
<1>1. Keeps(s, SetFrom(s, L(s).top, vs))
  BY KeepsSetFrom
<1>2. Keeps(SetFrom(s, L(s).top, vs), Push(s, vs))
  BY <1>1, KeepsTop DEF Push, Keeps
<1> QED
  BY <1>1, <1>2, KeepsOn

(* A value in an upvalue keeps the tables.                                   *)
LEMMA KeepsSetUpval == ASSUME NEW s, NEW u, NEW v, HasTables(s) PROVE Keeps(s, SetUpval(s, u, v))
BY DEF Keeps, HasTables, SetUpval

(* Finding or making upvalues keeps the tables.                              *)
LEMMA KeepsFind == ASSUME NEW s, NEW ls, HasTables(s) PROVE Keeps(s, luaF_findupvals(s, ls))
BY DEF Keeps, HasTables, luaF_findupvals

(* Closing upvalues keeps the tables.                                        *)
LEMMA KeepsClose == ASSUME NEW s, NEW level, HasTables(s) PROVE Keeps(s, luaF_close(s, level))
BY DEF Keeps, HasTables, luaF_close

(* The end of a function keeps the tables.                                   *)
LEMMA KeepsPoscall == ASSUME NEW s, NEW vals, HasTables(s) PROVE Keeps(s, luaD_poscall(s, vals))
<1> DEFINE ci == Ci(s)
           before == L(s).ci[Len(L(s).ci) - 1]
           res == IF ci.nresults = LUA_MULTRET THEN vals
                  ELSE SubSeq(vals \o Nils(ci.nresults), 1, ci.nresults)
           t == With(s, [L(s) EXCEPT !.ci = Front(@), !.base = before.base, !.pc = before.savedpc])
           u == SetFrom(t, ci.func, res)
<1>1. Keeps(s, t)
  BY KeepsWith
<1>2. Keeps(t, u)
  BY <1>1, KeepsSetFrom DEF Keeps
<1>3. Keeps(u, Top(u, ci.func + Len(res)))
  BY <1>2, KeepsTop DEF Keeps
<1>4. luaD_poscall(s, vals) = Top(u, ci.func + Len(res))
  BY DEF luaD_poscall
<1> HIDE DEF t, u, res
<1> QED
  BY <1>1, <1>2, <1>3, <1>4, KeepsOn

(* The end of a C function keeps the tables.                                 *)
LEMMA KeepsFinish == ASSUME NEW s, NEW vals, HasTables(s) PROVE Keeps(s, Finish(s, vals))
<1>1. Keeps(s, luaD_poscall(s, vals))
  BY KeepsPoscall
<1>2. Finish(s, vals) = luaD_poscall(s, vals) \/ \E n : Finish(s, vals) = Top(luaD_poscall(s, vals), n)
  BY DEF Finish, Corrected
<1> QED
  BY <1>1, <1>2, KeepsTop, KeepsOn DEF Keeps

(* An error keeps the tables, wherever it is caught.                         *)
LEMMA KeepsThrow == ASSUME NEW s, NEW v, HasTables(s) PROVE Keeps(s, luaD_throw(s, v))
<1>1. ASSUME NEW n PROVE Keeps(s, Unwound(s, n))
  BY DEF Keeps, HasTables, Unwound
<1>2. ASSUME NEW t, NEW c, NEW w, HasTables(t) PROVE Keeps(t, Caught(t, c, w))
  <2>1. Keeps(t, luaF_close(t, c.top))
    BY <1>2, KeepsClose
  <2>2. Keeps(luaF_close(t, c.top), Restored(luaF_close(t, c.top), c))
    BY <2>1, KeepsWith DEF Keeps, Restored
  <2> DEFINE u == IF c.k = "pcall" THEN Restored(luaF_close(t, c.top), c) ELSE t
  <2>3. Keeps(t, u)
    BY <1>2, <2>1, <2>2, KeepsOn DEF Keeps
  <2> HIDE DEF u
  <2>4. Keeps(u, Failed(u, w))
    BY <2>3, KeepsFinish DEF Keeps, Failed
  <2> QED
    BY <2>3, <2>4, KeepsOn DEF Caught, u
<1>3. CASE Catching(s) = {}
  <2>1. Keeps(s, Unwound(s, 1))
    BY <1>1
  <2>2. luaD_throw(s, v) = [Unwound(s, 1) EXCEPT !.out = <<"error", HandedOn(s, v)>>]
    BY <1>3 DEF luaD_throw
  <2> QED
    BY <2>1, <2>2 DEF Keeps, HasTables
<1>4. CASE Catching(s) # {}
  <2> DEFINE n == Max(Catching(s))
           e == HandedOn(s, v)
  <2>1. luaD_throw(s, v) = Caught(Unwound(s, n), s.C[n], e)
    BY <1>4 DEF luaD_throw
  <2> HIDE DEF n, e
  <2>2. Keeps(s, Unwound(s, n))
    BY <1>1
  <2>3. Keeps(Unwound(s, n), Caught(Unwound(s, n), s.C[n], e))
    BY <1>2, <2>2 DEF Keeps
  <2> QED
    BY <2>1, <2>2, <2>3, KeepsOn
<1> QED
  BY <1>3, <1>4

(* So does one with a message.                                               *)
LEMMA KeepsError ==
  ASSUME NEW s, NEW msg, HasTables(s)
  PROVE  Keeps(s, luaG_runerror(s, msg)) /\ Keeps(s, luaL_error(s, msg))
BY KeepsThrow DEF luaG_runerror, luaL_error

(* So does one about the type of a value.                                    *)
LEMMA KeepsTypeerror ==
  ASSUME NEW s, NEW v, NEW where, NEW op, HasTables(s)
  PROVE  Keeps(s, luaG_typeerror(s, v, where, op))
BY KeepsError DEF luaG_typeerror

(* One more CallInfo keeps the tables.                                       *)
LEMMA KeepsPushCi ==
  ASSUME NEW s, NEW func, NEW base, NEW top, NEW nresults, HasTables(s)
  PROVE  Keeps(s, PushCi(s, func, base, top, nresults))
BY KeepsWith DEF PushCi

(* The frame of a Lua function keeps the tables.                             *)
LEMMA KeepsEntered ==
  ASSUME NEW a, NEW func, NEW nresults, NEW citop, HasTables(a.s)
  PROVE  Keeps(a.s, Entered(a, func, nresults, citop))
<1> DEFINE t == PushCi(a.s, func, a.base, citop, nresults)
           u == SetFrom(t, a.top, Nils(citop - a.top))
           w == Top(u, citop)
<1>1. Keeps(a.s, t)
  BY KeepsPushCi
<1>2. Keeps(t, u)
  BY <1>1, KeepsSetFrom DEF Keeps
<1>3. Keeps(u, w)
  BY <1>2, KeepsTop DEF Keeps
<1>4. Keeps(w, Goto(w, 0))
  BY <1>3, KeepsGoto DEF Keeps
<1>5. Entered(a, func, nresults, citop) = Goto(w, 0)
  BY DEF Entered
<1> HIDE DEF t, u, w
<1> QED
  BY <1>1, <1>2, <1>3, <1>4, <1>5, KeepsOn

(* The activation that runs it keeps the tables.                             *)
LEMMA KeepsActivated == ASSUME NEW t, NEW op, HasTables(t) PROVE Keeps(t, Activated(t, op))
BY KeepsPushC DEF Activated, Keeps, HasTables

-----------------------------------------------------------------------------
(* The flags of the tables.  o: the tables that may have a flag of           *)
(* __newindex that is not true.                                              *)
TableFields == {"map", "keys", "meta", "flags"}
Tabled(s) ==
  /\ HasTables(s) /\ IsSeq(s.tables)
  /\ \A h \in DOMAIN s.tables : DOMAIN s.tables[h] = TableFields
Flagged(s, o) ==
  \A h \in DOMAIN s.tables : \A e \in s.tables[h].flags :
    luaH_get(s, h, Str(<<e>>)) = NIL \/ (e = "__newindex" /\ h \in o)
Sound(s, o) == Tabled(s) /\ Flagged(s, o)

(* What keeps the tables keeps their flags true.                             *)
LEMMA SoundKept ==
  ASSUME NEW s, NEW t, NEW o, Sound(s, o), Keeps(s, t)
  PROVE  Sound(t, o)
BY DEF Sound, Tabled, Flagged, Keeps, luaH_get

(* A state with sound flags has tables, which are a sequence.                *)
LEMMA SoundHas == ASSUME NEW s, NEW o, Sound(s, o) PROVE HasTables(s)
BY DEF Sound, Tabled

(* A table is made; what it has under a name is no flagged tag method.       *)
LEMMA SoundMade ==
  ASSUME NEW s, NEW o, NEW t, Sound(s, o), DOMAIN t = TableFields,
         \A e \in t.flags : Str(<<e>>) \in DOMAIN t.map => t.map[Str(<<e>>)] = NIL
  PROVE  Sound(luaH_made(s, t).s, o)
<1> DEFINE r == luaH_made(s, t).s
           n == Len(s.tables)
<1>1. IsSeq(s.tables) /\ n \in Nat /\ DOMAIN s.tables = 1..n
  BY SeqIs DEF Sound, Tabled
<1>2. r.tables = Append(s.tables, t) /\ HasTables(r)
  BY DEF Sound, Tabled, HasTables, luaH_made
<1>3. /\ IsSeq(r.tables) /\ Len(r.tables) = n + 1
      /\ \A i \in DOMAIN s.tables : r.tables[i] = s.tables[i]
      /\ r.tables[n + 1] = t
  BY <1>1, <1>2, SeqAppend
<1>4. DOMAIN r.tables = 1..n + 1
  BY <1>1, <1>3, SeqIs
<1> HIDE DEF r
<1>5. ASSUME NEW h \in DOMAIN r.tables
      PROVE  /\ DOMAIN r.tables[h] = TableFields
             /\ \A e \in r.tables[h].flags :
                  luaH_get(r, h, Str(<<e>>)) = NIL \/ (e = "__newindex" /\ h \in o)
  <2>1. CASE h = n + 1
    BY <1>3, <2>1 DEF luaH_get
  <2>2. CASE h # n + 1
    <3>1. h \in DOMAIN s.tables /\ r.tables[h] = s.tables[h]
      BY <1>1, <1>3, <1>4, <2>2
    <3> QED
      BY <3>1 DEF Sound, Tabled, Flagged, luaH_get
  <2> QED
    BY <2>1, <2>2
<1> QED
  BY <1>2, <1>3, <1>5 DEF r, Sound, Tabled, Flagged

(* A new table whose flags are true.                                         *)
LEMMA SoundNew == ASSUME NEW s, NEW o, Sound(s, o) PROVE Sound(luaH_new(s).s, o)
<1>1. DOMAIN NewTable = TableFields /\ NewTable.map = [k \in {NIL} |-> NIL]
  BY DEF NewTable, TableFields
<1>2. \A e : Str(<<e>>) # NIL
  BY DEF Str, NIL
<1> QED
  BY <1>1, <1>2, SoundMade DEF luaH_new

(* What is stored under a key that is no string, or where no flag is.        *)
Storable(s, o, h, k) ==
  \A g \in DOMAIN s.tables : \A e \in s.tables[g].flags :
    \/ (g # h \/ k # Str(<<e>>)) /\ luaH_get(s, g, Str(<<e>>)) = NIL
    \/ e = "__newindex" /\ g \in o

(* A value stored in a table that knows of no absent tag method.             *)
LEMMA SoundStore ==
  ASSUME NEW s, NEW o, NEW h, NEW k, NEW v, Tabled(s), Storable(s, o, h, k)
  PROVE  Sound(Store(s, h, k, v), o)
<1> DEFINE r == Store(s, h, k, v)
           t == s.tables[h]
           u == [t EXCEPT !.keys = IF k \in DOMAIN t.map THEN @ ELSE Append(@, k),
                          !.map = [x \in {k} \cup DOMAIN @ |-> IF x = k THEN v ELSE @[x]]]
<1>1. r.tables = [s.tables EXCEPT ![h] = u] /\ HasTables(r)
  BY DEF Tabled, HasTables, Store
<1>3. h \in DOMAIN s.tables =>
        /\ DOMAIN u = TableFields /\ u.flags = t.flags
        /\ u.map = [x \in {k} \cup DOMAIN t.map |-> IF x = k THEN v ELSE t.map[x]]
  BY DEF Tabled, TableFields
<1> HIDE DEF r, u
<1>2. IsSeq(r.tables) /\ DOMAIN r.tables = DOMAIN s.tables
  <2>1. IsSeq(s.tables)
    BY DEF Tabled
  <2> QED
    BY <1>1, <2>1, SeqReplaced
<1>4. ASSUME NEW g \in DOMAIN r.tables
      PROVE  /\ DOMAIN r.tables[g] = TableFields
             /\ \A e \in r.tables[g].flags :
                  luaH_get(r, g, Str(<<e>>)) = NIL \/ (e = "__newindex" /\ g \in o)
  <2>1. CASE g = h
    <3>1. r.tables[g] = u
      BY <1>1, <1>2, <2>1
    <3>2. ASSUME NEW e \in u.flags, ~(e = "__newindex" /\ g \in o)
          PROVE  luaH_get(r, g, Str(<<e>>)) = NIL
      <4>1. k # Str(<<e>>) /\ luaH_get(s, g, Str(<<e>>)) = NIL
        BY <1>2, <1>3, <2>1, <3>2 DEF Storable
      <4> QED
        BY <1>2, <1>3, <2>1, <3>1, <4>1 DEF luaH_get
    <3> QED
      BY <1>2, <1>3, <2>1, <3>1, <3>2
  <2>2. CASE g # h
    <3>1. r.tables[g] = s.tables[g] /\ g \in DOMAIN s.tables
      BY <1>1, <1>2, <2>2
    <3> QED
      BY <2>2, <3>1 DEF luaH_get, Tabled, Storable
  <2> QED
    BY <2>1, <2>2
<1> QED
  BY <1>1, <1>2, <1>4 DEF r, Sound, Tabled, Flagged

(* A key is no name of a tag method if it is a number.                       *)
LEMMA NoName == \A n, x : Num(n) # Str(x) /\ NIL # Str(x)
BY DEF Num, Str, NIL

(* A value stored under a number: no tag method has such a name.             *)
LEMMA SoundStoreNum ==
  ASSUME NEW s, NEW o, NEW h, NEW n, NEW v, Sound(s, o)
  PROVE  Sound(Store(s, h, Num(n), v), o)
<1>1. Storable(s, o, h, Num(n))
  BY NoName DEF Sound, Flagged, Storable
<1> QED
  BY <1>1, SoundStore DEF Sound

(* luaH_set leaves the table without flags, and what it had.                 *)
Cleared(s, t, h) ==
  /\ DOMAIN t.tables = DOMAIN s.tables
  /\ h \in DOMAIN s.tables => t.tables[h].flags = {}
  /\ \A g \in DOMAIN s.tables : t.tables[g].meta = s.tables[g].meta

(* luaH_set resets the flags of the table.                                   *)
LEMMA SoundSet ==
  ASSUME NEW s, NEW o, NEW h, NEW k, Sound(s, o)
  PROVE  Sound(luaH_set(s, h, k), o) /\ Cleared(s, luaH_set(s, h, k), h)
<1> DEFINE v == luaH_get(s, h, k)
           t == Store(s, h, k, v)
           r == [t EXCEPT !.tables[h].flags = {}]
<1>1. luaH_set(s, h, k) = r
  BY DEF luaH_set
<1>2. Sound(t, o)
  <2>1. v = luaH_get(s, h, k)
    OBVIOUS
  <2>2. CASE h \notin DOMAIN s.tables
    <3>1. Storable(s, o, h, k)
      BY <2>2 DEF Sound, Flagged, Storable
    <3> QED
      BY <3>1, SoundStore DEF Sound
  <2>3. CASE h \in DOMAIN s.tables
    <3> DEFINE u == [s.tables[h] EXCEPT
                       !.keys = IF k \in DOMAIN s.tables[h].map THEN @ ELSE Append(@, k),
                       !.map = [x \in {k} \cup DOMAIN @ |-> IF x = k THEN v ELSE @[x]]]
    <3>1. t.tables = [s.tables EXCEPT ![h] = u] /\ HasTables(t)
      BY DEF Sound, Tabled, HasTables, Store
    <3>2. /\ DOMAIN u = TableFields /\ u.flags = s.tables[h].flags
          /\ u.map = [x \in {k} \cup DOMAIN s.tables[h].map |->
                        IF x = k THEN v ELSE s.tables[h].map[x]]
      BY <2>3 DEF Sound, Tabled, TableFields
    <3> HIDE DEF t, u
    <3>3. IsSeq(s.tables)
      BY DEF Sound, Tabled
    <3>4. IsSeq(t.tables) /\ DOMAIN t.tables = DOMAIN s.tables
      BY <3>1, <3>3, SeqReplaced
    <3>5. t.tables[h] = u /\ \A g \in DOMAIN s.tables : g # h => t.tables[g] = s.tables[g]
      BY <2>3, <3>1
    <3>6. \A x : luaH_get(t, h, x) = luaH_get(s, h, x)
      BY <3>2, <3>5 DEF luaH_get, v
    <3>7. \A g \in DOMAIN s.tables : DOMAIN t.tables[g] = TableFields
      BY <3>2, <3>5 DEF Sound, Tabled
    <3>8. \A g \in DOMAIN s.tables : t.tables[g].flags = s.tables[g].flags
      BY <3>2, <3>5
    <3>9. \A g \in DOMAIN s.tables : \A x : luaH_get(t, g, x) = luaH_get(s, g, x)
      BY <3>5, <3>6 DEF luaH_get
    <3> QED
      BY <3>1, <3>4, <3>7, <3>8, <3>9 DEF Sound, Tabled, Flagged
  <2> QED
    BY <2>2, <2>3
<1>3. /\ DOMAIN t.tables = DOMAIN s.tables
      /\ \A g \in DOMAIN s.tables : t.tables[g].meta = s.tables[g].meta
  BY DEF Sound, Tabled, HasTables, TableFields, Store
<1> DEFINE w == [t.tables[h] EXCEPT !.flags = {}]
<1>4. r.tables = [t.tables EXCEPT ![h] = w] /\ HasTables(r)
  BY <1>2 DEF Sound, Tabled, HasTables
<1> HIDE DEF t, r
<1>5. \A g \in DOMAIN t.tables :
        /\ DOMAIN r.tables[g] = TableFields
        /\ r.tables[g].flags = IF g = h THEN {} ELSE t.tables[g].flags
        /\ r.tables[g].meta = t.tables[g].meta /\ r.tables[g].map = t.tables[g].map
  BY <1>2, <1>4 DEF Sound, Tabled, TableFields
<1>6. IsSeq(r.tables) /\ DOMAIN r.tables = DOMAIN t.tables
  <2>1. IsSeq(t.tables)
    BY <1>2 DEF Sound, Tabled
  <2> HIDE DEF w
  <2> QED
    BY <1>4, <2>1, SeqReplaced
<1>7. Flagged(r, o)
  BY <1>2, <1>5, <1>6 DEF Sound, Flagged, luaH_get
<1> QED
  BY <1>1, <1>3, <1>4, <1>5, <1>6, <1>7 DEF Sound, Tabled, Cleared

(* luaH_set, and the value in the place it gave.                             *)
LEMMA SoundSetStore ==
  ASSUME NEW s, NEW o, NEW h, NEW k, NEW j, NEW v, Sound(s, o)
  PROVE  Sound(Store(luaH_set(s, h, k), h, j, v), o)
<1> DEFINE t == luaH_set(s, h, k)
<1>1. Sound(t, o) /\ Cleared(s, t, h)
  BY SoundSet
<1> HIDE DEF t
<1>2. Storable(t, o, h, j)
  BY <1>1 DEF Sound, Flagged, Storable, Cleared
<1>3. Sound(Store(t, h, j, v), o)
  BY <1>1, <1>2, SoundStore DEF Sound
<1> QED
  BY <1>3 DEF t

(* Values stored under numbers.                                              *)
LEMMA SoundStoreFrom ==
  ASSUME NEW s, NEW o, NEW h, NEW first, NEW vs, Sound(s, o)
  PROVE  Sound(StoreFrom(s, h, first, vs), o)
<1> DEFINE new == {Num(first + i - 1) : i \in DOMAIN vs}
           made == SelectSeq([i \in DOMAIN vs |-> Num(first + i - 1)],
                             LAMBDA k : k \notin DOMAIN s.tables[h].map)
           t == s.tables[h]
           r == StoreFrom(s, h, first, vs)
           u == [t EXCEPT !.keys = @ \o made,
                          !.map = [x \in new \cup DOMAIN @ |->
                                     IF x \in new THEN vs[x[2] + 1 - first] ELSE @[x]]]
<1>1. r.tables = [s.tables EXCEPT ![h] = u] /\ HasTables(r)
  BY DEF Sound, Tabled, HasTables, StoreFrom
<1>2. h \in DOMAIN s.tables =>
        /\ DOMAIN u = TableFields /\ u.flags = t.flags
        /\ u.map = [x \in new \cup DOMAIN t.map |->
                      IF x \in new THEN vs[x[2] + 1 - first] ELSE t.map[x]]
  <2> HIDE DEF made, new
  <2> QED
    BY DEF Sound, Tabled, TableFields
<1>3. \A x : Str(x) \notin new
  BY NoName
<1> HIDE DEF r, u, new
<1>4. IsSeq(r.tables) /\ DOMAIN r.tables = DOMAIN s.tables
  <2>1. IsSeq(s.tables)
    BY DEF Sound, Tabled
  <2> QED
    BY <1>1, <2>1, SeqReplaced
<1>5. ASSUME NEW g \in DOMAIN s.tables
      PROVE  /\ DOMAIN r.tables[g] = TableFields /\ r.tables[g].flags = s.tables[g].flags
             /\ \A e : luaH_get(r, g, Str(<<e>>)) = luaH_get(s, g, Str(<<e>>))
  <2>1. CASE g = h
    <3>1. r.tables[g] = u /\ DOMAIN u = TableFields /\ u.flags = s.tables[g].flags
      BY <1>1, <1>2, <2>1
    <3>2. ASSUME NEW e PROVE luaH_get(r, g, Str(<<e>>)) = luaH_get(s, g, Str(<<e>>))
      <4>1. Str(<<e>>) \notin new
        BY <1>3
      <4> HIDE DEF t
      <4>2. Str(<<e>>) \in DOMAIN u.map <=> Str(<<e>>) \in DOMAIN t.map
        BY <1>2, <2>1, <4>1
      <4>3. Str(<<e>>) \in DOMAIN t.map => u.map[Str(<<e>>)] = t.map[Str(<<e>>)]
        BY <1>2, <2>1, <4>1
      <4> QED
        BY <2>1, <3>1, <4>2, <4>3 DEF luaH_get, t
    <3> QED
      BY <3>1, <3>2
  <2>2. CASE g # h
    <3>1. r.tables[g] = s.tables[g]
      BY <1>1, <2>2
    <3> QED
      BY <3>1 DEF luaH_get, Sound, Tabled
  <2> QED
    BY <2>1, <2>2
<1>6. Sound(r, o)
  BY <1>1, <1>4, <1>5 DEF Sound, Tabled, Flagged
<1> QED
  BY <1>6 DEF r

(* A flag is set where the tag method was looked for.                        *)
LEMMA SoundFast ==
  ASSUME NEW s, NEW o, NEW mt, NEW e, Sound(s, o)
  PROVE  /\ Sound(fasttm(s, mt, e).s, o)
         /\ DOMAIN fasttm(s, mt, e).s.tables = DOMAIN s.tables
<1> DEFINE f == s.tables[mt].flags \cup {e}
           r == [s EXCEPT !.tables[mt].flags = f]
           w == [s.tables[mt] EXCEPT !.flags = f]
<1>1. fasttm(s, mt, e).s = s \/ (luaH_get(s, mt, Str(<<e>>)) = NIL /\ fasttm(s, mt, e).s = r)
  BY DEF fasttm
<1>2. r.tables = [s.tables EXCEPT ![mt] = w] /\ HasTables(r)
  BY DEF Sound, Tabled, HasTables
<1>3. mt \in DOMAIN s.tables => DOMAIN w = TableFields /\ w.flags = f /\ w.map = s.tables[mt].map
  BY DEF Sound, Tabled, TableFields
<1> HIDE DEF r, w
<1>4. IsSeq(r.tables) /\ DOMAIN r.tables = DOMAIN s.tables
  <2>1. IsSeq(s.tables)
    BY DEF Sound, Tabled
  <2> QED
    BY <1>2, <2>1, SeqReplaced
<1>5. ASSUME luaH_get(s, mt, Str(<<e>>)) = NIL PROVE Sound(r, o)
  <2>1. ASSUME NEW g \in DOMAIN s.tables
        PROVE  /\ DOMAIN r.tables[g] = TableFields
               /\ \A d \in r.tables[g].flags :
                    luaH_get(r, g, Str(<<d>>)) = NIL \/ (d = "__newindex" /\ g \in o)
    <3>1. CASE g = mt
      <4>1. r.tables[g] = w /\ DOMAIN w = TableFields /\ w.flags = f /\ w.map = s.tables[g].map
        BY <1>2, <1>3, <3>1
      <4>2. \A x : luaH_get(r, g, x) = luaH_get(s, g, x)
        BY <4>1 DEF luaH_get
      <4> QED
        BY <1>5, <3>1, <4>1, <4>2 DEF Sound, Flagged
    <3>2. CASE g # mt
      <4>1. r.tables[g] = s.tables[g]
        BY <1>2, <3>2
      <4> QED
        BY <4>1 DEF Sound, Tabled, Flagged, luaH_get
    <3> QED
      BY <3>1, <3>2
  <2> QED
    BY <1>2, <1>4, <2>1 DEF Sound, Tabled, Flagged
<1> QED
  BY <1>1, <1>4, <1>5

(* get_compTM asks two metatables, and may set a flag in each.               *)
LEMMA SoundComp ==
  ASSUME NEW s, NEW o, NEW mt1, NEW mt2, Sound(s, o)
  PROVE  Sound(get_compTM(s, mt1, mt2).s, o)
<1> DEFINE one == fasttm(s, mt1, "__eq")
           two == fasttm(one.s, mt2, "__eq")
<1>1. Sound(one.s, o)
  BY SoundFast
<1> HIDE DEF one
<1>2. Sound(two.s, o)
  BY <1>1, SoundFast
<1>3. get_compTM(s, mt1, mt2).s \in {one.s, two.s}
  BY DEF get_compTM, one
<1> QED
  BY <1>1, <1>2, <1>3

(* Calls.                                                                    *)
LEMMA SoundArg ==
  ASSUME NEW s, NEW o, NEW extra, Sound(s, o)
  PROVE  Sound(luaH_made(s, ArgTable(extra)).s, o)
<1> DEFINE t == ArgTable(extra)
           D == {NIL, Str(<<"n">>)} \cup {Num(i) : i \in DOMAIN extra}
<1>1. DOMAIN t = TableFields /\ t.flags = FastEvents /\ DOMAIN t.map = D
  BY DEF ArgTable, NewTable, TableFields
<1>2. \A e \in FastEvents : Str(<<e>>) \notin D
  BY NoName DEF FastEvents, Str
<1> HIDE DEF t, D
<1>3. Sound(luaH_made(s, t).s, o)
  BY <1>1, <1>2, SoundMade
<1> QED
  BY <1>3 DEF t

(* The arguments of a vararg function, with the table arg or without.        *)
LEMMA SoundAdjusted ==
  ASSUME NEW s, NEW o, NEW func, NEW p, NEW args, Sound(s, o)
  PROVE  Sound(adjust_varargs(s, func, p, args).s, o)
<1>1. ASSUME NEW t, NEW given, NEW arg, Sound(t, o)
      PROVE  Sound(Adjusted(t, func, p, given, arg).s, o)
  <2>1. \E i, vs : Adjusted(t, func, p, given, arg).s = SetFrom(t, i, vs)
    BY DEF Adjusted
  <2> QED
    BY <1>1, <2>1, SoundHas, KeepsSetFrom, SoundKept
<1> DEFINE given == args \o Nils(p.numparams - Len(args))
           arg == luaH_made(s, ArgTable(SubSeq(given, p.numparams + 1, Len(given))))
<1>2. Sound(arg.s, o)
  BY SoundArg
<1>3. adjust_varargs(s, func, p, args) \in
        {Adjusted(arg.s, func, p, given, <<arg.v>>), Adjusted(s, func, p, given, <<>>)}
  BY DEF adjust_varargs
<1> HIDE DEF given, arg
<1> QED
  BY <1>1, <1>2, <1>3

(* A Lua function is entered.                                                *)
LEMMA SoundEnter ==
  ASSUME NEW s, NEW o, NEW v, NEW func, NEW nresults, NEW op, Sound(s, o)
  PROVE  Sound(Enter(s, v, func, nresults, op), o)
<1> DEFINE p == ProtoOf(s, v[2])
           a == IF p.is_vararg = {} THEN Plain(s, func, p)
                ELSE adjust_varargs(s, func, p, Slots(s, func + 1, L(s).top))
           t == Framed(a, func, nresults, p)
<1>1. Sound(a.s, o)
  BY SoundAdjusted DEF Plain
<1>2. Enter(s, v, func, nresults, op) = Activated(t, op)
  BY DEF Enter
<1> HIDE DEF a, p
<1>3. Keeps(a.s, t)
  BY <1>1, SoundHas, KeepsEntered DEF Framed
<1> HIDE DEF t
<1>4. Sound(t, o)
  BY <1>1, <1>3, SoundKept
<1>5. Sound(Activated(t, op), o)
  BY <1>4, SoundHas, KeepsActivated, SoundKept
<1> QED
  BY <1>2, <1>5

(* A function is called.                                                     *)
LEMMA SoundPrecalled ==
  ASSUME NEW s, NEW o, NEW v, NEW func, NEW nresults, NEW op, Sound(s, o)
  PROVE  Sound(Precalled(s, v, func, nresults, op), o)
<1> DEFINE t == PushCi(s, func, func + 1, L(s).top, nresults)
           u == [t EXCEPT !.cfun = v]
<1>1. Sound(luaG_runerror(s, <<"stack overflow">>), o)
  BY SoundHas, KeepsError, SoundKept
<1>2. Sound(Enter(s, v, func, nresults, op), o)
  BY SoundEnter
<1>3. Keeps(s, t)
  BY SoundHas, KeepsPushCi
<1>4. Precalled(s, v, func, nresults, op) \in
        {luaG_runerror(s, <<"stack overflow">>), Enter(s, v, func, nresults, op), u}
  BY DEF Precalled
<1> HIDE DEF t
<1>5. Keeps(s, u)
  BY <1>3 DEF Keeps, HasTables
<1>6. Sound(u, o)
  BY <1>5, SoundKept
<1> QED
  BY <1>1, <1>2, <1>4, <1>6

(* A value is called: a function, or its tag method __call.                  *)
LEMMA SoundPrecall ==
  ASSUME NEW s, NEW o, NEW func, NEW nresults, NEW op, Sound(s, o)
  PROVE  Sound(luaD_precall(s, func, nresults, op), o)
<1> DEFINE v == Val(s, func)
           tm == luaT_gettmbyobj(s, v, "__call")
           t == SetFrom(s, func, <<tm>> \o Slots(s, func, L(s).top))
           u == Top(t, L(s).top + 1)
<1>1. Keeps(s, t)
  BY SoundHas, KeepsSetFrom
<1>2. luaD_precall(s, func, nresults, op) \in
        {Precalled(s, v, func, nresults, op), Precalled(u, tm, func, nresults, op),
         luaG_typeerror(s, v, func, "call")}
  BY DEF luaD_precall, tryfuncTM
<1> HIDE DEF t, v, tm
<1>3. Keeps(s, u)
  BY <1>1, KeepsTop, KeepsOn DEF Keeps
<1> HIDE DEF u
<1>4. Sound(u, o)
  BY <1>3, SoundKept
<1>5. Sound(luaG_typeerror(s, v, func, "call"), o)
  BY SoundHas, KeepsTypeerror, SoundKept
<1> QED
  BY <1>2, <1>4, <1>5, SoundPrecalled

(* A call from C.                                                            *)
LEMMA SoundCall ==
  ASSUME NEW s, NEW o, NEW func, NEW nresults, NEW frame, Sound(s, o)
  PROVE  Sound(luaD_call(s, func, nresults, frame), o)
<1> DEFINE t == PushC(s, frame)
<1>1. Sound(t, o)
  BY SoundHas, KeepsPushC, SoundKept
<1>2. luaD_call(s, func, nresults, frame) = luaD_precall(t, func, nresults, FALSE)
      \/ \E v : luaD_call(s, func, nresults, frame) = luaD_throw(t, v)
  BY DEF luaD_call, luaG_runerror
<1> HIDE DEF t
<1> QED
  BY <1>1, <1>2, SoundPrecall, SoundHas, KeepsThrow, SoundKept

(* A function is called above the top.                                       *)
LEMMA SoundCallTM ==
  ASSUME NEW s, NEW o, NEW f, NEW ps, NEW nresults, NEW frame, Sound(s, o)
  PROVE  Sound(callTM(s, f, ps, nresults, frame), o)
<1>1. Sound(Push(s, <<f>> \o ps), o)
  BY SoundHas, KeepsPush, SoundKept
<1> QED
  BY <1>1, SoundCall DEF callTM

-----------------------------------------------------------------------------
(* Tag methods.                                                              *)
LEMMA SoundThrow ==
  ASSUME NEW s, NEW o, NEW v, Sound(s, o)
  PROVE  Sound(luaD_throw(s, v), o)
BY SoundHas, KeepsThrow, SoundKept

(* An error with a message.                                                  *)
LEMMA SoundError ==
  ASSUME NEW s, NEW o, NEW msg, Sound(s, o)
  PROVE  Sound(luaG_runerror(s, msg), o) /\ Sound(luaL_error(s, msg), o)
BY SoundThrow DEF luaG_runerror, luaL_error

(* An error about the type of a value.                                       *)
LEMMA SoundTypeerror ==
  ASSUME NEW s, NEW o, NEW v, NEW where, NEW op, Sound(s, o)
  PROVE  Sound(luaG_typeerror(s, v, where, op), o)
BY SoundHas, KeepsTypeerror, SoundKept

(* A C function ends.                                                        *)
LEMMA SoundFinish ==
  ASSUME NEW s, NEW o, NEW vals, Sound(s, o)
  PROVE  Sound(Finish(s, vals), o)
BY SoundHas, KeepsFinish, SoundKept

(* Values on the stack.                                                      *)
LEMMA SoundSetFrom ==
  ASSUME NEW s, NEW o, NEW i, NEW vs, Sound(s, o)
  PROVE  Sound(SetFrom(s, i, vs), o)
BY SoundHas, KeepsSetFrom, SoundKept

(* A value on the stack.                                                     *)
LEMMA SoundSetobj ==
  ASSUME NEW s, NEW o, NEW i, NEW v, Sound(s, o)
  PROVE  Sound(Setobj(s, i, v), o)
BY SoundSetFrom DEF Setobj

(* Another state of the thread that runs.                                    *)
LEMMA SoundWith ==
  ASSUME NEW s, NEW o, NEW l, Sound(s, o)
  PROVE  Sound(With(s, l), o)
BY SoundHas, KeepsWith, SoundKept

(* Another top, or a jump.                                                   *)
LEMMA SoundTop ==
  ASSUME NEW s, NEW o, NEW n, Sound(s, o)
  PROVE  Sound(Top(s, n), o) /\ Sound(Goto(s, n), o)
BY SoundWith DEF Top, Goto

(* One more activation.                                                      *)
LEMMA SoundPushC ==
  ASSUME NEW s, NEW o, NEW f, Sound(s, o)
  PROVE  Sound(PushC(s, f), o)
BY SoundHas, KeepsPushC, SoundKept

(* One activation less.                                                      *)
LEMMA SoundPopC ==
  ASSUME NEW s, NEW o, Sound(s, o)
  PROVE  Sound(PopC(s), o)
BY SoundHas, KeepsPopC, SoundKept

(* Upvalues are closed.                                                      *)
LEMMA SoundClose ==
  ASSUME NEW s, NEW o, NEW level, Sound(s, o)
  PROVE  Sound(luaF_close(s, level), o)
BY SoundHas, KeepsClose, SoundKept

(* A read of a table, through its tag methods.                               *)
LEMMA SoundGettable ==
  ASSUME NEW s, NEW o, NEW t, NEW key, NEW res, NEW where, NEW loop, Sound(s, o)
  PROVE  Sound(luaV_gettable(s, t, key, res, where, loop), o)
<1> DEFINE v == luaH_get(s, t[2], key)
           fast == fasttm(s, s.tables[t[2]].meta, "__index")
           tm == IF t[1] = "table" THEN fast.tm ELSE luaT_gettmbyobj(s, t, "__index")
           g == IF t[1] = "table" THEN fast.s ELSE s
           r == luaV_gettable(s, t, key, res, where, loop)
<1>1. Sound(g, o)
  BY SoundFast
<1>2. \/ r = luaG_runerror(s, <<"loop in gettable">>)
      \/ r = Setobj(s, res, v)
      \/ r = Setobj(g, res, NIL)
      \/ r = luaG_typeerror(s, t, where, "index")
      \/ \E f, n, c : r = callTM(g, tm, f, n, c)
      \/ \E c : r = PushC(g, c)
  BY DEF luaV_gettable, callTMres
<1> HIDE DEF v, tm, g, r
<1>3. Sound(r, o)
  BY <1>1, <1>2, SoundError, SoundSetobj, SoundTypeerror, SoundCallTM, SoundPushC
<1> QED
  BY <1>3 DEF r

(* The flags after a tag method was looked for.                              *)
LEMMA FastFlags ==
  ASSUME NEW s, NEW o, NEW mt, NEW e, Sound(s, o), NEW h \in DOMAIN s.tables,
         NEW d \in fasttm(s, mt, e).s.tables[h].flags
  PROVE  d \in s.tables[h].flags \/ (h = mt /\ d = e)
<1> DEFINE f == s.tables[mt].flags \cup {e}
           r == [s EXCEPT !.tables[mt].flags = f]
<1>1. fasttm(s, mt, e).s = s \/ fasttm(s, mt, e).s = r
  BY DEF fasttm
<1>2. r.tables[h].flags = IF h = mt THEN f ELSE s.tables[h].flags
  BY DEF Sound, Tabled, HasTables, TableFields
<1> HIDE DEF r
<1>3. d \in s.tables[h].flags \/ d \in r.tables[h].flags
  BY <1>1
<1>4. CASE h = mt
  BY <1>2, <1>3, <1>4
<1>5. CASE h # mt
  BY <1>2, <1>3, <1>5
<1> QED
  BY <1>4, <1>5

(* A table that is its own metatable is in o.                                *)
Owned(s, o) == \A h \in DOMAIN s.tables : s.tables[h].meta = h => h \in o

(* A write to a table: its flags are reset, and looking for __newindex can   *)
(* set one again only in the metatable, which is another table unless it is  *)
(* its own.                                                                  *)
LEMMA SoundSettable ==
  ASSUME NEW s, NEW o, NEW t, NEW key, NEW val, NEW where, NEW loop, Sound(s, o), Owned(s, o)
  PROVE  Sound(luaV_settable(s, t, key, val, where, loop), o)
<1> DEFINE h == t[2]
           mt == s.tables[h].meta
           set == luaH_set(s, h, key)
           fast == fasttm(set, mt, "__newindex")
           tm == IF t[1] = "table" THEN fast.tm ELSE luaT_gettmbyobj(s, t, "__newindex")
           g == IF t[1] = "table" THEN fast.s ELSE s
           r == luaV_settable(s, t, key, val, where, loop)
<1>1. Sound(set, o) /\ Cleared(s, set, h)
  BY SoundSet
<1>2. \/ \E msg : r = luaG_runerror(s, msg)
      \/ r = Store(set, h, key, val)
      \/ t[1] = "table" /\ r = Store(g, h, key, val)
      \/ r = luaG_typeerror(s, t, where, "index")
      \/ \E f, n, c : r = callTM(g, tm, f, n, c)
      \/ \E c : r = PushC(g, c)
  BY DEF luaV_settable
<1>3. Sound(Store(set, h, key, val), o)
  BY SoundSetStore
<1> HIDE DEF h, set
<1>4. Sound(fast.s, o) /\ DOMAIN fast.s.tables = DOMAIN set.tables
  BY <1>1, SoundFast
<1>5. Sound(g, o)
  BY <1>4
<1>6. Sound(Store(fast.s, h, key, val), o)
  <2>1. Storable(fast.s, o, h, key)
    <3> SUFFICES ASSUME NEW k \in DOMAIN fast.s.tables, NEW e \in fast.s.tables[k].flags
                 PROVE  \/ (k # h \/ key # Str(<<e>>)) /\ luaH_get(fast.s, k, Str(<<e>>)) = NIL
                        \/ e = "__newindex" /\ k \in o
      BY DEF Storable
    <3>1. luaH_get(fast.s, k, Str(<<e>>)) = NIL \/ (e = "__newindex" /\ k \in o)
      BY <1>4 DEF Sound, Flagged
    <3>2. CASE k # h
      BY <3>1, <3>2
    <3>3. CASE k = h
      <4>1. k \in DOMAIN set.tables /\ k \in DOMAIN s.tables
        BY <1>1, <1>4 DEF Cleared
      <4>2. e \in set.tables[k].flags \/ (k = mt /\ e = "__newindex")
        BY <1>1, <4>1, FastFlags
      <4>3. k = mt /\ e = "__newindex"
        BY <1>1, <3>3, <4>1, <4>2 DEF Cleared
      <4>4. k \in o
        BY <3>3, <4>1, <4>3 DEF Owned
      <4> QED
        BY <4>3, <4>4
    <3> QED
      BY <3>2, <3>3
  <2> QED
    BY <1>4, <2>1, SoundStore DEF Sound
<1>7. t[1] = "table" => g = fast.s
  OBVIOUS
<1> HIDE DEF tm, g, r, fast
<1>8. Sound(r, o)
  BY <1>2, <1>3, <1>5, <1>6, <1>7, SoundError, SoundTypeerror, SoundCallTM, SoundPushC
<1> QED
  BY <1>8 DEF r

(* Arithmetic, with numbers or with a tag method.                            *)
LEMMA SoundArith ==
  ASSUME NEW s, NEW o, NEW res, NEW p1, NEW w1, NEW p2, NEW w2, NEW op, Sound(s, o)
  PROVE  Sound(Arith(s, res, p1, w1, p2, w2, op), o)
<1> DEFINE r == Arith(s, res, p1, w1, p2, w2, op)
<1>1. \/ \E v : r = Setobj(s, res, v)
      \/ \E f, ps, n, c : r = callTM(s, f, ps, n, c)
      \/ \E v, w, x : r = luaG_typeerror(s, v, w, x)
  BY DEF Arith, callTMres, luaG_aritherror
<1> HIDE DEF r
<1>2. Sound(r, o)
  BY <1>1, SoundSetobj, SoundCallTM, SoundTypeerror
<1> QED
  BY <1>2 DEF r

(* Concatenation, with strings or with a tag method.                         *)
LEMMA SoundConcat ==
  ASSUME NEW s, NEW o, NEW total, NEW last, Sound(s, o)
  PROVE  Sound(luaV_concat(s, total, last), o)
<1> DEFINE r == luaV_concat(s, total, last)
           t == Joined(s, Collected(s, total, L(s).base + last), L(s).base + last)
<1>1. t = s \/ \E i, v : t = Setobj(s, i, v)
  BY DEF Joined
<1>2. (\E i, v : r = Setobj(t, i, v)) \/ \E n, m : r = concatTM(t, n, m)
  BY DEF luaV_concat
<1> HIDE DEF t, r
<1>3. Sound(t, o)
  BY <1>1, SoundSetobj
<1>4. ASSUME NEW n, NEW m PROVE Sound(concatTM(t, n, m), o)
  <2> DEFINE q == concatTM(t, n, m)
  <2>1. \/ \E v, w, x : q = luaG_typeerror(t, v, w, x)
        \/ \E f, ps, k, c : q = callTM(t, f, ps, k, c)
    BY DEF concatTM, luaG_concaterror
  <2> HIDE DEF q
  <2>2. Sound(q, o)
    BY <1>3, <2>1, SoundTypeerror, SoundCallTM
  <2> QED
    BY <2>2 DEF q
<1>5. Sound(r, o)
  BY <1>2, <1>3, <1>4, SoundSetobj
<1> QED
  BY <1>5 DEF r

-----------------------------------------------------------------------------
(* Coroutines and the libraries.                                             *)
LEMMA SoundResume ==
  ASSUME NEW s, NEW o, NEW co, NEW args, NEW wrap, Sound(s, o)
  PROVE  Sound(auxresume(s, co, args, wrap), o)
<1>1. ASSUME NEW t, Sound(t, o) PROVE Sound(resume(t, co, args), o)
  <2>1. CASE t.threads[co].status = "ok"
    <3>1. resume(t, co, args) = luaD_precall(Push(t, args), L(t).top - 1, LUA_MULTRET, TRUE)
      BY <2>1 DEF resume
    <3>2. Sound(Push(t, args), o)
      BY <1>1, SoundHas, KeepsPush, SoundKept
    <3> QED
      BY <3>1, <3>2, SoundPrecall
  <2>2. CASE t.threads[co].status # "ok"
    <3>1. resume(t, co, args) = Goingon(Finish(Woken(t, co), args))
      BY <2>2 DEF resume
    <3>2. Keeps(t, Woken(t, co))
      BY <1>1, SoundHas DEF Woken, Keeps, HasTables
    <3>3. Sound(Finish(Woken(t, co), args), o)
      BY <1>1, <3>2, SoundKept, SoundFinish
    <3> DEFINE u == Finish(Woken(t, co), args)
    <3>4. Keeps(u, Goingon(u))
      <4> HIDE DEF u
      <4> QED
        BY <3>3, SoundHas DEF Goingon, Keeps, HasTables, u
    <3> QED
      BY <3>1, <3>3, <3>4, SoundKept
  <2> QED
    BY <2>1, <2>2
<1> DEFINE t == Switched(s, co, Len(args), wrap)
           lost == IF co \in Suspended(s) THEN [s EXCEPT !.threads[co].top = Last(s.threads[co].ci).base]
                   ELSE s
           r == auxresume(s, co, args, wrap)
<1>2. Keeps(s, t)
  BY SoundHas DEF Switched, Keeps, HasTables
<1>3. Keeps(s, lost)
  BY SoundHas DEF Keeps, HasTables
<1>4. \/ r = resume(t, co, args)
      \/ \E v : r = luaD_throw(lost, v)
      \/ \E v : r = Finish(lost, v)
  BY DEF auxresume, Failed, luaL_error
<1> HIDE DEF t, lost, r
<1>5. Sound(t, o) /\ Sound(lost, o)
  BY <1>2, <1>3, SoundKept
<1>6. Sound(r, o)
  BY <1>1, <1>4, <1>5, SoundThrow, SoundFinish
<1> QED
  BY <1>6 DEF r

(* A coroutine yields.                                                       *)
LEMMA SoundYield ==
  ASSUME NEW s, NEW o, NEW args, Sound(s, o)
  PROVE  Sound(lua_yield(s, args), o)
<1> DEFINE n == Len(s.C)
           top == L(s).top - Len(args)
           out == [s EXCEPT !.threads[Cur(s)] = [L(s) EXCEPT !.status = "yield", !.top = top, !.base = top],
                            !.C = SubSeq(@, 1, n - 2)]
           r == lua_yield(s, args)
<1>1. Keeps(s, out)
  BY SoundHas DEF Keeps, HasTables
<1>2. (\E msg : r = luaG_runerror(s, msg)) \/ \E v : r = Finish(out, v)
  BY DEF lua_yield
<1> HIDE DEF out, r
<1>3. Sound(out, o)
  BY <1>1, SoundKept
<1>4. Sound(r, o)
  BY <1>2, <1>3, SoundError, SoundFinish
<1> QED
  BY <1>4 DEF r

(* One element of foreach or foreachi.                                       *)
LEMMA SoundForeach ==
  ASSUME NEW s, NEW o, NEW c, Sound(s, o)
  PROVE  Sound(foreach(s, c), o) /\ Sound(foreachi(s, c), o)
<1>1. foreach(s, c) = Finish(s, <<>>) \/ \E f, ps, n, d : foreach(s, c) = callTM(s, f, ps, n, d)
  BY DEF foreach
<1>2. foreachi(s, c) = Finish(s, <<>>) \/ \E f, ps, n, d : foreachi(s, c) = callTM(s, f, ps, n, d)
  BY DEF foreachi
<1> QED
  BY <1>1, <1>2, SoundFinish, SoundCallTM

(* sort swaps two elements.                                                  *)
LEMMA SoundSwap ==
  ASSUME NEW s, NEW o, NEW c, NEW i, NEW x, NEW j, NEW y, Sound(s, o)
  PROVE  Sound(Swap(s, c, i, x, j, y), o)
<1>1. Sound(rawseti(s, c.h, i, x), o)
  BY SoundStoreNum DEF rawseti
<1> QED
  BY <1>1, SoundStoreNum DEF Swap, rawseti

(* sort chooses its pivot and splits the range.                              *)
LEMMA SoundPivot ==
  ASSUME NEW s, NEW o, NEW c, Sound(s, o)
  PROVE  Sound(Pivot(s, c).s, o) /\ Sound(Split(s, c).s, o)
<1>1. Pivot(s, c).s = s \/ \E i, x, j, y : Pivot(s, c).s = Swap(s, c, i, x, j, y)
  BY DEF Pivot, Range1, State
<1>2. \E i, x, j, y : Split(s, c).s = Swap(s, c, i, x, j, y)
  BY DEF Split, Range1, State
<1> QED
  BY <1>1, <1>2, SoundSwap

(* sort goes on after a comparison.                                          *)
LEMMA SoundSifted ==
  ASSUME NEW s, NEW o, NEW c, NEW less, Sound(s, o)
  PROVE  Sound(Sifted(s, c, less).s, o)
<1> DEFINE r == Sifted(s, c, less).s
<1>1. CASE c.phase = "ends"
  <2>1. r = s \/ \E i, x, j, y : r = Swap(s, c, i, x, j, y)
    BY <1>1 DEF Sifted, Range1, State
  <2> HIDE DEF r
  <2>2. Sound(r, o)
    BY <2>1, SoundSwap
  <2> QED
    BY <2>2 DEF r
<1>2. CASE c.phase = "middle"
  <2>1. r = s \/ \E i, x, j, y : r = Pivot(Swap(s, c, i, x, j, y), c).s
    BY <1>2 DEF Sifted, State
  <2> HIDE DEF r
  <2>2. Sound(r, o)
    BY <2>1, SoundSwap, SoundPivot
  <2> QED
    BY <2>2 DEF r
<1>3. CASE c.phase = "last"
  <2>1. r = Pivot(s, c).s \/ \E i, x, j, y : r = Pivot(Swap(s, c, i, x, j, y), c).s
    BY <1>3 DEF Sifted
  <2> HIDE DEF r
  <2>2. Sound(r, o)
    BY <2>1, SoundSwap, SoundPivot
  <2> QED
    BY <2>2 DEF r
<1>4. CASE c.phase = "up"
  BY <1>4 DEF Sifted, State
<1>5. CASE c.phase \notin {"ends", "middle", "last", "up"}
  <2>1. r = s \/ r = Split(s, c).s \/ \E i, x, j, y : r = Swap(s, c, i, x, j, y)
    BY <1>5 DEF Sifted, State
  <2> HIDE DEF r
  <2>2. Sound(r, o)
    BY <2>1, SoundSwap, SoundPivot
  <2> QED
    BY <2>2 DEF r
<1> QED
  BY <1>1, <1>2, <1>3, <1>4, <1>5

(* sort asks for a comparison, or ends.                                      *)
LEMMA SoundSort ==
  ASSUME NEW s, NEW o, NEW d, Sound(s, o)
  PROVE  Sound(auxsort(s, d), o)
<1> DEFINE r == auxsort(s, d)
<1>1. \/ \E v : r = Finish(s, v)
      \/ \E v : r = luaD_throw(s, v)
      \/ \E c : r = PushC(s, c)
      \/ \E f, ps, n, c : r = callTM(s, f, ps, n, c)
  BY DEF auxsort, luaL_error, luaG_ordererror, luaG_runerror
<1> HIDE DEF r
<1>2. Sound(r, o)
  BY <1>1, SoundFinish, SoundThrow, SoundPushC, SoundCallTM
<1> QED
  BY <1>2 DEF r

(* gsub asks for a replacement, or ends.                                     *)
LEMMA SoundGsub ==
  ASSUME NEW s, NEW o, NEW g, Sound(s, o)
  PROVE  Sound(str_gsub(s, g), o)
<1> DEFINE r == str_gsub(s, g)
<1>1. \/ \E v : r = Finish(s, v)
      \/ \E v : r = luaL_error(s, v)
      \/ \E c : r = PushC(s, c)
      \/ \E f, ps, n, c : r = callTM(s, f, ps, n, c)
  BY DEF str_gsub
<1> HIDE DEF r
<1>2. Sound(r, o)
  BY <1>1, SoundFinish, SoundError, SoundPushC, SoundCallTM
<1> QED
  BY <1>2 DEF r

(* What a function of the libraries changes at once.                         *)
LEMMA SoundChanged ==
  ASSUME NEW s, NEW o, NEW f, NEW args, NEW a, Sound(s, o)
  PROVE  Sound(Changed(s, f, args, a), o)
<1> DEFINE r == Changed(s, f, args, a)
           h == a[1][2]
<1>1. CASE f = "setmetatable"
  <2> DEFINE m == IF a[2] = NIL THEN 0 ELSE a[2][2]
             t == [s EXCEPT !.tables[h].meta = m]
             w == [s.tables[h] EXCEPT !.meta = m]
  <2>1. r = t
    BY <1>1 DEF Changed
  <2>2. t.tables = [s.tables EXCEPT ![h] = w] /\ HasTables(t)
    BY DEF Sound, Tabled, HasTables
  <2>3. h \in DOMAIN s.tables =>
          DOMAIN w = TableFields /\ w.flags = s.tables[h].flags /\ w.map = s.tables[h].map
    BY DEF Sound, Tabled, TableFields
  <2> HIDE DEF t, w, m, h
  <2>4. IsSeq(t.tables) /\ DOMAIN t.tables = DOMAIN s.tables
    <3>1. IsSeq(s.tables)
      BY DEF Sound, Tabled
    <3> QED
      BY <2>2, <3>1, SeqReplaced
  <2>5. ASSUME NEW g \in DOMAIN s.tables
        PROVE  /\ DOMAIN t.tables[g] = TableFields /\ t.tables[g].flags = s.tables[g].flags
               /\ t.tables[g].map = s.tables[g].map
    <3>1. CASE g = h
      BY <2>2, <2>3, <3>1
    <3>2. CASE g # h
      BY <2>2, <3>2 DEF Sound, Tabled
    <3> QED
      BY <3>1, <3>2
  <2>6. Sound(t, o)
    BY <2>2, <2>4, <2>5 DEF Sound, Tabled, Flagged, luaH_get
  <2> QED
    BY <2>1, <2>6
<1>2. CASE f = "rawset"
  BY <1>2, SoundSetStore DEF Changed
<1>3. CASE f \in {"create", "wrap"}
  <2>1. Keeps(s, luaB_cocreate(s, a[1]))
    BY SoundHas DEF luaB_cocreate, Keeps, HasTables
  <2> QED
    BY <1>3, <2>1, SoundKept DEF Changed
<1>4. CASE f = "insert"
  BY <1>4, SoundStoreFrom DEF Changed, tinsert
<1>5. CASE f = "remove"
  BY <1>5, SoundStoreFrom DEF Changed, tremove
<1>6. CASE f = "gmatch"
  <2> DEFINE ms == Append(s.matches, [m |-> NewMatching(TextOf(a[1]), TextOf(a[2])), at |-> 1])
  <2>1. Keeps(s, [s EXCEPT !.matches = ms])
    BY SoundHas DEF Keeps, HasTables
  <2> QED
    BY <1>6, <2>1, SoundKept DEF Changed
<1>7. CASE f \notin {"setmetatable", "rawset", "create", "wrap", "insert", "remove", "gmatch"}
  BY <1>7 DEF Changed
<1> QED
  BY <1>1, <1>2, <1>3, <1>4, <1>5, <1>6, <1>7

(* What a function of the libraries gives: results or an error.              *)
LEMMA SoundGiven ==
  ASSUME NEW s, NEW o, NEW q, Sound(s, o)
  PROVE  Sound(Given(s, q), o)
BY SoundError, SoundFinish DEF Given

(* A function of the libraries, by its name.                                 *)
LEMMA SoundInvoked ==
  ASSUME NEW s, NEW o, NEW f, NEW args, NEW a, NEW refusal, Sound(s, o)
  PROVE  Sound(Invoked(s, f, args, a, refusal), o)
<1> DEFINE r == Invoked(s, f, args, a, refusal)
           others == {"error", "pcall", "resume", "auxwrap", "yield", "foreach", "foreachi", "sort",
                      "gsub", "gmatch_aux"} \cup StringFunctions
<1>1. CASE refusal # NIL
  BY <1>1, SoundError DEF Invoked
<1>2. CASE refusal = NIL /\ f[2] \in {"error", "pcall"}
  BY <1>2, SoundThrow, SoundCall DEF Invoked, luaB_error, StringFunctions
<1>3. CASE refusal = NIL /\ f[2] \in {"resume", "auxwrap", "yield"}
  BY <1>3, SoundResume, SoundYield DEF Invoked, StringFunctions
<1>4. CASE refusal = NIL /\ f[2] \in {"foreach", "foreachi"}
  BY <1>4, SoundForeach DEF Invoked, StringFunctions
<1>5. CASE refusal = NIL /\ f[2] = "sort"
  BY <1>5, SoundSort DEF Invoked, sort, StringFunctions
<1>6. CASE refusal = NIL /\ f[2] \in StringFunctions
  <2>1. r = Given(s, StringFunction(f[2], args, a))
    BY <1>6 DEF Invoked, StringFunctions
  <2> QED
    BY <2>1, SoundGiven
<1>7. CASE refusal = NIL /\ f[2] = "gsub"
  <2>1. \E g : r = str_gsub(s, g)
    BY <1>7 DEF Invoked, StringFunctions
  <2> QED
    BY <2>1, SoundGsub
<1>8. CASE refusal = NIL /\ f[2] = "gmatch_aux"
  <2> DEFINE n == f[3]
             q == NextMatch(s.matches[n].m, s.matches[n].at)
             t == [s EXCEPT !.matches[n].at = IF q.at = 0 THEN @ ELSE q.at]
  <2>1. r = Given(t, q)
    BY <1>8 DEF Invoked, Iterate, Stepped, StringFunctions
  <2>2. Keeps(s, t)
    BY SoundHas DEF Keeps, HasTables
  <2> HIDE DEF t, q
  <2>3. Sound(Given(t, q), o)
    BY <2>2, SoundKept, SoundGiven
  <2> QED
    BY <2>1, <2>3
<1>9. CASE refusal = NIL /\ f[2] \notin others
  <2>1. \/ r = luaG_runerror(s, <<"table index is nil">>)
        \/ r = Finish(Changed(s, f[2], args, a), Results(s, f[2], args, a))
    BY <1>9 DEF Invoked
  <2> HIDE DEF r
  <2>2. Sound(r, o)
    BY <2>1, SoundChanged, SoundFinish, SoundError
  <2> QED
    BY <2>2 DEF r
<1> QED
  BY <1>1, <1>2, <1>3, <1>4, <1>5, <1>6, <1>7, <1>8, <1>9

(* A C function that was called runs.                                        *)
LEMMA SoundCFunction ==
  ASSUME NEW s, NEW o, NEW f, Sound(s, o)
  PROVE  Sound(CFunction(s, f), o)
BY SoundInvoked DEF CFunction

-----------------------------------------------------------------------------
(* The steps of the machine.                                                 *)
FlagsInv == Sound(vm, selfmeta) /\ Owned(vm, selfmeta)

(* The instruction is fetched.                                               *)
LEMMA SoundNext == ASSUME FlagsInv PROVE Sound(next, selfmeta)
BY SoundTop DEF FlagsInv, next

(* A test jumps or skips.                                                    *)
LEMMA SoundBranch ==
  ASSUME NEW s, NEW o, NEW taken, Sound(s, o)
  PROVE  Sound(Branch(s, taken), o)
BY SoundTop DEF Branch

(* What moves values, or makes one.                                          *)
LEMMA MovesFlags ==
  ASSUME FlagsInv,
         Move \/ Loadk \/ Loadbool \/ Loadnil \/ Getupval \/ Setupval \/ Newtable \/ Not \/ Jmp
  PROVE  Sound(vm', selfmeta)
<1>1. Sound(vm, selfmeta) /\ Sound(next, selfmeta)
  BY SoundNext DEF FlagsInv
<1>2. CASE Move
  BY <1>1, <1>2, SoundSetobj DEF Move, Do
<1>3. CASE Loadk
  BY <1>1, <1>3, SoundSetobj DEF Loadk, Do
<1>4. CASE Loadbool
  <2>1. \E v, pc : vm' = Goto(Setobj(vm, ra, v), pc)
    BY <1>4 DEF Loadbool, Do
  <2> QED
    BY <1>1, <2>1, SoundSetobj, SoundTop
<1>5. CASE Loadnil
  BY <1>1, <1>5, SoundSetFrom DEF Loadnil, Do
<1>6. CASE Getupval
  BY <1>1, <1>6, SoundSetobj DEF Getupval, Do
<1>7. CASE Setupval
  <2>1. \E u, v : vm' = SetUpval(next, u, v)
    BY <1>7 DEF Setupval, Do
  <2> QED
    BY <1>1, <2>1, SoundHas, KeepsSetUpval, SoundKept
<1>8. CASE Newtable
  <2> DEFINE t == luaH_new(next)
  <2>1. vm' = Setobj(t.s, ra, t.v)
    BY <1>8 DEF Newtable, Do
  <2> QED
    BY <1>1, <2>1, SoundNew, SoundSetobj
<1>9. CASE Not
  BY <1>1, <1>9, SoundSetobj DEF Not, Do
<1>10. CASE Jmp
  BY <1>1, <1>10, SoundTop DEF Jmp, Do
<1> QED
  BY <1>2, <1>3, <1>4, <1>5, <1>6, <1>7, <1>8, <1>9, <1>10

(* Reads and writes of tables, arithmetic and concatenation.                 *)
LEMMA TablesFlags ==
  ASSUME FlagsInv,
         Getglobal \/ Setglobal \/ Gettable \/ Settable \/ Self \/ Arithmetics \/ LenOf \/ Concat
  PROVE  Sound(vm', selfmeta)
<1>1. Sound(vm, selfmeta) /\ Sound(next, selfmeta)
  BY SoundNext DEF FlagsInv
<1>2. Owned(next, selfmeta)
  BY <1>1, SoundHas, KeepsGoto DEF FlagsInv, Owned, Keeps, next
<1>3. CASE Getglobal
  BY <1>1, <1>3, SoundGettable DEF Getglobal, Do
<1>4. CASE Setglobal
  BY <1>1, <1>2, <1>4, SoundSettable DEF Setglobal, Do
<1>5. CASE Gettable
  BY <1>1, <1>5, SoundGettable DEF Gettable, Do
<1>6. CASE Settable
  BY <1>1, <1>2, <1>6, SoundSettable DEF Settable, Do
<1>7. CASE Self
  BY <1>1, <1>7, SoundSetobj, SoundGettable DEF Self, Do
<1>8. CASE Arithmetics
  BY <1>1, <1>8, SoundArith DEF Arithmetics, Do
<1>9. CASE LenOf
  <2>1. (\E v : vm' = Setobj(next, ra, v)) \/ \E v, w, op : vm' = luaG_typeerror(next, v, w, op)
    BY <1>9 DEF LenOf, Do
  <2> QED
    BY <1>1, <2>1, SoundSetobj, SoundTypeerror
<1>10. CASE Concat
  BY <1>1, <1>10, SoundConcat DEF Concat, Do
<1> QED
  BY <1>3, <1>4, <1>5, <1>6, <1>7, <1>8, <1>9, <1>10

(* Tests and loops.                                                          *)
LEMMA TestsFlags ==
  ASSUME FlagsInv, Eq \/ Order \/ Test \/ Testset \/ Forprep \/ Forloop \/ Tforloop
  PROVE  Sound(vm', selfmeta)
<1>1. Sound(vm, selfmeta) /\ Sound(next, selfmeta)
  BY SoundNext DEF FlagsInv
<1>2. CASE Eq
  <2> DEFINE x == RK(I.b)
             y == RK(I.c)
             tm == get_compTM(next, vm.tables[x[2]].meta, vm.tables[y[2]].meta)
  <2>1. \/ \E f, ps, n, c : vm' = callTM(tm.s, f, ps, n, c)
        \/ \E taken : vm' = Branch(tm.s, taken)
        \/ \E taken : vm' = Branch(next, taken)
    BY <1>2 DEF Eq, Do
  <2>2. Sound(tm.s, selfmeta)
    BY <1>1, SoundComp
  <2> HIDE DEF tm
  <2> QED
    BY <1>1, <2>1, <2>2, SoundCallTM, SoundBranch
<1>3. CASE Order
  <2>1. \/ \E f, ps, n, c : vm' = callTM(next, f, ps, n, c)
        \/ \E taken : vm' = Branch(next, taken)
        \/ \E v : vm' = luaD_throw(next, v)
    BY <1>3 DEF Order, Do, luaG_ordererror, luaG_runerror
  <2> QED
    BY <1>1, <2>1, SoundCallTM, SoundBranch, SoundThrow
<1>4. CASE Test
  BY <1>1, <1>4, SoundBranch DEF Test, Do
<1>5. CASE Testset
  <2>1. (\E v, taken : vm' = Branch(Setobj(next, ra, v), taken)) \/ \E taken : vm' = Branch(next, taken)
    BY <1>5 DEF Testset, Do
  <2> QED
    BY <1>1, <2>1, SoundSetobj, SoundBranch
<1>6. CASE Forprep
  <2>1. (\E m : vm' = luaG_runerror(next, m)) \/ \E vs, pc : vm' = Goto(SetFrom(next, ra, vs), pc)
    BY <1>6 DEF Forprep, Do
  <2> QED
    BY <1>1, <2>1, SoundError, SoundSetFrom, SoundTop
<1>7. CASE Forloop
  <2>1. vm' = next \/ \E v, pc : vm' = Goto(Setobj(Setobj(vm, ra, v), ra + 3, v), pc)
    BY <1>7 DEF Forloop, Do
  <2> QED
    BY <1>1, <2>1, SoundSetobj, SoundTop
<1>8. CASE Tforloop
  <2>1. \E vs, func, n, c : vm' = luaD_call(Top(SetFrom(next, ra + 3, vs), ra + 6), func, n, c)
    BY <1>8 DEF Tforloop, Do
  <2> QED
    BY <1>1, <2>1, SoundSetFrom, SoundTop, SoundCall
<1> QED
  BY <1>2, <1>3, <1>4, <1>5, <1>6, <1>7, <1>8

(* Calls, functions and what they take.                                      *)
LEMMA CallsFlags ==
  ASSUME FlagsInv, Call \/ Tailcall \/ Return \/ Setlist \/ Close \/ Closure \/ Vararg \/ Cfunction
  PROVE  Sound(vm', selfmeta)
<1>1. Sound(vm, selfmeta) /\ Sound(next, selfmeta)
  BY SoundNext DEF FlagsInv
<1>2. Sound(Called, selfmeta)
  BY <1>1, SoundTop DEF Called
<1>3. CASE Call
  BY <1>2, <1>3, SoundPrecall DEF Call, Do
<1>4. CASE Tailcall
  <2> DEFINE s == luaD_precall(Called, ra, LUA_MULTRET, TRUE)
             t == [s EXCEPT !.C[Len(s.C)].n = @ - 1]
  <2>1. vm' = s \/ vm' = ReplaceFrame(t)
    BY <1>4 DEF Tailcall, Do
  <2>2. Sound(s, selfmeta)
    BY <1>2, SoundPrecall
  <2> HIDE DEF s
  <2>3. Keeps(s, t)
    BY <2>2, SoundHas DEF Keeps, HasTables
  <2> HIDE DEF t
  <2>4. Sound(t, selfmeta)
    BY <2>2, <2>3, SoundKept
  <2>5. \E level, func, vs, l : ReplaceFrame(t) = With(SetFrom(luaF_close(t, level), func, vs), l)
    BY DEF ReplaceFrame
  <2>6. Sound(ReplaceFrame(t), selfmeta)
    BY <2>4, <2>5, SoundClose, SoundSetFrom, SoundWith
  <2> QED
    BY <2>1, <2>2, <2>6
<1>5. CASE Return
  <2> DEFINE vals == Slots(vm, ra, IF I.b # 0 THEN ra + I.b - 1 ELSE L(vm).top)
             s == luaD_poscall(luaF_close(next, L(vm).base), vals)
             top == IF Ci(vm).nresults # LUA_MULTRET THEN Top(s, Ci(s).top) ELSE s
  <2>1. \/ vm' = [top EXCEPT !.C[Len(vm.C)].n = @ - 1]
        \/ vm' = [PopC(s) EXCEPT !.out = <<"return", vals>>]
        \/ vm' = PopC(s)
    BY <1>5 DEF Return, Do
  <2>2. Sound(s, selfmeta)
    BY <1>1, SoundHas, SoundClose, KeepsPoscall, SoundKept
  <2> HIDE DEF s, vals
  <2>3. Sound(top, selfmeta) /\ Sound(PopC(s), selfmeta)
    BY <2>2, SoundTop, SoundPopC
  <2> HIDE DEF top
  <2>4. Keeps(top, [top EXCEPT !.C[Len(vm.C)].n = @ - 1])
    BY <2>3, SoundHas DEF Keeps, HasTables
  <2>5. Keeps(PopC(s), [PopC(s) EXCEPT !.out = <<"return", vals>>])
    BY <2>3, SoundHas DEF Keeps, HasTables
  <2> QED
    BY <2>1, <2>3, <2>4, <2>5, SoundKept
<1>6. CASE Setlist
  <2>1. \E pc, h, first, vs : vm' = StoreFrom(Goto(vm, pc), h, first, vs)
                              \/ vm' = StoreFrom(Top(Goto(vm, pc), Ci(vm).top), h, first, vs)
    BY <1>6 DEF Setlist, Do
  <2> QED
    BY <1>1, <2>1, SoundTop, SoundStoreFrom
<1>7. CASE Close
  BY <1>1, <1>7, SoundClose DEF Close, Do
<1>8. CASE Closure
  <2> DEFINE p == ProtoOf(vm, Cl(vm)).p[I.b + 1]
             up == [j \in 1..p.nups |-> Code[L(vm).pc + 1 + j]]
             all == luaF_findupvals(vm, {R(up[j].b) : j \in {j \in DOMAIN up : up[j].op = "MOVE"}})
             us == [j \in 1..p.nups |-> IF up[j].op = "MOVE" THEN OpenOf(all, R(up[j].b)) ELSE UpvalOf(up[j].b)]
             new == [path |-> Append(vm.funs[Cl(vm)].path, I.b), upvals |-> us]
             s == [all EXCEPT !.funs = Append(@, new)]
  <2>1. \E v, pc : vm' = Goto(Setobj(s, ra, v), pc)
    BY <1>8 DEF Closure, Do
  <2>2. Sound(all, selfmeta)
    BY <1>1, SoundHas, KeepsFind, SoundKept
  <2> HIDE DEF all, new
  <2>3. Keeps(all, s)
    BY <2>2, SoundHas DEF Keeps, HasTables
  <2> HIDE DEF s
  <2> QED
    BY <2>1, <2>2, <2>3, SoundKept, SoundSetobj, SoundTop
<1>9. CASE Vararg
  <2>1. \E vs, n : vm' = SetFrom(next, ra, vs) \/ vm' = Top(SetFrom(next, ra, vs), n)
    BY <1>9 DEF Vararg, Do
  <2> QED
    BY <1>1, <2>1, SoundSetFrom, SoundTop
<1>10. CASE Cfunction
  <2> DEFINE s == [vm EXCEPT !.cfun = NIL]
  <2>1. Keeps(vm, s)
    BY <1>1, SoundHas DEF Keeps, HasTables
  <2>2. vm' = CFunction(s, vm.cfun)
    BY <1>10 DEF Cfunction, Do
  <2> HIDE DEF s
  <2> QED
    BY <1>1, <2>1, <2>2, SoundKept, SoundCFunction
<1> QED
  BY <1>3, <1>4, <1>5, <1>6, <1>7, <1>8, <1>9, <1>10

(* What waited for a call goes on.                                           *)
LEMMA WaitsFlags ==
  ASSUME FlagsInv,
         \/ TMres \/ TM \/ Compared \/ Concatenated \/ Got \/ Set \/ Iterated \/ Pcalled \/ Resumed
         \/ Foreached \/ Foreachied \/ Sorting \/ Substituted
  PROVE  Sound(vm', selfmeta)
<1>1. Sound(vm, selfmeta)
  BY DEF FlagsInv
<1>2. Sound(PopC(vm), selfmeta) /\ Sound(Popped, selfmeta)
  BY <1>1, SoundTop, SoundPopC DEF Popped
<1>3. CASE TMres
  BY <1>2, <1>3, SoundSetobj DEF TMres, Do
<1>4. CASE TM
  BY <1>2, <1>4 DEF TM, Do
<1>5. CASE Compared
  <2>1. \E taken : vm' = Branch(Popped, taken)
    BY <1>5 DEF Compared, Do
  <2> QED
    BY <1>2, <2>1, SoundBranch
<1>6. CASE Concatenated
  BY <1>2, <1>6, SoundSetobj, SoundConcat DEF Concatenated, Do
<1>7. CASE Got
  BY <1>2, <1>7, SoundGettable DEF Got, Do
<1>8. CASE Set
  <2>1. Owned(PopC(vm), selfmeta)
    BY <1>1, SoundHas, KeepsPopC DEF FlagsInv, Owned, Keeps
  <2> QED
    BY <1>2, <1>8, <2>1, SoundSettable DEF Set, Do
<1>9. CASE Iterated
  <2> DEFINE s == Top(PopC(vm), Ci(vm).top)
  <2>1. (\E taken : vm' = Branch(s, taken)) \/ \E i, v, taken : vm' = Branch(Setobj(s, i, v), taken)
    BY <1>9 DEF Iterated, Do
  <2>2. Sound(s, selfmeta)
    BY <1>2, SoundTop
  <2> HIDE DEF s
  <2> QED
    BY <2>1, <2>2, SoundSetobj, SoundBranch
<1>10. CASE Pcalled
  BY <1>2, <1>10, SoundFinish DEF Pcalled, Do
<1>11. CASE Resumed
  <2> DEFINE co == vm.threads[Wait.co]
             s == [PopC(vm) EXCEPT !.threads[Wait.co].top = co.base]
  <2>1. \E vals : vm' = Finish(s, vals)
    BY <1>11 DEF Resumed, Do
  <2>2. Keeps(PopC(vm), s)
    BY <1>2, SoundHas DEF Keeps, HasTables
  <2> HIDE DEF s
  <2> QED
    BY <1>2, <2>1, <2>2, SoundKept, SoundFinish
<1>12. CASE Foreached
  BY <1>2, <1>12, SoundForeach, SoundFinish DEF Foreached, Do
<1>13. CASE Foreachied
  BY <1>2, <1>13, SoundForeach, SoundFinish DEF Foreachied, Do
<1>14. CASE Sorting
  <2>1. \E c, less : \/ vm' = auxsort(Sifted(Popped, Wait, less).s, c)
                     \/ vm' = auxsort(Sifted(PopC(vm), Wait, less).s, c)
    BY <1>14 DEF Sorting, Do
  <2> QED
    BY <1>2, <2>1, SoundSifted, SoundSort
<1>15. CASE Substituted
  <2>1. \E g : vm' = str_gsub(Popped, g) \/ vm' = str_gsub(PopC(vm), g)
    BY <1>15 DEF Substituted, Do
  <2> QED
    BY <1>2, <2>1, SoundGsub
<1> QED
  BY <1>3, <1>4, <1>5, <1>6, <1>7, <1>8, <1>9, <1>10, <1>11, <1>12, <1>13, <1>14, <1>15

(* The program is started.                                                   *)
LEMMA StartFlags ==
  ASSUME FlagsInv, Start
  PROVE  Sound(vm', selfmeta)
<1> DEFINE s == [vm EXCEPT !.C = <<[k |-> "execute", th |-> 1, ci |-> 1, n |-> 0]>>]
<1>1. Sound(vm, selfmeta)
  BY DEF FlagsInv
<1>2. Keeps(vm, s)
  BY <1>1, SoundHas DEF Keeps, HasTables
<1>3. vm' = luaD_precall(s, 1, LUA_MULTRET, TRUE)
  BY DEF Start, Do
<1> HIDE DEF s
<1> QED
  BY <1>1, <1>2, <1>3, SoundKept, SoundPrecall

(* Every step keeps the flags true.                                          *)
LEMMA FlagsStep ==
  ASSUME FlagsInv, [Next]_vars
  PROVE  FlagsInv'
<1>1. CASE vm' = vm /\ selfmeta' = selfmeta
  BY <1>1 DEF FlagsInv, Sound, Tabled, HasTables, Flagged, luaH_get, Owned
<1>2. ASSUME Start \/ Step PROVE FlagsInv'
  <2>1. Sound(vm', selfmeta)
    BY <1>2, MovesFlags, TablesFlags, TestsFlags, CallsFlags, WaitsFlags, StartFlags DEF Step
  <2>2. selfmeta' = selfmeta \cup SelfMeta(vm')
    BY <1>2 DEF Start, Step, Move, Loadk, Loadbool, Loadnil, Getupval, Setupval, Getglobal,
       Setglobal, Gettable, Settable, Newtable, Self, Arithmetics, Not, LenOf, Concat, Jmp, Eq,
       Order, Test, Testset, Call, Tailcall, Return, Forprep, Forloop, Tforloop, Setlist, Close,
       Closure, Vararg, Cfunction, TMres, TM, Compared, Concatenated, Got, Set, Iterated, Pcalled,
       Resumed, Foreached, Foreachied, Sorting, Substituted, Do
  <2>3. Sound(vm', selfmeta')
    BY <2>1, <2>2 DEF Sound, Flagged
  <2>4. Owned(vm', selfmeta')
    BY <2>2 DEF Owned, SelfMeta
  <2> QED
    BY <2>3, <2>4 DEF FlagsInv
<1> QED
  BY <1>1, <1>2 DEF Next, Load, Done, vars

(* The flags of the first tables are true.                                   *)
LEMMA FlagsInit == ASSUME Init PROVE FlagsInv
<1> DEFINE ts == vm.tables
           Sane(t) == /\ DOMAIN t = TableFields /\ t.meta = 0
                      /\ \A e \in t.flags : Str(<<e>>) \in DOMAIN t.map => t.map[Str(<<e>>)] = NIL
<1>1. ASSUME NEW fs, fs \cap FastEvents = {} PROVE Sane(LibraryTable(fs))
  <2> DEFINE D == {NIL} \cup {Str(<<f>>) : f \in fs}
  <2>1. /\ DOMAIN LibraryTable(fs) = TableFields /\ LibraryTable(fs).flags = FastEvents
        /\ LibraryTable(fs).meta = 0 /\ DOMAIN LibraryTable(fs).map = D
    BY DEF LibraryTable, NewTable, TableFields
  <2>2. \A e \in FastEvents : Str(<<e>>) \notin D
    BY <1>1, NoName DEF Str
  <2> QED
    BY <2>1, <2>2
<1>2. ASSUME NEW fs, NEW others
      PROVE  /\ DOMAIN Library(fs, others) = TableFields /\ Library(fs, others).meta = 0
             /\ Library(fs, others).flags = FastEvents
             /\ DOMAIN Library(fs, others).map =
                  {NIL} \cup {Str(<<f>>) : f \in fs \cup DOMAIN others}
  BY DEF Library, LibraryTable, NewTable, TableFields
<1>3. Sane(Library(Globals, [coroutine |-> <<"table", 2>>, string |-> <<"table", 3>>,
                             table |-> <<"table", 4>>]))
  <2> DEFINE others == [coroutine |-> <<"table", 2>>, string |-> <<"table", 3>>,
                        table |-> <<"table", 4>>]
             D == {NIL} \cup {Str(<<f>>) : f \in Globals \cup DOMAIN others}
  <2>1. DOMAIN others = {"coroutine", "string", "table"}
    OBVIOUS
  <2>2. \A e \in FastEvents : e \notin Globals \cup DOMAIN others
    BY <2>1 DEF FastEvents, Globals
  <2> HIDE DEF others
  <2>3. \A e \in FastEvents : Str(<<e>>) \notin D
    BY <2>2, NoName DEF Str
  <2>4. Sane(Library(Globals, others))
    BY <1>2, <2>3
  <2> QED
    BY <2>4 DEF others
<1>4. Sane([Library({}, [__index |-> <<"table", 3>>]) EXCEPT !.flags = {}])
  <2> DEFINE t == Library({}, [__index |-> <<"table", 3>>])
  <2>1. DOMAIN t = TableFields /\ t.meta = 0
    BY <1>2
  <2> HIDE DEF t
  <2>2. Sane([t EXCEPT !.flags = {}])
    BY <2>1 DEF TableFields
  <2> QED
    BY <2>2 DEF t
<1>5. Sane(LibraryTable(Routines)) /\ Sane(LibraryTable(Strings)) /\ Sane(LibraryTable(TableFunctions))
  <2>1. /\ Routines \cap FastEvents = {} /\ Strings \cap FastEvents = {}
        /\ TableFunctions \cap FastEvents = {}
    BY DEF Routines, Strings, StringFunctions, TableFunctions, FastEvents
  <2> HIDE DEF Sane
  <2> QED
    BY <1>1, <2>1
<1> HIDE DEF Sane
<1>6. /\ IsSeq(ts) /\ DOMAIN ts = 1..5 /\ HasTables(vm) /\ \A h \in 1..5 : Sane(ts[h])
  <2> DEFINE a == Library(Globals, [coroutine |-> <<"table", 2>>, string |-> <<"table", 3>>,
                                    table |-> <<"table", 4>>])
             b == LibraryTable(Routines)
             c == LibraryTable(Strings)
             d == LibraryTable(TableFunctions)
             e == [Library({}, [__index |-> <<"table", 3>>]) EXCEPT !.flags = {}]
  <2>1. ts = <<a, b, c, d, e>> /\ HasTables(vm)
    BY DEF Init, HasTables
  <2>2. Sane(a) /\ Sane(b) /\ Sane(c) /\ Sane(d) /\ Sane(e)
    BY <1>3, <1>4, <1>5
  <2> HIDE DEF a, b, c, d, e
  <2>3. <<a, b, c, d, e>> \in Seq({a, b, c, d, e})
    OBVIOUS
  <2>4. IsSeq(ts)
    BY <2>1, <2>3, SeqWhere
  <2> QED
    BY <2>1, <2>2, <2>4
<1> HIDE DEF ts
<1>7. selfmeta = {} /\ ts = vm.tables
  BY DEF Init, ts
<1>8. Owned(vm, selfmeta)
  BY <1>6, <1>7 DEF Owned, Sane
<1>9. Sound(vm, selfmeta)
  BY <1>6, <1>7 DEF Sound, Tabled, Flagged, luaH_get, Sane
<1> QED
  BY <1>8, <1>9 DEF FlagsInv

(* A flag of a table tells the truth: the tag method it stands for is absent *)
(* (lobject.h:341), whatever the program, the string library and the limits  *)
(* are, except __newindex in a table that was its own metatable.             *)
THEOREM FlagsAreTrue == Spec => []FlagsTrue
<1>1. Init => FlagsInv
  BY FlagsInit
<1>2. FlagsInv /\ [Next]_vars => FlagsInv'
  BY FlagsStep
<1>3. FlagsInv => FlagsTrue
  BY DEF FlagsInv, Sound, Flagged, FlagsTrue
<1> QED
  BY <1>1, <1>2, <1>3, PTL DEF Spec

-----------------------------------------------------------------------------
(* Control: what is on the C stack, and how many CallInfos each thread has.  *)
(* A state of the machine has these parts, and a thread those.               *)
Fields == {"threads", "out", "C", "cfun", "upvals", "matches", "tables", "funs"}
ThreadFields == {"stack", "base", "top", "pc", "status", "ci"}
Shaped(s) ==
  /\ DOMAIN s = Fields
  /\ IsSeq(s.C) /\ IsSeq(s.threads)
  /\ \A th \in DOMAIN s.threads : DOMAIN s.threads[th] = ThreadFields /\ IsSeq(s.threads[th].ci)

(* How many CallInfos a thread has, how many of them are up to an activation *)
(* of its, and the one of the C function that an activation is a call of.    *)
Cis(s, th) == Len(s.threads[th].ci)
Above(f) == IF f.k = "execute" THEN f.ci + f.n ELSE f.ci
CKinds == {"pcall", "resume", "foreach", "foreachi", "sort", "gsub"}
Own(f) == IF f.k \in CKinds THEN 1 ELSE 0

(* An activation is of a thread that is alive.                               *)
Placed(s, f) ==
  /\ {"k", "th", "ci"} \subseteq DOMAIN f
  /\ f.th \in DOMAIN s.threads /\ s.threads[f.th].status = "ok"
  /\ f.ci \in Nat \ {0}
  /\ f.k = "execute" => "n" \in DOMAIN f /\ f.n \in Nat
  /\ f.k = "resume" => f.co \in DOMAIN s.threads /\ s.threads[f.co].status = "ok"
  /\ f.th # Cur(s) => Cis(s, f.th) >= 2 /\ f.ci <= Cis(s, f.th)
Frames(s) == \A i \in DOMAIN s.C : Placed(s, s.C[i])

First(C) == Len(C) >= 1 /\ C[1].k = "execute"
(* An activation starts where the one under it ends; a coroutine starts with *)
(* an activation of the interpreter.                                         *)
Linked(C) ==
  \A i \in 1..Len(C) - 1 :
    IF C[i].k = "resume" THEN C[i + 1].k = "execute" /\ C[i + 1].ci = 1
    ELSE /\ C[i + 1].ci = Above(C[i]) + Own(C[i + 1])
         /\ C[i + 1].k = "execute" => C[i + 1].n >= 1
Nested(C) ==
  \A i, j \in DOMAIN C : i < j /\ C[i].th = C[j].th => Above(C[i]) <= C[j].ci

(* The thread of an activation is what was resumed last, and what is resumed *)
(* has no activation yet.                                                    *)
Resumers(C, i) == {j \in 1..i - 1 : C[j].k = "resume"}
Chained(C) ==
  \A i \in DOMAIN C :
    IF Resumers(C, i) = {} THEN C[i].th = 1
    ELSE \E j \in Resumers(C, i) : C[i].th = C[j].co /\ \A m \in Resumers(C, i) : m <= j
Fresh(C) == \A i, j \in DOMAIN C : C[j].k = "resume" /\ i <= j => C[i].th # C[j].co
Waiting(s) == \A j \in DOMAIN s.C : s.C[j].k = "resume" => Cis(s, s.C[j].th) = s.C[j].ci

(* The other threads: one that has yielded did so in a call.                 *)
Busy(s) == {s.C[i].th : i \in DOMAIN s.C} \cup
           {s.C[i].co : i \in {i \in DOMAIN s.C : s.C[i].k = "resume"}}
Idle(l) == l.status = "yield" => Len(l.ci) >= 2
Others(s) == \A co \in DOMAIN s.threads : co \notin Busy(s) => Idle(s.threads[co])

Common(s) ==
  /\ Shaped(s) /\ s.out = <<>>
  /\ First(s.C) /\ Frames(s) /\ Linked(s.C) /\ Nested(s.C) /\ Chained(s.C) /\ Fresh(s.C)
  /\ Waiting(s) /\ Others(s)
(* The thread that runs has d CallInfos more than the activation.            *)
Mid(s, d) ==
  Common(s) /\ Last(s.C).k # "resume" /\ Len(L(s).ci) = Above(Last(s.C)) + d
(* The program has ended, goes on, has called a C function, or a coroutine   *)
(* has ended.                                                                *)
Good(s) ==
  \/ s.out # <<>> /\ s.C = <<>>
  \/ Mid(s, 0) /\ s.cfun = NIL
  \/ Mid(s, 1) /\ s.cfun # NIL
  \/ Common(s) /\ Last(s.C).k = "resume" /\ s.cfun = NIL
Initial(s) ==
  /\ Shaped(s) /\ s.C = <<>> /\ s.out = <<>> /\ s.cfun = NIL
  /\ \E f : s.threads = <<Newthread(f)>>
Control == Initial(vm) \/ Good(vm)

-----------------------------------------------------------------------------
(* Sequences again: two after each other.                                   *)
LEMMA SeqConcat ==
  ASSUME NEW p, NEW q, IsSeq(p), IsSeq(q)
  PROVE  /\ IsSeq(p \o q) /\ Len(p \o q) = Len(p) + Len(q)
         /\ \A i \in 1..Len(p) : (p \o q)[i] = p[i]
         /\ \A i \in 1..Len(q) : (p \o q)[Len(p) + i] = q[i]
<1> DEFINE S == {p[i] : i \in DOMAIN p} \cup {q[i] : i \in DOMAIN q}
<1>1. p \in Seq(S)
  BY SeqMonotonic DEF IsSeq
<1>2. q \in Seq(S)
  BY SeqMonotonic DEF IsSeq
<1> HIDE DEF S
<1>3. /\ p \o q \in Seq(S) /\ Len(p \o q) = Len(p) + Len(q)
      /\ \A i \in 1..Len(p) + Len(q) : (p \o q)[i] = IF i <= Len(p) THEN p[i] ELSE q[i - Len(p)]
  BY <1>1, <1>2, ConcatProperties
<1>4. IsSeq(p \o q)
  BY <1>3, SeqWhere
<1>5. Len(p) \in Nat /\ Len(q) \in Nat
  BY SeqIs
<1>6. ASSUME NEW i \in 1..Len(q) PROVE (p \o q)[Len(p) + i] = q[i]
  <2>1. Len(p) + i \in 1..Len(p) + Len(q) /\ ~(Len(p) + i <= Len(p)) /\ Len(p) + i - Len(p) = i
    BY <1>5
  <2> QED
    BY <1>3, <2>1
<1> QED
  BY <1>3, <1>4, <1>5, <1>6

(* A sequence with two more elements.                                        *)
LEMMA SeqTwoMore ==
  ASSUME NEW p, NEW x, NEW y, IsSeq(p)
  PROVE  /\ IsSeq(p \o <<x, y>>) /\ Len(p \o <<x, y>>) = Len(p) + 2
         /\ \A i \in 1..Len(p) : (p \o <<x, y>>)[i] = p[i]
         /\ (p \o <<x, y>>)[Len(p) + 1] = x /\ (p \o <<x, y>>)[Len(p) + 2] = y
<1> DEFINE q == <<x, y>>
<1>1. q \in Seq({x, y}) /\ Len(q) = 2 /\ q[1] = x /\ q[2] = y
  OBVIOUS
<1> HIDE DEF q
<1>2. IsSeq(q)
  BY <1>1, SeqWhere
<1>3. 1 \in 1..Len(q) /\ 2 \in 1..Len(q)
  BY <1>1
<1>4. /\ IsSeq(p \o q) /\ Len(p \o q) = Len(p) + Len(q)
      /\ \A i \in 1..Len(p) : (p \o q)[i] = p[i]
      /\ \A i \in 1..Len(q) : (p \o q)[Len(p) + i] = q[i]
  BY <1>2, SeqConcat
<1> QED
  BY <1>1, <1>3, <1>4 DEF q

(* A sequence without its last element.                                      *)
LEMMA SeqFront ==
  ASSUME NEW q, IsSeq(q), Len(q) >= 1
  PROVE  /\ IsSeq(Front(q)) /\ Len(Front(q)) = Len(q) - 1
         /\ \A i \in 1..Len(q) - 1 : Front(q)[i] = q[i]
<1>1. Len(q) \in Nat
  BY SeqIs
<1>2. Len(q) - 1 \in 0..Len(q)
  BY <1>1
<1> QED
  BY <1>2, SeqSub DEF Front

-----------------------------------------------------------------------------
(* t is s with other data, other upvalues and other stacks; the thread that  *)
(* runs has e more CallInfos.                                                *)
Ready(s) == Shaped(s) /\ Cur(s) \in DOMAIN s.threads
Unmoved(l, m) == m.status = l.status /\ Len(m.ci) = Len(l.ci)
Moves(s, t, e) ==
  /\ Ready(t) /\ t.C = s.C /\ t.cfun = s.cfun /\ t.out = s.out
  /\ DOMAIN t.threads = DOMAIN s.threads
  /\ \A th \in DOMAIN s.threads : th # Cur(s) => Unmoved(s.threads[th], t.threads[th])
  /\ L(t).status = L(s).status /\ Len(L(t).ci) = Len(L(s).ci) + e

(* The thread that runs has a number of CallInfos.                           *)
LEMMA CisNat == ASSUME NEW s, Ready(s) PROVE Len(L(s).ci) \in Nat /\ IsSeq(L(s).ci)
BY SeqIs DEF Ready, Shaped, L

(* One change after another.                                                 *)
LEMMA MovesOn ==
  ASSUME NEW s, NEW t, NEW u, NEW d \in Int, NEW e \in Int, Ready(s), Moves(s, t, d), Moves(t, u, e)
  PROVE  Moves(s, u, d + e)
<1>1. Cur(t) = Cur(s) /\ Cur(u) = Cur(s)
  BY DEF Moves, Cur
<1>2. Len(L(s).ci) \in Nat
  BY CisNat
<1>3. \A n \in Nat : n + d + e = n + (d + e)
  OBVIOUS
<1>4. Len(L(u).ci) = Len(L(s).ci) + (d + e)
  BY <1>2, <1>3 DEF Moves
<1>5. \A th \in DOMAIN s.threads : th # Cur(s) => Unmoved(s.threads[th], u.threads[th])
  BY <1>1 DEF Moves, Unmoved
<1> QED
  BY <1>1, <1>4, <1>5 DEF Moves

(* A change before or after one that adds no CallInfo.                       *)
LEMMA StaysOn ==
  ASSUME NEW s, NEW t, NEW u, NEW e \in Int, Ready(s)
  PROVE  /\ Moves(s, t, 0) /\ Moves(t, u, e) => Moves(s, u, e)
         /\ Moves(s, t, e) /\ Moves(t, u, 0) => Moves(s, u, e)
<1>1. 0 + e = e /\ e + 0 = e
  OBVIOUS
<1> QED
  BY <1>1, MovesOn

(* A thread still runs afterwards.                                           *)
LEMMA MovesReady == ASSUME NEW s, NEW t, NEW e, Moves(s, t, e) PROVE Ready(t)
BY DEF Moves

(* Another state of the thread that runs.                                    *)
LEMMA MovesWith ==
  ASSUME NEW s, NEW l, NEW e, Ready(s), DOMAIN l = ThreadFields, IsSeq(l.ci),
         l.status = L(s).status, Len(l.ci) = Len(L(s).ci) + e
  PROVE  Moves(s, With(s, l), e) /\ L(With(s, l)) = l
<1> DEFINE t == With(s, l)
<1>1. /\ DOMAIN t = Fields /\ t.C = s.C /\ t.cfun = s.cfun /\ t.out = s.out
      /\ t.threads = [s.threads EXCEPT ![Cur(s)] = l]
  BY DEF Ready, Shaped, Fields, With
<1> HIDE DEF t
<1>2. IsSeq(t.threads)
  <2>1. IsSeq(s.threads)
    BY DEF Ready, Shaped
  <2>2. t.threads = [s.threads EXCEPT ![Cur(s)] = l]
    BY <1>1
  <2> QED
    BY ONLY <2>1, <2>2, SeqReplaced
<1>3. Cur(t) = Cur(s) /\ DOMAIN t.threads = DOMAIN s.threads /\ L(t) = l
  BY <1>1 DEF Cur, L, Ready
<1>4. \A th \in DOMAIN s.threads : th # Cur(s) => t.threads[th] = s.threads[th]
  BY <1>1
<1>5. Shaped(t)
  BY <1>1, <1>2, <1>3, <1>4 DEF Shaped, Ready, L
<1> QED
  BY <1>1, <1>3, <1>4, <1>5 DEF Ready, Moves, Unmoved, t

(* What does not change the CallInfos.                                       *)
LEMMA StaysWith ==
  ASSUME NEW s, NEW l, Ready(s), DOMAIN l = ThreadFields, l.ci = L(s).ci, l.status = L(s).status
  PROVE  Moves(s, With(s, l), 0)
<1>1. Len(l.ci) = Len(L(s).ci) + 0 /\ IsSeq(l.ci)
  BY CisNat
<1> QED
  BY <1>1, MovesWith

(* What a thread consists of.                                                *)
LEMMA ThreadShape == ASSUME NEW s, Ready(s) PROVE DOMAIN L(s) = ThreadFields
BY DEF Ready, Shaped, L

(* Another top, or a jump.                                                   *)
LEMMA StaysTop ==
  ASSUME NEW s, NEW n, Ready(s)
  PROVE  Moves(s, Top(s, n), 0) /\ Moves(s, Goto(s, n), 0)
<1>1. DOMAIN L(s) = ThreadFields
  BY ThreadShape
<1> DEFINE l == [L(s) EXCEPT !.top = n]
           m == [L(s) EXCEPT !.pc = n]
<1>2. DOMAIN l = ThreadFields /\ l.ci = L(s).ci /\ l.status = L(s).status
  BY <1>1 DEF ThreadFields
<1>3. DOMAIN m = ThreadFields /\ m.ci = L(s).ci /\ m.status = L(s).status
  BY <1>1 DEF ThreadFields
<1>4. Top(s, n) = With(s, l) /\ Goto(s, n) = With(s, m)
  BY DEF Top, Goto
<1> HIDE DEF l, m
<1> QED
  BY <1>2, <1>3, <1>4, StaysWith

(* Values on the stack.                                                      *)
LEMMA StaysSetFrom ==
  ASSUME NEW s, NEW i, NEW vs, Ready(s)
  PROVE  Moves(s, SetFrom(s, i, vs), 0)
<1>1. DOMAIN L(s) = ThreadFields
  BY ThreadShape
<1> DEFINE n == IF i + Len(vs) > Len(L(s).stack) THEN i + Len(vs) ELSE Len(L(s).stack)
           q == [j \in 1..n |-> IF i < j /\ j <= i + Len(vs) THEN vs[j - i] ELSE Val(s, j - 1)]
           l == [L(s) EXCEPT !.stack = q]
<1>2. SetFrom(s, i, vs) = With(s, l)
  BY DEF SetFrom
<1> HIDE DEF q
<1>3. DOMAIN l = ThreadFields /\ l.ci = L(s).ci /\ l.status = L(s).status
  BY <1>1 DEF ThreadFields
<1> HIDE DEF l
<1> QED
  BY <1>2, <1>3, StaysWith

(* A value on the stack.                                                     *)
LEMMA StaysSetobj ==
  ASSUME NEW s, NEW i, NEW v, Ready(s)
  PROVE  Moves(s, Setobj(s, i, v), 0)
BY StaysSetFrom DEF Setobj

(* Values pushed.                                                            *)
LEMMA StaysPush == ASSUME NEW s, NEW vs, Ready(s) PROVE Moves(s, Push(s, vs), 0)
<1> DEFINE t == SetFrom(s, L(s).top, vs)
<1>1. Moves(s, t, 0)
  BY StaysSetFrom
<1>2. Moves(t, Top(t, L(s).top + Len(vs)), 0)
  BY <1>1, MovesReady, StaysTop
<1> QED
  BY <1>1, <1>2, StaysOn DEF Push

(* What leaves the threads and the C stack alone.                            *)
Aside(s, t) ==
  DOMAIN t = DOMAIN s /\ t.threads = s.threads /\ t.C = s.C /\ t.cfun = s.cfun /\ t.out = s.out

(* A change of the data only.                                                *)
LEMMA StaysAside == ASSUME NEW s, NEW t, Ready(s), Aside(s, t) PROVE Moves(s, t, 0)
<1>1. Cur(t) = Cur(s) /\ L(t) = L(s)
  BY DEF Aside, Cur, L
<1>2. Len(L(s).ci) + 0 = Len(L(s).ci)
  BY CisNat
<1> QED
  BY <1>1, <1>2 DEF Aside, Moves, Ready, Shaped, Unmoved

(* Two changes of the data only.                                             *)
LEMMA AsideOn == ASSUME NEW s, NEW t, NEW u, Aside(s, t), Aside(t, u) PROVE Aside(s, u)
BY DEF Aside

(* No change.                                                                *)
LEMMA AsideSelf == ASSUME NEW s PROVE Aside(s, s)
BY DEF Aside

(* No change, of a machine that runs.                                        *)
LEMMA StaysSelf == ASSUME NEW s, Ready(s) PROVE Moves(s, s, 0)
BY StaysAside, AsideSelf

(* Finding or making upvalues is aside.                                      *)
LEMMA AsideFind == ASSUME NEW s, NEW ls PROVE Aside(s, luaF_findupvals(s, ls))
BY DEF Aside, luaF_findupvals

(* Closing upvalues is aside.                                                *)
LEMMA AsideClose == ASSUME NEW s, NEW level PROVE Aside(s, luaF_close(s, level))
BY DEF Aside, luaF_close

(* A new table is aside.                                                     *)
LEMMA AsideMade == ASSUME NEW s, NEW t PROVE Aside(s, luaH_made(s, t).s)
<1>1. luaH_made(s, t).s = [s EXCEPT !.tables = Append(@, t)]
  BY DEF luaH_made
<1>2. Aside(s, [s EXCEPT !.tables = Append(@, t)])
  BY DEF Aside
<1> QED
  BY <1>1, <1>2

(* A value stored in a table is aside.                                       *)
LEMMA AsideStore == ASSUME NEW s, NEW h, NEW k, NEW v PROVE Aside(s, Store(s, h, k, v))
BY DEF Aside, Store

(* Values stored in a table are aside.                                       *)
LEMMA AsideStoreFrom == ASSUME NEW s, NEW h, NEW first, NEW vs PROVE Aside(s, StoreFrom(s, h, first, vs))
BY DEF Aside, StoreFrom

(* A place made in a table is aside.                                         *)
LEMMA AsideSet == ASSUME NEW s, NEW h, NEW k PROVE Aside(s, luaH_set(s, h, k))
<1> DEFINE t == Store(s, h, k, luaH_get(s, h, k))
<1>1. Aside(s, t)
  BY AsideStore
<1> HIDE DEF t
<1>2. Aside(t, [t EXCEPT !.tables[h].flags = {}])
  BY DEF Aside
<1> QED
  BY <1>1, <1>2, AsideOn DEF luaH_set, t

(* A tag method looked for is aside.                                         *)
LEMMA AsideFast == ASSUME NEW s, NEW mt, NEW e PROVE Aside(s, fasttm(s, mt, e).s)
<1>1. Aside(s, s) /\ Aside(s, [s EXCEPT !.tables[mt].flags = @ \cup {e}])
  BY DEF Aside
<1>2. fasttm(s, mt, e).s \in {s, [s EXCEPT !.tables[mt].flags = @ \cup {e}]}
  BY DEF fasttm
<1> QED
  BY <1>1, <1>2

(* A tag method of two metatables looked for is aside.                       *)
LEMMA AsideComp == ASSUME NEW s, NEW m1, NEW m2 PROVE Aside(s, get_compTM(s, m1, m2).s)
<1> DEFINE one == fasttm(s, m1, "__eq").s
<1>1. get_compTM(s, m1, m2).s \in {one, fasttm(one, m2, "__eq").s}
  BY DEF get_compTM
<1>2. Aside(s, one)
  BY AsideFast
<1> HIDE DEF one
<1>3. Aside(one, fasttm(one, m2, "__eq").s)
  BY AsideFast
<1> QED
  BY <1>1, <1>2, <1>3, AsideOn

-----------------------------------------------------------------------------
(* The end of a function and the start of one: one CallInfo less, one more.  *)
LEMMA MovesPoscall ==
  ASSUME NEW s, NEW vals, Ready(s), Len(L(s).ci) >= 1
  PROVE  Moves(s, luaD_poscall(s, vals), -1)
<1> DEFINE ci == Ci(s)
           before == L(s).ci[Len(L(s).ci) - 1]
           res == IF ci.nresults = LUA_MULTRET THEN vals
                  ELSE SubSeq(vals \o Nils(ci.nresults), 1, ci.nresults)
           l == [L(s) EXCEPT !.ci = Front(@), !.base = before.base, !.pc = before.savedpc]
           t == With(s, l)
           u == SetFrom(t, ci.func, res)
<1>1. Moves(s, t, -1)
  <2>1. DOMAIN L(s) = ThreadFields
    BY ThreadShape
  <2>2. DOMAIN l = ThreadFields /\ l.ci = Front(L(s).ci) /\ l.status = L(s).status
    BY <2>1 DEF ThreadFields
  <2>3. IsSeq(L(s).ci) /\ Len(L(s).ci) \in Nat
    BY CisNat
  <2>4. IsSeq(Front(L(s).ci)) /\ Len(Front(L(s).ci)) = Len(L(s).ci) + (-1)
    BY <2>3, SeqFront
  <2> HIDE DEF l
  <2> QED
    BY <2>2, <2>4, MovesWith
<1> HIDE DEF t
<1>2. Moves(t, u, 0)
  BY <1>1, MovesReady, StaysSetFrom
<1> HIDE DEF u
<1>3. Moves(u, Top(u, ci.func + Len(res)), 0)
  BY <1>2, MovesReady, StaysTop
<1>4. luaD_poscall(s, vals) = Top(u, ci.func + Len(res))
  BY DEF luaD_poscall, t, u
<1>5. Moves(s, u, -1)
  BY <1>1, <1>2, StaysOn
<1> HIDE DEF ci, res
<1>6. Moves(u, luaD_poscall(s, vals), 0)
  BY <1>3, <1>4
<1> QED
  BY <1>5, <1>6, StaysOn

(* The end of a C function takes its CallInfo.                               *)
LEMMA MovesFinish ==
  ASSUME NEW s, NEW vals, Ready(s), Len(L(s).ci) >= 1
  PROVE  Moves(s, Finish(s, vals), -1)
<1> DEFINE t == luaD_poscall(s, vals)
<1>1. Moves(s, t, -1)
  BY MovesPoscall
<1>2. Finish(s, vals) = t \/ \E n : Finish(s, vals) = Top(t, n)
  BY DEF Finish, Corrected
<1> HIDE DEF t
<1>3. \A n : Moves(t, Top(t, n), 0)
  BY <1>1, MovesReady, StaysTop
<1> QED
  BY <1>1, <1>2, <1>3, StaysOn

(* A call has one more CallInfo.                                             *)
LEMMA MovesPushCi ==
  ASSUME NEW s, NEW func, NEW base, NEW top, NEW nresults, Ready(s)
  PROVE  Moves(s, PushCi(s, func, base, top, nresults), 1)
<1> DEFINE q == [L(s).ci EXCEPT ![Len(L(s).ci)].savedpc = L(s).pc]
           x == [func |-> func, base |-> base, top |-> top, savedpc |-> 0,
                 nresults |-> nresults, tailcalls |-> 0]
           l == [L(s) EXCEPT !.ci = Append(q, x), !.base = base]
<1>1. DOMAIN L(s) = ThreadFields
  BY ThreadShape
<1>2. DOMAIN l = ThreadFields /\ l.ci = Append(q, x) /\ l.status = L(s).status
  BY <1>1 DEF ThreadFields
<1>3. IsSeq(L(s).ci)
  BY CisNat
<1>4. IsSeq(q) /\ Len(q) = Len(L(s).ci)
  BY <1>3, SeqExcept
<1>5. PushCi(s, func, base, top, nresults) = With(s, l)
  BY DEF PushCi
<1> HIDE DEF q, x, l
<1>6. IsSeq(l.ci) /\ Len(l.ci) = Len(L(s).ci) + 1
  BY <1>2, <1>4, SeqAppend
<1> QED
  BY <1>2, <1>5, <1>6, MovesWith

(* So has the frame of a Lua function.                                       *)
LEMMA MovesEntered ==
  ASSUME NEW a, NEW func, NEW nresults, NEW citop, Ready(a.s)
  PROVE  Moves(a.s, Entered(a, func, nresults, citop), 1)
<1> DEFINE t == PushCi(a.s, func, a.base, citop, nresults)
           u == SetFrom(t, a.top, Nils(citop - a.top))
           w == Top(u, citop)
<1>1. Moves(a.s, t, 1)
  BY MovesPushCi
<1>2. Moves(t, u, 0)
  BY <1>1, MovesReady, StaysSetFrom
<1>3. Moves(u, w, 0)
  BY <1>2, MovesReady, StaysTop
<1>4. Moves(w, Goto(w, 0), 0)
  BY <1>3, MovesReady, StaysTop
<1>5. Entered(a, func, nresults, citop) = Goto(w, 0)
  BY DEF Entered
<1> HIDE DEF t, u, w
<1>6. Moves(a.s, u, 1)
  BY <1>1, <1>2, StaysOn
<1>7. Moves(a.s, w, 1)
  BY <1>3, <1>6, StaysOn
<1> QED
  BY <1>4, <1>5, <1>7, StaysOn

(* The arguments of a vararg function are moved on the stack.                *)
LEMMA StaysAdjusted ==
  ASSUME NEW s, NEW func, NEW p, NEW given, NEW arg, Ready(s)
  PROVE  Moves(s, Adjusted(s, func, p, given, arg).s, 0)
<1>1. \E vs : Adjusted(s, func, p, given, arg).s = SetFrom(s, func + 1, vs)
  BY DEF Adjusted
<1> QED
  BY <1>1, StaysSetFrom

(* So are they with the table arg.                                           *)
LEMMA StaysVarargs ==
  ASSUME NEW s, NEW func, NEW p, NEW args, Ready(s)
  PROVE  Moves(s, adjust_varargs(s, func, p, args).s, 0)
<1> DEFINE given == args \o Nils(p.numparams - Len(args))
           arg == luaH_made(s, ArgTable(SubSeq(given, p.numparams + 1, Len(given))))
<1>1. adjust_varargs(s, func, p, args).s \in
        {Adjusted(arg.s, func, p, given, <<arg.v>>).s, Adjusted(s, func, p, given, <<>>).s}
  BY DEF adjust_varargs
<1>2. Moves(s, arg.s, 0)
  BY AsideMade, StaysAside
<1> HIDE DEF given, arg
<1>3. Moves(arg.s, Adjusted(arg.s, func, p, given, <<arg.v>>).s, 0)
  BY <1>2, MovesReady, StaysAdjusted
<1>4. Moves(s, Adjusted(arg.s, func, p, given, <<arg.v>>).s, 0)
  BY <1>2, <1>3, StaysOn
<1>5. Moves(s, Adjusted(s, func, p, given, <<>>).s, 0)
  BY StaysAdjusted
<1> QED
  BY <1>1, <1>4, <1>5

(* A tail call takes a CallInfo.                                             *)
LEMMA MovesReplace ==
  ASSUME NEW s, Ready(s), Len(L(s).ci) >= 2
  PROVE  Moves(s, ReplaceFrame(s), -1)
<1> DEFINE cis == L(s).ci
           ci == cis[Len(cis) - 1]
           new == Last(cis)
           func == ci.func
           t == luaF_close(s, ci.base)
           moved == SetFrom(t, func, Slots(s, new.func, L(s).top))
           top == func + L(s).top - new.func
           kept == [ci EXCEPT !.base = func + new.base - new.func, !.top = top,
                              !.savedpc = L(s).pc, !.tailcalls = @ + 1]
           q == Append(SubSeq(cis, 1, Len(cis) - 2), kept)
           l == [L(moved) EXCEPT !.ci = q, !.base = kept.base, !.top = top]
<1>1. ReplaceFrame(s) = With(moved, l)
  BY DEF ReplaceFrame
<1>2. Moves(s, t, 0)
  BY AsideClose, StaysAside
<1>3. IsSeq(q) /\ Len(q) = Len(cis) - 1
  <2>1. IsSeq(cis) /\ Len(cis) \in Nat /\ Len(cis) >= 2
    BY CisNat
  <2> HIDE DEF cis, kept
  <2>2. Len(cis) - 2 \in 0..Len(cis) /\ Len(cis) - 2 + 1 = Len(cis) - 1
    BY <2>1
  <2>3. IsSeq(SubSeq(cis, 1, Len(cis) - 2)) /\ Len(SubSeq(cis, 1, Len(cis) - 2)) = Len(cis) - 2
    BY <2>1, <2>2, SeqSub
  <2> QED
    BY <2>2, <2>3, SeqAppend
<1> HIDE DEF t
<1>4. Moves(t, moved, 0)
  BY <1>2, MovesReady, StaysSetFrom
<1> HIDE DEF moved, q, kept, top
<1>5. Moves(s, moved, 0) /\ Ready(moved)
  BY <1>2, <1>4, StaysOn, MovesReady
<1>6. DOMAIN l = ThreadFields /\ l.ci = q /\ l.status = L(moved).status
  <2>1. DOMAIN L(moved) = ThreadFields
    BY <1>5, ThreadShape
  <2> QED
    BY <2>1 DEF ThreadFields
<1>7. Len(L(moved).ci) = Len(cis) /\ Len(cis) \in Nat
  <2>1. Len(cis) \in Nat
    BY CisNat
  <2> QED
    BY <1>5, <2>1 DEF Moves
<1> HIDE DEF l, cis
<1>8. Len(q) = Len(L(moved).ci) + (-1)
  BY <1>3, <1>7
<1>9. Moves(moved, With(moved, l), -1)
  BY <1>3, <1>5, <1>6, <1>8, MovesWith
<1> QED
  BY <1>1, <1>5, <1>9, StaysOn

(* An upvalue of any thread is set.                                          *)
LEMMA StaysSetUpval == ASSUME NEW s, NEW u, NEW v, Ready(s) PROVE Moves(s, SetUpval(s, u, v), 0)
<1>1. CASE ~s.upvals[u].open
  <2>1. SetUpval(s, u, v) = [s EXCEPT !.upvals[u].v = v]
    BY <1>1 DEF SetUpval
  <2>2. Aside(s, [s EXCEPT !.upvals[u].v = v])
    BY DEF Aside
  <2> QED
    BY <2>1, <2>2, StaysAside
<1>2. CASE s.upvals[u].open
  <2> DEFINE th == s.upvals[u].th
             l == [s.threads[th] EXCEPT !.stack[s.upvals[u].i + 1] = v]
             t == [s EXCEPT !.threads[th] = l]
  <2>1. SetUpval(s, u, v) = t
    BY <1>2 DEF SetUpval
  <2>2. /\ DOMAIN t = Fields /\ t.C = s.C /\ t.cfun = s.cfun /\ t.out = s.out
        /\ t.threads = [s.threads EXCEPT ![th] = l]
    BY DEF Ready, Shaped, Fields
  <2>3. DOMAIN l = DOMAIN s.threads[th]
    OBVIOUS
  <2>4. th \in DOMAIN s.threads => Unmoved(s.threads[th], l) /\ l.ci = s.threads[th].ci /\ DOMAIN l = ThreadFields
    <3>1. th \in DOMAIN s.threads => DOMAIN s.threads[th] = ThreadFields
      BY DEF Ready, Shaped
    <3> QED
      BY <3>1 DEF ThreadFields, Unmoved
  <2> HIDE DEF t, l, th
  <2>5. IsSeq(t.threads) /\ DOMAIN t.threads = DOMAIN s.threads
    <3>1. IsSeq(s.threads)
      BY DEF Ready, Shaped
    <3> QED
      BY <2>2, <3>1, SeqReplaced
  <2>6. ASSUME NEW x \in DOMAIN s.threads
        PROVE  /\ Unmoved(s.threads[x], t.threads[x])
               /\ DOMAIN t.threads[x] = ThreadFields /\ IsSeq(t.threads[x].ci)
    <3>1. DOMAIN s.threads[x] = ThreadFields /\ IsSeq(s.threads[x].ci)
      BY DEF Ready, Shaped
    <3>2. CASE x = th
      BY <2>2, <2>4, <3>1, <3>2
    <3>3. CASE x # th
      BY <2>2, <3>1, <3>3 DEF Unmoved
    <3> QED
      BY <3>2, <3>3
  <2>7. Cur(t) = Cur(s) /\ Cur(s) \in DOMAIN s.threads
    BY <2>2 DEF Cur, Ready
  <2>8. L(t).status = L(s).status /\ Len(L(t).ci) = Len(L(s).ci) + 0
    <3>1. Unmoved(L(s), L(t))
      BY <2>6, <2>7 DEF L
    <3>2. Len(L(s).ci) + 0 = Len(L(s).ci)
      BY CisNat
    <3> QED
      BY <3>1, <3>2 DEF Unmoved
  <2>9. Ready(t)
    BY <2>2, <2>5, <2>6, <2>7 DEF Ready, Shaped
  <2> QED
    BY <2>1, <2>2, <2>5, <2>6, <2>8, <2>9 DEF Moves
<1> QED
  BY <1>1, <1>2

-----------------------------------------------------------------------------
(* The activations.                                                          *)
LEMMA LastResumer ==
  ASSUME NEW C, IsSeq(C), Chained(C), NEW i \in DOMAIN C
  PROVE  \/ C[i].th = 1 /\ \A j \in 1..i - 1 : C[j].k # "resume"
         \/ \E j \in 1..i - 1 : /\ C[j].k = "resume" /\ C[i].th = C[j].co
                                /\ \A m \in 1..i - 1 : C[m].k = "resume" => m <= j
<1>1. CASE Resumers(C, i) = {}
  BY <1>1 DEF Chained, Resumers
<1>2. CASE Resumers(C, i) # {}
  BY <1>2 DEF Chained, Resumers
<1> QED
  BY <1>1, <1>2

(* The threads of a run of activations that starts and ends with the same    *)
(* thread are all the same.                                                  *)
LEMMA SameThread ==
  ASSUME NEW C, IsSeq(C), Chained(C), Fresh(C), NEW i \in DOMAIN C, NEW n \in DOMAIN C,
         NEW m \in DOMAIN C, i <= n, n <= m, C[i].th = C[m].th
  PROVE  C[n].th = C[m].th
<1>1. DOMAIN C = 1..Len(C) /\ Len(C) \in Nat
  BY SeqIs
<1>2. i \in Nat /\ n \in Nat /\ m \in Nat
  BY <1>1
<1>3. CASE \A j \in 1..m - 1 : C[j].k # "resume"
  <2>1. \A j \in 1..n - 1 : C[j].k # "resume"
    BY <1>2, <1>3
  <2>2. C[m].th = 1 /\ C[n].th = 1
    BY <1>3, <2>1, LastResumer
  <2> QED
    BY <2>2
<1>4. CASE ~\A j \in 1..m - 1 : C[j].k # "resume"
  <2>1. PICK j \in 1..m - 1 : /\ C[j].k = "resume" /\ C[m].th = C[j].co
                              /\ \A x \in 1..m - 1 : C[x].k = "resume" => x <= j
    BY <1>4, LastResumer
  <2>2. j \in DOMAIN C /\ j \in Nat
    BY <1>1, <1>2
  <2>3. j < n
    <3>1. ~(i <= j)
      BY <2>1, <2>2 DEF Fresh
    <3> QED
      BY <1>2, <2>2, <3>1
  <2>4. j \in 1..n - 1
    BY <1>2, <2>2, <2>3
  <2>5. PICK x \in 1..n - 1 : /\ C[x].k = "resume" /\ C[n].th = C[x].co
                              /\ \A y \in 1..n - 1 : C[y].k = "resume" => y <= x
    BY <2>1, <2>4, LastResumer
  <2>6. x \in 1..m - 1 /\ x <= j /\ j <= x
    BY <1>2, <2>1, <2>4, <2>5
  <2>7. x = j
    BY <2>2, <2>6
  <2> QED
    BY <2>1, <2>5, <2>7
<1> QED
  BY <1>3, <1>4

(* A resume that has others above it waits: its thread does not run, and the *)
(* coroutine has activations.                                                *)
LEMMA Waits ==
  ASSUME NEW C, IsSeq(C), Chained(C), Fresh(C), NEW j \in DOMAIN C, C[j].k = "resume",
         j < Len(C)
  PROVE  /\ C[j].th # C[Len(C)].th
         /\ j + 1 \in DOMAIN C /\ C[j + 1].th = C[j].co
<1>1. DOMAIN C = 1..Len(C) /\ Len(C) \in Nat
  BY SeqIs
<1>2. j \in Nat /\ j \in 1..Len(C) - 1 /\ j + 1 \in 1..Len(C) /\ Len(C) \in 1..Len(C)
      /\ j \in 1..(j + 1) - 1
  BY <1>1
<1>3. C[j].th # C[Len(C)].th
  <2>1. PICK m \in 1..Len(C) - 1 : /\ C[m].k = "resume" /\ C[Len(C)].th = C[m].co
                                   /\ \A x \in 1..Len(C) - 1 : C[x].k = "resume" => x <= m
    BY <1>1, <1>2, LastResumer
  <2>2. j <= m /\ m \in DOMAIN C
    BY <1>1, <1>2, <2>1
  <2> QED
    BY <2>1, <2>2 DEF Fresh
<1>4. C[j + 1].th = C[j].co
  <2>1. PICK m \in 1..(j + 1) - 1 : /\ C[m].k = "resume" /\ C[j + 1].th = C[m].co
                                    /\ \A x \in 1..(j + 1) - 1 : C[x].k = "resume" => x <= m
    BY <1>1, <1>2, LastResumer
  <2>2. m = j
    BY <1>2, <2>1
  <2> QED
    BY <2>1, <2>2
<1> QED
  BY <1>1, <1>2, <1>3, <1>4

(* What is on top of the C stack is of the thread that runs, which is        *)
(* alive.                                                                    *)
LEMMA CommonIs ==
  ASSUME NEW s, Common(s)
  PROVE  /\ IsSeq(s.C) /\ DOMAIN s.C = 1..Len(s.C) /\ Len(s.C) \in Nat /\ Len(s.C) >= 1
         /\ Len(s.C) \in DOMAIN s.C
         /\ Last(s.C) = s.C[Len(s.C)] /\ Cur(s) = s.C[Len(s.C)].th
         /\ Ready(s) /\ L(s).status = "ok" /\ Len(L(s).ci) \in Nat
<1>1. IsSeq(s.C) /\ Len(s.C) >= 1
  BY DEF Common, Shaped, First
<1>2. DOMAIN s.C = 1..Len(s.C) /\ Len(s.C) \in Nat
  BY <1>1, SeqIs
<1>3. Len(s.C) \in 1..Len(s.C)
  BY <1>1, <1>2
<1>4. Placed(s, s.C[Len(s.C)])
  BY <1>2, <1>3 DEF Common, Frames
<1>5. Last(s.C) = s.C[Len(s.C)] /\ Cur(s) = s.C[Len(s.C)].th
  BY DEF Cur, Last
<1>6. Ready(s) /\ L(s).status = "ok"
  BY <1>4, <1>5 DEF Ready, Common, Placed, L
<1> QED
  BY <1>1, <1>2, <1>3, <1>5, <1>6, CisNat

(* While no resume is on top, every thread that is busy has an activation.   *)
LEMMA BusyIs ==
  ASSUME NEW s, Common(s), Last(s.C).k # "resume", NEW th \in Busy(s)
  PROVE  \E i \in DOMAIN s.C : s.C[i].th = th
<1>1. CASE \E i \in DOMAIN s.C : s.C[i].th = th
  BY <1>1
<1>2. CASE \E i \in DOMAIN s.C : s.C[i].k = "resume" /\ s.C[i].co = th
  <2>1. PICK i \in DOMAIN s.C : s.C[i].k = "resume" /\ s.C[i].co = th
    BY <1>2
  <2>2. i # Len(s.C)
    BY <2>1, CommonIs
  <2>3. i < Len(s.C)
    BY <2>1, <2>2, CommonIs
  <2> QED
    BY <2>1, <2>3, CommonIs, Waits DEF Common
<1> QED
  BY <1>1, <1>2 DEF Busy

(* An activation is on CallInfos of its thread.                              *)
LEMMA AboveIs ==
  ASSUME NEW s, Common(s), NEW i \in DOMAIN s.C
  PROVE  /\ s.C[i].ci \in Nat /\ s.C[i].ci >= 1
         /\ Above(s.C[i]) \in Nat /\ s.C[i].ci <= Above(s.C[i])
<1>1. Placed(s, s.C[i])
  BY DEF Common, Frames
<1>2. s.C[i].ci \in Nat /\ s.C[i].ci >= 1 /\ (s.C[i].k = "execute" => s.C[i].n \in Nat)
  BY <1>1 DEF Placed
<1> QED
  BY <1>2 DEF Above

(* The same, where an instruction or a C function is under way.              *)
LEMMA MidIs ==
  ASSUME NEW s, NEW d, Mid(s, d)
  PROVE  /\ Common(s) /\ Ready(s) /\ Above(Last(s.C)) \in Nat /\ Above(Last(s.C)) >= 1
         /\ Last(s.C) = s.C[Len(s.C)] /\ Cur(s) = s.C[Len(s.C)].th
         /\ Len(s.C) \in DOMAIN s.C
BY CommonIs, AboveIs DEF Mid

(* A change that moves e CallInfos.                                          *)
LEMMA MovesMid ==
  ASSUME NEW s, NEW t, NEW d \in Int, NEW e \in Int, Mid(s, d), Moves(s, t, e)
  PROVE  Mid(t, d + e)
<1>1. Common(s) /\ Last(s.C).k # "resume" /\ Ready(s)
  BY CommonIs DEF Mid
<1>2. t.C = s.C /\ Cur(t) = Cur(s) /\ t.out = <<>> /\ Shaped(t) /\ DOMAIN t.threads = DOMAIN s.threads
      /\ Cur(s) \in DOMAIN s.threads
  BY <1>1 DEF Moves, Cur, Common, Ready
<1>3. ASSUME NEW th \in DOMAIN s.threads
      PROVE  /\ t.threads[th].status = s.threads[th].status
             /\ th # Cur(s) => Cis(t, th) = Cis(s, th)
  BY <1>1, <1>2, <1>3 DEF Moves, Unmoved, Cis, L
<1>4. Busy(t) = Busy(s)
  BY <1>2 DEF Busy
<1>5. Frames(t)
  <2>1. ASSUME NEW i \in DOMAIN s.C PROVE Placed(t, s.C[i])
    <3>1. Placed(s, s.C[i])
      BY <1>1 DEF Common, Frames
    <3> QED
      BY <1>2, <1>3, <3>1 DEF Placed
  <2> QED
    BY <1>2, <2>1 DEF Frames
<1>6. Waiting(t)
  <2>1. ASSUME NEW j \in DOMAIN s.C, s.C[j].k = "resume" PROVE Cis(t, s.C[j].th) = s.C[j].ci
    <3>1. j # Len(s.C) /\ DOMAIN s.C = 1..Len(s.C) /\ Len(s.C) \in Nat
      BY <1>1, <2>1, CommonIs
    <3>2. j < Len(s.C)
      BY <3>1
    <3>3. s.C[j].th # s.C[Len(s.C)].th
      BY <1>1, <2>1, <3>2, CommonIs, Waits DEF Common
    <3>4. s.C[j].th # Cur(s)
      BY <1>1, <3>3, CommonIs
    <3>5. s.C[j].th \in DOMAIN s.threads /\ Cis(s, s.C[j].th) = s.C[j].ci
      BY <1>1, <2>1 DEF Common, Frames, Placed, Waiting
    <3> QED
      BY <1>3, <3>4, <3>5
  <2> QED
    BY <1>2, <2>1 DEF Waiting
<1>7. Others(t)
  <2>1. Cur(s) \in Busy(s)
    BY <1>1, CommonIs DEF Busy
  <2>2. ASSUME NEW co \in DOMAIN t.threads, co \notin Busy(t) PROVE Idle(t.threads[co])
    <3>1. Idle(s.threads[co]) /\ co # Cur(s)
      BY <1>1, <1>2, <1>4, <2>1, <2>2 DEF Common, Others
    <3> QED
      BY <1>2, <1>3, <3>1 DEF Idle, Cis
  <2> QED
    BY <2>2 DEF Others
<1>8. Common(t)
  BY <1>1, <1>2, <1>5, <1>6, <1>7 DEF Common
<1>9. Len(L(t).ci) = Above(Last(t.C)) + (d + e)
  <2>1. Above(Last(s.C)) \in Nat /\ Len(L(s).ci) = Above(Last(s.C)) + d
        /\ Len(L(t).ci) = Len(L(s).ci) + e
    BY MidIs DEF Mid, Moves
  <2> QED
    BY <1>2, <2>1
<1> QED
  BY <1>1, <1>2, <1>8, <1>9 DEF Mid

(* The activation of the interpreter on top counts its calls anew.           *)
Alone(C) == Len(C) = 1 \/ C[Len(C) - 1].k = "resume"
Counted(s, n) == [s EXCEPT !.C[Len(s.C)].n = n]

(* The activation on top runs another number of calls.                       *)
LEMMA CountedMid ==
  ASSUME NEW s, NEW d \in Int, NEW n \in Nat, Mid(s, d), Last(s.C).k = "execute",
         n >= 1 \/ Alone(s.C)
  PROVE  Mid(Counted(s, n), d + Last(s.C).n - n)
<1> DEFINE t == Counted(s, n)
           N == Len(s.C)
           x == [s.C[N] EXCEPT !.n = n]
<1>1. /\ Common(s) /\ IsSeq(s.C) /\ DOMAIN s.C = 1..N /\ N \in 1..N /\ N \in Nat
      /\ Last(s.C) = s.C[N] /\ Cur(s) = s.C[N].th
  BY CommonIs DEF Mid
<1>2. /\ t.C = [s.C EXCEPT ![N] = x] /\ DOMAIN t = Fields /\ t.threads = s.threads
      /\ t.out = <<>>
  BY <1>1 DEF Counted, Common, Shaped, Fields
<1>3. IsSeq(t.C) /\ Len(t.C) = N /\ DOMAIN t.C = 1..N
  <2> HIDE DEF t, N, x
  <2> QED
    BY <1>1, <1>2, SeqReplaced
<1>4. Placed(s, s.C[N]) /\ s.C[N].k = "execute"
  BY <1>1 DEF Common, Frames
<1>5. /\ x.k = "execute" /\ x.th = s.C[N].th /\ x.ci = s.C[N].ci /\ x.n = n
      /\ DOMAIN x = DOMAIN s.C[N]
  BY <1>4 DEF Placed
<1> HIDE DEF t, x, N
<1>6. t.C[N] = x /\ \A i \in 1..N : i # N => t.C[i] = s.C[i]
  BY <1>1, <1>2
<1>7. ASSUME NEW i \in 1..N
      PROVE  /\ t.C[i].k = s.C[i].k /\ t.C[i].th = s.C[i].th /\ t.C[i].ci = s.C[i].ci
             /\ s.C[i].k = "resume" => t.C[i] = s.C[i]
  BY <1>4, <1>5, <1>6
<1>8. Last(t.C) = x /\ Cur(t) = Cur(s) /\ L(t) = L(s)
  BY <1>1, <1>2, <1>3, <1>5, <1>6 DEF Last, Cur, L
<1>9. Frames(t)
  <2>1. ASSUME NEW i \in 1..N PROVE Placed(t, t.C[i])
    <3>1. Placed(s, s.C[i])
      BY <1>1 DEF Common, Frames
    <3>2. CASE i = N
      <4>1. x.th \in DOMAIN t.threads /\ t.threads[x.th].status = "ok" /\ x.ci \in Nat \ {0}
        BY <1>2, <1>4, <1>5 DEF Placed
      <4>2. {"k", "th", "ci"} \subseteq DOMAIN x /\ "n" \in DOMAIN x /\ x.n \in Nat
        BY <1>4, <1>5 DEF Placed
      <4>3. x.th = Cur(t) /\ x.k # "resume"
        BY <1>1, <1>4, <1>5, <1>8
      <4> QED
        BY <1>6, <3>2, <4>1, <4>2, <4>3 DEF Placed
    <3>3. CASE i # N
      BY <1>2, <1>6, <1>8, <3>1, <3>3 DEF Placed, Cis
    <3> QED
      BY <3>2, <3>3
  <2> QED
    BY <1>3, <2>1 DEF Frames
<1>10. First(t.C)
  BY <1>1, <1>3, <1>7 DEF First, Common, N
<1>11. Linked(t.C)
  <2>1. ASSUME NEW i \in 1..N - 1
        PROVE  IF t.C[i].k = "resume" THEN t.C[i + 1].k = "execute" /\ t.C[i + 1].ci = 1
               ELSE /\ t.C[i + 1].ci = Above(t.C[i]) + Own(t.C[i + 1])
                    /\ t.C[i + 1].k = "execute" => t.C[i + 1].n >= 1
    <3>1. i \in 1..N /\ i + 1 \in 1..N /\ i # N
      BY <1>1
    <3>2. IF s.C[i].k = "resume" THEN s.C[i + 1].k = "execute" /\ s.C[i + 1].ci = 1
          ELSE /\ s.C[i + 1].ci = Above(s.C[i]) + Own(s.C[i + 1])
               /\ s.C[i + 1].k = "execute" => s.C[i + 1].n >= 1
      BY <1>1 DEF Common, Linked, N
    <3>3. t.C[i] = s.C[i] /\ Own(t.C[i + 1]) = Own(s.C[i + 1])
      BY <1>6, <1>7, <3>1 DEF Own
    <3>4. CASE i + 1 # N
      BY <1>6, <3>1, <3>2, <3>3, <3>4
    <3>5. CASE i + 1 = N
      <4>1. i = N - 1
        BY <1>1, <3>5
      <4>2. s.C[i].k # "resume" => n >= 1
        <5>1. N # 1
          BY <1>1, <4>1
        <5> QED
          BY <4>1, <5>1 DEF Alone, N
      <4>3. t.C[i + 1] = x /\ t.C[i + 1].ci = s.C[i + 1].ci
        BY <1>5, <1>6, <3>5
      <4> QED
        BY <1>5, <3>2, <3>3, <4>2, <4>3, <1>4, <3>5
    <3> QED
      BY <3>4, <3>5
  <2> QED
    BY <1>3, <2>1 DEF Linked
<1>12. Nested(t.C)
  <2>1. ASSUME NEW i \in 1..N, NEW j \in 1..N, i < j, t.C[i].th = t.C[j].th
        PROVE  Above(t.C[i]) <= t.C[j].ci
    <3>1. t.C[i] = s.C[i]
      BY <1>1, <1>6, <2>1
    <3>2. Above(s.C[i]) <= s.C[j].ci
      BY <1>1, <1>7, <2>1 DEF Common, Nested
    <3> QED
      BY <1>7, <3>1, <3>2
  <2> QED
    BY <1>3, <2>1 DEF Nested
<1>13. Chained(t.C)
  <2>1. ASSUME NEW i \in 1..N PROVE Resumers(t.C, i) = Resumers(s.C, i) /\ Resumers(s.C, i) \subseteq 1..N
    BY <1>1, <1>7 DEF Resumers
  <2>2. ASSUME NEW i \in 1..N
        PROVE  IF Resumers(t.C, i) = {} THEN t.C[i].th = 1
               ELSE \E j \in Resumers(t.C, i) :
                      t.C[i].th = t.C[j].co /\ \A m \in Resumers(t.C, i) : m <= j
    <3>1. IF Resumers(s.C, i) = {} THEN s.C[i].th = 1
          ELSE \E j \in Resumers(s.C, i) :
                 s.C[i].th = s.C[j].co /\ \A m \in Resumers(s.C, i) : m <= j
      BY <1>1 DEF Common, Chained
    <3>2. \A j \in Resumers(s.C, i) : t.C[j] = s.C[j]
      BY <1>7, <2>1 DEF Resumers
    <3> QED
      BY <1>7, <2>1, <3>1, <3>2
  <2> QED
    BY <1>3, <2>2 DEF Chained
<1>14. Fresh(t.C)
  BY <1>1, <1>3, <1>7 DEF Common, Fresh
<1>15. Waiting(t)
  BY <1>1, <1>2, <1>3, <1>7 DEF Common, Waiting, Cis
<1>16. Others(t)
  <2>1. Busy(s) \subseteq Busy(t)
    BY <1>1, <1>3, <1>7 DEF Busy
  <2> QED
    BY <1>1, <1>2, <2>1 DEF Common, Others
<1>17. Common(t)
  BY <1>1, <1>2, <1>3, <1>9, <1>10, <1>11, <1>12, <1>13, <1>14, <1>15, <1>16 DEF Common, Shaped
<1>18. Len(L(t).ci) = Above(Last(t.C)) + (d + Last(s.C).n - n)
  <2>1. Len(L(s).ci) = Above(s.C[N]) + d
    BY <1>1 DEF Mid
  <2>2. s.C[N].n \in Nat /\ s.C[N].ci \in Nat
    BY <1>4 DEF Placed
  <2>3. Above(s.C[N]) = s.C[N].ci + s.C[N].n /\ Above(x) = s.C[N].ci + n
    BY <1>4, <1>5 DEF Above
  <2> QED
    BY <1>1, <1>8, <2>1, <2>2, <2>3
<1>19. Last(t.C).k # "resume"
  BY <1>5, <1>8
<1> QED
  BY <1>17, <1>18, <1>19 DEF Mid, t

(* An activation of the thread that runs starts.                             *)
Sits(s, f) ==
  /\ {"k", "th", "ci"} \subseteq DOMAIN f
  /\ f.k # "resume" /\ f.th = Cur(s) /\ f.ci = Above(Last(s.C)) + Own(f)
  /\ f.k = "execute" => "n" \in DOMAIN f /\ f.n \in Nat /\ f.n >= 1

(* An activation is pushed on what is on top.                                *)
LEMMA PushedCommon ==
  ASSUME NEW s, NEW f, Common(s), Last(s.C).k # "resume", Sits(s, f)
  PROVE  /\ Common(PushC(s, f)) /\ Last(PushC(s, f).C) = f
         /\ L(PushC(s, f)) = L(s) /\ PushC(s, f).cfun = s.cfun
         /\ PushC(s, f).C = Append(s.C, f)
<1> DEFINE t == PushC(s, f)
           N == Len(s.C)
<1>1. /\ IsSeq(s.C) /\ DOMAIN s.C = 1..N /\ N \in 1..N /\ N \in Nat
      /\ Last(s.C) = s.C[N] /\ Cur(s) = s.C[N].th /\ s.C[N].k # "resume"
  BY CommonIs
<1>2. /\ t.C = Append(s.C, f) /\ DOMAIN t = Fields /\ t.threads = s.threads
      /\ t.out = <<>> /\ t.cfun = s.cfun
  BY DEF PushC, Common, Shaped, Fields
<1> HIDE DEF t, N
<1>3. /\ IsSeq(t.C) /\ Len(t.C) = N + 1 /\ t.C[N + 1] = f
      /\ \A i \in 1..N : t.C[i] = s.C[i]
  BY <1>1, <1>2, SeqAppend DEF N
<1>4. DOMAIN t.C = 1..N + 1 /\ \A i \in 1..N + 1 : i \in 1..N \/ i = N + 1
  BY <1>1, <1>3, SeqIs
<1>5. Last(t.C) = f /\ Cur(t) = Cur(s) /\ L(t) = L(s)
  BY <1>2, <1>3 DEF Last, Cur, L, Sits
<1>6. Above(s.C[N]) \in Nat /\ Own(f) \in {0, 1} /\ f.ci = Above(s.C[N]) + Own(f)
      /\ Above(s.C[N]) >= 1
  <2>1. Above(s.C[N]) \in Nat /\ Above(s.C[N]) >= 1
    BY <1>1, AboveIs
  <2> QED
    BY <1>1, <2>1 DEF Own, Sits
<1>7. Frames(t)
  <2>1. Placed(t, f)
    <3>1. f.ci \in Nat \ {0}
      BY <1>6
    <3>2. f.th \in DOMAIN t.threads /\ t.threads[f.th].status = "ok" /\ f.th = Cur(t)
      BY <1>2, <1>5, CommonIs DEF Sits, Ready, L
    <3> QED
      BY <3>1, <3>2 DEF Placed, Sits
  <2>2. ASSUME NEW i \in 1..N PROVE Placed(t, s.C[i])
    BY <1>1, <1>2, <1>5 DEF Common, Frames, Placed, Cis
  <2> QED
    BY <1>3, <1>4, <2>1, <2>2 DEF Frames
<1>8. First(t.C)
  BY <1>1, <1>3 DEF First, Common, N
<1>9. Linked(t.C)
  <2>1. ASSUME NEW i \in 1..N
        PROVE  IF t.C[i].k = "resume" THEN t.C[i + 1].k = "execute" /\ t.C[i + 1].ci = 1
               ELSE /\ t.C[i + 1].ci = Above(t.C[i]) + Own(t.C[i + 1])
                    /\ t.C[i + 1].k = "execute" => t.C[i + 1].n >= 1
    <3>1. CASE i = N
      BY <1>1, <1>3, <1>6, <3>1 DEF Sits
    <3>2. CASE i # N
      <4>1. i \in 1..N - 1 /\ i + 1 \in 1..N
        BY <1>1, <3>2
      <4> QED
        BY <1>3, <4>1 DEF Common, Linked, N
    <3> QED
      BY <3>1, <3>2
  <2>2. Len(t.C) - 1 = N
    BY <1>1, <1>3
  <2> QED
    BY <2>1, <2>2 DEF Linked
<1>10. Nested(t.C)
  <2>1. ASSUME NEW i \in 1..N, s.C[i].th = f.th PROVE Above(s.C[i]) <= f.ci
    <3>1. CASE i = N
      BY <1>6, <3>1
    <3>2. CASE i # N
      <4>1. i < N
        BY <1>1, <3>2
      <4>2. Above(s.C[i]) <= s.C[N].ci
        BY <1>1, <2>1, <4>1 DEF Common, Nested, Sits
      <4>3. Above(s.C[i]) \in Nat /\ s.C[N].ci \in Nat /\ s.C[N].ci <= Above(s.C[N])
        BY <1>1, AboveIs
      <4> QED
        BY <1>6, <4>2, <4>3
    <3> QED
      BY <3>1, <3>2
  <2>2. ASSUME NEW i \in 1..N + 1, NEW j \in 1..N + 1, i < j, t.C[i].th = t.C[j].th
        PROVE  Above(t.C[i]) <= t.C[j].ci
    <3>1. i \in 1..N
      BY <1>1, <2>2
    <3>2. CASE j = N + 1
      BY <1>3, <2>1, <2>2, <3>1, <3>2
    <3>3. CASE j # N + 1
      <4>1. j \in 1..N
        BY <1>4, <3>3
      <4> QED
        BY <1>1, <1>3, <2>2, <3>1, <4>1 DEF Common, Nested
    <3> QED
      BY <3>2, <3>3
  <2> QED
    BY <1>4, <2>2 DEF Nested
<1>11. ASSUME NEW i \in 1..N PROVE Resumers(t.C, i) = Resumers(s.C, i) /\ Resumers(s.C, i) \subseteq 1..N
  BY <1>1, <1>3 DEF Resumers
<1>12. Resumers(t.C, N + 1) = Resumers(s.C, N)
  <2>1. \A j \in 1..N + 1 - 1 : j \in 1..N - 1 \/ j = N
    BY <1>1
  <2>2. \A j \in 1..N - 1 : j \in 1..N + 1 - 1 /\ j \in 1..N
    BY <1>1
  <2> QED
    BY <1>1, <1>3, <2>1, <2>2 DEF Resumers
<1>13. Chained(t.C)
  <2>1. ASSUME NEW i \in 1..N
        PROVE  IF Resumers(s.C, i) = {} THEN s.C[i].th = 1
               ELSE \E j \in Resumers(s.C, i) :
                      s.C[i].th = t.C[j].co /\ \A m \in Resumers(s.C, i) : m <= j
    <3>1. \A j \in Resumers(s.C, i) : t.C[j] = s.C[j]
      BY <1>3, <1>11
    <3> QED
      BY <1>1, <3>1 DEF Common, Chained
  <2>2. ASSUME NEW i \in 1..N + 1
        PROVE  IF Resumers(t.C, i) = {} THEN t.C[i].th = 1
               ELSE \E j \in Resumers(t.C, i) :
                      t.C[i].th = t.C[j].co /\ \A m \in Resumers(t.C, i) : m <= j
    <3>1. CASE i = N + 1
      <4>1. t.C[i].th = s.C[N].th
        BY <1>1, <1>3, <3>1 DEF Sits
      <4> QED
        BY <1>1, <1>12, <2>1, <3>1, <4>1
    <3>2. CASE i # N + 1
      <4>1. i \in 1..N
        BY <1>4, <3>2
      <4> QED
        BY <1>3, <1>11, <2>1, <4>1
    <3> QED
      BY <3>1, <3>2
  <2> QED
    BY <1>4, <2>2 DEF Chained
<1>14. Fresh(t.C)
  <2>1. ASSUME NEW i \in 1..N + 1, NEW j \in 1..N + 1, t.C[j].k = "resume", i <= j
        PROVE  t.C[i].th # t.C[j].co
    <3>1. j # N + 1
      BY <1>3, <2>1 DEF Sits
    <3>2. j \in 1..N
      BY <1>4, <3>1
    <3>3. i \in 1..N
      BY <1>1, <2>1, <3>2
    <3> QED
      BY <1>1, <1>3, <2>1, <3>2, <3>3 DEF Common, Fresh
  <2> QED
    BY <1>4, <2>1 DEF Fresh
<1>15. Waiting(t)
  <2>1. ASSUME NEW j \in 1..N + 1, t.C[j].k = "resume" PROVE Cis(t, t.C[j].th) = t.C[j].ci
    <3>1. j # N + 1
      BY <1>3, <2>1 DEF Sits
    <3>2. j \in 1..N
      BY <1>4, <3>1
    <3> QED
      BY <1>1, <1>2, <1>3, <2>1, <3>2 DEF Common, Waiting, Cis
  <2> QED
    BY <1>4, <2>1 DEF Waiting
<1>16. Others(t)
  <2>1. Busy(s) \subseteq Busy(t)
    <3>1. 1..N \subseteq DOMAIN t.C
      BY <1>1, <1>4
    <3> QED
      BY <1>1, <1>3, <3>1 DEF Busy
  <2> QED
    BY <1>2, <2>1 DEF Common, Others
<1>17. Shaped(t)
  BY <1>2, <1>3 DEF Shaped, Common
<1>18. Common(t)
  BY <1>2, <1>7, <1>8, <1>9, <1>10, <1>13, <1>14, <1>15, <1>16, <1>17 DEF Common
<1> QED
  BY <1>2, <1>5, <1>18 DEF t

(* A call from C is made: frame says what waits for it.                      *)
Fits(s, f) ==
  /\ {"k", "th", "ci"} \subseteq DOMAIN f /\ f.k \notin {"execute", "resume"}
  /\ f.th = Cur(s) /\ f.ci = Len(L(s).ci)
  /\ Mid(s, Own(f)) /\ s.cfun = NIL

(* A call from C is pushed.                                                  *)
LEMMA PushedCall ==
  ASSUME NEW s, NEW f, Fits(s, f)
  PROVE  Mid(PushC(s, f), 0) /\ PushC(s, f).cfun = NIL /\ PushC(s, f).C = Append(s.C, f)
<1>1. Common(s) /\ Last(s.C).k # "resume" /\ s.cfun = NIL
      /\ Len(L(s).ci) = Above(Last(s.C)) + Own(f)
  BY DEF Fits, Mid
<1>2. Sits(s, f)
  BY <1>1 DEF Sits, Fits
<1> DEFINE t == PushC(s, f)
<1>3. Common(t) /\ Last(t.C) = f /\ L(t) = L(s) /\ t.cfun = s.cfun /\ t.C = Append(s.C, f)
  BY <1>1, <1>2, PushedCommon
<1> HIDE DEF t
<1>4. Above(f) = Len(L(s).ci) /\ f.k # "resume"
  BY DEF Fits, Above
<1>5. Len(L(s).ci) + 0 = Len(L(s).ci)
  BY <1>1, CommonIs
<1> QED
  BY <1>1, <1>3, <1>4, <1>5 DEF Mid, t

-----------------------------------------------------------------------------
(* The C stack is cut: the threads that have activations below are as they   *)
(* were, the others wait.                                                    *)
LEMMA CutCommon ==
  ASSUME NEW s, NEW t, NEW n \in 1..Len(s.C), Common(s), Shaped(t), t.out = <<>>,
         t.C = SubSeq(s.C, 1, n), DOMAIN t.threads = DOMAIN s.threads,
         \A th \in DOMAIN s.threads :
           IF th \in Busy(t) THEN Unmoved(s.threads[th], t.threads[th]) ELSE Idle(t.threads[th])
  PROVE  Common(t)
<1> DEFINE N == Len(s.C)
<1>1. /\ IsSeq(s.C) /\ DOMAIN s.C = 1..N /\ N \in 1..N /\ N \in Nat
      /\ Last(s.C) = s.C[N] /\ Cur(s) = s.C[N].th
  BY CommonIs
<1>2. n \in Nat /\ n <= N /\ 1 <= n /\ n \in 0..N
  BY <1>1
<1>3. IsSeq(t.C) /\ Len(t.C) = n /\ \A i \in 1..n : t.C[i] = s.C[i]
  BY <1>1, <1>2, SeqSub
<1>4. DOMAIN t.C = 1..n /\ 1..n \subseteq 1..N /\ n \in 1..n
  BY <1>1, <1>2, <1>3, SeqIs
<1> HIDE DEF N
<1>5. Cur(t) = s.C[n].th
  BY <1>3, <1>4 DEF Cur, Last
<1>6. ASSUME NEW th \in DOMAIN s.threads, th \in Busy(t)
      PROVE  t.threads[th].status = s.threads[th].status /\ Cis(t, th) = Cis(s, th)
  BY <1>6 DEF Unmoved, Cis
<1>7. ASSUME NEW i \in 1..n
      PROVE  /\ Placed(s, s.C[i]) /\ s.C[i].th \in Busy(t)
             /\ s.C[i].k = "resume" => s.C[i].co \in Busy(t)
  BY <1>1, <1>3, <1>4 DEF Common, Frames, Busy
<1>8. Frames(t)
  <2>1. ASSUME NEW i \in 1..n PROVE Placed(t, s.C[i])
    <3>1. s.C[i].th # Cur(t) => s.C[i].th # Cur(s)
      <4>1. s.C[i].th = s.C[N].th => s.C[n].th = s.C[N].th
        BY <1>1, <1>2, <1>4, SameThread DEF Common
      <4> QED
        BY <1>1, <1>5, <4>1
    <3> QED
      BY <1>6, <1>7, <3>1 DEF Placed
  <2> QED
    BY <1>3, <1>4, <2>1 DEF Frames
<1>9. First(t.C)
  BY <1>2, <1>3, <1>4 DEF First, Common
<1>10. Linked(t.C)
  <2>1. ASSUME NEW i \in 1..n - 1
        PROVE  i \in 1..N - 1 /\ t.C[i] = s.C[i] /\ t.C[i + 1] = s.C[i + 1]
    BY <1>1, <1>2, <1>3
  <2> QED
    BY <1>3, <2>1 DEF Common, Linked, N
<1>11. Nested(t.C) /\ Fresh(t.C)
  BY <1>1, <1>3, <1>4 DEF Common, Nested, Fresh
<1>12. Chained(t.C)
  <2>1. ASSUME NEW i \in 1..n
        PROVE  /\ Resumers(t.C, i) = Resumers(s.C, i)
               /\ \A j \in Resumers(s.C, i) : t.C[j] = s.C[j]
    <3>1. 1..i - 1 \subseteq 1..n
      BY <1>2
    <3> QED
      BY <1>3, <3>1 DEF Resumers
  <2>2. ASSUME NEW i \in 1..n
        PROVE  IF Resumers(t.C, i) = {} THEN t.C[i].th = 1
               ELSE \E j \in Resumers(t.C, i) :
                      t.C[i].th = t.C[j].co /\ \A m \in Resumers(t.C, i) : m <= j
    <3>1. i \in DOMAIN s.C
      BY <1>1, <1>4
    <3> QED
      BY <1>3, <2>1, <3>1 DEF Common, Chained
  <2> QED
    BY <1>4, <2>2 DEF Chained
<1>13. Waiting(t)
  <2>1. ASSUME NEW j \in 1..n, s.C[j].k = "resume" PROVE Cis(t, s.C[j].th) = s.C[j].ci
    <3>1. Cis(s, s.C[j].th) = s.C[j].ci
      BY <1>1, <1>4, <2>1 DEF Common, Waiting
    <3> QED
      BY <1>6, <1>7, <3>1 DEF Placed
  <2> QED
    BY <1>3, <1>4, <2>1 DEF Waiting
<1>14. Others(t)
  BY DEF Others
<1> QED
  BY <1>8, <1>9, <1>10, <1>11, <1>12, <1>13, <1>14 DEF Common

(* The activation on top is gone.                                            *)
LEMMA PopCommon ==
  ASSUME NEW s, Common(s), Last(s.C).k # "resume", Len(s.C) >= 2
  PROVE  /\ Common(PopC(s)) /\ PopC(s).C = Front(s.C) /\ Len(PopC(s).C) = Len(s.C) - 1
         /\ Last(PopC(s).C) = s.C[Len(s.C) - 1] /\ PopC(s).cfun = s.cfun
         /\ PopC(s).threads = s.threads
<1> DEFINE t == PopC(s)
           N == Len(s.C)
<1>1. /\ t.C = SubSeq(s.C, 1, N - 1) /\ t.C = Front(s.C) /\ DOMAIN t = Fields /\ t.threads = s.threads
      /\ t.out = <<>> /\ t.cfun = s.cfun
  BY DEF PopC, Front, Common, Shaped, Fields
<1>2. N \in Nat /\ IsSeq(s.C) /\ DOMAIN s.C = 1..N
  BY CommonIs
<1> HIDE DEF t
<1>3. N - 1 \in 1..N /\ N - 1 \in 0..N /\ N - 1 \in 1..N - 1
  BY <1>2
<1>4. IsSeq(t.C) /\ Len(t.C) = N - 1 /\ \A i \in 1..N - 1 : t.C[i] = s.C[i]
  BY <1>1, <1>2, <1>3, SeqSub
<1>5. Shaped(t)
  BY <1>1, <1>4 DEF Common, Shaped
<1>6. Last(t.C) = s.C[N - 1]
  BY <1>3, <1>4 DEF Last
<1>7. ASSUME NEW th \in Busy(s)
      PROVE  th \in Busy(t) \/ s.threads[th].status = "ok"
  <2>1. PICK i \in DOMAIN s.C : s.C[i].th = th
    BY BusyIs
  <2> QED
    BY <2>1 DEF Common, Frames, Placed
<1>8. ASSUME NEW th \in DOMAIN s.threads
      PROVE  IF th \in Busy(t) THEN Unmoved(s.threads[th], t.threads[th]) ELSE Idle(t.threads[th])
  <2>1. CASE th \in Busy(s)
    BY <1>1, <1>7, <2>1 DEF Unmoved, Idle
  <2>2. CASE th \notin Busy(s)
    BY <1>1, <2>2 DEF Unmoved, Common, Others
  <2> QED
    BY <2>1, <2>2
<1>9. Common(t)
  <2> HIDE DEF N
  <2> QED
    BY <1>1, <1>3, <1>5, <1>8, CutCommon DEF N
<1> QED
  BY <1>1, <1>4, <1>6, <1>9 DEF t

(* An activation above one that is not a resume runs in the same thread, on  *)
(* the frame the one below left on top.                                      *)
LEMMA Over ==
  ASSUME NEW s, Common(s), NEW n \in DOMAIN s.C, n >= 2, s.C[n - 1].k # "resume"
  PROVE  /\ n - 1 \in DOMAIN s.C /\ s.C[n].ci = Above(s.C[n - 1]) + Own(s.C[n])
         /\ s.C[n].k = "execute" => s.C[n].n >= 1
         /\ s.C[n - 1].th = s.C[n].th
<1>1. /\ IsSeq(s.C) /\ DOMAIN s.C = 1..Len(s.C) /\ Len(s.C) \in Nat
  BY CommonIs
<1>2. n \in Nat /\ n - 1 \in 1..Len(s.C) - 1 /\ n - 1 \in 1..Len(s.C) /\ n - 1 + 1 = n
  <2> DEFINE N == Len(s.C)
  <2>1. n \in 1..N /\ N \in Nat
    BY <1>1
  <2> HIDE DEF N
  <2>2. n \in Nat /\ n - 1 \in 1..N - 1 /\ n - 1 \in 1..N /\ n - 1 + 1 = n
    BY <2>1
  <2> QED
    BY <2>2 DEF N
<1>3. /\ s.C[n].ci = Above(s.C[n - 1]) + Own(s.C[n])
      /\ s.C[n].k = "execute" => s.C[n].n >= 1
  BY <1>2 DEF Common, Linked
<1>4. Resumers(s.C, n) = Resumers(s.C, n - 1)
  <2>1. \A j \in 1..n - 1 : j = n - 1 \/ j \in 1..n - 1 - 1
    BY <1>2
  <2>2. 1..n - 1 - 1 \subseteq 1..n - 1
    BY <1>2
  <2> QED
    BY <2>1, <2>2 DEF Resumers
<1>5. ASSUME NEW i \in {n, n - 1}
      PROVE  \/ Resumers(s.C, n) = {} /\ s.C[i].th = 1
             \/ \E j \in Resumers(s.C, n) :
                  s.C[i].th = s.C[j].co /\ \A m \in Resumers(s.C, n) : m <= j
  BY <1>1, <1>2, <1>4 DEF Common, Chained
<1>6. ASSUME NEW i \in Resumers(s.C, n), NEW j \in Resumers(s.C, n), i <= j, j <= i PROVE i = j
  BY <1>2, <1>6 DEF Resumers
<1>7. s.C[n - 1].th = s.C[n].th
  BY <1>5, <1>6
<1> QED
  BY <1>1, <1>2, <1>3, <1>7

(* A call from C that waits is made by the activation below, which is not a  *)
(* resume.                                                                   *)
LEMMA CallOver ==
  ASSUME NEW s, Common(s), NEW n \in DOMAIN s.C, s.C[n].k # "execute"
  PROVE  /\ n >= 2 /\ n - 1 \in DOMAIN s.C /\ s.C[n - 1].k # "resume"
         /\ s.C[n].ci = Above(s.C[n - 1]) + Own(s.C[n])
         /\ s.C[n - 1].th = s.C[n].th
<1>1. /\ IsSeq(s.C) /\ DOMAIN s.C = 1..Len(s.C) /\ Len(s.C) \in Nat
  BY CommonIs
<1>2. n # 1
  BY DEF Common, First
<1>3. n >= 2 /\ n - 1 \in 1..Len(s.C) - 1 /\ n - 1 + 1 = n
  BY <1>1, <1>2
<1>4. s.C[n - 1].k # "resume"
  BY <1>3 DEF Common, Linked
<1> QED
  BY <1>3, <1>4, Over

(* So is the one on top.                                                     *)
LEMMA CallAbove ==
  ASSUME NEW s, Common(s), Last(s.C).k # "execute"
  PROVE  /\ Len(s.C) >= 2 /\ Len(s.C) - 1 \in DOMAIN s.C /\ s.C[Len(s.C) - 1].k # "resume"
         /\ Last(s.C).ci = Above(s.C[Len(s.C) - 1]) + Own(Last(s.C))
         /\ s.C[Len(s.C) - 1].th = Cur(s)
<1>1. Len(s.C) \in DOMAIN s.C /\ Last(s.C) = s.C[Len(s.C)] /\ Cur(s) = s.C[Len(s.C)].th
  BY CommonIs
<1> QED
  BY <1>1, CallOver

(* The call that waited has returned, and its activation is gone.            *)
LEMMA PoppedMid ==
  ASSUME NEW s, NEW d \in Int, Mid(s, d), Last(s.C).k # "execute"
  PROVE  /\ Mid(PopC(s), Own(Last(s.C)) + d) /\ PopC(s).cfun = s.cfun
         /\ Cur(PopC(s)) = Cur(s) /\ L(PopC(s)) = L(s)
<1>1. Common(s) /\ Last(s.C).k # "resume" /\ Len(L(s).ci) = Above(Last(s.C)) + d
  BY DEF Mid
<1>2. /\ Len(s.C) >= 2 /\ Len(s.C) - 1 \in DOMAIN s.C /\ s.C[Len(s.C) - 1].k # "resume"
      /\ Last(s.C).ci = Above(s.C[Len(s.C) - 1]) + Own(Last(s.C))
      /\ s.C[Len(s.C) - 1].th = Cur(s)
  BY <1>1, CallAbove
<1>3. /\ Common(PopC(s)) /\ Last(PopC(s).C) = s.C[Len(s.C) - 1] /\ PopC(s).cfun = s.cfun
      /\ PopC(s).threads = s.threads
  BY <1>1, <1>2, PopCommon
<1>4. Cur(PopC(s)) = Cur(s) /\ L(PopC(s)) = L(s)
  BY <1>2, <1>3 DEF Cur, L
<1>5. Above(s.C[Len(s.C) - 1]) \in Nat /\ Own(Last(s.C)) \in Nat
  BY <1>1, <1>2, AboveIs DEF Own
<1>6. Above(Last(s.C)) = Last(s.C).ci
  BY DEF Above
<1>7. Len(L(s).ci) = Above(s.C[Len(s.C) - 1]) + (Own(Last(s.C)) + d)
  BY <1>1, <1>2, <1>5, <1>6
<1> QED
  BY <1>2, <1>3, <1>4, <1>7 DEF Mid

-----------------------------------------------------------------------------
(* A set of natural numbers that is not empty has a least element.           *)
LEMMA LeastOf ==
  ASSUME NEW S \in SUBSET Nat, S # {}
  PROVE  \E m \in S : \A x \in S : m <= x
<1> DEFINE Less == OpToRel(<, Nat)
<1>1. IsWellFoundedOn(Less, Nat)
  BY NatLessThanWellFounded
<1>2. \A x \in Nat, m \in Nat : <<x, m>> \in Less <=> x < m
  BY DEF OpToRel
<1> HIDE DEF Less
<1>3. IsWellFoundedOn(Less, S)
  BY <1>1, IsWellFoundedOnSubset, Zenon
<1>4. PICK m \in S : \A x \in S : <<x, m>> \notin Less
  BY <1>1, <1>3, WFMin, Zenon
<1>5. \A x \in S : ~(x < m)
  BY <1>2, <1>4
<1> QED
  BY <1>5

(* A set of indices that is not empty has a greatest one, and Max is it.     *)
LEMMA MaxIndex ==
  ASSUME NEW n \in Nat, NEW S \in SUBSET (1..n), S # {}
  PROVE  Max(S) \in S
<1> DEFINE B == {n - x : x \in S}
<1>1. B \in SUBSET Nat /\ B # {}
  <2>1. \A x \in S : n - x \in Nat
    OBVIOUS
  <2>2. PICK x \in S : TRUE
    OBVIOUS
  <2>3. n - x \in B
    OBVIOUS
  <2> QED
    BY <2>1, <2>3
<1>2. PICK c \in B : \A x \in B : c <= x
  BY <1>1, LeastOf
<1>3. PICK f \in S : c = n - f
  BY <1>2
<1>4. \A x \in S : f >= x
  BY <1>2, <1>3
<1> QED
  BY <1>4 DEF Max

(* A function on the domain of a sequence is a sequence.                     *)
LEMMA SeqOn ==
  ASSUME NEW q, NEW r, IsSeq(q), DOMAIN r = DOMAIN q, r = [i \in DOMAIN r |-> r[i]]
  PROVE  IsSeq(r)
<1> DEFINE S == {r[i] : i \in DOMAIN r}
<1>1. Len(q) \in Nat /\ DOMAIN q = 1..Len(q)
  BY SeqIs
<1>2. r \in [1..Len(q) -> S]
  BY <1>1
<1>3. r \in Seq(S)
  BY <1>1, <1>2, SeqDef
<1> QED
  BY <1>3 DEF IsSeq

(* A thread on the C stack is alive.                                         *)
LEMMA BusyAlive ==
  ASSUME NEW s, Common(s), NEW th \in Busy(s)
  PROVE  th \in DOMAIN s.threads /\ s.threads[th].status = "ok"
BY DEF Busy, Common, Frames, Placed

(* What is resumed at or above an activation that caught an error is not     *)
(* busy below.                                                               *)
LEMMA DyingOnly ==
  ASSUME NEW s, Common(s), NEW n \in DOMAIN s.C, NEW i \in 1..n - 1, NEW j \in DOMAIN s.C,
         n <= j, s.C[j].k = "resume"
  PROVE  s.C[i].th # s.C[j].co /\ (s.C[i].k = "resume" => s.C[i].co # s.C[j].co)
<1>1. IsSeq(s.C) /\ DOMAIN s.C = 1..Len(s.C) /\ Len(s.C) \in Nat /\ Chained(s.C) /\ Fresh(s.C)
  BY CommonIs DEF Common
<1>2. i \in DOMAIN s.C /\ i <= j /\ i < Len(s.C) /\ i + 1 <= j /\ i + 1 \in DOMAIN s.C
  BY <1>1
<1>3. s.C[i].k = "resume" => s.C[i + 1].th = s.C[i].co
  BY <1>1, <1>2, Waits
<1> QED
  BY <1>1, <1>2, <1>3 DEF Fresh

(* The C stack is cut under the activation that catches an error; what was   *)
(* resumed from there on is dead.                                            *)
LEMMA UnwoundCommon ==
  ASSUME NEW s, Common(s), NEW n \in DOMAIN s.C, s.C[n].k # "execute"
  PROVE  /\ Common(Unwound(s, n)) /\ Unwound(s, n).cfun = s.cfun
         /\ Len(Unwound(s, n).C) = n - 1
         /\ Last(Unwound(s, n).C) = s.C[n - 1]
         /\ Cis(Unwound(s, n), s.C[n].th) = Cis(s, s.C[n].th)
<1> DEFINE t == Unwound(s, n)
           Dead(co) == [s.threads[co] EXCEPT !.status = "error"]
<1>1. /\ DOMAIN t = Fields /\ t.C = SubSeq(s.C, 1, n - 1) /\ t.out = <<>> /\ t.cfun = s.cfun
      /\ t.threads = [co \in DOMAIN s.threads |->
                        IF co \in Dying(s, n) THEN Dead(co) ELSE s.threads[co]]
  BY DEF Unwound, Common, Shaped, Fields
<1> HIDE DEF t
<1>2. /\ IsSeq(s.C) /\ DOMAIN s.C = 1..Len(s.C) /\ Len(s.C) \in Nat /\ IsSeq(s.threads)
      /\ \A th \in DOMAIN s.threads : DOMAIN s.threads[th] = ThreadFields /\ IsSeq(s.threads[th].ci)
  BY CommonIs DEF Common, Shaped
<1>3. n >= 2 /\ s.C[n - 1].th = s.C[n].th
  BY CallOver
<1>4. n \in Nat /\ n - 1 \in 1..Len(s.C) /\ n - 1 \in 0..Len(s.C) /\ n - 1 \in 1..n - 1
  BY <1>2, <1>3
<1>5. /\ IsSeq(t.C) /\ Len(t.C) = n - 1 /\ DOMAIN t.C = 1..n - 1
      /\ \A i \in 1..n - 1 : t.C[i] = s.C[i]
  BY <1>1, <1>2, <1>4, SeqSub, SeqIs
<1>6. DOMAIN t.threads = DOMAIN s.threads /\ IsSeq(t.threads)
  <2>1. DOMAIN t.threads = DOMAIN s.threads /\ t.threads = [i \in DOMAIN t.threads |-> t.threads[i]]
    BY <1>1
  <2> QED
    BY <1>2, <2>1, SeqOn
<1>7. ASSUME NEW co \in DOMAIN s.threads
      PROVE  /\ DOMAIN t.threads[co] = ThreadFields /\ t.threads[co].ci = s.threads[co].ci
             /\ co \in Dying(s, n) => t.threads[co].status = "error"
             /\ co \notin Dying(s, n) => t.threads[co] = s.threads[co]
  <2>1. DOMAIN Dead(co) = ThreadFields /\ Dead(co).ci = s.threads[co].ci /\ Dead(co).status = "error"
    BY <1>2 DEF ThreadFields
  <2> QED
    BY <1>1, <1>2, <2>1
<1> HIDE DEF Dead
<1>8. Shaped(t)
  BY <1>1, <1>2, <1>5, <1>6, <1>7 DEF Shaped
<1>9. ASSUME NEW th \in Busy(t) PROVE th \notin Dying(s, n)
  <2>1. PICK i \in 1..n - 1 : s.C[i].th = th \/ (s.C[i].k = "resume" /\ s.C[i].co = th)
    BY <1>5, <1>9 DEF Busy
  <2> QED
    BY <2>1, DyingOnly DEF Dying
<1>10. ASSUME NEW th \in DOMAIN s.threads
       PROVE  IF th \in Busy(t) THEN Unmoved(s.threads[th], t.threads[th]) ELSE Idle(t.threads[th])
  <2>1. CASE th \in Busy(t)
    BY <1>7, <1>9, <2>1 DEF Unmoved
  <2>2. CASE th \notin Busy(t) /\ th \in Dying(s, n)
    BY <1>7, <2>2 DEF Idle
  <2>3. CASE th \notin Busy(t) /\ th \notin Dying(s, n)
    <3>1. Idle(s.threads[th])
      BY BusyAlive DEF Idle, Common, Others
    <3> QED
      BY <1>7, <2>3, <3>1
  <2> QED
    BY <2>1, <2>2, <2>3
<1>11. Common(t)
  BY <1>1, <1>4, <1>6, <1>8, <1>10, CutCommon
<1>12. Last(t.C) = s.C[n - 1]
  BY <1>4, <1>5 DEF Last
<1>13. Cis(t, s.C[n].th) = Cis(s, s.C[n].th)
  <2>1. s.C[n].th \in DOMAIN s.threads
    BY DEF Common, Frames, Placed
  <2> QED
    BY <1>7, <2>1 DEF Cis
<1> QED
  BY <1>1, <1>5, <1>11, <1>12, <1>13 DEF t

-----------------------------------------------------------------------------
(* Errors.  An error ends the program, or what runs goes on further down on  *)
(* the C stack.                                                              *)
Thrown(s, r) ==
  \/ r.out # <<>> /\ r.C = <<>>
  \/ Mid(r, 0) /\ r.cfun = NIL /\ Len(r.C) < Len(s.C)

(* The end of a C function goes back to the activation on top.               *)
LEMMA FinishMid ==
  ASSUME NEW s, NEW vals, Mid(s, 1), s.cfun = NIL
  PROVE  Mid(Finish(s, vals), 0) /\ Finish(s, vals).cfun = NIL /\ Finish(s, vals).C = s.C
<1>1. Ready(s) /\ Above(Last(s.C)) \in Nat /\ Len(L(s).ci) = Above(Last(s.C)) + 1
  BY MidIs DEF Mid
<1>2. Len(L(s).ci) >= 1
  BY <1>1
<1>3. Moves(s, Finish(s, vals), -1)
  BY <1>1, <1>2, MovesFinish
<1>4. Mid(Finish(s, vals), 1 + (-1))
  BY <1>3, MovesMid
<1>5. 1 + (-1) = 0
  OBVIOUS
<1>6. Mid(Finish(s, vals), 0)
  BY <1>4, <1>5
<1> QED
  BY <1>3, <1>6 DEF Moves

(* pcall goes back to its own CallInfo.                                      *)
LEMMA MovesRestored ==
  ASSUME NEW s, NEW c, Ready(s), c.ci \in Nat, c.ci <= Len(L(s).ci)
  PROVE  Moves(s, Restored(s, c), c.ci - Len(L(s).ci))
<1> DEFINE l == [L(s) EXCEPT !.ci = SubSeq(@, 1, c.ci), !.base = L(s).ci[c.ci].base,
                             !.pc = L(s).ci[c.ci].savedpc]
           N == Len(L(s).ci)
<1>1. DOMAIN L(s) = ThreadFields
  BY ThreadShape
<1>2. DOMAIN l = ThreadFields /\ l.ci = SubSeq(L(s).ci, 1, c.ci) /\ l.status = L(s).status
  BY <1>1 DEF ThreadFields
<1>3. Restored(s, c) = With(s, l)
  BY DEF Restored
<1>4. IsSeq(L(s).ci) /\ N \in Nat
  BY CisNat
<1>5. IsSeq(l.ci) /\ Len(l.ci) = c.ci
  <2>1. c.ci \in 0..N
    BY <1>4
  <2> HIDE DEF l
  <2> QED
    BY <1>2, <1>4, <2>1, SeqSub
<1> HIDE DEF l
<1>6. c.ci = N + (c.ci - N)
  <2> HIDE DEF N
  <2> QED
    BY <1>4
<1> HIDE DEF N
<1>7. Len(l.ci) = Len(L(s).ci) + (c.ci - N)
  BY <1>5, <1>6 DEF N
<1> QED
  BY <1>2, <1>3, <1>5, <1>7, MovesWith DEF N

(* An error that is caught goes on in the activation that called pcall or    *)
(* resume, with a shorter C stack.                                           *)
LEMMA CaughtMid ==
  ASSUME NEW s, NEW d \in Nat, NEW v, Mid(s, d), s.cfun = NIL, NEW n \in Catching(s)
  PROVE  LET r == Caught(Unwound(s, n), s.C[n], v)
         IN Mid(r, 0) /\ r.cfun = NIL /\ Len(r.C) < Len(s.C)
<1> DEFINE t == Unwound(s, n)
           c == s.C[n]
           u == luaF_close(t, c.top)
           w == IF c.k = "pcall" THEN Restored(u, c) ELSE t
<1>1. Common(s) /\ n \in DOMAIN s.C /\ c.k \in {"pcall", "resume"} /\ c.k # "execute"
  BY DEF Mid, Catching
<1>2. /\ IsSeq(s.C) /\ DOMAIN s.C = 1..Len(s.C) /\ Len(s.C) \in Nat
      /\ Cur(s) = s.C[Len(s.C)].th /\ Last(s.C) = s.C[Len(s.C)] /\ Len(s.C) \in DOMAIN s.C
  BY <1>1, CommonIs
<1>3. /\ n >= 2 /\ n - 1 \in DOMAIN s.C /\ s.C[n - 1].k # "resume"
      /\ c.ci = Above(s.C[n - 1]) + Own(c) /\ s.C[n - 1].th = c.th
  BY <1>1, CallOver
<1>4. /\ Common(t) /\ t.cfun = NIL /\ Len(t.C) = n - 1 /\ Last(t.C) = s.C[n - 1]
      /\ Cis(t, c.th) = Cis(s, c.th)
  BY <1>1, UnwoundCommon
<1>5. Own(c) = 1 /\ Above(s.C[n - 1]) \in Nat /\ c.ci \in Nat
  BY <1>1, <1>3, AboveIs DEF Own, CKinds
<1>6. Cur(t) = c.th /\ Len(L(t).ci) = Cis(s, c.th)
  BY <1>3, <1>4 DEF Cur, L, Cis
<1>7. c.ci <= Cis(s, c.th) /\ (c.k = "resume" => c.ci = Cis(s, c.th)) /\ Cis(s, c.th) \in Nat
  <2>1. CASE c.th = Cur(s)
    <3>1. Cis(s, c.th) = Above(Last(s.C)) + d
      BY <2>1 DEF Mid, Cis, L
    <3>2. c.ci <= Above(Last(s.C)) /\ Above(Last(s.C)) \in Nat
      <4>1. s.C[Len(s.C)].ci \in Nat /\ s.C[Len(s.C)].ci <= Above(Last(s.C)) /\ Above(Last(s.C)) \in Nat
        BY <1>1, <1>2, AboveIs
      <4>2. CASE n = Len(s.C)
        BY <1>2, <4>1, <4>2
      <4>3. CASE n # Len(s.C)
        <5>1. n < Len(s.C)
          BY <1>1, <1>2, <4>3
        <5>2. Above(c) <= s.C[Len(s.C)].ci
          BY <1>1, <1>2, <2>1, <5>1 DEF Common, Nested
        <5>3. c.ci = Above(c)
          BY <1>1 DEF Above
        <5> QED
          BY <1>5, <4>1, <5>2, <5>3
      <4> QED
        BY <4>2, <4>3
    <3>3. c.k # "resume" \/ n # Len(s.C)
      BY <1>2 DEF Mid
    <3>4. c.k = "resume" => FALSE
      <4>1. SUFFICES ASSUME c.k = "resume" PROVE FALSE
        OBVIOUS
      <4>2. n < Len(s.C)
        BY <1>1, <1>2, <3>3, <4>1
      <4> QED
        BY <1>1, <1>2, <2>1, <4>1, <4>2, Waits DEF Common
    <3> QED
      BY <1>5, <3>1, <3>2, <3>4
  <2>2. CASE c.th # Cur(s)
    <3>1. Placed(s, c)
      BY <1>1 DEF Common, Frames
    <3>2. Cis(s, c.th) \in Nat
      BY <3>1, <1>1, SeqIs DEF Cis, Placed, Common, Shaped
    <3> QED
      BY <1>1, <2>2, <3>1, <3>2 DEF Placed, Common, Waiting
  <2> QED
    BY <2>1, <2>2
<1> HIDE DEF c, t
<1>8. Last(t.C).k # "resume"
  BY <1>3, <1>4
<1> DEFINE e == Cis(s, c.th) - Above(Last(t.C))
<1>9. e \in Int /\ Len(L(t).ci) = Above(Last(t.C)) + e /\ e + (c.ci - Cis(s, c.th)) = 1
      /\ (c.ci = Cis(s, c.th) => e = 1) /\ c.ci - Cis(s, c.th) \in Int
  BY <1>3, <1>4, <1>5, <1>6, <1>7
<1> HIDE DEF e
<1>10. Mid(t, e)
  BY <1>4, <1>8, <1>9 DEF Mid
<1>11. Mid(w, 1) /\ w.cfun = NIL /\ w.C = t.C
  <2>1. CASE c.k = "pcall"
    <3>1. Ready(t)
      BY <1>10, MidIs
    <3>2. Moves(t, u, 0) /\ Ready(u) /\ L(u) = L(t)
      BY <3>1, AsideClose, StaysAside, MovesReady DEF Aside, L, Cur
    <3> HIDE DEF u
    <3>3. Moves(u, Restored(u, c), c.ci - Len(L(u).ci))
      BY <1>5, <1>6, <1>7, <3>2, MovesRestored
    <3>4. Moves(u, Restored(u, c), c.ci - Cis(s, c.th))
      BY <1>6, <3>2, <3>3
    <3>5. Moves(t, Restored(u, c), c.ci - Cis(s, c.th))
      BY <1>9, <3>1, <3>2, <3>4, StaysOn
    <3>6. Mid(Restored(u, c), 1)
      BY <1>9, <1>10, <3>5, MovesMid
    <3> QED
      BY <1>4, <2>1, <3>5, <3>6 DEF Moves
  <2>2. CASE c.k # "pcall"
    BY <1>1, <1>4, <1>7, <1>9, <1>10, <2>2 DEF c
  <2> QED
    BY <2>1, <2>2
<1>12. Caught(t, c, v) = Finish(w, <<Bool(FALSE), v>>)
  BY DEF Caught, Failed
<1> HIDE DEF w
<1>13. Mid(Finish(w, <<Bool(FALSE), v>>), 0) /\ Finish(w, <<Bool(FALSE), v>>).cfun = NIL
       /\ Finish(w, <<Bool(FALSE), v>>).C = w.C
  BY <1>11, FinishMid
<1>14. n - 1 < Len(s.C)
  BY <1>1, <1>2
<1> QED
  BY <1>4, <1>11, <1>12, <1>13, <1>14 DEF t, c

(* An error ends the program or is caught.                                   *)
LEMMA ThrowMid ==
  ASSUME NEW s, NEW d \in Nat, NEW v, Mid(s, d), s.cfun = NIL
  PROVE  Thrown(s, luaD_throw(s, v))
<1>1. CASE Catching(s) = {}
  <2>1. luaD_throw(s, v) = [Unwound(s, 1) EXCEPT !.out = <<"error", HandedOn(s, v)>>]
    BY <1>1 DEF luaD_throw
  <2>2. DOMAIN s = Fields
    BY DEF Mid, Common, Shaped
  <2>3. DOMAIN Unwound(s, 1) = Fields /\ Unwound(s, 1).C = SubSeq(s.C, 1, 0)
    BY <2>2 DEF Unwound, Fields
  <2>4. SubSeq(s.C, 1, 0) = <<>>
    <3>1. IsSeq(s.C) /\ 0 \in 0..Len(s.C)
      BY CommonIs DEF Mid
    <3> QED
      BY <3>1, SeqSub, EmptySeq DEF IsSeq
  <2>5. <<"error", HandedOn(s, v)>> # <<>>
    OBVIOUS
  <2> QED
    BY <2>1, <2>2, <2>3, <2>4, <2>5 DEF Thrown, Fields
<1>2. CASE Catching(s) # {}
  <2>1. Len(s.C) \in Nat /\ Catching(s) \in SUBSET (1..Len(s.C))
    BY CommonIs DEF Mid, Catching
  <2>2. Max(Catching(s)) \in Catching(s)
    BY <1>2, <2>1, MaxIndex
  <2> QED
    BY <1>2, <2>2, CaughtMid DEF luaD_throw, Thrown
<1> QED
  BY <1>1, <1>2

(* So does one with a message, or about the type of a value.                 *)
LEMMA ThrowsAll ==
  ASSUME NEW s, NEW d \in Nat, Mid(s, d), s.cfun = NIL
  PROVE  /\ \A v : Thrown(s, luaD_throw(s, v))
         /\ \A msg : Thrown(s, luaG_runerror(s, msg)) /\ Thrown(s, luaL_error(s, msg))
         /\ \A v, where, op : Thrown(s, luaG_typeerror(s, v, where, op))
BY ThrowMid DEF luaG_runerror, luaL_error, luaG_typeerror

(* What Common and Mid say is only about the threads and the C stack.        *)
LEMMA SameMid ==
  ASSUME NEW s, NEW t, NEW d, Mid(s, d), DOMAIN t = Fields, t.threads = s.threads, t.C = s.C,
         t.out = s.out
  PROVE  Mid(t, d)
<1>1. Cur(t) = Cur(s) /\ L(t) = L(s) /\ Busy(t) = Busy(s)
  BY DEF Cur, L, Busy
<1>2. Frames(t)
  BY <1>1 DEF Mid, Common, Frames, Placed, Cis
<1>3. Shaped(t)
  BY DEF Mid, Common, Shaped
<1>4. Waiting(t) /\ Others(t)
  BY <1>1 DEF Mid, Common, Waiting, Others, Cis
<1> QED
  BY <1>1, <1>2, <1>3, <1>4 DEF Mid, Common

-----------------------------------------------------------------------------
(* Calls.  A call fails, or calls a C function, or starts a Lua function: by *)
(* OP_CALL in the activation that runs, from C in one of its own.            *)
CalledC(s, r) == Mid(r, 1) /\ r.cfun # NIL /\ r.C = s.C
Entering(s, op, r) ==
  Mid(r, 0) /\ r.cfun = NIL /\
  IF op THEN r.C = Counted(s, Last(s.C).n + 1).C ELSE Len(r.C) = Len(s.C) + 1
Precall(s, op, r) == Thrown(s, r) \/ CalledC(s, r) \/ Entering(s, op, r)

(* The frame of a Lua function is made.                                      *)
LEMMA FramedMid ==
  ASSUME NEW s, NEW func, NEW nresults, NEW p, Mid(s, 0)
  PROVE  LET a == IF p.is_vararg = {} THEN Plain(s, func, p)
                  ELSE adjust_varargs(s, func, p, Slots(s, func + 1, L(s).top))
             t == Framed(a, func, nresults, p)
         IN Mid(t, 1) /\ t.C = s.C /\ t.cfun = s.cfun
<1> DEFINE a == IF p.is_vararg = {} THEN Plain(s, func, p)
                ELSE adjust_varargs(s, func, p, Slots(s, func + 1, L(s).top))
           t == Framed(a, func, nresults, p)
<1>1. Ready(s)
  BY MidIs
<1>2. Plain(s, func, p).s = s
  BY DEF Plain
<1>3. Moves(s, a.s, 0)
  BY <1>1, <1>2, StaysSelf, StaysVarargs
<1> HIDE DEF a
<1>4. Moves(a.s, t, 1)
  BY <1>3, MovesReady, MovesEntered DEF Framed
<1> HIDE DEF t
<1>5. Moves(s, t, 1)
  BY <1>1, <1>3, <1>4, StaysOn
<1>6. Mid(t, 0 + 1)
  BY <1>5, MovesMid
<1>7. 0 + 1 = 1
  OBVIOUS
<1>8. Mid(t, 1) /\ t.C = s.C /\ t.cfun = s.cfun
  BY <1>5, <1>6, <1>7 DEF Moves
<1> QED
  BY <1>8 DEF t, a

(* The activation of the interpreter that runs it: the same, or one more.    *)
LEMMA ActivatedMid ==
  ASSUME NEW t, NEW op \in BOOLEAN, Mid(t, 1), op => Last(t.C).k = "execute"
  PROVE  Mid(Activated(t, op), 0) /\ Activated(t, op).cfun = t.cfun
         /\ IF op THEN Activated(t, op).C = Counted(t, Last(t.C).n + 1).C
            ELSE Len(Activated(t, op).C) = Len(t.C) + 1
<1>1. /\ Common(t) /\ Ready(t) /\ Above(Last(t.C)) \in Nat /\ Above(Last(t.C)) >= 1
      /\ Last(t.C) = t.C[Len(t.C)] /\ Len(t.C) \in DOMAIN t.C /\ DOMAIN t = Fields
  BY MidIs DEF Mid, Common, Shaped
<1>2. CASE op
  <2> DEFINE n == Last(t.C).n
             u == Counted(t, n + 1)
  <2>1. Activated(t, op) = u
    BY <1>1, <1>2 DEF Activated, Counted, Fields
  <2>2. n \in Nat /\ n + 1 \in Nat /\ n + 1 >= 1
    <3>1. Placed(t, t.C[Len(t.C)])
      BY <1>1 DEF Common, Frames
    <3>2. n \in Nat
      BY <1>1, <1>2, <3>1 DEF Placed
    <3> QED
      BY <3>2
  <2>3. u.cfun = t.cfun
    BY <1>1 DEF Counted, Fields
  <2> HIDE DEF n
  <2>4. Mid(u, 1 + n - (n + 1))
    BY <1>2, <2>2, CountedMid DEF n
  <2>5. 1 + n - (n + 1) = 0
    BY <2>2
  <2> HIDE DEF u
  <2>6. Mid(u, 0)
    BY <2>4, <2>5
  <2> QED
    BY <1>2, <2>1, <2>3, <2>6 DEF u, n
<1>3. CASE ~op
  <2> DEFINE f == [k |-> "execute", th |-> Cur(t), ci |-> Len(L(t).ci) - 1, n |-> 1]
             u == PushC(t, f)
  <2>1. Activated(t, op) = u
    BY <1>3 DEF Activated
  <2>2. Len(L(t).ci) = Above(Last(t.C)) + 1
    BY DEF Mid
  <2>3. f.ci = Above(Last(t.C)) + Own(f) /\ Above(f) = Len(L(t).ci)
    BY <1>1, <2>2 DEF Own, CKinds, Above
  <2>4. Sits(t, f)
    BY <2>3 DEF Sits
  <2>5. f.k # "resume"
    OBVIOUS
  <2> HIDE DEF f
  <2>6. Common(u) /\ Last(u.C) = f /\ L(u) = L(t) /\ u.cfun = t.cfun /\ u.C = Append(t.C, f)
    BY <1>1, <2>4, PushedCommon DEF Mid
  <2> HIDE DEF u
  <2>7. Len(u.C) = Len(t.C) + 1
    BY <1>1, <2>6, CommonIs, SeqAppend
  <2>8. Len(L(u).ci) = Above(Last(u.C)) + 0
    BY <1>1, <2>2, <2>3, <2>6
  <2> QED
    BY <1>3, <2>1, <2>5, <2>6, <2>7, <2>8 DEF Mid
<1> QED
  BY <1>2, <1>3

(* The call of a function.                                                   *)
LEMMA PrecalledMid ==
  ASSUME NEW s, NEW v, NEW func, NEW nresults, NEW op \in BOOLEAN, Mid(s, 0), s.cfun = NIL,
         op => Last(s.C).k = "execute", v # NIL
  PROVE  Precall(s, op, Precalled(s, v, func, nresults, op))
<1> DEFINE u == PushCi(s, func, func + 1, L(s).top, nresults)
           w == [u EXCEPT !.cfun = v]
           e == Enter(s, v, func, nresults, op)
<1>1. Ready(s) /\ DOMAIN s = Fields
  BY MidIs DEF Mid, Common, Shaped
<1>2. Precalled(s, v, func, nresults, op) \in {luaG_runerror(s, <<"stack overflow">>), e, w}
  BY DEF Precalled
<1>3. Thrown(s, luaG_runerror(s, <<"stack overflow">>))
  BY ThrowsAll
<1>4. Entering(s, op, e)
  <2> DEFINE p == ProtoOf(s, v[2])
             a == IF p.is_vararg = {} THEN Plain(s, func, p)
                  ELSE adjust_varargs(s, func, p, Slots(s, func + 1, L(s).top))
             t == Framed(a, func, nresults, p)
  <2>1. e = Activated(t, op)
    BY DEF Enter
  <2> HIDE DEF p
  <2>2. Mid(t, 1) /\ t.C = s.C /\ t.cfun = s.cfun
    BY FramedMid
  <2> HIDE DEF t, a, e
  <2>3. Mid(e, 0) /\ e.cfun = NIL
        /\ IF op THEN e.C = Counted(t, Last(t.C).n + 1).C ELSE Len(e.C) = Len(t.C) + 1
    BY <2>1, <2>2, ActivatedMid
  <2>4. DOMAIN t = Fields
    BY <2>2 DEF Mid, Common, Shaped
  <2>5. \A n : Counted(t, n).C = Counted(s, n).C
    BY <1>1, <2>2, <2>4 DEF Counted, Fields
  <2> QED
    BY <2>2, <2>3, <2>5 DEF Entering
<1>5. CalledC(s, w)
  <2>1. Moves(s, u, 1)
    BY <1>1, MovesPushCi
  <2> HIDE DEF u
  <2>2. Mid(u, 0 + 1)
    BY <2>1, MovesMid
  <2>3. Mid(u, 1) /\ u.C = s.C /\ DOMAIN u = Fields
    <3>1. 0 + 1 = 1
      OBVIOUS
    <3> QED
      BY <2>1, <2>2, <3>1 DEF Moves, Ready, Shaped
  <2>4. /\ DOMAIN w = Fields /\ w.threads = u.threads /\ w.C = u.C /\ w.out = u.out /\ w.cfun = v
    BY <2>3 DEF Fields
  <2> HIDE DEF w
  <2>5. Mid(w, 1)
    BY <2>3, <2>4, SameMid
  <2> QED
    BY <2>3, <2>4, <2>5 DEF CalledC
<1> QED
  BY <1>2, <1>3, <1>4, <1>5 DEF Precall

(* The call of a value: a function, or its tag method __call.                *)
LEMMA PrecallMid ==
  ASSUME NEW s, NEW func, NEW nresults, NEW op \in BOOLEAN, Mid(s, 0), s.cfun = NIL,
         op => Last(s.C).k = "execute"
  PROVE  Precall(s, op, luaD_precall(s, func, nresults, op))
<1> DEFINE v == Val(s, func)
           tm == luaT_gettmbyobj(s, v, "__call")
           t == SetFrom(s, func, <<tm>> \o Slots(s, func, L(s).top))
           u == Top(t, L(s).top + 1)
<1>1. Ready(s)
  BY MidIs
<1>2. Moves(s, t, 0)
  BY <1>1, StaysSetFrom
<1>3. \/ ttisfunction(v) /\ luaD_precall(s, func, nresults, op) = Precalled(s, v, func, nresults, op)
      \/ ttisfunction(tm) /\ luaD_precall(s, func, nresults, op) = Precalled(u, tm, func, nresults, op)
      \/ luaD_precall(s, func, nresults, op) = luaG_typeerror(s, v, func, "call")
  BY DEF luaD_precall, tryfuncTM
<1>4. \A x : ttisfunction(x) => x # NIL
  BY DEF ttisfunction, NIL
<1> HIDE DEF t, v, tm
<1>5. Moves(t, u, 0)
  BY <1>2, MovesReady, StaysTop
<1> HIDE DEF u
<1>6. Moves(s, u, 0)
  BY <1>1, <1>2, <1>5, StaysOn
<1>7. Mid(u, 0) /\ u.C = s.C /\ u.cfun = NIL /\ DOMAIN u = Fields /\ DOMAIN s = Fields
  <2>1. Mid(u, 0 + 0)
    BY <1>6, MovesMid
  <2>2. 0 + 0 = 0
    OBVIOUS
  <2> QED
    BY <1>1, <1>6, <2>1, <2>2 DEF Moves, Ready, Shaped
<1>8. Thrown(s, luaG_typeerror(s, v, func, "call"))
  BY ThrowsAll
<1>9. ttisfunction(v) => Precall(s, op, Precalled(s, v, func, nresults, op))
  BY <1>4, PrecalledMid
<1>10. ttisfunction(tm) => Precall(u, op, Precalled(u, tm, func, nresults, op))
  BY <1>4, <1>7, PrecalledMid
<1>11. \A n : Counted(u, n).C = Counted(s, n).C
  BY <1>7 DEF Counted, Fields
<1>12. \A r : Precall(u, op, r) => Precall(s, op, r)
  BY <1>7, <1>11 DEF Precall, Thrown, CalledC, Entering
<1> QED
  BY <1>3, <1>8, <1>9, <1>10, <1>12 DEF Precall

(* All three ways leave the machine well.                                    *)
LEMMA PrecallGood ==
  ASSUME NEW s, NEW op, NEW r, Precall(s, op, r)
  PROVE  Good(r)
BY DEF Precall, Thrown, CalledC, Entering, Good

(* A call from C.                                                            *)
LEMMA CallGood ==
  ASSUME NEW s, NEW func, NEW nresults, NEW frame, Fits(s, frame)
  PROVE  Good(luaD_call(s, func, nresults, frame))
<1> DEFINE t == PushC(s, frame)
<1>1. luaD_call(s, func, nresults, frame) = luaD_precall(t, func, nresults, FALSE)
      \/ \E v : luaD_call(s, func, nresults, frame) = luaD_throw(t, v)
  BY DEF luaD_call, luaG_runerror
<1>2. Mid(t, 0) /\ t.cfun = NIL
  BY PushedCall
<1> HIDE DEF t
<1>3. Good(luaD_precall(t, func, nresults, FALSE))
  BY <1>2, PrecallMid, PrecallGood
<1>4. \A v : Good(luaD_throw(t, v))
  BY <1>2, ThrowsAll DEF Thrown, Good
<1> QED
  BY <1>1, <1>3, <1>4

(* What waits for a call still fits where only data and stacks have          *)
(* changed.                                                                  *)
LEMMA FitsOn ==
  ASSUME NEW s, NEW t, NEW f, Fits(s, f), Moves(s, t, 0)
  PROVE  Fits(t, f)
<1>1. Own(f) \in Int /\ Own(f) + 0 = Own(f)
  BY DEF Own
<1>2. Mid(t, Own(f))
  BY <1>1, MovesMid DEF Fits
<1>3. Cur(t) = Cur(s) /\ Len(L(t).ci) = Len(L(s).ci)
  BY CisNat, MidIs DEF Fits, Moves, Cur
<1> QED
  BY <1>2, <1>3 DEF Fits, Moves

(* A function is called above the top.                                       *)
LEMMA CallTMGood ==
  ASSUME NEW s, NEW f, NEW ps, NEW nresults, NEW frame, Fits(s, frame)
  PROVE  Good(callTM(s, f, ps, nresults, frame))
<1>1. Moves(s, Push(s, <<f>> \o ps), 0)
  BY MidIs, StaysPush DEF Fits
<1>2. Fits(Push(s, <<f>> \o ps), frame)
  BY <1>1, FitsOn
<1> QED
  BY <1>2, CallGood DEF callTM

-----------------------------------------------------------------------------
(* Coroutines.  A thread is changed but for its CallInfos and its status.    *)
LEMMA StaysThread ==
  ASSUME NEW s, NEW x, NEW l, NEW t, Ready(s), DOMAIN t = Fields, t.C = s.C, t.cfun = s.cfun,
         t.out = s.out, t.threads = [s.threads EXCEPT ![x] = l],
         x \in DOMAIN s.threads => l.ci = s.threads[x].ci /\ l.status = s.threads[x].status
                                   /\ DOMAIN l = DOMAIN s.threads[x]
  PROVE  Moves(s, t, 0)
<1>1. IsSeq(t.threads) /\ DOMAIN t.threads = DOMAIN s.threads
  <2>1. IsSeq(s.threads)
    BY DEF Ready, Shaped
  <2>2. t.threads = [s.threads EXCEPT ![x] = l]
    OBVIOUS
  <2> QED
    BY ONLY <2>1, <2>2, SeqReplaced
<1>2. ASSUME NEW y \in DOMAIN s.threads
      PROVE  /\ Unmoved(s.threads[y], t.threads[y])
             /\ DOMAIN t.threads[y] = ThreadFields /\ IsSeq(t.threads[y].ci)
  <2>1. DOMAIN s.threads[y] = ThreadFields /\ IsSeq(s.threads[y].ci)
    BY DEF Ready, Shaped
  <2>2. CASE x = y
    BY <2>1, <2>2 DEF Unmoved
  <2>3. CASE x # y
    BY <2>1, <2>3 DEF Unmoved
  <2> QED
    BY <2>2, <2>3
<1>3. Cur(t) = Cur(s) /\ Cur(s) \in DOMAIN s.threads
  BY DEF Cur, Ready
<1>4. L(t).status = L(s).status /\ Len(L(t).ci) = Len(L(s).ci) + 0
  <2>1. Unmoved(L(s), L(t))
    BY <1>2, <1>3 DEF L
  <2>2. Len(L(s).ci) + 0 = Len(L(s).ci)
    BY CisNat
  <2> QED
    BY <2>1, <2>2 DEF Unmoved
<1>5. Ready(t)
  BY <1>1, <1>2, <1>3 DEF Ready, Shaped
<1> QED
  BY <1>1, <1>2, <1>4, <1>5 DEF Moves

(* A suspended coroutine has no activation.                                  *)
LEMMA SuspendedIs ==
  ASSUME NEW s, Common(s), Last(s.C).k # "resume", NEW co \in Suspended(s)
  PROVE  /\ co \in DOMAIN s.threads /\ co # Cur(s) /\ co \notin Busy(s)
         /\ Cis(s, co) \in Nat /\ DOMAIN s.threads[co] = ThreadFields
         /\ \/ s.threads[co].status = "yield" /\ Cis(s, co) >= 2
            \/ s.threads[co].status = "ok" /\ Cis(s, co) = 1
<1>1. co \in DOMAIN s.threads /\ co # Cur(s)
      /\ (s.threads[co].status = "yield" \/ (s.threads[co].status = "ok" /\ Cis(s, co) = 1))
  BY DEF Suspended, Unstarted, Cis
<1>2. co \notin Busy(s)
  <2>1. SUFFICES ASSUME co \in Busy(s) PROVE FALSE
    OBVIOUS
  <2>2. PICK i \in DOMAIN s.C : s.C[i].th = co
    BY <2>1, BusyIs
  <2>3. s.threads[co].status = "ok" /\ Cis(s, co) >= 2
    BY <1>1, <2>2 DEF Common, Frames, Placed
  <2> QED
    BY <1>1, <2>3
<1>3. Cis(s, co) \in Nat /\ DOMAIN s.threads[co] = ThreadFields
  BY <1>1, SeqIs DEF Common, Shaped, Cis
<1>4. s.threads[co].status = "yield" => Cis(s, co) >= 2
  BY <1>1, <1>2 DEF Common, Others, Idle, Cis
<1> QED
  BY <1>1, <1>2, <1>3, <1>4

(* What is on the C stack when a coroutine is resumed.                       *)
Resume(s, co, wrap) ==
  [k |-> "resume", th |-> Cur(s), ci |-> Len(L(s).ci), co |-> co, wrap |-> wrap]
Anew(co) == [k |-> "execute", th |-> co, ci |-> 1, n |-> 0]

(* A coroutine that waits for nobody is resumed.                             *)
LEMMA ResumedCommon ==
  ASSUME NEW s, NEW t, NEW co, NEW wrap, Mid(s, 1), co \in DOMAIN s.threads, co # Cur(s),
         co \notin Busy(s), Shaped(t), t.out = <<>>, t.C = s.C \o <<Resume(s, co, wrap), Anew(co)>>,
         DOMAIN t.threads = DOMAIN s.threads,
         \A th \in DOMAIN s.threads : th # co => Unmoved(s.threads[th], t.threads[th]),
         t.threads[co].status = "ok"
  PROVE  /\ Common(t) /\ Last(t.C) = Anew(co) /\ Cur(t) = co
         /\ Len(t.C) = Len(s.C) + 2 /\ t.C[Len(s.C) + 1].k = "resume"
<1> DEFINE N == Len(s.C)
           W == Resume(s, co, wrap)
           E == Anew(co)
           M == Cis(s, Cur(s))
<1>1. /\ IsSeq(s.C) /\ DOMAIN s.C = 1..N /\ N \in 1..N /\ N \in Nat /\ Common(s)
      /\ Last(s.C) = s.C[N] /\ Cur(s) = s.C[N].th /\ s.C[N].k # "resume"
      /\ Cur(s) \in DOMAIN s.threads
  BY CommonIs DEF Mid, Ready
<1>2. /\ Above(s.C[N]) \in Nat /\ Above(s.C[N]) >= 1 /\ s.C[N].ci \in Nat
      /\ s.C[N].ci <= Above(s.C[N]) /\ M = Above(s.C[N]) + 1
  <2>1. Above(s.C[N]) \in Nat /\ Above(s.C[N]) >= 1 /\ s.C[N].ci \in Nat
        /\ s.C[N].ci <= Above(s.C[N])
    BY <1>1, AboveIs
  <2> QED
    BY <1>1, <2>1 DEF Mid, Cis, L
<1>3. /\ W.k = "resume" /\ W.th = Cur(s) /\ W.ci = M /\ W.co = co /\ Own(W) = 1
      /\ {"k", "th", "ci"} \subseteq DOMAIN W
      /\ E.k = "execute" /\ E.th = co /\ E.ci = 1 /\ E.n = 0 /\ DOMAIN E = {"k", "th", "ci", "n"}
  BY DEF Resume, Anew, Own, CKinds, Cis, L
<1>4. /\ IsSeq(t.C) /\ Len(t.C) = N + 2 /\ t.C[N + 1] = W /\ t.C[N + 2] = E
      /\ \A i \in 1..N : t.C[i] = s.C[i]
  <2>1. t.C = s.C \o <<W, E>>
    OBVIOUS
  <2> HIDE DEF W, E
  <2>2. IsSeq(s.C)
    BY <1>1
  <2> DEFINE q == s.C \o <<W, E>>
  <2>3. /\ IsSeq(q) /\ Len(q) = Len(s.C) + 2
        /\ \A i \in 1..Len(s.C) : q[i] = s.C[i]
        /\ q[Len(s.C) + 1] = W /\ q[Len(s.C) + 2] = E
    BY <2>2, SeqTwoMore
  <2> HIDE DEF q
  <2>4. t.C = q
    BY <2>1 DEF q
  <2> QED
    BY <2>3, <2>4
<1> HIDE DEF W, E, N, M
<1>5. /\ DOMAIN t.C = 1..N + 2
      /\ \A i \in 1..N + 2 : i \in 1..N \/ i = N + 1 \/ i = N + 2
      /\ N + 1 \in 1..N + 2 /\ N + 2 \in 1..N + 2 /\ 1..N \subseteq 1..N + 2
      /\ N + 1 # N + 2 /\ N + 1 \notin 1..N /\ N + 2 \notin 1..N /\ N + 1 + 1 = N + 2
  <2>1. N \in Nat /\ DOMAIN t.C = 1..Len(t.C) /\ Len(t.C) = N + 2
    BY <1>1, <1>4, SeqIs
  <2>2. /\ \A i \in 1..N + 2 : i \in 1..N \/ i = N + 1 \/ i = N + 2
        /\ N + 1 \in 1..N + 2 /\ N + 2 \in 1..N + 2 /\ 1..N \subseteq 1..N + 2
        /\ N + 1 # N + 2 /\ N + 1 \notin 1..N /\ N + 2 \notin 1..N /\ N + 1 + 1 = N + 2
    BY ONLY <2>1
  <2> QED
    BY ONLY <2>1, <2>2
<1>6. Last(t.C) = E /\ Cur(t) = co
  BY <1>3, <1>4 DEF Last, Cur
<1>7. \A i \in 1..N : /\ s.C[i].th # co /\ s.C[i].th \in DOMAIN s.threads
                      /\ s.C[i].k = "resume" => s.C[i].co # co
  BY <1>1 DEF Busy, Common, Frames, Placed
<1>8. ASSUME NEW th \in DOMAIN s.threads, th # co
      PROVE  Cis(t, th) = Cis(s, th) /\ t.threads[th].status = s.threads[th].status
  BY <1>8 DEF Cis, Unmoved
<1>9. ASSUME NEW i \in 1..N, s.C[i].th = Cur(s)
      PROVE  Above(s.C[i]) <= M /\ s.C[i].ci <= M /\ Above(s.C[i]) \in Nat
  <2>1. Above(s.C[i]) \in Nat /\ s.C[i].ci \in Nat /\ s.C[i].ci <= Above(s.C[i])
    BY <1>1, AboveIs
  <2>2. CASE i = N
    BY <1>2, <2>1, <2>2
  <2>3. CASE i # N
    <3>1. i < N
      BY <1>1, <2>3
    <3>2. Above(s.C[i]) <= s.C[N].ci
      BY <1>1, <1>9, <3>1 DEF Common, Nested
    <3> QED
      BY <1>2, <2>1, <3>2
  <2> QED
    BY <2>2, <2>3
<1>10. Frames(t)
  <2>1. ASSUME NEW i \in 1..N PROVE Placed(t, s.C[i])
    <3>1. Placed(s, s.C[i])
      BY <1>1 DEF Common, Frames
    <3>2. Cis(s, s.C[i].th) >= 2 /\ s.C[i].ci <= Cis(s, s.C[i].th)
      <4>1. CASE s.C[i].th = Cur(s)
        BY <1>2, <1>9, <4>1 DEF M
      <4>2. CASE s.C[i].th # Cur(s)
        BY <3>1, <4>2 DEF Placed
      <4> QED
        BY <4>1, <4>2
    <3> QED
      BY <1>7, <1>8, <3>1, <3>2 DEF Placed
  <2>2. Placed(t, W)
    <3>1. W.ci \in Nat \ {0} /\ Cis(t, Cur(s)) = M /\ M >= 2 /\ W.ci <= M
      BY <1>1, <1>2, <1>3, <1>8 DEF M
    <3>2. t.threads[Cur(s)].status = "ok"
      BY <1>1, <1>8, CommonIs DEF L
    <3> QED
      BY <1>1, <1>3, <1>6, <3>1, <3>2 DEF Placed
  <2>3. Placed(t, E)
    BY <1>3, <1>6 DEF Placed
  <2> QED
    BY <1>4, <1>5, <2>1, <2>2, <2>3 DEF Frames
<1>11. First(t.C)
  <2>1. 1 \in 1..N
    BY <1>1
  <2> QED
    BY <1>1, <1>4, <2>1 DEF First, Common
<1>12. Linked(t.C)
  <2>1. ASSUME NEW i \in 1..N + 1
        PROVE  IF t.C[i].k = "resume" THEN t.C[i + 1].k = "execute" /\ t.C[i + 1].ci = 1
               ELSE /\ t.C[i + 1].ci = Above(t.C[i]) + Own(t.C[i + 1])
                    /\ t.C[i + 1].k = "execute" => t.C[i + 1].n >= 1
    <3>1. CASE i = N + 1
      <4>1. t.C[i] = W /\ i + 1 = N + 2
        BY <1>4, <1>5, <3>1
      <4> QED
        BY <1>3, <1>4, <4>1
    <3>2. CASE i = N
      <4>1. t.C[i] = s.C[N] /\ t.C[i + 1] = W
        BY <1>1, <1>4, <3>2
      <4> QED
        BY <1>1, <1>2, <1>3, <4>1
    <3>3. CASE i # N /\ i # N + 1
      <4>1. i \in 1..N - 1 /\ i \in 1..N /\ i + 1 \in 1..N
        BY <1>1, <3>3
      <4> QED
        BY <1>1, <1>4, <4>1 DEF Common, Linked, N
    <3> QED
      BY <3>1, <3>2, <3>3
  <2>2. Len(t.C) - 1 = N + 1
    BY <1>1, <1>4
  <2> QED
    BY <2>1, <2>2 DEF Linked
<1>13. Nested(t.C)
  <2>1. ASSUME NEW i \in 1..N + 2, NEW j \in 1..N + 2, i < j, t.C[i].th = t.C[j].th
        PROVE  Above(t.C[i]) <= t.C[j].ci
    <3>1. i \in 1..N \/ i = N + 1
      BY <1>1, <1>5, <2>1
    <3>2. j # N + 2
      <4>1. CASE i \in 1..N
        BY <1>3, <1>4, <1>7, <2>1, <4>1
      <4>2. CASE i = N + 1
        BY <1>3, <1>4, <2>1, <4>2
      <4> QED
        BY <3>1, <4>1, <4>2
    <3>3. i \in 1..N
      BY <1>1, <1>5, <2>1, <3>1, <3>2
    <3>4. CASE j = N + 1
      BY <1>3, <1>4, <1>9, <2>1, <3>3, <3>4
    <3>5. CASE j \in 1..N
      BY <1>1, <1>4, <2>1, <3>3, <3>5 DEF Common, Nested
    <3> QED
      BY <1>5, <3>2, <3>4, <3>5
  <2> QED
    BY <1>5, <2>1 DEF Nested
<1>14. ASSUME NEW i \in 1..N PROVE Resumers(t.C, i) = Resumers(s.C, i) /\ Resumers(s.C, i) \subseteq 1..N
  BY <1>1, <1>4 DEF Resumers
<1>15. Resumers(t.C, N + 1) = Resumers(s.C, N)
  <2>1. \A j \in 1..N + 1 - 1 : j \in 1..N - 1 \/ j = N
    BY <1>1
  <2>2. \A j \in 1..N - 1 : j \in 1..N + 1 - 1 /\ j \in 1..N
    BY <1>1
  <2> QED
    BY <1>1, <1>4, <2>1, <2>2 DEF Resumers
<1>16. N + 1 \in Resumers(t.C, N + 2) /\ \A m \in Resumers(t.C, N + 2) : m <= N + 1
  <2>1. N + 1 \in 1..(N + 2) - 1 /\ \A m \in 1..(N + 2) - 1 : m <= N + 1
    BY <1>1
  <2>2. t.C[N + 1].k = "resume"
    BY <1>3, <1>4
  <2> QED
    BY <2>1, <2>2 DEF Resumers
<1>17. Chained(t.C)
  <2>1. ASSUME NEW i \in 1..N
        PROVE  IF Resumers(s.C, i) = {} THEN s.C[i].th = 1
               ELSE \E j \in Resumers(s.C, i) :
                      s.C[i].th = t.C[j].co /\ \A m \in Resumers(s.C, i) : m <= j
    <3>1. \A j \in Resumers(s.C, i) : t.C[j] = s.C[j]
      BY <1>4, <1>14
    <3> QED
      BY <1>1, <3>1 DEF Common, Chained
  <2>2. ASSUME NEW i \in 1..N + 2
        PROVE  IF Resumers(t.C, i) = {} THEN t.C[i].th = 1
               ELSE \E j \in Resumers(t.C, i) :
                      t.C[i].th = t.C[j].co /\ \A m \in Resumers(t.C, i) : m <= j
    <3>1. CASE i = N + 1
      <4>1. t.C[i].th = s.C[N].th
        BY <1>1, <1>3, <1>4, <3>1
      <4> QED
        BY <1>1, <1>15, <2>1, <3>1, <4>1
    <3>2. CASE i = N + 2
      <4>1. t.C[i].th = t.C[N + 1].co
        BY <1>3, <1>4, <3>2
      <4> QED
        BY <1>16, <3>2, <4>1
    <3>3. CASE i \in 1..N
      BY <1>4, <1>14, <2>1, <3>3
    <3> QED
      BY <1>5, <3>1, <3>2, <3>3
  <2> QED
    BY <1>5, <2>2 DEF Chained
<1>18. Fresh(t.C)
  <2>1. ASSUME NEW i \in 1..N + 2, NEW j \in 1..N + 2, t.C[j].k = "resume", i <= j
        PROVE  t.C[i].th # t.C[j].co
    <3>1. j # N + 2
      BY <1>3, <1>4, <2>1
    <3>2. CASE j = N + 1
      <4>1. i \in 1..N \/ i = N + 1
        BY <1>1, <1>5, <2>1, <3>2
      <4>2. t.C[j].co = co
        BY <1>3, <1>4, <3>2
      <4>3. CASE i \in 1..N
        BY <1>4, <1>7, <4>2, <4>3
      <4>4. CASE i = N + 1
        BY <1>3, <1>4, <4>2, <4>4
      <4> QED
        BY <4>1, <4>3, <4>4
    <3>3. CASE j \in 1..N
      <4>1. i \in 1..N
        BY <1>1, <2>1, <3>3
      <4> QED
        BY <1>1, <1>4, <2>1, <3>3, <4>1 DEF Common, Fresh
    <3> QED
      BY <1>5, <3>1, <3>2, <3>3
  <2> QED
    BY <1>5, <2>1 DEF Fresh
<1>19. Waiting(t)
  <2>1. ASSUME NEW j \in 1..N + 2, t.C[j].k = "resume" PROVE Cis(t, t.C[j].th) = t.C[j].ci
    <3>1. j # N + 2
      BY <1>3, <1>4, <2>1
    <3>2. CASE j = N + 1
      BY <1>1, <1>3, <1>4, <1>8, <3>2 DEF M
    <3>3. CASE j \in 1..N
      BY <1>1, <1>4, <1>7, <1>8, <2>1, <3>3 DEF Common, Waiting
    <3> QED
      BY <1>5, <3>1, <3>2, <3>3
  <2> QED
    BY <1>5, <2>1 DEF Waiting
<1>20. Others(t)
  <2>1. Busy(s) \subseteq Busy(t)
    BY <1>1, <1>4, <1>5 DEF Busy
  <2>2. co \in Busy(t)
    BY <1>3, <1>4, <1>5 DEF Busy
  <2>3. ASSUME NEW th \in DOMAIN t.threads, th \notin Busy(t) PROVE Idle(t.threads[th])
    <3>1. th # co /\ Idle(s.threads[th])
      BY <1>1, <2>1, <2>2, <2>3 DEF Common, Others
    <3> QED
      BY <3>1 DEF Unmoved, Idle
  <2> QED
    BY <2>3 DEF Others
<1>21. Common(t)
  BY <1>10, <1>11, <1>12, <1>13, <1>17, <1>18, <1>19, <1>20 DEF Common
<1> QED
  BY <1>3, <1>4, <1>6, <1>21 DEF N, E

(* A coroutine is switched to.                                               *)
LEMMA SwitchedIs ==
  ASSUME NEW s, NEW co, NEW nargs, NEW wrap, Mid(s, 1), co # Cur(s), co \in DOMAIN s.threads
  PROVE  LET w == Switched(s, co, nargs, wrap)
         IN /\ Shaped(w) /\ w.out = <<>> /\ w.cfun = s.cfun
            /\ w.C = s.C \o <<Resume(s, co, wrap), Anew(co)>>
            /\ DOMAIN w.threads = DOMAIN s.threads /\ w.threads[co] = s.threads[co]
            /\ \A th \in DOMAIN s.threads : th # co => Unmoved(s.threads[th], w.threads[th])
<1> DEFINE l == [L(s) EXCEPT !.top = @ - nargs]
           u == [s EXCEPT !.threads[Cur(s)] = l]
           w == Switched(s, co, nargs, wrap)
           E == Anew(co)
           W == Resume(s, co, wrap)
<1>1. Ready(s) /\ DOMAIN s = Fields /\ IsSeq(s.C) /\ s.out = <<>>
  BY MidIs DEF Mid, Common, Shaped
<1>2. /\ DOMAIN u = Fields /\ u.C = s.C /\ u.cfun = s.cfun /\ u.out = s.out
      /\ u.threads = [s.threads EXCEPT ![Cur(s)] = l]
  BY <1>1 DEF Fields
<1>3. /\ DOMAIN w = Fields /\ w.C = s.C \o <<W, E>> /\ w.cfun = s.cfun /\ w.out = s.out
      /\ w.threads = u.threads
  BY <1>1, <1>2 DEF Switched, Resume, Anew, Fields, L
<1>4. l.ci = L(s).ci /\ l.status = L(s).status /\ DOMAIN l = DOMAIN L(s)
  <2>1. DOMAIN L(s) = ThreadFields
    BY <1>1, ThreadShape
  <2> QED
    BY <2>1 DEF ThreadFields
<1> HIDE DEF u, w, l, E, W
<1>5. Moves(s, u, 0)
  BY <1>1, <1>2, <1>4, StaysThread DEF L
<1>6. IsSeq(s.C \o <<W, E>>)
  BY <1>1, SeqTwoMore
<1>7. Shaped(w)
  BY <1>3, <1>5, <1>6 DEF Moves, Ready, Shaped
<1>8. /\ DOMAIN w.threads = DOMAIN s.threads /\ w.threads[co] = s.threads[co]
      /\ \A th \in DOMAIN s.threads : th # co => Unmoved(s.threads[th], w.threads[th])
  <2>1. DOMAIN w.threads = DOMAIN s.threads /\ w.threads[co] = s.threads[co]
    BY <1>2, <1>3
  <2>2. ASSUME NEW th \in DOMAIN s.threads PROVE Unmoved(s.threads[th], w.threads[th])
    <3>1. CASE th = Cur(s)
      BY <1>2, <1>3, <1>4, <3>1 DEF Unmoved, L
    <3>2. CASE th # Cur(s)
      BY <1>2, <1>3, <3>2 DEF Unmoved
    <3> QED
      BY <3>1, <3>2
  <2> QED
    BY <2>1, <2>2
<1> QED
  BY <1>1, <1>3, <1>7, <1>8 DEF w, E, W

(* One that has not started: its function is called.                         *)
LEMMA StartedGood ==
  ASSUME NEW s, NEW co, NEW nargs, NEW args, NEW wrap, Mid(s, 1), s.cfun = NIL,
         co \in Suspended(s), s.threads[co].status = "ok"
  PROVE  Good(resume(Switched(s, co, nargs, wrap), co, args))
<1> DEFINE w == Switched(s, co, nargs, wrap)
           v == Push(w, args)
<1>1. /\ co \in DOMAIN s.threads /\ co # Cur(s) /\ co \notin Busy(s) /\ Cis(s, co) = 1
  BY SuspendedIs DEF Mid
<1>2. /\ Shaped(w) /\ w.out = <<>> /\ w.cfun = s.cfun
      /\ w.C = s.C \o <<Resume(s, co, wrap), Anew(co)>>
      /\ DOMAIN w.threads = DOMAIN s.threads /\ w.threads[co] = s.threads[co]
      /\ \A th \in DOMAIN s.threads : th # co => Unmoved(s.threads[th], w.threads[th])
  BY <1>1, SwitchedIs
<1> HIDE DEF w
<1>3. Common(w) /\ Last(w.C) = Anew(co) /\ Cur(w) = co
  BY <1>1, <1>2, ResumedCommon
<1>4. Mid(w, 0)
  <2>1. Len(L(w).ci) = 1
    BY <1>1, <1>2, <1>3 DEF L, Cis
  <2>2. Above(Anew(co)) = 1 /\ Anew(co).k = "execute"
    BY DEF Above, Anew
  <2> QED
    BY <1>3, <2>1, <2>2 DEF Mid
<1>5. Moves(w, v, 0)
  BY <1>4, MidIs, StaysPush
<1>6. resume(w, co, args) = luaD_precall(v, L(w).top - 1, LUA_MULTRET, TRUE)
  BY <1>2 DEF resume
<1> HIDE DEF v
<1>7. Mid(v, 0) /\ v.cfun = NIL /\ Last(v.C).k = "execute"
  <2>1. Mid(v, 0 + 0)
    BY <1>4, <1>5, MovesMid
  <2>2. 0 + 0 = 0
    OBVIOUS
  <2> QED
    BY <1>2, <1>3, <1>5, <2>1, <2>2 DEF Moves, Anew
<1>8. Good(luaD_precall(v, L(w).top - 1, LUA_MULTRET, TRUE))
  BY <1>7, PrecallMid, PrecallGood
<1> QED
  BY <1>6, <1>8 DEF w

(* One that has yielded: its call of yield ends.                             *)
LEMMA WokenGood ==
  ASSUME NEW s, NEW co, NEW nargs, NEW args, NEW wrap, Mid(s, 1), s.cfun = NIL,
         co \in Suspended(s), s.threads[co].status = "yield"
  PROVE  Good(resume(Switched(s, co, nargs, wrap), co, args))
<1> DEFINE w == Switched(s, co, nargs, wrap)
           z == Woken(w, co)
           f == Finish(z, args)
           M == Cis(s, co)
<1>1. /\ co \in DOMAIN s.threads /\ co # Cur(s) /\ co \notin Busy(s) /\ M \in Nat /\ M >= 2
      /\ DOMAIN s.threads[co] = ThreadFields
  BY SuspendedIs DEF Mid
<1>2. /\ Shaped(w) /\ w.out = <<>> /\ w.cfun = s.cfun
      /\ w.C = s.C \o <<Resume(s, co, wrap), Anew(co)>>
      /\ DOMAIN w.threads = DOMAIN s.threads /\ w.threads[co] = s.threads[co]
      /\ \A th \in DOMAIN s.threads : th # co => Unmoved(s.threads[th], w.threads[th])
  BY <1>1, SwitchedIs
<1>3. resume(w, co, args) = Goingon(f)
  BY <1>2 DEF resume
<1> HIDE DEF w
<1>4. /\ DOMAIN z = Fields /\ z.out = <<>> /\ z.cfun = NIL /\ z.C = w.C
      /\ z.threads = [w.threads EXCEPT ![co] = [s.threads[co] EXCEPT !.status = "ok"]]
  BY <1>2 DEF Woken, Shaped, Fields
<1> HIDE DEF z
<1>5. Shaped(z)
  <2>1. IsSeq(w.threads) /\ IsSeq(w.C)
    BY <1>2 DEF Shaped
  <2>2. IsSeq(z.threads) /\ DOMAIN z.threads = DOMAIN w.threads
    <3> DEFINE l == [s.threads[co] EXCEPT !.status = "ok"]
    <3>1. z.threads = [w.threads EXCEPT ![co] = l]
      BY <1>4
    <3> HIDE DEF l
    <3> QED
      BY <2>1, <3>1, SeqReplaced
  <2>3. ASSUME NEW th \in DOMAIN z.threads
        PROVE  DOMAIN z.threads[th] = ThreadFields /\ IsSeq(z.threads[th].ci)
    <3>1. DOMAIN w.threads[th] = ThreadFields /\ IsSeq(w.threads[th].ci)
      BY <1>2, <2>2 DEF Shaped
    <3>2. CASE th = co
      BY <1>2, <1>4, <3>1, <3>2 DEF ThreadFields
    <3>3. CASE th # co
      BY <1>4, <2>2, <3>1, <3>3
    <3> QED
      BY <3>2, <3>3
  <2> QED
    BY <1>4, <2>1, <2>2, <2>3 DEF Shaped
<1>6. /\ DOMAIN z.threads = DOMAIN s.threads /\ z.threads[co].status = "ok" /\ Cis(z, co) = M
      /\ \A th \in DOMAIN s.threads : th # co => Unmoved(s.threads[th], z.threads[th])
  BY <1>1, <1>2, <1>4 DEF Unmoved, Cis, ThreadFields
<1>7. /\ Common(z) /\ Last(z.C) = Anew(co) /\ Cur(z) = co
      /\ Len(z.C) = Len(s.C) + 2 /\ z.C[Len(s.C) + 1].k = "resume"
  <2>1. z.C = s.C \o <<Resume(s, co, wrap), Anew(co)>> /\ z.out = <<>>
    BY <1>2, <1>4
  <2>2. Mid(s, 1)
    OBVIOUS
  <2> HIDE DEF M
  <2> QED
    BY ONLY <1>1, <1>5, <1>6, <2>1, <2>2, ResumedCommon
<1> HIDE DEF M
<1>8. Mid(z, M - 1) /\ Len(L(z).ci) = M
  <2>1. Len(L(z).ci) = M
    BY <1>6, <1>7 DEF L, Cis
  <2>2. Above(Anew(co)) = 1 /\ Anew(co).k = "execute"
    BY DEF Above, Anew
  <2>3. 1 + (M - 1) = M
    BY <1>1
  <2> QED
    BY <1>7, <2>1, <2>2, <2>3 DEF Mid
<1>9. Moves(z, f, -1)
  BY <1>1, <1>8, MidIs, MovesFinish
<1> HIDE DEF f
<1>10. Mid(f, M - 2) /\ f.C = z.C /\ f.cfun = NIL /\ Len(L(f).ci) - 1 = M - 2
  <2>1. Mid(f, M - 1 + -1)
    <3>1. M - 1 \in Int /\ -1 \in Int
      BY <1>1
    <3> QED
      BY <1>8, <1>9, <3>1, MovesMid
  <2>2. M - 1 + -1 = M - 2 /\ M + -1 - 1 = M - 2
    BY <1>1
  <2>3. f.C = z.C /\ f.cfun = NIL /\ Len(L(f).ci) = M + -1
    BY <1>4, <1>8, <1>9 DEF Moves
  <2> QED
    BY <2>1, <2>2, <2>3
<1>11. Alone(f.C) /\ Last(f.C).k = "execute" /\ Last(f.C).n = 0
  <2>1. Len(f.C) - 1 = Len(s.C) + 1
    BY <1>7, <1>10, CommonIs DEF Mid
  <2> QED
    BY <1>7, <1>10, <2>1 DEF Alone, Anew
<1>12. Mid(Counted(f, M - 2), 0)
  <2>1. Mid(Counted(f, M - 2), M - 2 + Last(f.C).n - (M - 2))
    BY <1>1, <1>10, <1>11, CountedMid
  <2>2. M - 2 + 0 - (M - 2) = 0
    BY <1>1
  <2> QED
    BY <1>11, <2>1, <2>2
<1>13. Goingon(f) = Counted(f, M - 2) /\ Counted(f, M - 2).cfun = NIL
  <2>1. DOMAIN f = Fields
    BY <1>10 DEF Mid, Common, Shaped
  <2> QED
    BY <1>10, <2>1 DEF Goingon, Counted, Fields
<1> QED
  BY <1>3, <1>12, <1>13 DEF Good, w

(* What an error, and the end of a C function, leave.                        *)
LEMMA ThrownGood == ASSUME NEW s, NEW r, Thrown(s, r) PROVE Good(r)
BY DEF Thrown, Good

(* A C function that ends leaves the machine well.                           *)
LEMMA FinishGood ==
  ASSUME NEW s, Mid(s, 1), s.cfun = NIL
  PROVE  \A vals : Good(Finish(s, vals))
BY FinishMid DEF Good

(* So does an error.                                                         *)
LEMMA ThrowsGood ==
  ASSUME NEW s, NEW d \in Nat, Mid(s, d), s.cfun = NIL
  PROVE  /\ \A v : Good(luaD_throw(s, v))
         /\ \A msg : Good(luaG_runerror(s, msg)) /\ Good(luaL_error(s, msg))
         /\ \A v, where, op : Good(luaG_typeerror(s, v, where, op))
BY ThrowsAll, ThrownGood

(* resume and wrap: a coroutine goes on, starts, or refuses.                 *)
LEMMA AuxresumeGood ==
  ASSUME NEW s, NEW co, NEW args, NEW wrap, Mid(s, 1), s.cfun = NIL
  PROVE  Good(auxresume(s, co, args, wrap))
<1> DEFINE may == co \in Suspended(s)
           e == IF may THEN <<"C stack overflow">> ELSE <<"cannot resume", costatus(s, co)>>
           l == [s.threads[co] EXCEPT !.top = Last(s.threads[co].ci).base]
           t == [s EXCEPT !.threads[co].top = Last(s.threads[co].ci).base]
           lost == IF may THEN t ELSE s
           q == resume(Switched(s, co, Len(args), wrap), co, args)
<1>1. /\ may /\ auxresume(s, co, args, wrap) = q
      \/ auxresume(s, co, args, wrap) = luaL_error(lost, e)
      \/ auxresume(s, co, args, wrap) = Failed(lost, Str(e))
  BY DEF auxresume
<1>2. may => Good(q)
  <2>1. may => s.threads[co].status \in {"yield", "ok"}
    BY SuspendedIs DEF Mid
  <2> QED
    BY <2>1, StartedGood, WokenGood
<1>3. may => Moves(s, t, 0)
  <2>1. Ready(s) /\ DOMAIN s = Fields
    BY MidIs DEF Mid, Common, Shaped
  <2>2. may => DOMAIN s.threads[co] = ThreadFields
    BY SuspendedIs DEF Mid
  <2>3. /\ DOMAIN t = Fields /\ t.C = s.C /\ t.cfun = s.cfun /\ t.out = s.out
        /\ t.threads = [s.threads EXCEPT ![co] = l]
    BY <2>1 DEF Fields
  <2>4. may => l.ci = s.threads[co].ci /\ l.status = s.threads[co].status
               /\ DOMAIN l = DOMAIN s.threads[co]
    BY <2>2 DEF ThreadFields
  <2> HIDE DEF t, l, may
  <2> QED
    BY <2>1, <2>3, <2>4, StaysThread
<1>4. Moves(s, lost, 0)
  BY <1>3, MidIs, StaysSelf
<1> HIDE DEF may, e, lost, q
<1>5. Mid(lost, 1) /\ lost.cfun = NIL
  <2>1. Mid(lost, 1 + 0)
    BY <1>4, MovesMid
  <2>2. 1 + 0 = 1
    OBVIOUS
  <2> QED
    BY <1>4, <2>1, <2>2 DEF Moves
<1>6. Good(luaL_error(lost, e)) /\ Good(Failed(lost, Str(e)))
  BY <1>5, ThrowsGood, FinishGood DEF Failed
<1> QED
  BY <1>1, <1>2, <1>6

(* A coroutine yields: what was resumed below it goes on.                    *)
LEMMA YieldGood ==
  ASSUME NEW s, NEW args, Mid(s, 1), s.cfun = NIL
  PROVE  Good(lua_yield(s, args))
<1> DEFINE N == Len(s.C)
           across == N < 2 \/ s.C[N].k # "execute" \/ s.C[N - 1].k # "resume"
           top == L(s).top - Len(args)
           l == [L(s) EXCEPT !.status = "yield", !.top = top, !.base = top]
           out == [s EXCEPT !.threads[Cur(s)] = l, !.C = SubSeq(@, 1, N - 2)]
<1>1. across => lua_yield(s, args) = luaG_runerror(s, <<"attempt to yield across metamethod/C-call boundary">>)
  BY DEF lua_yield
<1>2. ~across => \E vals : lua_yield(s, args) = Finish(out, vals)
  <2> DEFINE vals == (IF s.C[N - 1].wrap THEN <<>> ELSE <<Bool(TRUE)>>) \o args
  <2>1. ~across => lua_yield(s, args) = Finish(out, vals)
    BY DEF lua_yield
  <2> QED
    BY <2>1
<1>3. CASE across
  BY <1>1, <1>3, ThrowsGood
<1>4. CASE ~across
  <2>1. /\ Common(s) /\ IsSeq(s.C) /\ DOMAIN s.C = 1..N /\ N \in Nat /\ N >= 2
        /\ s.C[N].k = "execute" /\ s.C[N - 1].k = "resume" /\ s.C[1].k = "execute"
        /\ Cur(s) = s.C[N].th /\ Ready(s) /\ L(s).status = "ok" /\ DOMAIN s = Fields
    BY <1>4, CommonIs DEF Mid, Common, Shaped, First
  <2> HIDE DEF N
  <2>2. N - 1 # 1 /\ N - 1 \in 1..N /\ N - 2 \in 1..N /\ N - 2 >= 1 /\ N - 1 - 1 = N - 2
        /\ N - 1 < N /\ N \in 1..N /\ N - 1 + 1 = N
    <3>1. N - 1 # 1
      BY <2>1
    <3> QED
      BY <2>1, <3>1
  <2>3. /\ s.C[N - 2].k # "resume" /\ s.C[N - 1].ci = Above(s.C[N - 2]) + Own(s.C[N - 1])
        /\ s.C[N - 2].th = s.C[N - 1].th
    BY <2>1, <2>2, CallOver
  <2>4. s.C[N - 1].th # Cur(s) /\ s.C[N - 1].co = Cur(s)
    BY <2>1, <2>2, Waits DEF N, Common
  <2>5. DOMAIN L(s) = ThreadFields /\ Cur(s) \in DOMAIN s.threads
    BY <2>1, ThreadShape DEF Ready
  <2>6. DOMAIN l = ThreadFields /\ l.status = "yield" /\ l.ci = L(s).ci
    BY <2>5 DEF ThreadFields
  <2>7. /\ DOMAIN out = Fields /\ out.cfun = NIL /\ out.out = s.out
        /\ out.threads = [s.threads EXCEPT ![Cur(s)] = l] /\ out.C = SubSeq(s.C, 1, N - 2)
    BY <2>1 DEF Fields
  <2> HIDE DEF l, out
  <2>8. IsSeq(out.C) /\ Len(out.C) = N - 2 /\ \A i \in 1..N - 2 : out.C[i] = s.C[i]
    <3>1. N - 2 \in 0..Len(s.C)
      BY <2>1, <2>2 DEF N
    <3> QED
      BY <2>1, <2>7, <3>1, SeqSub
  <2>9. Shaped(out) /\ DOMAIN out.threads = DOMAIN s.threads
    <3>1. IsSeq(s.threads)
      BY <2>1 DEF Common, Shaped
    <3>2. IsSeq(out.threads) /\ DOMAIN out.threads = DOMAIN s.threads
      BY <2>7, <3>1, SeqReplaced
    <3>3. ASSUME NEW th \in DOMAIN s.threads
          PROVE  DOMAIN out.threads[th] = ThreadFields /\ IsSeq(out.threads[th].ci)
      <4>1. DOMAIN s.threads[th] = ThreadFields /\ IsSeq(s.threads[th].ci)
        BY <2>1 DEF Common, Shaped
      <4>2. CASE th = Cur(s)
        BY <2>6, <2>7, <4>1, <4>2 DEF L
      <4>3. CASE th # Cur(s)
        BY <2>7, <4>1, <4>3
      <4> QED
        BY <4>2, <4>3
    <3> QED
      BY <2>7, <2>8, <3>2, <3>3 DEF Shaped
  <2>10. Cur(s) \notin Busy(out)
    <3>1. DOMAIN out.C = 1..N - 2
      BY <2>8, SeqIs
    <3>2. \A i \in 1..N - 2 : i \in 1..(N - 1) - 1
      BY <2>2
    <3>3. ASSUME NEW i \in 1..N - 2
          PROVE  s.C[i].th # Cur(s) /\ (s.C[i].k = "resume" => s.C[i].co # Cur(s))
      <4>1. N - 1 \in DOMAIN s.C /\ i \in 1..(N - 1) - 1 /\ N - 1 <= N - 1
        BY <2>1, <2>2, <3>2
      <4> QED
        BY <2>1, <2>4, <4>1, DyingOnly
    <3> QED
      BY <2>8, <3>1, <3>3 DEF Busy
  <2>11. ASSUME NEW th \in DOMAIN s.threads
         PROVE  IF th \in Busy(out) THEN Unmoved(s.threads[th], out.threads[th]) ELSE Idle(out.threads[th])
    <3>1. CASE th = Cur(s)
      <4>1. Len(L(s).ci) >= 2
        <5>1. Above(Last(s.C)) \in Nat /\ Above(Last(s.C)) >= 1
          BY MidIs
        <5> QED
          BY <5>1 DEF Mid
      <4> QED
        BY <2>6, <2>7, <2>10, <3>1, <4>1 DEF Idle
    <3>2. CASE th # Cur(s)
      <4>1. out.threads[th] = s.threads[th]
        BY <2>7, <3>2
      <4>2. th \in Busy(s) => Idle(s.threads[th])
        BY <2>1, BusyAlive DEF Idle
      <4>3. th \notin Busy(s) => Idle(s.threads[th])
        BY <2>1 DEF Common, Others
      <4> QED
        BY <4>1, <4>2, <4>3 DEF Unmoved
    <3> QED
      BY <3>1, <3>2
  <2>12. Common(out)
    <3>1. N - 2 \in 1..Len(s.C) /\ out.out = <<>>
      BY <2>1, <2>2, <2>7 DEF N, Common
    <3> QED
      BY <2>1, <2>7, <2>9, <2>11, <3>1, CutCommon
  <2>13. Mid(out, 1)
    <3>1. Last(out.C) = s.C[N - 2] /\ Cur(out) = s.C[N - 1].th
      BY <2>2, <2>3, <2>8 DEF Last, Cur
    <3>2. L(out) = s.threads[s.C[N - 1].th]
      BY <2>4, <2>7, <3>1 DEF L
    <3>3. Len(s.threads[s.C[N - 1].th].ci) = s.C[N - 1].ci
      BY <2>1, <2>2 DEF Common, Waiting, Cis
    <3>4. Own(s.C[N - 1]) = 1
      BY <2>1 DEF Own, CKinds
    <3> QED
      BY <2>3, <2>12, <3>1, <3>2, <3>3, <3>4 DEF Mid
  <2>14. \A vals : Good(Finish(out, vals))
    BY <2>7, <2>13, FinishGood
  <2> QED
    BY <1>2, <1>4, <2>14 DEF out
<1> QED
  BY <1>3, <1>4

(* A coroutine is made.                                                      *)
LEMMA CreatedMid ==
  ASSUME NEW s, NEW d, NEW f, Mid(s, d)
  PROVE  Mid(luaB_cocreate(s, f), d) /\ luaB_cocreate(s, f).cfun = s.cfun
<1> DEFINE l == Newthread(f)
           t == luaB_cocreate(s, f)
<1>1. Common(s) /\ DOMAIN s = Fields /\ IsSeq(s.threads) /\ Ready(s) /\ Cur(s) \in DOMAIN s.threads
  BY MidIs DEF Mid, Common, Shaped, Ready
<1>2. /\ DOMAIN t = Fields /\ t.C = s.C /\ t.out = s.out /\ t.cfun = s.cfun
      /\ t.threads = Append(s.threads, l)
  BY <1>1 DEF luaB_cocreate, Fields
<1>3. DOMAIN l = ThreadFields /\ l.status = "ok" /\ IsSeq(l.ci)
  <2> DEFINE c == [func |-> 0, base |-> 1, top |-> 21, savedpc |-> 0, nresults |-> 0, tailcalls |-> 0]
  <2>1. DOMAIN l = ThreadFields /\ l.status = "ok" /\ l.ci = <<c>>
    BY DEF Newthread, ThreadFields
  <2> HIDE DEF c
  <2>2. <<c>> \in Seq({c})
    OBVIOUS
  <2> QED
    BY <2>1, <2>2, SeqWhere
<1> HIDE DEF t, l
<1>4. /\ IsSeq(t.threads) /\ DOMAIN s.threads \subseteq DOMAIN t.threads
      /\ \A th \in DOMAIN s.threads : t.threads[th] = s.threads[th]
      /\ \A th \in DOMAIN t.threads : th \in DOMAIN s.threads \/ t.threads[th] = l
  BY <1>1, <1>2, SeqAppend, SeqIs
<1>5. Shaped(t)
  BY <1>1, <1>2, <1>3, <1>4 DEF Common, Shaped
<1>6. Cur(t) = Cur(s) /\ L(t) = L(s) /\ Busy(t) = Busy(s)
  BY <1>1, <1>2, <1>4 DEF Cur, L, Busy
<1>7. Frames(t)
  BY <1>1, <1>2, <1>4, <1>6 DEF Common, Frames, Placed, Cis
<1>8. Waiting(t)
  BY <1>1, <1>2, <1>4 DEF Common, Waiting, Cis, Frames, Placed
<1>9. Others(t)
  BY <1>1, <1>3, <1>4, <1>6 DEF Common, Others, Idle
<1> QED
  BY <1>1, <1>2, <1>5, <1>6, <1>7, <1>8, <1>9 DEF Mid, Common, t

-----------------------------------------------------------------------------
(* What calls back.  A state that is as before but for data goes on.         *)
LEMMA StaysMid ==
  ASSUME NEW s, NEW t, NEW d \in Int, Mid(s, d), s.cfun = NIL, Moves(s, t, 0)
  PROVE  Mid(t, d) /\ t.cfun = NIL /\ t.C = s.C
<1>1. d + 0 = d
  OBVIOUS
<1>2. Mid(t, d + 0)
  BY MovesMid
<1> QED
  BY <1>1, <1>2 DEF Moves

(* A change of the data only.                                                *)
LEMMA AsideMid ==
  ASSUME NEW s, NEW t, NEW d \in Int, Mid(s, d), s.cfun = NIL, Aside(s, t)
  PROVE  Mid(t, d) /\ t.cfun = NIL /\ t.C = s.C /\ Cur(t) = Cur(s) /\ L(t) = L(s)
<1>1. Moves(s, t, 0)
  BY MidIs, StaysAside
<1> QED
  BY <1>1, StaysMid DEF Aside, Cur, L

(* A change that moves no CallInfo leaves the machine well.                  *)
LEMMA StaysGood ==
  ASSUME NEW s, NEW t, Mid(s, 0), s.cfun = NIL, Moves(s, t, 0)
  PROVE  Good(t)
BY StaysMid DEF Good

(* What waits for a call that is made here: of an instruction, or of a C     *)
(* function.                                                                 *)
Here(s, f) == {"k", "th", "ci"} \subseteq DOMAIN f /\ f.th = Cur(s) /\ f.ci = Len(L(s).ci)
Methods == {"TMres", "TM", "compare", "TFORLOOP", "concat", "gettable", "settable"}

(* A tag method can be called where an instruction is under way.             *)
LEMMA MethodFits ==
  ASSUME NEW s, NEW f, Mid(s, 0), s.cfun = NIL, Here(s, f), f.k \in Methods
  PROVE  Fits(s, f)
BY DEF Here, Methods, CKinds, Fits, Own

(* A function can be called back where a C function is under way.            *)
LEMMA OwnFits ==
  ASSUME NEW s, NEW f, Mid(s, 1), s.cfun = NIL, Here(s, f), f.k \in CKinds \ {"resume"}
  PROVE  Fits(s, f)
BY DEF Here, CKinds, Fits, Own

(* What waits at once leaves the machine well.                               *)
LEMMA PushedGood == ASSUME NEW s, NEW f, Fits(s, f) PROVE Good(PushC(s, f))
BY PushedCall DEF Good

(* A tag method is called for its result.                                    *)
LEMMA CallTMresGood ==
  ASSUME NEW s, NEW res, NEW f, NEW p1, NEW p2, Mid(s, 0), s.cfun = NIL
  PROVE  Good(callTMres(s, res, f, p1, p2))
<1> DEFINE c == [k |-> "TMres", th |-> Cur(s), ci |-> Len(L(s).ci), res |-> res]
<1>1. Here(s, c) /\ c.k \in Methods
  BY DEF Here, Methods
<1>2. callTMres(s, res, f, p1, p2) = callTM(s, f, <<p1, p2>>, 1, c)
  BY DEF callTMres
<1> HIDE DEF c
<1>3. Fits(s, c)
  BY <1>1, MethodFits
<1> QED
  BY <1>2, <1>3, CallTMGood

(* A read of a table, through its tag methods.                               *)
LEMMA GettableGood ==
  ASSUME NEW s, NEW t, NEW key, NEW res, NEW where, NEW loop, Mid(s, 0), s.cfun = NIL
  PROVE  Good(luaV_gettable(s, t, key, res, where, loop))
<1> DEFINE fast == fasttm(s, s.tables[t[2]].meta, "__index")
           tm == IF t[1] = "table" THEN fast.tm ELSE luaT_gettmbyobj(s, t, "__index")
           g == IF t[1] = "table" THEN fast.s ELSE s
           c == [k |-> "gettable", th |-> Cur(g), ci |-> Len(L(g).ci),
                 t |-> tm, key |-> key, res |-> res, loop |-> loop + 1]
           r == luaV_gettable(s, t, key, res, where, loop)
<1>1. \/ r = luaG_runerror(s, <<"loop in gettable">>)
      \/ \E v : r = Setobj(s, res, v)
      \/ r = Setobj(g, res, NIL)
      \/ \E v, w, op : r = luaG_typeerror(s, v, w, op)
      \/ \E f, p1, p2 : r = callTMres(g, res, f, p1, p2)
      \/ r = PushC(g, c)
  BY DEF luaV_gettable
<1>2. Aside(s, g)
  BY AsideFast, AsideSelf
<1>3. Here(g, c) /\ c.k \in Methods
  BY DEF Here, Methods
<1> HIDE DEF fast, tm, g, c, r
<1>4. Mid(g, 0) /\ g.cfun = NIL
  BY <1>2, AsideMid
<1>5. (\A v : Good(Setobj(s, res, v))) /\ Good(Setobj(g, res, NIL))
  BY <1>4, MidIs, StaysSetobj, StaysGood
<1>6. Good(PushC(g, c))
  <2>1. Fits(g, c)
    BY <1>3, <1>4, MethodFits
  <2> QED
    BY <2>1, PushedGood
<1>7. Good(r)
  BY <1>1, <1>4, <1>5, <1>6, ThrowsGood, CallTMresGood
<1> QED
  BY <1>7 DEF r

(* A write to a table, through its tag methods.                              *)
LEMMA SettableGood ==
  ASSUME NEW s, NEW t, NEW key, NEW val, NEW where, NEW loop, Mid(s, 0), s.cfun = NIL
  PROVE  Good(luaV_settable(s, t, key, val, where, loop))
<1> DEFINE set == luaH_set(s, t[2], key)
           fast == fasttm(set, s.tables[t[2]].meta, "__newindex")
           tm == IF t[1] = "table" THEN fast.tm ELSE luaT_gettmbyobj(s, t, "__newindex")
           g == IF t[1] = "table" THEN fast.s ELSE s
           c == [k |-> "settable", th |-> Cur(g), ci |-> Len(L(g).ci),
                 t |-> tm, key |-> key, val |-> val, loop |-> loop + 1]
           d == [k |-> "TM", th |-> Cur(s), ci |-> Len(L(s).ci)]
           r == luaV_settable(s, t, key, val, where, loop)
<1>1. \/ \E msg : r = luaG_runerror(s, msg)
      \/ r = Store(set, t[2], key, val)
      \/ r = Store(g, t[2], key, val)
      \/ \E v, w, op : r = luaG_typeerror(s, v, w, op)
      \/ \E f, ps, n : r = callTM(g, f, ps, n, d)
      \/ r = PushC(g, c)
  BY DEF luaV_settable
<1>2. Aside(s, set)
  BY AsideSet
<1>3. Aside(s, g)
  BY <1>2, AsideFast, AsideSelf, AsideOn
<1>4. Here(g, c) /\ c.k \in Methods
  BY DEF Here, Methods
<1>5. Here(s, d) /\ d.k \in Methods
  BY DEF Here, Methods
<1> HIDE DEF set, fast, tm, g, c, d, r
<1>6. Mid(g, 0) /\ g.cfun = NIL /\ Mid(set, 0) /\ set.cfun = NIL
  BY <1>2, <1>3, AsideMid
<1>7. Here(g, d)
  BY <1>3, <1>5, AsideMid DEF Here
<1>8. Good(Store(set, t[2], key, val)) /\ Good(Store(g, t[2], key, val))
  BY <1>6, MidIs, AsideStore, StaysAside, StaysGood
<1>9. Good(PushC(g, c))
  <2>1. Fits(g, c)
    BY <1>4, <1>6, MethodFits
  <2> QED
    BY <2>1, PushedGood
<1>10. \A f, ps, n : Good(callTM(g, f, ps, n, d))
  <2>1. Fits(g, d)
    BY <1>5, <1>6, <1>7, MethodFits
  <2> QED
    BY <2>1, CallTMGood
<1>11. Good(r)
  BY <1>1, <1>8, <1>9, <1>10, ThrowsGood
<1> QED
  BY <1>11 DEF r

(* Arithmetic, with numbers or with a tag method.                            *)
LEMMA ArithGood ==
  ASSUME NEW s, NEW r, NEW p1, NEW w1, NEW p2, NEW w2, NEW op, Mid(s, 0), s.cfun = NIL
  PROVE  Good(Arith(s, r, p1, w1, p2, w2, op))
<1> DEFINE q == Arith(s, r, p1, w1, p2, w2, op)
<1>1. \/ \E v : q = Setobj(s, r, v)
      \/ \E tm : q = callTMres(s, r, tm, p1, p2)
      \/ \E v, w, what : q = luaG_typeerror(s, v, w, what)
  BY DEF Arith, luaG_aritherror
<1>2. \A v : Good(Setobj(s, r, v))
  BY MidIs, StaysSetobj, StaysGood
<1> HIDE DEF q
<1>3. Good(q)
  BY <1>1, <1>2, CallTMresGood, ThrowsGood
<1> QED
  BY <1>3 DEF q

(* Concatenation, with strings or with a tag method.                         *)
LEMMA ConcatGood ==
  ASSUME NEW s, NEW total, NEW last, Mid(s, 0), s.cfun = NIL
  PROVE  Good(luaV_concat(s, total, last))
<1>1. ASSUME NEW t, NEW m, NEW l, Mid(t, 0), t.cfun = NIL PROVE Good(concatTM(t, m, l))
  <2> DEFINE at == L(t).base + l
             c == [k |-> "concat", th |-> Cur(t), ci |-> Len(L(t).ci),
                   res |-> at - 1, total |-> m - 1, last |-> l - 1]
             q == concatTM(t, m, l)
  <2>1. \/ \E f, ps, n : q = callTM(t, f, ps, n, c)
        \/ \E v, w, what : q = luaG_typeerror(t, v, w, what)
    BY DEF concatTM, luaG_concaterror
  <2>2. Here(t, c) /\ c.k \in Methods
    BY DEF Here, Methods
  <2> HIDE DEF c, q
  <2>3. Fits(t, c)
    BY <1>1, <2>2, MethodFits
  <2>4. Good(q)
    BY <1>1, <2>1, <2>3, CallTMGood, ThrowsGood
  <2> QED
    BY <2>4 DEF q
<1> DEFINE at == L(s).base + last
           n == Collected(s, total, at)
           t == Joined(s, n, at)
           q == luaV_concat(s, total, last)
<1>2. (\E i, v : q = Setobj(t, i, v)) \/ \E m, l : q = concatTM(t, m, l)
  BY DEF luaV_concat
<1>3. Moves(s, t, 0)
  <2>1. t = s \/ \E i, v : t = Setobj(s, i, v)
    BY DEF Joined
  <2> HIDE DEF t
  <2> QED
    BY <2>1, MidIs, StaysSelf, StaysSetobj
<1> HIDE DEF t, q
<1>4. Mid(t, 0) /\ t.cfun = NIL
  BY <1>3, StaysMid
<1>5. \A i, v : Good(Setobj(t, i, v))
  BY <1>4, MidIs, StaysSetobj, StaysGood
<1>6. Good(q)
  BY <1>1, <1>2, <1>4, <1>5
<1> QED
  BY <1>6 DEF q

(* The functions of the table library that call back.                        *)
LEMMA ForeachGood ==
  ASSUME NEW s, NEW c, Mid(s, 1), s.cfun = NIL, Here(s, c), c.k \in CKinds \ {"resume"}
  PROVE  Good(foreach(s, c)) /\ Good(foreachi(s, c))
<1>1. \/ foreach(s, c) = Finish(s, <<>>)
      \/ \E f, ps, x : foreach(s, c) = callTM(s, f, ps, 1, [c EXCEPT !.key = x])
  BY DEF foreach
<1>2. foreachi(s, c) = Finish(s, <<>>) \/ \E f, ps : foreachi(s, c) = callTM(s, f, ps, 1, c)
  BY DEF foreachi
<1>3. \A x : Fits(s, [c EXCEPT !.key = x])
  <2>1. ASSUME NEW x PROVE Here(s, [c EXCEPT !.key = x]) /\ [c EXCEPT !.key = x].k = c.k
    BY DEF Here
  <2> QED
    BY <2>1, OwnFits
<1>4. Fits(s, c)
  BY OwnFits
<1>5. Good(Finish(s, <<>>))
  BY FinishGood
<1>6. \A f, ps : /\ Good(callTM(s, f, ps, 1, c))
                 /\ \A x : Good(callTM(s, f, ps, 1, [c EXCEPT !.key = x]))
  BY <1>3, <1>4, CallTMGood
<1> QED
  BY <1>1, <1>2, <1>5, <1>6

(* sort keeps its frame, and changes nothing but tables.                     *)
Framed1(c, d) == DOMAIN d = DOMAIN c /\ d.k = c.k /\ d.th = c.th /\ d.ci = c.ci
Sorted(s, c, r) == Aside(s, r.s) /\ Framed1(c, r.c)

(* sort goes on with a range.                                                *)
LEMMA SortedRange ==
  ASSUME NEW s, NEW t, NEW c, NEW rs, Aside(s, t), {"k", "th", "ci"} \subseteq DOMAIN c
  PROVE  Sorted(s, c, Range1(t, c, rs))
BY DEF Range1, State, Sorted, Framed1

(* Swapping two elements is aside.                                           *)
LEMMA AsideSwap ==
  ASSUME NEW s, NEW t, NEW c, NEW i, NEW x, NEW j, NEW y, Aside(s, t)
  PROVE  Aside(s, Swap(t, c, i, x, j, y))
<1>1. Aside(t, rawseti(t, c.h, i, x))
  BY AsideStore DEF rawseti
<1>2. Aside(rawseti(t, c.h, i, x), Swap(t, c, i, x, j, y))
  BY AsideStore DEF Swap, rawseti
<1> QED
  BY <1>1, <1>2, AsideOn

(* sort chooses its pivot and splits the range.                              *)
LEMMA SortedPivot ==
  ASSUME NEW s, NEW t, NEW c, Aside(s, t), {"k", "th", "ci"} \subseteq DOMAIN c
  PROVE  Sorted(s, c, Pivot(t, c)) /\ Sorted(s, c, Split(t, c))
<1>1. \A i, x, j, y : Aside(s, Swap(t, c, i, x, j, y))
  BY AsideSwap
<1>2. Sorted(s, c, Pivot(t, c))
  <2> DEFINE Up(u, p, i, j) == State(u, [c EXCEPT !.p = p, !.i = i, !.j = j, !.phase = "up"])
  <2>1. \/ Pivot(t, c) = Range1(t, c, <<>>)
        \/ \E i, x, j, y, p, i1, j1 : Pivot(t, c) = Up(Swap(t, c, i, x, j, y), p, i1, j1)
    BY DEF Pivot
  <2>2. Sorted(s, c, Range1(t, c, <<>>))
    BY SortedRange
  <2>3. ASSUME NEW u, NEW p, NEW i, NEW j, Aside(s, u)
        PROVE  Sorted(s, c, Up(u, p, i, j))
    BY <2>3 DEF Sorted, State, Framed1
  <2> HIDE DEF Up
  <2>4. \A i, x, j, y, p, i1, j1 : Sorted(s, c, Up(Swap(t, c, i, x, j, y), p, i1, j1))
    BY <1>1, <2>3
  <2> QED
    BY <2>1, <2>2, <2>4
<1>3. Sorted(s, c, Split(t, c))
  <2>1. \E i, x, j, y, rs : Split(t, c) = Range1(Swap(t, c, i, x, j, y), c, rs)
    BY DEF Split
  <2> QED
    BY <1>1, <2>1, SortedRange
<1> QED
  BY <1>2, <1>3

(* sort goes on after a comparison.                                          *)
LEMMA SortedSifted ==
  ASSUME NEW s, NEW c, NEW less, {"k", "th", "ci"} \subseteq DOMAIN c
  PROVE  Sorted(s, c, Sifted(s, c, less))
<1> DEFINE r == Sifted(s, c, less)
<1>1. Aside(s, s) /\ \A i, x, j, y : Aside(s, Swap(s, c, i, x, j, y))
  BY AsideSelf, AsideSwap
<1>2. CASE c.phase = "ends"
  <2> DEFINE t == IF less THEN Swap(s, c, c.l, c.x, c.u, c.y) ELSE s
  <2>1. r = Range1(t, c, <<>>) \/ r = State(t, [c EXCEPT !.i = (c.l + c.u) \div 2, !.phase = "middle"])
    BY <1>2 DEF Sifted
  <2>2. Aside(s, t)
    BY <1>1
  <2> HIDE DEF t, r
  <2>3. \A i : Sorted(s, c, State(t, [c EXCEPT !.i = i, !.phase = "middle"]))
    BY <2>2 DEF Sorted, State, Framed1
  <2>4. Sorted(s, c, r)
    BY <2>1, <2>2, <2>3, SortedRange
  <2> QED
    BY <2>4 DEF r
<1>3. CASE c.phase = "middle"
  <2>1. (\E i, x, j, y : r = Pivot(Swap(s, c, i, x, j, y), c)) \/ r = State(s, [c EXCEPT !.phase = "last"])
    BY <1>3 DEF Sifted
  <2>2. Sorted(s, c, State(s, [c EXCEPT !.phase = "last"]))
    BY <1>1 DEF Sorted, State, Framed1
  <2> HIDE DEF r
  <2>3. Sorted(s, c, r)
    BY <1>1, <2>1, <2>2, SortedPivot
  <2> QED
    BY <2>3 DEF r
<1>4. CASE c.phase = "last"
  <2>1. (\E i, x, j, y : r = Pivot(Swap(s, c, i, x, j, y), c)) \/ r = Pivot(s, c)
    BY <1>4 DEF Sifted
  <2> HIDE DEF r
  <2>2. Sorted(s, c, r)
    BY <1>1, <2>1, SortedPivot
  <2> QED
    BY <2>2 DEF r
<1>5. CASE c.phase = "up"
  <2> DEFINE x == State(s, [c EXCEPT !.ai = c.x, !.j = @ - 1, !.phase = "down"])
             y == State(s, [c EXCEPT !.phase = "invalid"])
             z == State(s, [c EXCEPT !.i = @ + 1])
  <2>1. r = x \/ r = y \/ r = z
    BY <1>5 DEF Sifted
  <2>2. Sorted(s, c, x)
    BY <1>1 DEF Sorted, State, Framed1
  <2>3. Sorted(s, c, y)
    BY <1>1 DEF Sorted, State, Framed1
  <2>4. Sorted(s, c, z)
    BY <1>1 DEF Sorted, State, Framed1
  <2> HIDE DEF x, y, z
  <2> QED
    BY <2>1, <2>2, <2>3, <2>4
<1>6. CASE c.phase \notin {"ends", "middle", "last", "up"}
  <2> DEFINE x == State(s, [c EXCEPT !.phase = "invalid"])
             y == State(s, [c EXCEPT !.j = @ - 1])
             Up(u, i) == State(u, [c EXCEPT !.i = i, !.phase = "up"])
  <2>1. \/ r = x \/ r = y \/ r = Split(s, c)
        \/ \E i, p, j, q, i1 : r = Up(Swap(s, c, i, p, j, q), i1)
    BY <1>6 DEF Sifted
  <2>2. Sorted(s, c, x) /\ Sorted(s, c, y)
    BY <1>1 DEF Sorted, State, Framed1
  <2>3. ASSUME NEW u, NEW i, Aside(s, u) PROVE Sorted(s, c, Up(u, i))
    BY <2>3 DEF Sorted, State, Framed1
  <2> HIDE DEF r, x, y, Up
  <2>5. \A i, p, j, q, i1 : Sorted(s, c, Up(Swap(s, c, i, p, j, q), i1))
    BY <1>1, <2>3
  <2>6. Sorted(s, c, Split(s, c))
    BY <1>1, SortedPivot
  <2>4. Sorted(s, c, r)
    BY <2>1, <2>2, <2>5, <2>6
  <2> QED
    BY <2>4 DEF r
<1> QED
  BY <1>2, <1>3, <1>4, <1>5, <1>6

(* sort asks for a comparison, ends or fails.                                *)
LEMMA AuxsortGood ==
  ASSUME NEW s, NEW d, Mid(s, 1), s.cfun = NIL, Here(s, d), d.k = "sort"
  PROVE  Good(auxsort(s, d))
<1> DEFINE c == Asking(s, d)
           e(b) == [c EXCEPT !.called = b]
           r == auxsort(s, d)
<1>1. \/ r = Finish(s, <<>>)
      \/ \E v : r = luaD_throw(s, v)
      \/ r = PushC(s, e(FALSE))
      \/ \E f, ps : r = callTM(s, f, ps, 1, e(TRUE))
  BY DEF auxsort, luaL_error, luaG_ordererror, luaG_runerror
<1>2. Framed1(d, c)
  <2>1. \E x, y : c = [d EXCEPT !.x = x, !.y = y]
    BY DEF Asking
  <2> HIDE DEF c
  <2> QED
    BY <2>1 DEF Framed1, Here
<1> HIDE DEF c, r
<1>3. \A b : Here(s, e(b)) /\ e(b).k = "sort"
  BY <1>2 DEF Framed1, Here
<1>4. \A b : Fits(s, e(b))
  BY <1>3, OwnFits DEF CKinds
<1> HIDE DEF e
<1>5. Good(PushC(s, e(FALSE))) /\ \A f, ps : Good(callTM(s, f, ps, 1, e(TRUE)))
  BY <1>4, PushedGood, CallTMGood
<1>6. Good(r)
  BY <1>1, <1>5, ThrowsGood, FinishGood
<1> QED
  BY <1>6 DEF r

(* sort begins.                                                              *)
LEMMA SortGood ==
  ASSUME NEW s, NEW h, NEW f, Mid(s, 1), s.cfun = NIL
  PROVE  Good(sort(s, h, f))
<1> DEFINE c == [k |-> "sort", th |-> Cur(s), ci |-> Len(L(s).ci), h |-> h, f |-> f, called |-> FALSE,
                 l |-> 0, u |-> 0, i |-> 0, j |-> 0, p |-> NIL, ai |-> NIL, x |-> NIL, y |-> NIL,
                 todo |-> <<>>, phase |-> ""]
<1>1. \E rs : sort(s, h, f) = auxsort(s, Range1(s, c, rs).c)
  BY DEF sort
<1>2. Here(s, c) /\ c.k = "sort"
  BY DEF Here
<1> HIDE DEF c
<1>3. \A rs : Framed1(c, Range1(s, c, rs).c)
  BY <1>2, AsideSelf, SortedRange DEF Here, Sorted
<1>4. \A rs : Here(s, Range1(s, c, rs).c) /\ Range1(s, c, rs).c.k = "sort"
  BY <1>2, <1>3 DEF Here, Framed1
<1> QED
  BY <1>1, <1>4, AuxsortGood

(* gsub asks for a replacement, ends or fails.                               *)
LEMMA GsubGood ==
  ASSUME NEW s, NEW g, Mid(s, 1), s.cfun = NIL
  PROVE  Good(str_gsub(s, g))
<1> DEFINE r == str_gsub(s, g)
<1>1. \/ \E vals : r = Finish(s, vals)
      \/ \E msg : r = luaL_error(s, msg)
      \/ \E x : r = PushC(s, GsubFrame(s, x, FALSE))
      \/ \E f, ps : r = callTM(s, f, ps, 1, GsubFrame(s, g, TRUE))
  BY DEF str_gsub
<1>2. \A x, b : Fits(s, GsubFrame(s, x, b))
  <2>1. \A x, b : Here(s, GsubFrame(s, x, b)) /\ GsubFrame(s, x, b).k = "gsub"
    BY DEF GsubFrame, Here
  <2> QED
    BY <2>1, OwnFits DEF CKinds
<1> HIDE DEF r
<1>3. (\A x : Good(PushC(s, GsubFrame(s, x, FALSE))))
      /\ \A f, ps : Good(callTM(s, f, ps, 1, GsubFrame(s, g, TRUE)))
  BY <1>2, PushedGood, CallTMGood
<1>4. Good(r)
  BY <1>1, <1>3, ThrowsGood, FinishGood
<1> QED
  BY <1>4 DEF r

-----------------------------------------------------------------------------
(* The functions of the libraries.                                           *)
LEMMA GivenGood ==
  ASSUME NEW s, NEW q, Mid(s, 1), s.cfun = NIL
  PROVE  Good(Given(s, q))
BY ThrowsGood, FinishGood DEF Given

(* What a function of the libraries changes at once.                         *)
LEMMA ChangedMid ==
  ASSUME NEW s, NEW f, NEW args, NEW a, Mid(s, 1), s.cfun = NIL
  PROVE  Mid(Changed(s, f, args, a), 1) /\ Changed(s, f, args, a).cfun = NIL
<1> DEFINE r == Changed(s, f, args, a)
<1>1. CASE f \in {"create", "wrap"}
  BY <1>1, CreatedMid DEF Changed
<1>2. CASE f \notin {"create", "wrap"}
  <2>1. ASSUME f = "setmetatable" PROVE Aside(s, r)
    <3> DEFINE m == IF a[2] = NIL THEN 0 ELSE a[2][2]
    <3>1. r = [s EXCEPT !.tables[a[1][2]].meta = m]
      BY <2>1 DEF Changed
    <3> QED
      BY <3>1 DEF Aside
  <2>2. ASSUME f = "rawset" PROVE Aside(s, r)
    <3>1. Aside(s, luaH_set(s, a[1][2], a[2]))
      BY AsideSet
    <3>2. Aside(luaH_set(s, a[1][2], a[2]), r)
      BY <2>2, AsideStore DEF Changed
    <3> QED
      BY <3>1, <3>2, AsideOn
  <2>3. ASSUME f = "insert" PROVE Aside(s, r)
    BY <2>3, AsideStoreFrom DEF Changed, tinsert
  <2>4. ASSUME f = "remove" PROVE Aside(s, r)
    BY <2>4, AsideStoreFrom, AsideSelf DEF Changed, tremove
  <2>5. ASSUME f = "gmatch" PROVE Aside(s, r)
    <3> DEFINE ms == Append(s.matches, [m |-> NewMatching(TextOf(a[1]), TextOf(a[2])), at |-> 1])
    <3>1. r = [s EXCEPT !.matches = ms]
      BY <2>5 DEF Changed
    <3> QED
      BY <3>1 DEF Aside
  <2>6. ASSUME f \notin {"setmetatable", "rawset", "insert", "remove", "gmatch"} PROVE Aside(s, r)
    BY <1>2, <2>6, AsideSelf DEF Changed
  <2>7. Aside(s, r)
    BY <2>1, <2>2, <2>3, <2>4, <2>5, <2>6
  <2> QED
    BY <2>7, AsideMid
<1> QED
  BY <1>1, <1>2

(* A function of the libraries, by its name.                                 *)
LEMMA InvokedGood ==
  ASSUME NEW s, NEW f, NEW args, NEW a, NEW refusal, Mid(s, 1), s.cfun = NIL
  PROVE  Good(Invoked(s, f, args, a, refusal))
<1> DEFINE r == Invoked(s, f, args, a, refusal)
           others == {"error", "pcall", "resume", "auxwrap", "yield", "foreach", "foreachi", "sort",
                      "gsub", "gmatch_aux"} \cup StringFunctions
<1>1. CASE refusal # NIL
  BY <1>1, ThrowsGood DEF Invoked
<1>2. CASE refusal = NIL /\ f[2] = "error"
  BY <1>2, ThrowsGood DEF Invoked, luaB_error, StringFunctions
<1>3. CASE refusal = NIL /\ f[2] = "pcall"
  <2> DEFINE c == [k |-> "pcall", th |-> Cur(s), ci |-> Len(L(s).ci), top |-> L(s).base]
  <2>1. r = luaD_call(s, L(s).base, LUA_MULTRET, c)
    BY <1>3 DEF Invoked, StringFunctions
  <2>2. Here(s, c) /\ c.k \in CKinds \ {"resume"}
    BY DEF Here, CKinds
  <2> HIDE DEF c
  <2>3. Fits(s, c)
    BY <2>2, OwnFits
  <2> QED
    BY <2>1, <2>3, CallGood
<1>4. CASE refusal = NIL /\ f[2] \in {"resume", "auxwrap", "yield"}
  <2>1. (\E co, as, wrap : r = auxresume(s, co, as, wrap)) \/ r = lua_yield(s, args)
    BY <1>4 DEF Invoked, StringFunctions
  <2> QED
    BY <2>1, AuxresumeGood, YieldGood
<1>5. CASE refusal = NIL /\ f[2] = "foreach"
  <2> DEFINE c == [k |-> "foreach", th |-> Cur(s), ci |-> Len(L(s).ci),
                   h |-> a[1][2], f |-> a[2], key |-> NIL]
  <2>1. r = foreach(s, c)
    BY <1>5 DEF Invoked, StringFunctions
  <2>2. Here(s, c) /\ c.k \in CKinds \ {"resume"}
    BY DEF Here, CKinds
  <2> HIDE DEF c
  <2> QED
    BY <2>1, <2>2, ForeachGood
<1>6. CASE refusal = NIL /\ f[2] = "foreachi"
  <2> DEFINE c == [k |-> "foreachi", th |-> Cur(s), ci |-> Len(L(s).ci),
                   h |-> a[1][2], f |-> a[2], i |-> 1, n |-> luaH_getn(s, a[1][2])]
  <2>1. r = foreachi(s, c)
    BY <1>6 DEF Invoked, StringFunctions
  <2>2. Here(s, c) /\ c.k \in CKinds \ {"resume"}
    BY DEF Here, CKinds
  <2> HIDE DEF c
  <2> QED
    BY <2>1, <2>2, ForeachGood
<1>7. CASE refusal = NIL /\ f[2] = "sort"
  BY <1>7, SortGood DEF Invoked, StringFunctions
<1>8. CASE refusal = NIL /\ f[2] \in StringFunctions
  <2>1. r = Given(s, StringFunction(f[2], args, a))
    BY <1>8 DEF Invoked, StringFunctions
  <2> QED
    BY <2>1, GivenGood
<1>9. CASE refusal = NIL /\ f[2] = "gsub"
  <2>1. \E g : r = str_gsub(s, g)
    BY <1>9 DEF Invoked, StringFunctions
  <2> QED
    BY <2>1, GsubGood
<1>10. CASE refusal = NIL /\ f[2] = "gmatch_aux"
  <2> DEFINE n == f[3]
             q == NextMatch(s.matches[n].m, s.matches[n].at)
             t == [s EXCEPT !.matches[n].at = IF q.at = 0 THEN @ ELSE q.at]
  <2>1. r = Given(t, q)
    BY <1>10 DEF Invoked, Iterate, Stepped, StringFunctions
  <2>2. Aside(s, t)
    BY DEF Aside
  <2> HIDE DEF t, q
  <2>3. Mid(t, 1) /\ t.cfun = NIL
    BY <2>2, AsideMid
  <2> QED
    BY <2>1, <2>3, GivenGood
<1>11. CASE refusal = NIL /\ f[2] \notin others
  <2>1. \/ r = luaG_runerror(s, <<"table index is nil">>)
        \/ r = Finish(Changed(s, f[2], args, a), Results(s, f[2], args, a))
    BY <1>11 DEF Invoked
  <2>2. Mid(Changed(s, f[2], args, a), 1) /\ Changed(s, f[2], args, a).cfun = NIL
    BY ChangedMid
  <2> HIDE DEF r
  <2>3. Good(r)
    BY <2>1, <2>2, FinishGood, ThrowsGood
  <2> QED
    BY <2>3 DEF r
<1> QED
  BY <1>1, <1>2, <1>3, <1>4, <1>5, <1>6, <1>7, <1>8, <1>9, <1>10, <1>11

(* A C function that was called runs.                                        *)
LEMMA CFunctionGood ==
  ASSUME NEW s, NEW f, Mid(s, 1), s.cfun = NIL
  PROVE  Good(CFunction(s, f))
BY InvokedGood DEF CFunction

-----------------------------------------------------------------------------
(* The steps of the machine.  An instruction is fetched.                     *)
LEMMA FetchedMid ==
  ASSUME Good(vm), On("execute")
  PROVE  /\ Mid(vm, 0) /\ Mid(next, 0) /\ next.cfun = NIL /\ next.C = vm.C
         /\ vm.cfun = NIL /\ Last(vm.C).k = "execute" /\ Moves(vm, next, 0)
<1>1. Mid(vm, 0) /\ vm.cfun = NIL /\ Last(vm.C).k = "execute"
  BY DEF Good, On
<1>2. Moves(vm, next, 0)
  BY <1>1, MidIs, StaysTop DEF next
<1> QED
  BY <1>1, <1>2, StaysMid

(* Values on the stack.                                                      *)
LEMMA StackMid ==
  ASSUME NEW s, NEW i, NEW v, Mid(s, 0), s.cfun = NIL
  PROVE  /\ Mid(SetFrom(s, i, v), 0) /\ SetFrom(s, i, v).cfun = NIL
         /\ Mid(Setobj(s, i, v), 0) /\ Setobj(s, i, v).cfun = NIL
<1>1. Moves(s, SetFrom(s, i, v), 0) /\ Moves(s, Setobj(s, i, v), 0)
  BY MidIs, StaysSetFrom, StaysSetobj
<1> QED
  BY <1>1, StaysMid

(* A test jumps or skips.                                                    *)
LEMMA BranchGood ==
  ASSUME NEW s, NEW taken, Mid(s, 0), s.cfun = NIL
  PROVE  Good(Branch(s, taken))
<1>1. \E pc : Branch(s, taken) = Goto(s, pc)
  BY DEF Branch
<1> QED
  BY <1>1, MidIs, StaysTop, StaysGood

(* What moves values, or makes one.                                          *)
LEMMA MovesGood ==
  ASSUME Good(vm),
         Move \/ Loadk \/ Loadbool \/ Loadnil \/ Getupval \/ Setupval \/ Newtable \/ Not \/ Jmp
  PROVE  Good(vm')
<1>1. On("execute")
  BY DEF Move, Loadk, Loadbool, Loadnil, Getupval, Setupval, Newtable, Not, Jmp, Running
<1>2. Mid(vm, 0) /\ vm.cfun = NIL /\ Ready(vm) /\ Moves(vm, next, 0) /\ Ready(next)
  BY <1>1, FetchedMid, MidIs
<1>3. \A t : Moves(next, t, 0) => Moves(vm, t, 0)
  BY <1>2, StaysOn
<1>4. CASE Move \/ Loadk \/ Getupval \/ Not
  <2>1. \E v : vm' = Setobj(next, ra, v)
    BY <1>4 DEF Move, Loadk, Getupval, Not, Do
  <2> QED
    BY <1>2, <1>3, <2>1, StaysSetobj, StaysGood
<1>5. CASE Loadbool
  <2>1. \E v, pc : vm' = Goto(Setobj(vm, ra, v), pc)
    BY <1>5 DEF Loadbool, Do
  <2>2. \A v : Moves(vm, Setobj(vm, ra, v), 0)
    BY <1>2, StaysSetobj
  <2>3. \A v, pc : Moves(Setobj(vm, ra, v), Goto(Setobj(vm, ra, v), pc), 0)
    BY <2>2, MovesReady, StaysTop
  <2>4. \A v, pc : Moves(vm, Goto(Setobj(vm, ra, v), pc), 0)
    BY <1>2, <2>2, <2>3, StaysOn
  <2> QED
    BY <1>2, <2>1, <2>4, StaysGood
<1>6. CASE Loadnil
  <2>1. \E vs : vm' = SetFrom(next, ra, vs)
    BY <1>6 DEF Loadnil, Do
  <2> QED
    BY <1>2, <1>3, <2>1, StaysSetFrom, StaysGood
<1>7. CASE Setupval
  <2>1. \E u, v : vm' = SetUpval(next, u, v)
    BY <1>7 DEF Setupval, Do
  <2> QED
    BY <1>2, <1>3, <2>1, StaysSetUpval, StaysGood
<1>8. CASE Newtable
  <2> DEFINE t == luaH_new(next)
  <2>1. vm' = Setobj(t.s, ra, t.v)
    BY <1>8 DEF Newtable, Do
  <2>2. Aside(next, t.s)
    BY AsideMade DEF luaH_new
  <2> HIDE DEF t
  <2>3. Moves(next, t.s, 0)
    BY <1>2, <2>2, StaysAside
  <2>4. Moves(t.s, vm', 0)
    BY <2>1, <2>3, MovesReady, StaysSetobj
  <2>5. Moves(next, vm', 0)
    BY <1>2, <2>3, <2>4, StaysOn
  <2> QED
    BY <1>2, <1>3, <2>5, StaysGood
<1>9. CASE Jmp
  <2>1. \E pc : vm' = Goto(vm, pc)
    BY <1>9 DEF Jmp, Do
  <2> QED
    BY <1>2, <2>1, StaysTop, StaysGood
<1> QED
  BY <1>4, <1>5, <1>6, <1>7, <1>8, <1>9

(* Reads and writes of tables, arithmetic and concatenation.                 *)
LEMMA TablesGood ==
  ASSUME Good(vm),
         Getglobal \/ Setglobal \/ Gettable \/ Settable \/ Self \/ Arithmetics \/ LenOf \/ Concat
  PROVE  Good(vm')
<1>1. On("execute")
  BY DEF Getglobal, Setglobal, Gettable, Settable, Self, Arithmetics, LenOf, Concat, Running
<1>2. Mid(next, 0) /\ next.cfun = NIL /\ Ready(next)
  BY <1>1, FetchedMid, MidIs
<1>3. CASE Getglobal \/ Gettable
  <2>1. \E t, key, where : vm' = luaV_gettable(next, t, key, ra, where, 0)
    BY <1>3 DEF Getglobal, Gettable, Do
  <2> QED
    BY <1>2, <2>1, GettableGood
<1>4. CASE Setglobal \/ Settable
  <2>1. \E t, key, val, where : vm' = luaV_settable(next, t, key, val, where, 0)
    BY <1>4 DEF Setglobal, Settable, Do
  <2> QED
    BY <1>2, <2>1, SettableGood
<1>5. CASE Self
  <2> DEFINE s == Setobj(next, ra + 1, Val(vm, R(I.b)))
  <2>1. \E t, key, where : vm' = luaV_gettable(s, t, key, ra, where, 0)
    BY <1>5 DEF Self, Do
  <2>2. Mid(s, 0) /\ s.cfun = NIL
    BY <1>2, StaysSetobj, StaysMid
  <2> HIDE DEF s
  <2> QED
    BY <2>1, <2>2, GettableGood
<1>6. CASE Arithmetics
  BY <1>2, <1>6, ArithGood DEF Arithmetics, Do
<1>7. CASE LenOf
  <2>1. (\E v : vm' = Setobj(next, ra, v)) \/ \E v, w, op : vm' = luaG_typeerror(next, v, w, op)
    BY <1>7 DEF LenOf, Do
  <2>2. \A v : Good(Setobj(next, ra, v))
    BY <1>2, StaysSetobj, StaysGood
  <2> QED
    BY <1>2, <2>1, <2>2, ThrowsGood
<1>8. CASE Concat
  BY <1>2, <1>8, ConcatGood DEF Concat, Do
<1> QED
  BY <1>3, <1>4, <1>5, <1>6, <1>7, <1>8

(* Tests and loops.                                                          *)
LEMMA TestsGood ==
  ASSUME Good(vm), Eq \/ Order \/ Test \/ Testset \/ Forprep \/ Forloop \/ Tforloop
  PROVE  Good(vm')
<1>1. On("execute")
  BY DEF Eq, Order, Test, Testset, Forprep, Forloop, Tforloop, Running
<1>2. /\ Mid(vm, 0) /\ Mid(next, 0) /\ next.cfun = NIL /\ vm.cfun = NIL /\ Ready(vm) /\ Ready(next)
      /\ Moves(vm, next, 0) /\ Cur(next) = Cur(vm) /\ Len(L(next).ci) = Len(L(vm).ci)
  <2>1. /\ Mid(vm, 0) /\ Mid(next, 0) /\ next.cfun = NIL /\ vm.cfun = NIL /\ Ready(vm) /\ Ready(next)
        /\ Moves(vm, next, 0)
    BY <1>1, FetchedMid, MidIs
  <2>2. Len(L(vm).ci) + 0 = Len(L(vm).ci)
    BY <2>1, CisNat
  <2> QED
    BY <2>1, <2>2 DEF Moves, Cur
<1>3. \A t : Moves(vm, t, 0) => Mid(t, 0) /\ t.cfun = NIL /\ Good(t)
  BY <1>2, StaysMid, StaysGood
<1>4. \A negated : Here(next, Comparing(negated)) /\ Comparing(negated).k \in Methods
  BY <1>2 DEF Comparing, Here, Methods
<1>5. CASE Eq
  <2> DEFINE x == RK(I.b)
             y == RK(I.c)
             tm == get_compTM(next, vm.tables[x[2]].meta, vm.tables[y[2]].meta)
  <2>1. \/ \E f, ps : vm' = callTM(tm.s, f, ps, 1, Comparing(FALSE))
        \/ \E taken : vm' = Branch(tm.s, taken)
        \/ \E taken : vm' = Branch(next, taken)
    BY <1>5 DEF Eq, Do
  <2>2. Aside(next, tm.s)
    BY AsideComp
  <2> HIDE DEF tm
  <2>3. Mid(tm.s, 0) /\ tm.s.cfun = NIL /\ Cur(tm.s) = Cur(next) /\ L(tm.s) = L(next)
    BY <1>2, <2>2, AsideMid
  <2>4. Fits(tm.s, Comparing(FALSE))
    <3>1. Here(tm.s, Comparing(FALSE))
      BY <1>4, <2>3 DEF Here
    <3> QED
      BY <1>4, <2>3, <3>1, MethodFits
  <2> QED
    BY <1>2, <2>1, <2>3, <2>4, CallTMGood, BranchGood
<1>6. CASE Order
  <2>1. \/ \E f, ps, negated : vm' = callTM(next, f, ps, 1, Comparing(negated))
        \/ \E taken : vm' = Branch(next, taken)
        \/ \E v : vm' = luaD_throw(next, v)
    BY <1>6 DEF Order, Do, luaG_ordererror, luaG_runerror
  <2>2. \A negated : Fits(next, Comparing(negated))
    BY <1>2, <1>4, MethodFits
  <2> QED
    BY <1>2, <2>1, <2>2, CallTMGood, BranchGood, ThrowsGood
<1>7. CASE Test
  BY <1>2, <1>7, BranchGood DEF Test, Do
<1>8. CASE Testset
  <2> DEFINE v == Val(vm, R(I.b))
             taken == l_isfalse(v) # (I.c = 1)
  <2>1. vm' = Branch(IF taken THEN Setobj(next, ra, v) ELSE next, taken)
    BY <1>8 DEF Testset, Do
  <2> HIDE DEF v, taken
  <2>2. Mid(Setobj(next, ra, v), 0) /\ Setobj(next, ra, v).cfun = NIL
    BY <1>2, StackMid
  <2> QED
    BY <1>2, <2>1, <2>2, BranchGood
<1>9. CASE Forprep
  <2> DEFINE x == [j \in 0..2 |-> ToNum(Val(vm, ra + j))]
             vs0 == <<Num(x[0][2] - x[2][2]), x[1], x[2]>>
             pc0 == L(vm).pc + 1 + I.b
  <2>1. \/ vm' = luaG_runerror(next, <<"for: must be a number">>)
        \/ vm' = Goto(SetFrom(next, ra, vs0), pc0)
    BY <1>9 DEF Forprep, Do
  <2> HIDE DEF x, vs0, pc0
  <2>2. \A vs : Mid(SetFrom(next, ra, vs), 0) /\ SetFrom(next, ra, vs).cfun = NIL
    BY <1>2, StackMid
  <2>3. \A vs, pc : Good(Goto(SetFrom(next, ra, vs), pc))
    BY <2>2, MidIs, StaysTop, StaysGood
  <2> QED
    BY <1>2, <2>1, <2>3, ThrowsGood
<1>10. CASE Forloop
  <2>1. vm' = next \/ \E v, pc : vm' = Goto(Setobj(Setobj(vm, ra, v), ra + 3, v), pc)
    BY <1>10 DEF Forloop, Do
  <2>2. \A v : Mid(Setobj(vm, ra, v), 0) /\ Setobj(vm, ra, v).cfun = NIL
    BY <1>2, StackMid
  <2>3. \A v : /\ Mid(Setobj(Setobj(vm, ra, v), ra + 3, v), 0)
               /\ Setobj(Setobj(vm, ra, v), ra + 3, v).cfun = NIL
    BY <2>2, StackMid
  <2>4. \A v, pc : Good(Goto(Setobj(Setobj(vm, ra, v), ra + 3, v), pc))
    BY <2>3, MidIs, StaysTop, StaysGood
  <2>5. Good(next)
    BY <1>2 DEF Good
  <2> QED
    BY <2>1, <2>4, <2>5
<1>11. CASE Tforloop
  <2> DEFINE c == [k |-> "TFORLOOP", th |-> Cur(vm), ci |-> Len(L(vm).ci), cb |-> ra + 3]
             t(vs) == Top(SetFrom(next, ra + 3, vs), ra + 6)
  <2>1. \E vs, func, n : vm' = luaD_call(t(vs), func, n, c)
    BY <1>11 DEF Tforloop, Do
  <2>2. \A vs : Moves(next, t(vs), 0)
    BY <1>2, StaysSetFrom, MovesReady, StaysTop, StaysOn
  <2>3. Here(next, c) /\ c.k \in Methods
    BY <1>2 DEF Here, Methods
  <2> HIDE DEF c, t
  <2>4. Fits(next, c)
    BY <1>2, <2>3, MethodFits
  <2>5. \A vs : Fits(t(vs), c)
    BY <2>2, <2>4, FitsOn
  <2> QED
    BY <2>1, <2>5, CallGood
<1> QED
  BY <1>5, <1>6, <1>7, <1>8, <1>9, <1>10, <1>11

(* How many calls the activation of the interpreter on top runs.             *)
LEMMA CallsOnTop ==
  ASSUME NEW s, NEW d, Mid(s, d), Last(s.C).k = "execute"
  PROVE  Last(s.C).n \in Nat /\ (Last(s.C).n >= 1 \/ Alone(s.C))
<1>1. Common(s) /\ Len(s.C) \in DOMAIN s.C /\ Last(s.C) = s.C[Len(s.C)] /\ Len(s.C) \in Nat /\ Len(s.C) >= 1
  BY CommonIs DEF Mid
<1>2. Last(s.C).n \in Nat
  BY <1>1 DEF Common, Frames, Placed
<1>3. CASE Len(s.C) = 1 \/ s.C[Len(s.C) - 1].k = "resume"
  BY <1>2, <1>3 DEF Alone
<1>4. CASE Len(s.C) # 1 /\ s.C[Len(s.C) - 1].k # "resume"
  <2> DEFINE N == Len(s.C)
  <2>1. N \in Nat /\ N >= 1 /\ N # 1
    BY <1>1, <1>4
  <2> HIDE DEF N
  <2>2. N >= 2
    BY <2>1
  <2>3. Len(s.C) >= 2
    BY <2>2 DEF N
  <2> QED
    BY <1>1, <1>2, <1>4, <2>3, Over
<1> QED
  BY <1>3, <1>4

(* A tail call takes the frame of its caller.                                *)
LEMMA TailcallGood ==
  ASSUME Good(vm), Tailcall
  PROVE  Good(vm')
<1>1. On("execute")
  BY DEF Tailcall, Running
<1>2. /\ Mid(vm, 0) /\ Mid(next, 0) /\ next.cfun = NIL /\ next.C = vm.C /\ Ready(next)
      /\ Last(vm.C).k = "execute"
  BY <1>1, FetchedMid, MidIs
<1> DEFINE c == Called
           s == luaD_precall(c, ra, LUA_MULTRET, TRUE)
           N == Len(vm.C)
           n == Last(vm.C).n
           lua == s.out = <<>> /\ Last(s.C).k = "execute" /\ Last(s.C).n > n /\ Len(s.C) = N
           t == [s EXCEPT !.C[Len(s.C)].n = @ - 1]
<1>3. \/ vm' = s
      \/ lua /\ vm' = ReplaceFrame(t)
  BY DEF Tailcall, Do
<1>4. Moves(next, c, 0)
  BY <1>2, StaysTop, StaysSelf DEF Called
<1> HIDE DEF c
<1>5. Mid(c, 0) /\ c.cfun = NIL /\ c.C = vm.C /\ Last(c.C).k = "execute"
  BY <1>2, <1>4, StaysMid
<1>6. Precall(c, TRUE, s)
  BY <1>5, PrecallMid
<1> HIDE DEF s
<1>7. n \in Nat /\ (n >= 1 \/ Alone(vm.C)) /\ N \in Nat
  BY <1>2, CallsOnTop, CommonIs DEF Mid
<1> HIDE DEF n, N
<1>8. ASSUME lua PROVE Good(ReplaceFrame(t))
  <2>1. ~Thrown(c, s)
    BY <1>5, <1>7, <1>8 DEF Thrown, N
  <2>2. ~CalledC(c, s)
    BY <1>5, <1>7, <1>8 DEF CalledC, n
  <2>3. Mid(s, 0) /\ s.cfun = NIL /\ s.C = Counted(c, n + 1).C
    BY <1>5, <1>6, <2>1, <2>2 DEF Precall, Entering, n
  <2>4. /\ IsSeq(vm.C) /\ N \in 1..Len(vm.C) /\ vm.C[N] = Last(vm.C) /\ DOMAIN c = Fields
        /\ DOMAIN s = Fields /\ {"n", "k"} \subseteq DOMAIN vm.C[N] /\ Len(vm.C) = N
    <3>1. /\ IsSeq(vm.C) /\ N \in 1..Len(vm.C) /\ vm.C[N] = Last(vm.C) /\ N \in DOMAIN vm.C
      BY <1>2, CommonIs DEF Mid, N
    <3>2. Placed(vm, vm.C[N])
      BY <1>2, <3>1 DEF Mid, Common, Frames
    <3> QED
      BY <1>2, <1>5, <2>3, <3>1, <3>2 DEF Mid, Common, Shaped, Placed, N
  <2>5. s.C = [vm.C EXCEPT ![N] = [vm.C[N] EXCEPT !.n = n + 1]]
    BY <1>5, <2>3, <2>4 DEF Counted, Fields
  <2> DEFINE x == [vm.C[N] EXCEPT !.n = n + 1]
  <2>6. x.n = n + 1 /\ x.k = vm.C[N].k
    BY <2>4
  <2> HIDE DEF x
  <2>7. Len(s.C) = N /\ s.C[N] = x /\ Last(s.C) = x /\ \A i \in DOMAIN vm.C : i # N => s.C[i] = vm.C[i]
    <3>1. s.C = [vm.C EXCEPT ![N] = x]
      BY <2>5 DEF x
    <3>2. DOMAIN vm.C = 1..N
      BY <2>4, SeqIs
    <3>3. Len(s.C) = N
      BY <2>4, <3>1, SeqReplaced
    <3> QED
      BY <2>4, <3>1, <3>2, <3>3 DEF Last
  <2>8. Last(s.C).k = "execute" /\ Last(s.C).n = n + 1
    BY <1>2, <2>4, <2>6, <2>7
  <2>9. n >= 1 \/ Alone(s.C)
    <3>1. N = 1 \/ (N - 1 \in DOMAIN vm.C /\ N - 1 # N)
      BY <1>7, <2>4, SeqIs
    <3> QED
      BY <1>7, <2>4, <2>7, <3>1 DEF Alone
  <2>10. t = Counted(s, n)
    <3>1. t = [s EXCEPT !.C[Len(s.C)].n = s.C[Len(s.C)].n - 1]
      OBVIOUS
    <3>2. s.C[Len(s.C)].n - 1 = n
      BY <1>7, <2>6, <2>7
    <3> QED
      BY <3>1, <3>2 DEF Counted
  <2>11. Mid(Counted(s, n), 1)
    <3>1. Mid(Counted(s, n), 0 + Last(s.C).n - n)
      BY <1>7, <2>3, <2>8, <2>9, CountedMid
    <3>2. 0 + (n + 1) - n = 1
      BY <1>7
    <3> QED
      BY <2>8, <3>1, <3>2
  <2>12. Mid(t, 1) /\ t.cfun = NIL
    BY <2>3, <2>4, <2>10, <2>11 DEF Counted, Fields
  <2> HIDE DEF t
  <2>13. Moves(t, ReplaceFrame(t), -1)
    <3>1. Ready(t) /\ Above(Last(t.C)) \in Nat /\ Above(Last(t.C)) >= 1
          /\ Len(L(t).ci) = Above(Last(t.C)) + 1
      BY <2>12, MidIs DEF Mid
    <3>2. Len(L(t).ci) >= 2
      BY <3>1
    <3> QED
      BY <3>1, <3>2, MovesReplace
  <2>14. Mid(ReplaceFrame(t), 1 + -1) /\ 1 + -1 = 0
    BY <2>12, <2>13, MovesMid
  <2> QED
    BY <2>12, <2>13, <2>14 DEF Good, Moves
<1> QED
  BY <1>3, <1>6, <1>8, PrecallGood

(* A function returns: to its caller in the same activation, to what called  *)
(* it from C, or to what resumed the coroutine that ends.                    *)
LEMMA ReturnGood ==
  ASSUME Good(vm), Return
  PROVE  Good(vm')
<1>1. On("execute")
  BY DEF Return, Running
<1>2. /\ Mid(vm, 0) /\ Mid(next, 0) /\ next.cfun = NIL /\ next.C = vm.C /\ Ready(next)
      /\ Last(vm.C).k = "execute" /\ Moves(vm, next, 0) /\ Ready(vm)
  BY <1>1, FetchedMid, MidIs
<1> DEFINE vals == Slots(vm, ra, IF I.b # 0 THEN ra + I.b - 1 ELSE L(vm).top)
           c == luaF_close(next, L(vm).base)
           s == luaD_poscall(c, vals)
           top == IF Ci(vm).nresults # LUA_MULTRET THEN Top(s, Ci(s).top) ELSE s
           n == Last(vm.C).n
           N == Len(vm.C)
<1>3. \/ n > 1 /\ vm' = [top EXCEPT !.C[N].n = @ - 1]
      \/ ~(n > 1) /\ N = 1 /\ vm' = [PopC(s) EXCEPT !.out = <<"return", vals>>]
      \/ ~(n > 1) /\ N # 1 /\ vm' = PopC(s)
  BY DEF Return, Do
<1>4. Aside(next, c)
  BY AsideClose
<1> HIDE DEF c
<1>5. Mid(c, 0) /\ c.cfun = NIL /\ c.C = vm.C
  BY <1>2, <1>4, AsideMid
<1>6. Moves(c, s, -1)
  <2>1. Ready(c) /\ Len(L(c).ci) >= 1
    <3>1. Ready(c) /\ Above(Last(c.C)) \in Nat /\ Above(Last(c.C)) >= 1
          /\ Len(L(c).ci) = Above(Last(c.C)) + 0
      BY <1>5, MidIs DEF Mid
    <3> QED
      BY <3>1
  <2> QED
    BY <2>1, MovesPoscall
<1> HIDE DEF s, vals
<1>7. Mid(s, -1) /\ s.cfun = NIL /\ s.C = vm.C /\ Ready(s)
  <2>1. Mid(s, 0 + -1) /\ 0 + -1 = -1
    BY <1>5, <1>6, MovesMid
  <2> QED
    BY <1>5, <1>6, <2>1 DEF Moves
<1>8. n \in Nat /\ N \in Nat /\ N >= 1 /\ N \in DOMAIN vm.C /\ Last(vm.C) = vm.C[N] /\ IsSeq(vm.C)
  BY <1>2, CallsOnTop, CommonIs DEF Mid
<1>9. CASE n > 1
  <2>1. Moves(s, top, 0)
    BY <1>7, StaysTop, StaysSelf
  <2> HIDE DEF top
  <2>2. Mid(top, -1) /\ top.cfun = NIL /\ top.C = vm.C /\ DOMAIN top = Fields
    <3>1. Mid(top, -1) /\ top.cfun = NIL /\ top.C = s.C
      BY <1>7, <2>1, StaysMid
    <3> QED
      BY <1>7, <3>1 DEF Mid, Common, Shaped
  <2>3. vm' = Counted(top, n - 1)
    <3>1. vm' = [top EXCEPT !.C[N].n = top.C[N].n - 1]
      BY <1>3, <1>9
    <3>2. top.C[N].n = n /\ Len(top.C) = N
      BY <1>8, <2>2
    <3> QED
      BY <3>1, <3>2 DEF Counted
  <2> HIDE DEF n
  <2>4. n - 1 \in Nat /\ n - 1 >= 1 /\ -1 + n - (n - 1) = 0
    BY <1>8, <1>9
  <2>5. Mid(Counted(top, n - 1), -1 + Last(top.C).n - (n - 1))
    BY <1>2, <2>2, <2>4, CountedMid
  <2>6. Mid(vm', 0)
    BY <2>2, <2>3, <2>4, <2>5 DEF n
  <2>7. vm'.cfun = NIL
    BY <2>2, <2>3 DEF Counted, Fields
  <2> QED
    BY <2>6, <2>7 DEF Good
<1>10. CASE ~(n > 1) /\ N = 1
  <2>1. DOMAIN s = Fields
    BY <1>7 DEF Mid, Common, Shaped
  <2>2. vm' = [PopC(s) EXCEPT !.out = <<"return", vals>>]
    BY <1>3, <1>10
  <2>3. vm'.out = <<"return", vals>> /\ vm'.C = Front(vm.C)
    BY <1>7, <2>1, <2>2 DEF PopC, Fields
  <2>4. Front(vm.C) = <<>>
    <3>1. IsSeq(Front(vm.C)) /\ Len(Front(vm.C)) = N - 1
      BY <1>8, SeqFront DEF N
    <3>2. Len(Front(vm.C)) = 0
      BY <1>10, <3>1
    <3> QED
      BY <3>1, <3>2, EmptySeq DEF IsSeq
  <2>5. <<"return", vals>> # <<>>
    OBVIOUS
  <2> QED
    BY <2>3, <2>4, <2>5 DEF Good
<1>11. CASE ~(n > 1) /\ N # 1
  <2>1. vm' = PopC(s) /\ N >= 2
    <3>1. vm' = PopC(s)
      BY <1>3, <1>11
    <3>2. N \in Nat /\ N >= 1 /\ N # 1
      BY <1>8, <1>11
    <3> HIDE DEF n, N
    <3>3. N >= 2
      BY <3>2
    <3> QED
      BY <3>1, <3>3
  <2>2. /\ Common(PopC(s)) /\ Last(PopC(s).C) = vm.C[N - 1] /\ PopC(s).cfun = NIL
        /\ PopC(s).threads = s.threads
    BY <1>7, <2>1, PopCommon DEF Mid
  <2>3. CASE vm.C[N - 1].k = "resume"
    BY <2>1, <2>2, <2>3 DEF Good
  <2>4. CASE vm.C[N - 1].k # "resume"
    <3>1. /\ N - 1 \in DOMAIN vm.C /\ vm.C[N].ci = Above(vm.C[N - 1]) + Own(vm.C[N])
          /\ vm.C[N].n >= 1 /\ vm.C[N - 1].th = vm.C[N].th
      BY <1>2, <1>8, <2>1, <2>4, Over DEF Mid
    <3>2. n = 1
      BY <1>8, <1>11, <3>1
    <3>3. Above(vm.C[N - 1]) \in Nat /\ Own(vm.C[N]) = 0 /\ Above(vm.C[N]) = vm.C[N].ci + 1
      BY <1>2, <1>8, <3>1, <3>2, AboveIs DEF Mid, Own, CKinds, Above
    <3>4. L(PopC(s)) = L(s)
      BY <1>7, <1>8, <2>2, <3>1 DEF L, Cur
    <3>5. Len(L(s).ci) = Above(vm.C[N]) + -1
      BY <1>7, <1>8 DEF Mid
    <3>6. Len(L(PopC(s)).ci) = Above(vm.C[N - 1]) + 0
      BY <3>1, <3>3, <3>4, <3>5
    <3>7. Mid(PopC(s), 0)
      BY <2>2, <2>4, <3>6 DEF Mid
    <3> QED
      BY <2>1, <2>2, <3>7 DEF Good
  <2> QED
    BY <2>3, <2>4
<1> QED
  BY <1>9, <1>10, <1>11

(* Calls, and what is not about tables or numbers.                           *)
LEMMA CallsGood ==
  ASSUME Good(vm), Call \/ Setlist \/ Close \/ Closure \/ Vararg
  PROVE  Good(vm')
<1>1. On("execute")
  BY DEF Call, Setlist, Close, Closure, Vararg, Running
<1>2. /\ Mid(vm, 0) /\ vm.cfun = NIL /\ Ready(vm) /\ Moves(vm, next, 0) /\ Ready(next)
      /\ Mid(next, 0) /\ next.cfun = NIL /\ next.C = vm.C /\ Last(vm.C).k = "execute"
  BY <1>1, FetchedMid, MidIs
<1>3. CASE Call
  <2> DEFINE c == Called
  <2>1. \E n : vm' = luaD_precall(c, ra, n, TRUE)
    BY <1>3 DEF Call, Do
  <2>2. Moves(next, c, 0)
    BY <1>2, StaysTop, StaysSelf DEF Called
  <2> HIDE DEF c
  <2>3. Mid(c, 0) /\ c.cfun = NIL /\ Last(c.C).k = "execute"
    BY <1>2, <2>2, StaysMid
  <2>4. \A n : Precall(c, TRUE, luaD_precall(c, ra, n, TRUE))
    BY <2>3, PrecallMid
  <2> QED
    BY <2>1, <2>4, PrecallGood
<1>4. CASE Setlist
  <2> DEFINE after == Goto(vm, L(vm).pc + (IF I.c = 0 THEN 2 ELSE 1))
             s == IF I.b = 0 THEN Top(after, Ci(vm).top) ELSE after
  <2>1. \E h, first, vs : vm' = StoreFrom(s, h, first, vs)
    BY <1>4 DEF Setlist, Do
  <2>2. Moves(vm, after, 0)
    BY <1>2, StaysTop
  <2> HIDE DEF after
  <2>3. Moves(vm, s, 0)
    <3>1. Moves(after, s, 0)
      BY <2>2, MovesReady, StaysTop, StaysSelf
    <3> HIDE DEF s
    <3> QED
      BY <1>2, <2>2, <3>1, StaysOn
  <2> HIDE DEF s
  <2>4. Mid(s, 0) /\ s.cfun = NIL
    BY <1>2, <2>3, StaysMid
  <2> QED
    BY <2>1, <2>4, AsideStoreFrom, AsideMid DEF Good
<1>5. CASE Close
  <2>1. vm' = luaF_close(next, ra)
    BY <1>5 DEF Close, Do
  <2> QED
    BY <1>2, <2>1, AsideClose, AsideMid DEF Good
<1>6. CASE Closure
  <2> DEFINE New(all, f) == [all EXCEPT !.funs = Append(@, f)]
  <2>1. \E ls, f, v, pc : vm' = Goto(Setobj(New(luaF_findupvals(vm, ls), f), ra, v), pc)
    BY <1>6 DEF Closure, Do
  <2>2. \A s, f : Aside(s, New(s, f))
    BY DEF Aside
  <2> HIDE DEF New
  <2>3. \A ls, f : Aside(vm, New(luaF_findupvals(vm, ls), f))
    BY <2>2, AsideFind, AsideOn
  <2>4. \A s : Aside(vm, s) => Moves(vm, s, 0)
    BY <1>2, StaysAside
  <2>5. \A s, v : Aside(vm, s) => Moves(vm, Setobj(s, ra, v), 0)
    BY <1>2, <2>4, MovesReady, StaysSetobj, StaysOn
  <2>6. \A s, v, pc : Aside(vm, s) => Moves(vm, Goto(Setobj(s, ra, v), pc), 0)
    <3> SUFFICES ASSUME NEW s, NEW v, NEW pc, Aside(vm, s)
                 PROVE  Moves(vm, Goto(Setobj(s, ra, v), pc), 0)
      OBVIOUS
    <3>1. Moves(vm, Setobj(s, ra, v), 0)
      BY <2>5
    <3>2. Moves(Setobj(s, ra, v), Goto(Setobj(s, ra, v), pc), 0)
      BY <3>1, MovesReady, StaysTop
    <3> QED
      BY <1>2, <3>1, <3>2, StaysOn
  <2>7. Moves(vm, vm', 0)
    BY <2>1, <2>3, <2>6
  <2> QED
    BY <1>2, <2>7, StaysGood
<1>7. CASE Vararg
  <2>1. (\E vs : vm' = SetFrom(next, ra, vs)) \/ \E vs, n : vm' = Top(SetFrom(next, ra, vs), n)
    BY <1>7 DEF Vararg, Do
  <2>2. \A vs : Moves(next, SetFrom(next, ra, vs), 0)
    BY <1>2, StaysSetFrom
  <2>3. \A vs, n : Moves(next, Top(SetFrom(next, ra, vs), n), 0)
    BY <1>2, <2>2, MovesReady, StaysTop, StaysOn
  <2> QED
    BY <1>2, <2>1, <2>2, <2>3, StaysGood
<1> QED
  BY <1>3, <1>4, <1>5, <1>6, <1>7

(* The C function that was called runs.                                      *)
LEMMA CfunctionGood ==
  ASSUME Good(vm), Cfunction
  PROVE  Good(vm')
<1> DEFINE s == [vm EXCEPT !.cfun = NIL]
<1>1. vm.cfun # NIL /\ vm.out = <<>> /\ vm' = CFunction(s, vm.cfun)
  BY DEF Cfunction, Do
<1>2. Mid(vm, 1)
  BY <1>1 DEF Good
<1>3. DOMAIN vm = Fields
  BY <1>2 DEF Mid, Common, Shaped
<1>4. /\ DOMAIN s = Fields /\ s.threads = vm.threads /\ s.C = vm.C /\ s.out = vm.out /\ s.cfun = NIL
  BY <1>3 DEF Fields
<1> HIDE DEF s
<1>5. Mid(s, 1)
  BY <1>2, <1>4, SameMid
<1> QED
  BY <1>1, <1>4, <1>5, CFunctionGood

(* The function called from C has returned: the call is taken off the C      *)
(* stack, with its result or without.                                        *)
LEMMA WaitMid ==
  ASSUME Good(vm), NEW k, On(k), k \notin {"execute", "resume"}
  PROVE  /\ Mid(PopC(vm), Own(Wait)) /\ PopC(vm).cfun = NIL
         /\ Mid(Popped, Own(Wait)) /\ Popped.cfun = NIL
         /\ Here(PopC(vm), Wait) /\ Here(Popped, Wait) /\ Wait.k = k
<1>1. Mid(vm, 0) /\ vm.cfun = NIL /\ Wait.k = k
  BY DEF Good, On, Wait
<1>2. Common(vm) /\ Wait = vm.C[Len(vm.C)] /\ Len(vm.C) \in DOMAIN vm.C /\ Cur(vm) = Wait.th
  BY <1>1, CommonIs DEF Mid, Wait
<1>3. {"k", "th", "ci"} \subseteq DOMAIN Wait
  BY <1>2 DEF Common, Frames, Placed
<1>4. Wait.ci = Len(L(vm).ci)
  <2>1. Above(Wait) = Wait.ci
    BY <1>1 DEF Above
  <2>2. Above(Wait) \in Nat /\ Len(L(vm).ci) = Above(Wait) + 0
    BY <1>1, MidIs DEF Mid, Wait
  <2> QED
    BY <2>1, <2>2
<1>5. Own(Wait) \in Nat /\ Own(Wait) + 0 = Own(Wait)
  BY DEF Own
<1> DEFINE t == Top(vm, L(vm).top - 1)
<1>6. Moves(vm, t, 0)
  BY <1>1, MidIs, StaysTop
<1>7. Popped = PopC(t)
  BY DEF Popped
<1> HIDE DEF t
<1>8. Mid(t, 0) /\ t.cfun = NIL /\ t.C = vm.C
  BY <1>1, <1>6, StaysMid
<1>9. Len(L(t).ci) = Len(L(vm).ci) /\ Cur(t) = Cur(vm) /\ Last(t.C) = Wait
  <2>1. Len(L(vm).ci) + 0 = Len(L(vm).ci)
    BY <1>1, MidIs, CisNat
  <2> QED
    BY <1>6, <1>8, <2>1 DEF Moves, Cur, Wait
<1>10. /\ Mid(PopC(vm), Own(Wait)) /\ PopC(vm).cfun = NIL
       /\ Cur(PopC(vm)) = Cur(vm) /\ L(PopC(vm)) = L(vm)
  BY <1>1, <1>5, PoppedMid DEF Wait
<1>11. /\ Mid(PopC(t), Own(Wait)) /\ PopC(t).cfun = NIL
       /\ Cur(PopC(t)) = Cur(t) /\ L(PopC(t)) = L(t)
  BY <1>1, <1>5, <1>8, <1>9, PoppedMid
<1> QED
  BY <1>1, <1>2, <1>3, <1>4, <1>7, <1>9, <1>10, <1>11 DEF Here

(* The tag method has returned.                                              *)
LEMMA MethodGood ==
  ASSUME Good(vm), TMres \/ TM \/ Compared \/ Concatenated \/ Got \/ Set \/ Iterated
  PROVE  Good(vm')
<1>1. PICK k \in Methods : On(k)
  BY DEF TMres, TM, Compared, Concatenated, Got, Set, Iterated, Methods
<1>2. k \notin {"execute", "resume"} /\ k \notin CKinds
  BY DEF Methods, CKinds
<1>3. /\ Mid(PopC(vm), 0) /\ PopC(vm).cfun = NIL /\ Mid(Popped, 0) /\ Popped.cfun = NIL
      /\ Ready(PopC(vm)) /\ Ready(Popped)
  <2>1. Own(Wait) = 0
    BY <1>1, <1>2, WaitMid DEF Own
  <2> QED
    BY <1>1, <1>2, <2>1, WaitMid, MidIs
<1>4. \A r, v : Mid(Setobj(Popped, r, v), 0) /\ Setobj(Popped, r, v).cfun = NIL
  BY <1>3, StaysSetobj, StaysMid
<1>5. CASE TMres
  BY <1>4, <1>5 DEF TMres, Do, Good
<1>6. CASE TM
  BY <1>3, <1>6 DEF TM, Do, Good
<1>7. CASE Compared
  BY <1>3, <1>7, BranchGood DEF Compared, Do
<1>8. CASE Concatenated
  <2>1. \E r, v, n, m : vm' = luaV_concat(Setobj(Popped, r, v), n, m)
    BY <1>8 DEF Concatenated, Do
  <2> QED
    BY <1>4, <2>1, ConcatGood
<1>9. CASE Got
  BY <1>3, <1>9, GettableGood DEF Got, Do
<1>10. CASE Set
  BY <1>3, <1>10, SettableGood DEF Set, Do
<1>11. CASE Iterated
  <2> DEFINE s == Top(PopC(vm), Ci(vm).top)
             v == Val(vm, Wait.cb)
  <2>1. vm' = Branch(IF v = NIL THEN s ELSE Setobj(s, Wait.cb - 1, v), v # NIL)
    BY <1>11 DEF Iterated, Do
  <2>2. Mid(s, 0) /\ s.cfun = NIL
    BY <1>3, StaysTop, StaysMid
  <2> HIDE DEF s, v
  <2>3. Mid(Setobj(s, Wait.cb - 1, v), 0) /\ Setobj(s, Wait.cb - 1, v).cfun = NIL
    BY <2>2, MidIs, StaysSetobj, StaysMid
  <2> QED
    BY <2>1, <2>2, <2>3, BranchGood
<1> QED
  BY <1>5, <1>6, <1>7, <1>8, <1>9, <1>10, <1>11

(* What a C function called has returned.                                    *)
LEMMA FunctionsGood ==
  ASSUME Good(vm), Pcalled \/ Foreached \/ Foreachied \/ Sorting \/ Substituted
  PROVE  Good(vm')
<1>1. PICK k \in CKinds \ {"resume"} : On(k)
  BY DEF Pcalled, Foreached, Foreachied, Sorting, Substituted, CKinds
<1>2. k \notin {"execute", "resume"}
  BY DEF CKinds
<1>3. /\ Mid(PopC(vm), 1) /\ PopC(vm).cfun = NIL /\ Here(PopC(vm), Wait)
      /\ Mid(Popped, 1) /\ Popped.cfun = NIL /\ Here(Popped, Wait) /\ Wait.k = k
  <2>1. Own(Wait) = 1
    BY <1>1, <1>2, WaitMid DEF Own
  <2> QED
    BY <1>1, <1>2, <2>1, WaitMid
<1>4. CASE Pcalled
  <2>1. \E vals : vm' = Finish(PopC(vm), vals)
    BY <1>4 DEF Pcalled, Do
  <2> QED
    BY <1>3, <2>1, FinishGood
<1>5. CASE Foreached
  <2>1. vm' = Finish(Popped, <<Result>>) \/ vm' = foreach(Popped, Wait)
    BY <1>5 DEF Foreached, Do
  <2> QED
    BY <1>3, <2>1, FinishGood, ForeachGood
<1>6. CASE Foreachied
  <2> DEFINE c == [Wait EXCEPT !.i = @ + 1]
  <2>1. vm' = Finish(Popped, <<Result>>) \/ vm' = foreachi(Popped, c)
    BY <1>6 DEF Foreachied, Do
  <2>2. Here(Popped, c) /\ c.k = k
    BY <1>3 DEF Here
  <2> HIDE DEF c
  <2> QED
    BY <1>3, <2>1, <2>2, FinishGood, ForeachGood
<1>7. CASE Sorting
  <2>1. Wait.k = "sort"
    BY <1>7 DEF Sorting, On, Wait
  <2>2. \E s \in {Popped, PopC(vm)} : \E less :
          vm' = auxsort(Sifted(s, Wait, less).s, Sifted(s, Wait, less).c)
    BY <1>7 DEF Sorting, Do
  <2>2a. PICK s \in {Popped, PopC(vm)} : \E less :
          vm' = auxsort(Sifted(s, Wait, less).s, Sifted(s, Wait, less).c)
    BY <2>2
  <2>3. PICK less : vm' = auxsort(Sifted(s, Wait, less).s, Sifted(s, Wait, less).c)
    BY <2>2a
  <2> DEFINE r == Sifted(s, Wait, less)
  <2>4. Mid(s, 1) /\ s.cfun = NIL /\ Here(s, Wait)
    BY <1>3
  <2>5. Sorted(s, Wait, r)
    BY <2>4, SortedSifted DEF Here
  <2>6. vm' = auxsort(r.s, r.c)
    BY <2>3
  <2> HIDE DEF r
  <2>7. Mid(r.s, 1) /\ r.s.cfun = NIL /\ Cur(r.s) = Cur(s) /\ L(r.s) = L(s)
    BY <2>4, <2>5, AsideMid DEF Sorted
  <2>8. Here(r.s, r.c) /\ r.c.k = "sort"
    BY <2>1, <2>4, <2>5, <2>7 DEF Here, Sorted, Framed1
  <2> QED
    BY <2>6, <2>7, <2>8, AuxsortGood
<1>8. CASE Substituted
  <2>1. \E g : vm' = str_gsub(Popped, g) \/ vm' = str_gsub(PopC(vm), g)
    BY <1>8 DEF Substituted, Do
  <2> QED
    BY <1>3, <2>1, GsubGood
<1> QED
  BY <1>4, <1>5, <1>6, <1>7, <1>8

(* A coroutine has ended: the thread that resumed it goes on where it was.   *)
LEMMA ResumedGood ==
  ASSUME Good(vm), Resumed
  PROVE  Good(vm')
<1> DEFINE t == PopC(vm)
           N == Len(vm.C)
<1>1. vm.out = <<>> /\ vm.cfun = NIL /\ Wait.k = "resume" /\ Last(vm.C) = Wait
  BY DEF Resumed, On, Wait
<1>2. Common(vm)
  BY <1>1 DEF Good, Mid
<1>3. /\ N >= 2 /\ N - 1 \in DOMAIN vm.C /\ vm.C[N - 1].k # "resume"
      /\ Wait.ci = Above(vm.C[N - 1]) + Own(Wait) /\ vm.C[N - 1].th = Cur(vm)
  BY <1>1, <1>2, CallAbove
<1>4. /\ N \in Nat /\ IsSeq(vm.C) /\ DOMAIN vm.C = 1..N /\ N \in DOMAIN vm.C /\ Wait = vm.C[N]
      /\ Cur(vm) = Wait.th
  BY <1>1, <1>2, CommonIs
<1>5. /\ t.C = SubSeq(vm.C, 1, N - 1) /\ DOMAIN t = Fields /\ t.threads = vm.threads
      /\ t.out = <<>> /\ t.cfun = NIL
  BY <1>1, <1>2 DEF PopC, Front, Common, Shaped, Fields
<1> HIDE DEF t, N
<1>6. N - 1 \in 1..N /\ N - 1 \in 0..N /\ N - 1 \in 1..N - 1
  BY <1>3, <1>4
<1>7. IsSeq(t.C) /\ Len(t.C) = N - 1 /\ \A i \in 1..N - 1 : t.C[i] = vm.C[i]
  BY <1>4, <1>5, <1>6, SeqSub DEF N
<1>8. Shaped(t) /\ Last(t.C) = vm.C[N - 1]
  BY <1>2, <1>5, <1>6, <1>7 DEF Common, Shaped, Last
<1>9. Common(t)
  <2>1. ASSUME NEW th \in DOMAIN vm.threads
        PROVE  IF th \in Busy(t) THEN Unmoved(vm.threads[th], t.threads[th]) ELSE Idle(t.threads[th])
    <3>1. Idle(vm.threads[th])
      <4>1. CASE th \in Busy(vm)
        BY <1>2, <4>1, BusyAlive DEF Idle
      <4>2. CASE th \notin Busy(vm)
        BY <1>2, <4>2 DEF Common, Others
      <4> QED
        BY <4>1, <4>2
    <3> QED
      BY <1>5, <3>1 DEF Unmoved
  <2> QED
    BY <1>2, <1>5, <1>6, <1>8, <2>1, CutCommon DEF N
<1>10. Mid(t, 1)
  <2>1. Cur(t) = Cur(vm) /\ L(t) = vm.threads[Wait.th]
    BY <1>3, <1>4, <1>5, <1>8 DEF Cur, L
  <2>2. Len(vm.threads[Wait.th].ci) = Wait.ci
    BY <1>1, <1>2, <1>4 DEF Common, Waiting, Cis
  <2>3. Own(Wait) = 1
    BY <1>1 DEF Own, CKinds
  <2>4. Len(L(t).ci) = Above(Last(t.C)) + 1
    BY <1>3, <1>8, <2>1, <2>2, <2>3
  <2> QED
    BY <1>3, <1>8, <1>9, <2>4 DEF Mid
<1> DEFINE x == Wait.co
           b == vm.threads[x].base
           s == [t EXCEPT !.threads[x].top = b]
           l == [vm.threads[x] EXCEPT !.top = b]
<1>11. \E vals : vm' = Finish(s, vals)
  BY DEF Resumed, Do, t
<1>12. x \in DOMAIN vm.threads /\ DOMAIN vm.threads[x] = ThreadFields
  BY <1>1, <1>2, <1>4 DEF Common, Frames, Placed, Shaped
<1>13. /\ l.ci = t.threads[x].ci /\ l.status = t.threads[x].status
       /\ DOMAIN l = DOMAIN t.threads[x]
  BY <1>5, <1>12 DEF ThreadFields
<1>14. /\ DOMAIN s = Fields /\ s.C = t.C /\ s.cfun = t.cfun /\ s.out = t.out
       /\ s.threads = [t.threads EXCEPT ![x] = l]
  BY <1>5 DEF Fields
<1> HIDE DEF s, l, x
<1>15. Moves(t, s, 0)
  <2>1. Ready(t)
    BY <1>10, MidIs
  <2>2. x \in DOMAIN t.threads => l.ci = t.threads[x].ci /\ l.status = t.threads[x].status
                                  /\ DOMAIN l = DOMAIN t.threads[x]
    BY <1>13
  <2>3. s.threads = [t.threads EXCEPT ![x] = l]
    BY <1>14
  <2>4. DOMAIN s = Fields /\ s.C = t.C /\ s.cfun = t.cfun /\ s.out = t.out
    BY <1>14
  <2> QED
    BY ONLY <2>1, <2>2, <2>3, <2>4, StaysThread
<1>16. Mid(s, 1) /\ s.cfun = NIL
  BY <1>5, <1>10, <1>15, StaysMid
<1> QED
  BY <1>11, <1>16, FinishGood

(* The main function is called.                                              *)
LEMMA StartGood ==
  ASSUME Initial(vm), Start
  PROVE  Good(vm')
<1> DEFINE f == [k |-> "execute", th |-> 1, ci |-> 1, n |-> 0]
           s == [vm EXCEPT !.C = <<f>>]
<1>1. vm' = luaD_precall(s, 1, LUA_MULTRET, TRUE)
  BY DEF Start, Do
<1>2. PICK g : vm.threads = <<Newthread(g)>>
  BY DEF Initial
<1>3. /\ DOMAIN s = Fields /\ s.threads = vm.threads /\ s.C = <<f>> /\ s.out = <<>> /\ s.cfun = NIL
  BY DEF Initial, Shaped, Fields
<1>4. f.k = "execute" /\ f.th = 1 /\ f.ci = 1 /\ f.n = 0 /\ {"k", "th", "ci", "n"} \subseteq DOMAIN f
  OBVIOUS
<1> HIDE DEF f
<1>5. /\ Len(s.C) = 1 /\ DOMAIN s.C = {1} /\ s.C[1] = f /\ Last(s.C) = f /\ IsSeq(s.C)
      /\ 1..Len(s.C) - 1 = {}
  <2>1. <<f>> \in Seq({f}) /\ Len(<<f>>) = 1 /\ DOMAIN <<f>> = 1..1 /\ <<f>>[1] = f
    OBVIOUS
  <2>2. 1..1 = {1} /\ 1..1 - 1 = {}
    OBVIOUS
  <2> QED
    BY <1>3, <2>1, <2>2, SeqWhere DEF Last
<1>6. /\ DOMAIN s.threads = {1} /\ s.threads[1].status = "ok" /\ Len(s.threads[1].ci) = 1
  <2>1. /\ DOMAIN <<Newthread(g)>> = 1..1 /\ <<Newthread(g)>>[1] = Newthread(g)
        /\ Newthread(g).status = "ok" /\ Len(Newthread(g).ci) = 1
    BY DEF Newthread
  <2>2. 1..1 = {1}
    OBVIOUS
  <2> QED
    BY <1>2, <1>3, <2>1, <2>2
<1>7. Shaped(s)
  BY <1>3, <1>5 DEF Initial, Shaped
<1> HIDE DEF s
<1>8. Cur(s) = 1 /\ Above(f) = 1 /\ 1 \in Busy(s)
  BY <1>4, <1>5 DEF Cur, Above, Busy
<1>9. First(s.C) /\ Frames(s) /\ Linked(s.C) /\ Nested(s.C)
  BY <1>4, <1>5, <1>6, <1>8 DEF First, Frames, Placed, Linked, Nested
<1>10. Chained(s.C) /\ Fresh(s.C) /\ Waiting(s) /\ Others(s)
  <2>1. Resumers(s.C, 1) = {}
    <3>1. 1..1 - 1 = {}
      OBVIOUS
    <3> QED
      BY <3>1 DEF Resumers
  <2> QED
    BY <1>4, <1>5, <1>6, <1>8, <2>1 DEF Chained, Fresh, Waiting, Others
<1>11. Mid(s, 0)
  <2>1. Common(s)
    BY <1>3, <1>7, <1>9, <1>10 DEF Common
  <2>2. Len(L(s).ci) = 1 /\ 1 = 1 + 0
    BY <1>6, <1>8 DEF L
  <2> QED
    BY <1>4, <1>5, <1>8, <2>1, <2>2 DEF Mid
<1> QED
  BY <1>1, <1>3, <1>4, <1>5, <1>11, PrecallMid, PrecallGood

-----------------------------------------------------------------------------
(* Control is an invariant.                                                  *)
LEMMA StepGood ==
  ASSUME Good(vm), Step
  PROVE  Good(vm')
<1>1. \/ Move \/ Loadk \/ Loadbool \/ Loadnil \/ Getupval \/ Setupval \/ Newtable \/ Not \/ Jmp
      \/ Getglobal \/ Setglobal \/ Gettable \/ Settable \/ Self \/ Arithmetics \/ LenOf \/ Concat
      \/ Eq \/ Order \/ Test \/ Testset \/ Forprep \/ Forloop \/ Tforloop
      \/ Call \/ Setlist \/ Close \/ Closure \/ Vararg
      \/ Tailcall \/ Return \/ Cfunction
      \/ TMres \/ TM \/ Compared \/ Concatenated \/ Got \/ Set \/ Iterated
      \/ Pcalled \/ Foreached \/ Foreachied \/ Sorting \/ Substituted \/ Resumed
  BY DEF Step
<1> QED
  BY <1>1, MovesGood, TablesGood, TestsGood, CallsGood, TailcallGood, ReturnGood, CfunctionGood,
     MethodGood, FunctionsGood, ResumedGood

(* Before the program starts the machine does not step.                      *)
LEMMA InitialWaits ==
  ASSUME Initial(vm), Step
  PROVE  FALSE
<1>1. vm.C = <<>> /\ vm.cfun = NIL
  BY DEF Initial
<1>2. ~On("execute") /\ \A k : ~On(k)
  BY <1>1 DEF On
<1>3. \A ops : ~Running(ops)
  BY <1>2 DEF Running
<1>4. ~(\/ Move \/ Loadk \/ Loadbool \/ Loadnil \/ Getupval \/ Setupval \/ Newtable \/ Not \/ Jmp
        \/ Getglobal \/ Setglobal \/ Gettable \/ Settable \/ Self \/ Arithmetics \/ LenOf \/ Concat)
  BY <1>3 DEF Move, Loadk, Loadbool, Loadnil, Getupval, Setupval, Newtable, Not, Jmp, Getglobal,
     Setglobal, Gettable, Settable, Self, Arithmetics, LenOf, Concat
<1>5. ~(\/ Eq \/ Order \/ Test \/ Testset \/ Forprep \/ Forloop \/ Tforloop
        \/ Call \/ Setlist \/ Close \/ Closure \/ Vararg \/ Tailcall \/ Return)
  BY <1>3 DEF Eq, Order, Test, Testset, Forprep, Forloop, Tforloop, Call, Setlist, Close, Closure,
     Vararg, Tailcall, Return
<1>6. ~Cfunction
  BY <1>1 DEF Cfunction
<1>7. ~(\/ TMres \/ TM \/ Compared \/ Concatenated \/ Got \/ Set \/ Iterated
        \/ Pcalled \/ Foreached \/ Foreachied \/ Sorting \/ Substituted \/ Resumed)
  BY <1>2 DEF TMres, TM, Compared, Concatenated, Got, Set, Iterated, Pcalled, Foreached, Foreachied,
     Sorting, Substituted, Resumed
<1> QED
  BY <1>4, <1>5, <1>6, <1>7 DEF Step

(* At first there is the main thread, with the CallInfo of the host.         *)
LEMMA ControlInit == Init => Control
<1> SUFFICES ASSUME Init PROVE Initial(vm)
  BY DEF Control
<1> DEFINE q == <<Newthread(<<"fun", 1>>)>>
<1>1. vm.threads = q /\ vm.C = <<>> /\ vm.out = <<>> /\ vm.cfun = NIL /\ DOMAIN vm = Fields
  BY DEF Init, Fields
<1>2. IsSeq(<<>>)
  BY EmptySeq DEF IsSeq
<1>3. DOMAIN q = {1} /\ q[1] = Newthread(<<"fun", 1>>) /\ IsSeq(q)
  <2> DEFINE x == Newthread(<<"fun", 1>>)
  <2> HIDE DEF x
  <2>1. <<x>> \in Seq({x}) /\ DOMAIN <<x>> = 1..1 /\ <<x>>[1] = x
    OBVIOUS
  <2>2. 1..1 = {1}
    OBVIOUS
  <2>3. IsSeq(<<x>>)
    BY <2>1, SeqWhere
  <2> QED
    BY <2>1, <2>2, <2>3 DEF x
<1>4. DOMAIN Newthread(<<"fun", 1>>) = ThreadFields /\ IsSeq(Newthread(<<"fun", 1>>).ci)
  <2> DEFINE x == [func |-> 0, base |-> 1, top |-> 21, savedpc |-> 0, nresults |-> 0, tailcalls |-> 0]
  <2>1. Newthread(<<"fun", 1>>).ci = <<x>> /\ DOMAIN Newthread(<<"fun", 1>>) = ThreadFields
    BY DEF Newthread, ThreadFields
  <2> HIDE DEF x
  <2>2. <<x>> \in Seq({x})
    OBVIOUS
  <2> QED
    BY <2>1, <2>2, SeqWhere
<1> QED
  BY <1>1, <1>2, <1>3, <1>4 DEF Initial, Shaped

(* Every step keeps it.                                                      *)
LEMMA ControlStep == Control /\ [Next]_vars => Control'
<1> SUFFICES ASSUME Control, [Next]_vars PROVE Control'
  OBVIOUS
<1>1. CASE Load \/ Done \/ UNCHANGED vars
  BY <1>1 DEF Load, Done, vars, Control, Initial, Good, Mid, Common, Shaped, Frames, Placed, Cur, L,
     Cis, Waiting, Others, Busy
<1>2. CASE Start
  <2>1. Initial(vm)
    <3>1. vm.C = <<>> /\ vm.out = <<>> /\ Len(<<>>) = 0
      BY <1>2 DEF Start
    <3>2. ~Common(vm)
      BY <3>1 DEF Common, First
    <3> QED
      BY <3>1, <3>2 DEF Control, Good, Mid
  <2>2. Good(vm')
    BY <1>2, <2>1, StartGood
  <2> QED
    BY <2>2 DEF Control
<1>3. CASE Step
  <2>1. Good(vm)
    BY <1>3, InitialWaits DEF Control
  <2> QED
    BY <1>3, <2>1, StepGood DEF Control
<1> QED
  BY <1>1, <1>2, <1>3 DEF Next

(* The C stack is a chain of resumes.                                        *)
LEMMA ControlChains == Control => ResumedOnce
<1> SUFFICES ASSUME Control PROVE ResumedOnce
  OBVIOUS
<1>1. CASE vm.C = <<>>
  <2>1. DOMAIN vm.C = {}
    BY <1>1
  <2> QED
    BY <2>1 DEF ResumedOnce
<1>2. CASE vm.C # <<>>
  <2>1. Common(vm)
    BY <1>2 DEF Control, Initial, Good, Mid
  <2>2. /\ IsSeq(vm.C) /\ DOMAIN vm.C = 1..Len(vm.C) /\ Len(vm.C) \in Nat
    BY <2>1, CommonIs
  <2>3. ASSUME NEW i \in DOMAIN vm.C, vm.C[i].k = "resume", NEW j \in Resumers(vm.C, i)
        PROVE  vm.C[j].co # vm.C[i].co
    <3>1. j \in Nat /\ i \in Nat /\ j + 1 <= i /\ j < i /\ j < Len(vm.C) /\ j \in DOMAIN vm.C
          /\ vm.C[j].k = "resume"
      BY <2>2, <2>3 DEF Resumers
    <3>2. j + 1 \in DOMAIN vm.C /\ vm.C[j + 1].th = vm.C[j].co
      BY <2>1, <2>2, <3>1, Waits DEF Common
    <3>3. vm.C[j + 1].th # vm.C[i].co
      BY <2>1, <2>3, <3>1, <3>2 DEF Common, Fresh
    <3> QED
      BY <3>2, <3>3
  <2>4. \A i \in DOMAIN vm.C :
          IF Resumers(vm.C, i) = {} THEN vm.C[i].th = 1
          ELSE \E j \in Resumers(vm.C, i) :
                 vm.C[i].th = vm.C[j].co /\ \A m \in Resumers(vm.C, i) : m <= j
    BY <2>1 DEF Common, Chained
  <2> QED
    BY <2>3, <2>4 DEF ResumedOnce, Resumers
<1> QED
  BY <1>1, <1>2

(* A coroutine is resumed by one thread at a time, and those that wait for   *)
(* each other are a chain from the main thread to the one that runs: for     *)
(* every program, whatever it yields, throws, wraps or resumes in its tag    *)
(* methods and callbacks (auxresume in lbaselib.c, lua_resume, lua_yield and *)
(* luaD_throw in ldo.c).                                                     *)
THEOREM CoroutinesAreChained == Spec => []ResumedOnce
<1>1. Spec => []Control
  BY ControlInit, ControlStep, PTL DEF Spec
<1> QED
  BY <1>1, ControlChains, PTL

-----------------------------------------------------------------------------
(* Upvalues.  A state of the machine has them and the functions.             *)
Has(s) == {"upvals", "funs"} \subseteq DOMAIN s
Leaves(s, t) == Has(t) /\ t.upvals = s.upvals /\ t.funs = s.funs

(* o: the upvalues of an earlier state.                                      *)
UpvalFields == {"open", "th", "i", "v"}
Typed(us) == \A u \in DOMAIN us : DOMAIN us[u] = UpvalFields
Numbered(us, n) == \A u \in DOMAIN us : u[1] \in Nat /\ u[1] <= n
Apart(us) ==
  \A u, w \in DOMAIN us :
    us[u].open /\ us[w].open /\ us[u].th = us[w].th /\ us[u].i = us[w].i => u = w
Follow(o, us) ==
  \A u \in DOMAIN o :
    /\ u \in DOMAIN us
    /\ us[u].open => o[u].open /\ us[u].th = o[u].th /\ us[u].i = o[u].i
Held(s, o) ==
  /\ Has(s) /\ IsSeq(s.funs)
  /\ Typed(s.upvals) /\ Numbered(s.upvals, Len(s.funs)) /\ Apart(s.upvals) /\ Follow(o, s.upvals)

(* What leaves the upvalues leaves them held.                                *)
LEMMA HeldOn ==
  ASSUME NEW s, NEW t, NEW o, Held(s, o), Leaves(s, t)
  PROVE  Held(t, o)
BY DEF Held, Leaves

(* Held upvalues are there.                                                  *)
LEMMA HeldHas == ASSUME NEW s, NEW o, Held(s, o) PROVE Has(s)
BY DEF Held

(* Steps that leave the upvalues, one after the other, leave them.           *)
LEMMA LeavesOn ==
  ASSUME NEW s, NEW t, NEW u, Leaves(s, t), Leaves(t, u)
  PROVE  Leaves(s, u)
BY DEF Leaves

(* Another state of the thread that runs, another activation.                *)
LEMMA LeavesWith ==
  ASSUME NEW s, NEW l, Has(s)
  PROVE  Leaves(s, With(s, l)) /\ Leaves(s, PushC(s, l)) /\ Leaves(s, PopC(s))
BY DEF Leaves, Has, With, PushC, PopC

(* The thread that runs and its stack.                                       *)
LEMMA HeldStack ==
  ASSUME NEW s, NEW o, NEW i, NEW v, Held(s, o)
  PROVE  /\ Held(With(s, v), o) /\ Held(Top(s, i), o) /\ Held(Goto(s, i), o)
         /\ Held(SetFrom(s, i, v), o) /\ Held(Setobj(s, i, v), o)
<1>1. ASSUME NEW l PROVE Held(With(s, l), o)
  BY HeldHas, LeavesWith, HeldOn
<1>2. ASSUME NEW vs PROVE Held(SetFrom(s, i, vs), o)
  BY <1>1 DEF SetFrom
<1> QED
  BY <1>1, <1>2 DEF Top, Goto, Setobj

(* Values pushed.                                                            *)
LEMMA HeldPush == ASSUME NEW s, NEW o, NEW vs, Held(s, o) PROVE Held(Push(s, vs), o)
<1>1. Held(SetFrom(s, L(s).top, vs), o)
  BY HeldStack
<1> QED
  BY <1>1, HeldStack DEF Push

(* One activation more or less.                                              *)
LEMMA HeldC == ASSUME NEW s, NEW o, NEW f, Held(s, o) PROVE Held(PushC(s, f), o) /\ Held(PopC(s), o)
BY HeldHas, LeavesWith, HeldOn

(* Tables.                                                                   *)
LEMMA HeldTables ==
  ASSUME NEW s, NEW o, NEW h, NEW k, NEW v, Held(s, o)
  PROVE  /\ Held(luaH_made(s, v).s, o) /\ Held(luaH_new(s).s, o)
         /\ Held(Store(s, h, k, v), o) /\ Held(StoreFrom(s, h, k, v), o)
         /\ Held(luaH_set(s, h, k), o) /\ Held(fasttm(s, h, k).s, o)
<1>1. Has(s)
  BY HeldHas
<1>2. ASSUME NEW t PROVE Leaves(s, luaH_made(s, t).s)
  <2>1. luaH_made(s, t).s = [s EXCEPT !.tables = Append(@, t)]
    BY DEF luaH_made
  <2>2. Leaves(s, [s EXCEPT !.tables = Append(@, t)])
    BY <1>1 DEF Leaves, Has
  <2> QED
    BY <2>1, <2>2
<1>3. ASSUME NEW w PROVE Leaves(s, Store(s, h, k, w))
  BY <1>1 DEF Leaves, Has, Store
<1>4. Leaves(s, StoreFrom(s, h, k, v))
  BY <1>1 DEF Leaves, Has, StoreFrom
<1>5. Leaves(s, luaH_set(s, h, k))
  <2> DEFINE t == Store(s, h, k, luaH_get(s, h, k))
  <2>1. Leaves(s, t)
    BY <1>3
  <2> HIDE DEF t
  <2>2. Leaves(t, [t EXCEPT !.tables[h].flags = {}])
    BY <2>1 DEF Leaves, Has
  <2> QED
    BY <2>1, <2>2, LeavesOn DEF luaH_set, t
<1>6. Leaves(s, fasttm(s, h, k).s)
  <2>1. Leaves(s, s) /\ Leaves(s, [s EXCEPT !.tables[h].flags = @ \cup {k}])
    BY <1>1 DEF Leaves, Has
  <2>2. fasttm(s, h, k).s \in {s, [s EXCEPT !.tables[h].flags = @ \cup {k}]}
    BY DEF fasttm
  <2> QED
    BY <2>1, <2>2
<1> QED
  BY <1>2, <1>3, <1>4, <1>5, <1>6, HeldOn DEF luaH_new

(* A value stored through a closed upvalue, or on the stack.                 *)
LEMMA HeldSetUpval ==
  ASSUME NEW s, NEW o, NEW u, NEW v, Held(s, o)
  PROVE  Held(SetUpval(s, u, v), o)
<1>1. CASE s.upvals[u].open
  <2>1. Leaves(s, SetUpval(s, u, v))
    BY <1>1, HeldHas DEF SetUpval, Leaves, Has
  <2> QED
    BY <2>1, HeldOn
<1>2. CASE ~s.upvals[u].open
  <2> DEFINE us == s.upvals
             x == [us[u] EXCEPT !.v = v]
             ws == [us EXCEPT ![u] = x]
             t == SetUpval(s, u, v)
  <2>1. t.upvals = ws /\ t.funs = s.funs /\ Has(t)
    BY <1>2, HeldHas DEF SetUpval, Has
  <2>2. u \in DOMAIN us => /\ DOMAIN x = UpvalFields /\ x.open = us[u].open
                           /\ x.th = us[u].th /\ x.i = us[u].i
    BY DEF Held, Typed, UpvalFields
  <2>3. DOMAIN ws = DOMAIN us
    OBVIOUS
  <2> HIDE DEF x
  <2>4. \A w \in DOMAIN us : /\ DOMAIN ws[w] = DOMAIN us[w] /\ ws[w].open = us[w].open
                             /\ ws[w].th = us[w].th /\ ws[w].i = us[w].i
    BY <2>2 DEF Held, Typed
  <2> HIDE DEF t, ws
  <2>5. Held(t, o)
    BY <2>1, <2>3, <2>4 DEF Held, Typed, Numbered, Apart, Follow
  <2> QED
    BY <2>5 DEF t
<1> QED
  BY <1>1, <1>2

(* Upvalues are closed: none opens, none moves.                              *)
LEMMA HeldClose ==
  ASSUME NEW s, NEW o, NEW level, Held(s, o)
  PROVE  Held(luaF_close(s, level), o)
<1> DEFINE t == luaF_close(s, level)
           Shut(u) == [open |-> FALSE, th |-> 0, i |-> 0, v |-> Upval(s, u)]
<1>1. Has(t) /\ t.funs = s.funs
      /\ t.upvals = [u \in DOMAIN s.upvals |-> IF OpenAt(s, u, level) THEN Shut(u) ELSE s.upvals[u]]
  BY HeldHas DEF luaF_close, Has
<1>2. \A u : DOMAIN Shut(u) = UpvalFields /\ ~Shut(u).open
  BY DEF UpvalFields
<1> HIDE DEF t, Shut
<1>3. \A u \in DOMAIN s.upvals :
        /\ DOMAIN t.upvals[u] = UpvalFields
        /\ t.upvals[u].open => t.upvals[u] = s.upvals[u]
  BY <1>1, <1>2 DEF Held, Typed
<1>4. DOMAIN t.upvals = DOMAIN s.upvals
  BY <1>1
<1>5. Typed(t.upvals) /\ Numbered(t.upvals, Len(t.funs)) /\ Follow(o, t.upvals)
  BY <1>1, <1>3, <1>4 DEF Held, Typed, Numbered, Follow
<1>6. Apart(t.upvals)
  BY <1>3, <1>4 DEF Held, Apart
<1>7. Held(t, o)
  BY <1>1, <1>5, <1>6 DEF Held
<1> QED
  BY <1>7 DEF t

(* A closure is made: a slot that has an open upvalue gets no other, and the *)
(* new ones bear the number of the new function.                             *)
LEMMA HeldFind ==
  ASSUME NEW s, NEW o, NEW levels, NEW f, Held(s, o)
  PROVE  Held([luaF_findupvals(s, levels) EXCEPT !.funs = Append(@, f)], o)
<1> DEFINE us == s.upvals
           n == Len(s.funs)
           open == {us[u].i : u \in {u \in DOMAIN us : OpenHere(s, u)}}
           made == {<<n + 1, i>> : i \in levels \ open}
           New(u) == [open |-> TRUE, th |-> Cur(s), i |-> u[2], v |-> NIL]
           ws == [u \in DOMAIN us \cup made |-> IF u \in made THEN New(u) ELSE us[u]]
           t == [luaF_findupvals(s, levels) EXCEPT !.funs = Append(@, f)]
<1>1. Has(t) /\ t.funs = Append(s.funs, f) /\ t.upvals = ws
  BY HeldHas DEF luaF_findupvals, Has
<1> HIDE DEF t
<1>2. IsSeq(t.funs) /\ Len(t.funs) = n + 1 /\ n \in Nat
  <2>1. IsSeq(s.funs)
    BY DEF Held
  <2> QED
    BY <1>1, <2>1, SeqAppend, SeqIs
<1>3. \A u \in made : u[1] = n + 1 /\ u[2] \in levels \ open /\ u = <<n + 1, u[2]>>
  OBVIOUS
<1>4. \A u : DOMAIN New(u) = UpvalFields /\ New(u).open /\ New(u).th = Cur(s) /\ New(u).i = u[2]
  BY DEF UpvalFields
<1>5. \A u \in made : u \notin DOMAIN us
  BY <1>2, <1>3 DEF Held, Numbered
<1>6. \A u \in DOMAIN us : us[u].open /\ us[u].th = Cur(s) => us[u].i \in open
  BY DEF OpenHere
<1> HIDE DEF open, made, New
<1>7. /\ DOMAIN ws = DOMAIN us \cup made
      /\ \A u \in DOMAIN us : ws[u] = us[u]
      /\ \A u \in made : ws[u] = New(u)
  BY <1>5
<1> HIDE DEF ws, us
<1>8. Typed(ws) /\ Follow(o, ws)
  BY <1>4, <1>7 DEF Held, Typed, Follow, us
<1>9. Numbered(ws, n + 1)
  BY <1>2, <1>3, <1>7 DEF Held, Numbered, us
<1>10. Apart(ws)
  <2> SUFFICES ASSUME NEW u \in DOMAIN ws, NEW w \in DOMAIN ws, ws[u].open, ws[w].open,
                      ws[u].th = ws[w].th, ws[u].i = ws[w].i
               PROVE  u = w
    BY DEF Apart
  <2>1. CASE u \in DOMAIN us /\ w \in DOMAIN us
    BY <1>7, <2>1 DEF Held, Apart, us
  <2>2. CASE u \in made /\ w \in made
    BY <1>3, <1>4, <1>7, <2>2
  <2>3. CASE u \in made /\ w \in DOMAIN us
    BY <1>3, <1>4, <1>6, <1>7, <2>3
  <2>4. CASE u \in DOMAIN us /\ w \in made
    BY <1>3, <1>4, <1>6, <1>7, <2>4
  <2> QED
    BY <1>7, <2>1, <2>2, <2>3, <2>4
<1>11. Held(t, o)
  BY <1>1, <1>2, <1>8, <1>9, <1>10 DEF Held
<1> QED
  BY <1>11 DEF t

(* The end of a function.                                                    *)
LEMMA HeldFinish ==
  ASSUME NEW s, NEW o, NEW vals, Held(s, o)
  PROVE  Held(luaD_poscall(s, vals), o) /\ Held(Finish(s, vals), o)
<1>1. \E l, i, vs, n : luaD_poscall(s, vals) = Top(SetFrom(With(s, l), i, vs), n)
  BY DEF luaD_poscall
<1>2. Held(luaD_poscall(s, vals), o)
  BY <1>1, HeldStack
<1>3. Finish(s, vals) = luaD_poscall(s, vals) \/ \E n : Finish(s, vals) = Top(luaD_poscall(s, vals), n)
  BY DEF Finish, Corrected
<1> QED
  BY <1>2, <1>3, HeldStack

(* An error, wherever it is caught.                                          *)
LEMMA HeldThrow ==
  ASSUME NEW s, NEW o, NEW v, Held(s, o)
  PROVE  Held(luaD_throw(s, v), o)
<1>1. ASSUME NEW n PROVE Held(Unwound(s, n), o)
  <2>1. Leaves(s, Unwound(s, n))
    BY HeldHas DEF Leaves, Has, Unwound
  <2> QED
    BY <2>1, HeldOn
<1>2. ASSUME NEW t, NEW c, NEW w, Held(t, o) PROVE Held(Caught(t, c, w), o)
  <2>1. Held(luaF_close(t, c.top), o)
    BY <1>2, HeldClose
  <2>2. Held(Restored(luaF_close(t, c.top), c), o)
    BY <2>1, HeldStack DEF Restored
  <2> QED
    BY <1>2, <2>2, HeldFinish DEF Caught, Failed
<1>3. CASE Catching(s) = {}
  <2> DEFINE t == Unwound(s, 1)
  <2>1. luaD_throw(s, v) = [t EXCEPT !.out = <<"error", HandedOn(s, v)>>]
    BY <1>3 DEF luaD_throw
  <2>2. Held(t, o)
    BY <1>1
  <2> HIDE DEF t
  <2>3. Leaves(t, [t EXCEPT !.out = <<"error", HandedOn(s, v)>>])
    BY <2>2, HeldHas DEF Leaves, Has
  <2> QED
    BY <2>1, <2>2, <2>3, HeldOn
<1>4. CASE Catching(s) # {}
  <2>1. \E n : luaD_throw(s, v) = Caught(Unwound(s, n), s.C[n], HandedOn(s, v))
    BY <1>4 DEF luaD_throw
  <2> QED
    BY <1>1, <1>2, <2>1
<1> QED
  BY <1>3, <1>4

(* So does one with a message, or about the type of a value.                 *)
LEMMA HeldError ==
  ASSUME NEW s, NEW o, NEW msg, NEW v, NEW where, NEW op, Held(s, o)
  PROVE  /\ Held(luaG_runerror(s, msg), o) /\ Held(luaL_error(s, msg), o)
         /\ Held(luaG_typeerror(s, v, where, op), o)
BY HeldThrow DEF luaG_runerror, luaL_error, luaG_typeerror

(* The frame of a Lua function, and the activation that runs it.             *)
LEMMA HeldFramed ==
  ASSUME NEW a, NEW o, NEW func, NEW nresults, NEW p, NEW op, Held(a.s, o)
  PROVE  Held(Activated(Framed(a, func, nresults, p), op), o)
<1> DEFINE t == Framed(a, func, nresults, p)
<1>1. \E l, i, vs, n : t = Goto(Top(SetFrom(With(a.s, l), i, vs), n), 0)
  BY DEF Framed, Entered, PushCi
<1> HIDE DEF t
<1>2. Held(t, o)
  BY <1>1, HeldStack
<1>3. CASE op
  <2>1. Leaves(t, Activated(t, op))
    BY <1>2, <1>3, HeldHas DEF Activated, Leaves, Has
  <2> QED
    BY <1>2, <2>1, HeldOn DEF t
<1>4. CASE ~op
  BY <1>2, <1>4, HeldC DEF Activated, t
<1> QED
  BY <1>3, <1>4

(* get_compTM asks two metatables, and may set a flag in each.               *)
LEMMA HeldComp ==
  ASSUME NEW s, NEW o, NEW mt1, NEW mt2, Held(s, o)
  PROVE  Held(get_compTM(s, mt1, mt2).s, o)
<1> DEFINE one == fasttm(s, mt1, "__eq")
           two == fasttm(one.s, mt2, "__eq")
<1>1. Held(one.s, o)
  BY HeldTables
<1> HIDE DEF one
<1>2. Held(two.s, o)
  BY <1>1, HeldTables
<1>3. get_compTM(s, mt1, mt2).s \in {one.s, two.s}
  BY DEF get_compTM, one
<1> QED
  BY <1>1, <1>2, <1>3

(* The arguments of a vararg function, with the table arg or without.        *)
LEMMA HeldAdjusted ==
  ASSUME NEW s, NEW o, NEW func, NEW p, NEW args, Held(s, o)
  PROVE  Held(adjust_varargs(s, func, p, args).s, o)
<1>1. ASSUME NEW t, NEW given, NEW arg, Held(t, o)
      PROVE  Held(Adjusted(t, func, p, given, arg).s, o)
  <2>1. \E i, vs : Adjusted(t, func, p, given, arg).s = SetFrom(t, i, vs)
    BY DEF Adjusted
  <2> QED
    BY <1>1, <2>1, HeldStack
<1> DEFINE given == args \o Nils(p.numparams - Len(args))
           arg == luaH_made(s, ArgTable(SubSeq(given, p.numparams + 1, Len(given))))
<1>2. Held(arg.s, o)
  BY HeldTables
<1>3. adjust_varargs(s, func, p, args) \in
        {Adjusted(arg.s, func, p, given, <<arg.v>>), Adjusted(s, func, p, given, <<>>)}
  BY DEF adjust_varargs
<1> HIDE DEF given, arg
<1> QED
  BY <1>1, <1>2, <1>3

(* A Lua function is entered.                                                *)
LEMMA HeldEnter ==
  ASSUME NEW s, NEW o, NEW v, NEW func, NEW nresults, NEW op, Held(s, o)
  PROVE  Held(Enter(s, v, func, nresults, op), o)
<1> DEFINE p == ProtoOf(s, v[2])
           a == IF p.is_vararg = {} THEN Plain(s, func, p)
                ELSE adjust_varargs(s, func, p, Slots(s, func + 1, L(s).top))
<1>1. Held(a.s, o)
  BY HeldAdjusted DEF Plain
<1>2. Enter(s, v, func, nresults, op) = Activated(Framed(a, func, nresults, p), op)
  BY DEF Enter
<1> HIDE DEF a, p
<1> QED
  BY <1>1, <1>2, HeldFramed

(* A function is called.                                                     *)
LEMMA HeldPrecalled ==
  ASSUME NEW s, NEW o, NEW v, NEW func, NEW nresults, NEW op, Held(s, o)
  PROVE  Held(Precalled(s, v, func, nresults, op), o)
<1> DEFINE t == PushCi(s, func, func + 1, L(s).top, nresults)
           u == [t EXCEPT !.cfun = v]
<1>1. Held(luaG_runerror(s, <<"stack overflow">>), o)
  BY HeldError
<1>2. Held(Enter(s, v, func, nresults, op), o)
  BY HeldEnter
<1>3. Held(t, o)
  BY HeldStack DEF PushCi
<1>4. Precalled(s, v, func, nresults, op) \in
        {luaG_runerror(s, <<"stack overflow">>), Enter(s, v, func, nresults, op), u}
  BY DEF Precalled
<1> HIDE DEF t
<1>5. Leaves(t, u)
  BY <1>3, HeldHas DEF Leaves, Has
<1>6. Held(u, o)
  BY <1>3, <1>5, HeldOn
<1> QED
  BY <1>1, <1>2, <1>4, <1>6

(* A value is called: a function, or its tag method __call.                  *)
LEMMA HeldPrecall ==
  ASSUME NEW s, NEW o, NEW func, NEW nresults, NEW op, Held(s, o)
  PROVE  Held(luaD_precall(s, func, nresults, op), o)
<1> DEFINE v == Val(s, func)
           tm == luaT_gettmbyobj(s, v, "__call")
           t == SetFrom(s, func, <<tm>> \o Slots(s, func, L(s).top))
           u == Top(t, L(s).top + 1)
<1>1. Held(t, o)
  BY HeldStack
<1>2. luaD_precall(s, func, nresults, op) \in
        {Precalled(s, v, func, nresults, op), Precalled(u, tm, func, nresults, op),
         luaG_typeerror(s, v, func, "call")}
  BY DEF luaD_precall, tryfuncTM
<1> HIDE DEF t, v, tm
<1>4. Held(u, o)
  BY <1>1, HeldStack
<1> HIDE DEF u
<1>5. Held(luaG_typeerror(s, v, func, "call"), o)
  BY HeldError
<1> QED
  BY <1>2, <1>4, <1>5, HeldPrecalled

(* A call from C.                                                            *)
LEMMA HeldCall ==
  ASSUME NEW s, NEW o, NEW func, NEW nresults, NEW frame, Held(s, o)
  PROVE  Held(luaD_call(s, func, nresults, frame), o)
<1> DEFINE t == PushC(s, frame)
<1>1. Held(t, o)
  BY HeldC
<1>2. luaD_call(s, func, nresults, frame) = luaD_precall(t, func, nresults, FALSE)
      \/ \E v : luaD_call(s, func, nresults, frame) = luaD_throw(t, v)
  BY DEF luaD_call, luaG_runerror
<1> HIDE DEF t
<1> QED
  BY <1>1, <1>2, HeldPrecall, HeldThrow

(* A function is called above the top.                                       *)
LEMMA HeldCallTM ==
  ASSUME NEW s, NEW o, NEW f, NEW ps, NEW nresults, NEW frame, Held(s, o)
  PROVE  Held(callTM(s, f, ps, nresults, frame), o)
<1>1. Held(Push(s, <<f>> \o ps), o)
  BY HeldPush
<1> QED
  BY <1>1, HeldCall DEF callTM

(* A read of a table, through its tag methods.                               *)
LEMMA HeldGettable ==
  ASSUME NEW s, NEW o, NEW t, NEW key, NEW res, NEW where, NEW loop, Held(s, o)
  PROVE  Held(luaV_gettable(s, t, key, res, where, loop), o)
<1> DEFINE v == luaH_get(s, t[2], key)
           fast == fasttm(s, s.tables[t[2]].meta, "__index")
           tm == IF t[1] = "table" THEN fast.tm ELSE luaT_gettmbyobj(s, t, "__index")
           g == IF t[1] = "table" THEN fast.s ELSE s
           r == luaV_gettable(s, t, key, res, where, loop)
<1>1. Held(g, o)
  BY HeldTables
<1>2. \/ r = luaG_runerror(s, <<"loop in gettable">>)
      \/ r = Setobj(s, res, v)
      \/ r = Setobj(g, res, NIL)
      \/ r = luaG_typeerror(s, t, where, "index")
      \/ \E f, n, c : r = callTM(g, tm, f, n, c)
      \/ \E c : r = PushC(g, c)
  BY DEF luaV_gettable, callTMres
<1> HIDE DEF v, tm, g, r
<1>3. Held(r, o)
  BY <1>1, <1>2, HeldError, HeldStack, HeldCallTM, HeldC
<1> QED
  BY <1>3 DEF r

(* A write to a table, through its tag methods.                              *)
LEMMA HeldSettable ==
  ASSUME NEW s, NEW o, NEW t, NEW key, NEW val, NEW where, NEW loop, Held(s, o)
  PROVE  Held(luaV_settable(s, t, key, val, where, loop), o)
<1> DEFINE set == luaH_set(s, t[2], key)
           fast == fasttm(set, s.tables[t[2]].meta, "__newindex")
           g == IF t[1] = "table" THEN fast.s ELSE s
           r == luaV_settable(s, t, key, val, where, loop)
<1>1. Held(set, o)
  BY HeldTables
<1>2. \/ \E msg : r = luaG_runerror(s, msg)
      \/ r = Store(set, t[2], key, val) \/ r = Store(g, t[2], key, val)
      \/ r = luaG_typeerror(s, t, where, "index")
      \/ \E f, ps, n, c : r = callTM(g, f, ps, n, c)
      \/ \E c : r = PushC(g, c)
  BY DEF luaV_settable
<1> HIDE DEF set, r
<1>3. Held(g, o)
  BY <1>1, HeldTables
<1> HIDE DEF g
<1>4. Held(r, o)
  BY <1>1, <1>2, <1>3, HeldError, HeldTables, HeldCallTM, HeldC
<1> QED
  BY <1>4 DEF r

(* Arithmetic, with numbers or with a tag method.                            *)
LEMMA HeldArith ==
  ASSUME NEW s, NEW o, NEW res, NEW p1, NEW w1, NEW p2, NEW w2, NEW op, Held(s, o)
  PROVE  Held(Arith(s, res, p1, w1, p2, w2, op), o)
<1> DEFINE r == Arith(s, res, p1, w1, p2, w2, op)
<1>1. \/ \E v : r = Setobj(s, res, v)
      \/ \E f, ps, n, c : r = callTM(s, f, ps, n, c)
      \/ \E v, w, x : r = luaG_typeerror(s, v, w, x)
  BY DEF Arith, callTMres, luaG_aritherror
<1> HIDE DEF r
<1>2. Held(r, o)
  BY <1>1, HeldStack, HeldCallTM, HeldError
<1> QED
  BY <1>2 DEF r

(* Concatenation, with strings or with a tag method.                         *)
LEMMA HeldConcat ==
  ASSUME NEW s, NEW o, NEW total, NEW last, Held(s, o)
  PROVE  Held(luaV_concat(s, total, last), o)
<1> DEFINE r == luaV_concat(s, total, last)
           t == Joined(s, Collected(s, total, L(s).base + last), L(s).base + last)
<1>1. t = s \/ \E i, v : t = Setobj(s, i, v)
  BY DEF Joined
<1>2. (\E i, v : r = Setobj(t, i, v)) \/ \E n, m : r = concatTM(t, n, m)
  BY DEF luaV_concat
<1> HIDE DEF t, r
<1>3. Held(t, o)
  BY <1>1, HeldStack
<1>4. ASSUME NEW n, NEW m PROVE Held(concatTM(t, n, m), o)
  <2> DEFINE q == concatTM(t, n, m)
  <2>1. \/ \E v, w, x : q = luaG_typeerror(t, v, w, x)
        \/ \E f, ps, k, c : q = callTM(t, f, ps, k, c)
    BY DEF concatTM, luaG_concaterror
  <2> HIDE DEF q
  <2>2. Held(q, o)
    BY <1>3, <2>1, HeldError, HeldCallTM
  <2> QED
    BY <2>2 DEF q
<1>5. Held(r, o)
  BY <1>2, <1>3, <1>4, HeldStack
<1> QED
  BY <1>5 DEF r

(* Coroutines and the libraries.                                             *)
LEMMA HeldResume ==
  ASSUME NEW s, NEW o, NEW co, NEW args, NEW wrap, Held(s, o)
  PROVE  Held(auxresume(s, co, args, wrap), o)
<1>1. ASSUME NEW t, Held(t, o) PROVE Held(resume(t, co, args), o)
  <2>1. CASE t.threads[co].status = "ok"
    <3>1. resume(t, co, args) = luaD_precall(Push(t, args), L(t).top - 1, LUA_MULTRET, TRUE)
      BY <2>1 DEF resume
    <3>2. Held(Push(t, args), o)
      BY <1>1, HeldPush
    <3> QED
      BY <3>1, <3>2, HeldPrecall
  <2>2. CASE t.threads[co].status # "ok"
    <3>1. resume(t, co, args) = Goingon(Finish(Woken(t, co), args))
      BY <2>2 DEF resume
    <3>2. Leaves(t, Woken(t, co))
      BY <1>1, HeldHas DEF Woken, Leaves, Has
    <3>3. Held(Finish(Woken(t, co), args), o)
      BY <1>1, <3>2, HeldOn, HeldFinish
    <3> DEFINE u == Finish(Woken(t, co), args)
    <3>4. Leaves(u, Goingon(u))
      <4> HIDE DEF u
      <4> QED
        BY <3>3, HeldHas DEF Goingon, Leaves, Has, u
    <3> QED
      BY <3>1, <3>3, <3>4, HeldOn
  <2> QED
    BY <2>1, <2>2
<1> DEFINE t == Switched(s, co, Len(args), wrap)
           lost == IF co \in Suspended(s) THEN [s EXCEPT !.threads[co].top = Last(s.threads[co].ci).base]
                   ELSE s
           r == auxresume(s, co, args, wrap)
<1>2. Leaves(s, t)
  BY HeldHas DEF Switched, Leaves, Has
<1>3. Leaves(s, lost)
  BY HeldHas DEF Leaves, Has
<1>4. \/ r = resume(t, co, args)
      \/ \E v : r = luaD_throw(lost, v)
      \/ \E v : r = Finish(lost, v)
  BY DEF auxresume, Failed, luaL_error
<1> HIDE DEF t, lost, r
<1>5. Held(t, o) /\ Held(lost, o)
  BY <1>2, <1>3, HeldOn
<1>6. Held(r, o)
  BY <1>1, <1>4, <1>5, HeldThrow, HeldFinish
<1> QED
  BY <1>6 DEF r

(* A coroutine yields.                                                       *)
LEMMA HeldYield ==
  ASSUME NEW s, NEW o, NEW args, Held(s, o)
  PROVE  Held(lua_yield(s, args), o)
<1> DEFINE n == Len(s.C)
           top == L(s).top - Len(args)
           out == [s EXCEPT !.threads[Cur(s)] = [L(s) EXCEPT !.status = "yield", !.top = top, !.base = top],
                            !.C = SubSeq(@, 1, n - 2)]
           r == lua_yield(s, args)
<1>1. Leaves(s, out)
  BY HeldHas DEF Leaves, Has
<1>2. (\E msg : r = luaG_runerror(s, msg)) \/ \E v : r = Finish(out, v)
  BY DEF lua_yield
<1> HIDE DEF out, r
<1>3. Held(out, o)
  BY <1>1, HeldOn
<1>4. Held(r, o)
  BY <1>2, <1>3, HeldError, HeldFinish
<1> QED
  BY <1>4 DEF r

(* One element of foreach or foreachi.                                       *)
LEMMA HeldForeach ==
  ASSUME NEW s, NEW o, NEW c, Held(s, o)
  PROVE  Held(foreach(s, c), o) /\ Held(foreachi(s, c), o)
<1>1. foreach(s, c) = Finish(s, <<>>) \/ \E f, ps, n, d : foreach(s, c) = callTM(s, f, ps, n, d)
  BY DEF foreach
<1>2. foreachi(s, c) = Finish(s, <<>>) \/ \E f, ps, n, d : foreachi(s, c) = callTM(s, f, ps, n, d)
  BY DEF foreachi
<1> QED
  BY <1>1, <1>2, HeldFinish, HeldCallTM

(* sort swaps two elements.                                                  *)
LEMMA HeldSwap ==
  ASSUME NEW s, NEW o, NEW c, NEW i, NEW x, NEW j, NEW y, Held(s, o)
  PROVE  Held(Swap(s, c, i, x, j, y), o)
<1>1. Held(rawseti(s, c.h, i, x), o)
  BY HeldTables DEF rawseti
<1> QED
  BY <1>1, HeldTables DEF Swap, rawseti

(* sort chooses its pivot and splits the range.                              *)
LEMMA HeldPivot ==
  ASSUME NEW s, NEW o, NEW c, Held(s, o)
  PROVE  Held(Pivot(s, c).s, o) /\ Held(Split(s, c).s, o)
<1>1. Pivot(s, c).s = s \/ \E i, x, j, y : Pivot(s, c).s = Swap(s, c, i, x, j, y)
  BY DEF Pivot, Range1, State
<1>2. \E i, x, j, y : Split(s, c).s = Swap(s, c, i, x, j, y)
  BY DEF Split, Range1, State
<1> QED
  BY <1>1, <1>2, HeldSwap

(* sort goes on after a comparison.                                          *)
LEMMA HeldSifted ==
  ASSUME NEW s, NEW o, NEW c, NEW less, Held(s, o)
  PROVE  Held(Sifted(s, c, less).s, o)
<1> DEFINE r == Sifted(s, c, less).s
<1>1. CASE c.phase = "ends"
  <2>1. r = s \/ \E i, x, j, y : r = Swap(s, c, i, x, j, y)
    BY <1>1 DEF Sifted, Range1, State
  <2> HIDE DEF r
  <2>2. Held(r, o)
    BY <2>1, HeldSwap
  <2> QED
    BY <2>2 DEF r
<1>2. CASE c.phase = "middle"
  <2>1. r = s \/ \E i, x, j, y : r = Pivot(Swap(s, c, i, x, j, y), c).s
    BY <1>2 DEF Sifted, State
  <2> HIDE DEF r
  <2>2. Held(r, o)
    BY <2>1, HeldSwap, HeldPivot
  <2> QED
    BY <2>2 DEF r
<1>3. CASE c.phase = "last"
  <2>1. r = Pivot(s, c).s \/ \E i, x, j, y : r = Pivot(Swap(s, c, i, x, j, y), c).s
    BY <1>3 DEF Sifted
  <2> HIDE DEF r
  <2>2. Held(r, o)
    BY <2>1, HeldSwap, HeldPivot
  <2> QED
    BY <2>2 DEF r
<1>4. CASE c.phase = "up"
  BY <1>4 DEF Sifted, State
<1>5. CASE c.phase \notin {"ends", "middle", "last", "up"}
  <2>1. r = s \/ r = Split(s, c).s \/ \E i, x, j, y : r = Swap(s, c, i, x, j, y)
    BY <1>5 DEF Sifted, State
  <2> HIDE DEF r
  <2>2. Held(r, o)
    BY <2>1, HeldSwap, HeldPivot
  <2> QED
    BY <2>2 DEF r
<1> QED
  BY <1>1, <1>2, <1>3, <1>4, <1>5

(* sort asks for a comparison, or ends.                                      *)
LEMMA HeldSort ==
  ASSUME NEW s, NEW o, NEW d, Held(s, o)
  PROVE  Held(auxsort(s, d), o)
<1> DEFINE r == auxsort(s, d)
<1>1. \/ \E v : r = Finish(s, v)
      \/ \E v : r = luaD_throw(s, v)
      \/ \E c : r = PushC(s, c)
      \/ \E f, ps, n, c : r = callTM(s, f, ps, n, c)
  BY DEF auxsort, luaL_error, luaG_ordererror, luaG_runerror
<1> HIDE DEF r
<1>2. Held(r, o)
  BY <1>1, HeldFinish, HeldThrow, HeldC, HeldCallTM
<1> QED
  BY <1>2 DEF r

(* gsub asks for a replacement, or ends.                                     *)
LEMMA HeldGsub ==
  ASSUME NEW s, NEW o, NEW g, Held(s, o)
  PROVE  Held(str_gsub(s, g), o)
<1> DEFINE r == str_gsub(s, g)
<1>1. \/ \E v : r = Finish(s, v)
      \/ \E v : r = luaL_error(s, v)
      \/ \E c : r = PushC(s, c)
      \/ \E f, ps, n, c : r = callTM(s, f, ps, n, c)
  BY DEF str_gsub
<1> HIDE DEF r
<1>2. Held(r, o)
  BY <1>1, HeldFinish, HeldError, HeldC, HeldCallTM
<1> QED
  BY <1>2 DEF r

(* What a function of the libraries changes at once.                         *)
LEMMA HeldChanged ==
  ASSUME NEW s, NEW o, NEW f, NEW args, NEW a, Held(s, o)
  PROVE  Held(Changed(s, f, args, a), o)
<1>1. CASE f = "setmetatable"
  <2> DEFINE m == IF a[2] = NIL THEN 0 ELSE a[2][2]
  <2>1. Leaves(s, [s EXCEPT !.tables[a[1][2]].meta = m])
    BY HeldHas DEF Leaves, Has
  <2> QED
    BY <1>1, <2>1, HeldOn DEF Changed
<1>2. CASE f = "rawset"
  <2> DEFINE t == luaH_set(s, a[1][2], a[2])
  <2>1. Changed(s, f, args, a) = Store(t, a[1][2], a[2], a[3])
    BY <1>2 DEF Changed
  <2>2. Held(t, o)
    BY HeldTables
  <2> HIDE DEF t
  <2> QED
    BY <2>1, <2>2, HeldTables
<1>3. CASE f \in {"create", "wrap"}
  <2>1. Leaves(s, luaB_cocreate(s, a[1]))
    BY HeldHas DEF luaB_cocreate, Leaves, Has
  <2> QED
    BY <1>3, <2>1, HeldOn DEF Changed
<1>4. CASE f = "insert"
  BY <1>4, HeldTables DEF Changed, tinsert
<1>5. CASE f = "remove"
  BY <1>5, HeldTables DEF Changed, tremove
<1>6. CASE f = "gmatch"
  <2> DEFINE ms == Append(s.matches, [m |-> NewMatching(TextOf(a[1]), TextOf(a[2])), at |-> 1])
  <2>1. Leaves(s, [s EXCEPT !.matches = ms])
    BY HeldHas DEF Leaves, Has
  <2> QED
    BY <1>6, <2>1, HeldOn DEF Changed
<1>7. CASE f \notin {"setmetatable", "rawset", "create", "wrap", "insert", "remove", "gmatch"}
  BY <1>7 DEF Changed
<1> QED
  BY <1>1, <1>2, <1>3, <1>4, <1>5, <1>6, <1>7

(* A function of the libraries, by its name.                                 *)
LEMMA HeldInvoked ==
  ASSUME NEW s, NEW o, NEW f, NEW args, NEW a, NEW refusal, Held(s, o)
  PROVE  Held(Invoked(s, f, args, a, refusal), o)
<1> DEFINE r == Invoked(s, f, args, a, refusal)
           others == {"error", "pcall", "resume", "auxwrap", "yield", "foreach", "foreachi", "sort",
                      "gsub", "gmatch_aux"} \cup StringFunctions
<1>1. CASE refusal # NIL
  BY <1>1, HeldError DEF Invoked
<1>2. CASE refusal = NIL /\ f[2] \in {"error", "pcall"}
  BY <1>2, HeldThrow, HeldCall DEF Invoked, luaB_error, StringFunctions
<1>3. CASE refusal = NIL /\ f[2] \in {"resume", "auxwrap", "yield"}
  BY <1>3, HeldResume, HeldYield DEF Invoked, StringFunctions
<1>4. CASE refusal = NIL /\ f[2] \in {"foreach", "foreachi"}
  BY <1>4, HeldForeach DEF Invoked, StringFunctions
<1>5. CASE refusal = NIL /\ f[2] = "sort"
  BY <1>5, HeldSort DEF Invoked, sort, StringFunctions
<1>6. CASE refusal = NIL /\ f[2] \in StringFunctions
  <2>1. (\E msg : r = luaL_error(s, msg)) \/ \E vs : r = Finish(s, vs)
    BY <1>6 DEF Invoked, StringFunctions, Given
  <2> HIDE DEF r
  <2>2. Held(r, o)
    BY <2>1, HeldError, HeldFinish
  <2> QED
    BY <2>2 DEF r
<1>7. CASE refusal = NIL /\ f[2] = "gsub"
  <2>1. \E g : r = str_gsub(s, g)
    BY <1>7 DEF Invoked, StringFunctions
  <2> QED
    BY <2>1, HeldGsub
<1>8. CASE refusal = NIL /\ f[2] = "gmatch_aux"
  <2> DEFINE n == f[3]
             q == NextMatch(s.matches[n].m, s.matches[n].at)
             t == [s EXCEPT !.matches[n].at = IF q.at = 0 THEN @ ELSE q.at]
  <2>1. r = Given(t, q)
    BY <1>8 DEF Invoked, Iterate, Stepped, StringFunctions
  <2>2. Leaves(s, t)
    BY HeldHas DEF Leaves, Has
  <2> HIDE DEF t, q
  <2>3. Held(Given(t, q), o)
    BY <2>2, HeldOn, HeldError, HeldFinish DEF Given
  <2> QED
    BY <2>1, <2>3
<1>9. CASE refusal = NIL /\ f[2] \notin others
  <2>1. \/ r = luaG_runerror(s, <<"table index is nil">>)
        \/ r = Finish(Changed(s, f[2], args, a), Results(s, f[2], args, a))
    BY <1>9 DEF Invoked
  <2> HIDE DEF r
  <2>2. Held(r, o)
    BY <2>1, HeldChanged, HeldFinish, HeldError
  <2> QED
    BY <2>2 DEF r
<1> QED
  BY <1>1, <1>2, <1>3, <1>4, <1>5, <1>6, <1>7, <1>8, <1>9

(* A C function that was called runs.                                        *)
LEMMA HeldCFunction ==
  ASSUME NEW s, NEW o, NEW f, Held(s, o)
  PROVE  Held(CFunction(s, f), o)
BY HeldInvoked DEF CFunction

(* A test jumps or skips.                                                    *)
LEMMA HeldBranch ==
  ASSUME NEW s, NEW o, NEW taken, Held(s, o)
  PROVE  Held(Branch(s, taken), o)
BY HeldStack DEF Branch

-----------------------------------------------------------------------------
(* The upvalues at each step.                                                *)
HeldInv == Held(vm, vm.upvals)

(* What moves values, or makes one.                                          *)
LEMMA MovesHeld ==
  ASSUME HeldInv,
         Move \/ Loadk \/ Loadbool \/ Loadnil \/ Getupval \/ Setupval \/ Newtable \/ Not \/ Jmp
  PROVE  Held(vm', vm.upvals)
<1>1. Held(vm, vm.upvals) /\ Held(next, vm.upvals)
  BY HeldStack DEF HeldInv, next
<1>2. CASE Move
  BY <1>1, <1>2, HeldStack DEF Move, Do
<1>3. CASE Loadk
  BY <1>1, <1>3, HeldStack DEF Loadk, Do
<1>4. CASE Loadbool
  <2>1. \E v, pc : vm' = Goto(Setobj(vm, ra, v), pc)
    BY <1>4 DEF Loadbool, Do
  <2> QED
    BY <1>1, <2>1, HeldStack
<1>5. CASE Loadnil
  BY <1>1, <1>5, HeldStack DEF Loadnil, Do
<1>6. CASE Getupval
  BY <1>1, <1>6, HeldStack DEF Getupval, Do
<1>7. CASE Setupval
  <2>1. \E u, v : vm' = SetUpval(next, u, v)
    BY <1>7 DEF Setupval, Do
  <2> QED
    BY <1>1, <2>1, HeldSetUpval
<1>8. CASE Newtable
  <2> DEFINE t == luaH_new(next)
  <2>1. vm' = Setobj(t.s, ra, t.v)
    BY <1>8 DEF Newtable, Do
  <2> QED
    BY <1>1, <2>1, HeldTables, HeldStack
<1>9. CASE Not
  BY <1>1, <1>9, HeldStack DEF Not, Do
<1>10. CASE Jmp
  BY <1>1, <1>10, HeldStack DEF Jmp, Do
<1> QED
  BY <1>2, <1>3, <1>4, <1>5, <1>6, <1>7, <1>8, <1>9, <1>10

(* Reads and writes of tables, arithmetic and concatenation.                 *)
LEMMA TablesHeld ==
  ASSUME HeldInv,
         Getglobal \/ Setglobal \/ Gettable \/ Settable \/ Self \/ Arithmetics \/ LenOf \/ Concat
  PROVE  Held(vm', vm.upvals)
<1>1. Held(vm, vm.upvals) /\ Held(next, vm.upvals)
  BY HeldStack DEF HeldInv, next
<1>3. CASE Getglobal
  BY <1>1, <1>3, HeldGettable DEF Getglobal, Do
<1>4. CASE Setglobal
  BY <1>1, <1>4, HeldSettable DEF Setglobal, Do
<1>5. CASE Gettable
  BY <1>1, <1>5, HeldGettable DEF Gettable, Do
<1>6. CASE Settable
  BY <1>1, <1>6, HeldSettable DEF Settable, Do
<1>7. CASE Self
  BY <1>1, <1>7, HeldStack, HeldGettable DEF Self, Do
<1>8. CASE Arithmetics
  BY <1>1, <1>8, HeldArith DEF Arithmetics, Do
<1>9. CASE LenOf
  <2>1. (\E v : vm' = Setobj(next, ra, v)) \/ \E v, w, op : vm' = luaG_typeerror(next, v, w, op)
    BY <1>9 DEF LenOf, Do
  <2> QED
    BY <1>1, <2>1, HeldStack, HeldError
<1>10. CASE Concat
  BY <1>1, <1>10, HeldConcat DEF Concat, Do
<1> QED
  BY <1>3, <1>4, <1>5, <1>6, <1>7, <1>8, <1>9, <1>10

(* Tests and loops.                                                          *)
LEMMA TestsHeld ==
  ASSUME HeldInv, Eq \/ Order \/ Test \/ Testset \/ Forprep \/ Forloop \/ Tforloop
  PROVE  Held(vm', vm.upvals)
<1>1. Held(vm, vm.upvals) /\ Held(next, vm.upvals)
  BY HeldStack DEF HeldInv, next
<1>2. CASE Eq
  <2> DEFINE x == RK(I.b)
             y == RK(I.c)
             tm == get_compTM(next, vm.tables[x[2]].meta, vm.tables[y[2]].meta)
  <2>1. \/ \E f, ps, n, c : vm' = callTM(tm.s, f, ps, n, c)
        \/ \E taken : vm' = Branch(tm.s, taken)
        \/ \E taken : vm' = Branch(next, taken)
    BY <1>2 DEF Eq, Do
  <2>2. Held(tm.s, vm.upvals)
    BY <1>1, HeldComp
  <2> HIDE DEF tm
  <2> QED
    BY <1>1, <2>1, <2>2, HeldCallTM, HeldBranch
<1>3. CASE Order
  <2>1. \/ \E f, ps, n, c : vm' = callTM(next, f, ps, n, c)
        \/ \E taken : vm' = Branch(next, taken)
        \/ \E v : vm' = luaD_throw(next, v)
    BY <1>3 DEF Order, Do, luaG_ordererror, luaG_runerror
  <2> QED
    BY <1>1, <2>1, HeldCallTM, HeldBranch, HeldThrow
<1>4. CASE Test
  BY <1>1, <1>4, HeldBranch DEF Test, Do
<1>5. CASE Testset
  <2>1. (\E v, taken : vm' = Branch(Setobj(next, ra, v), taken)) \/ \E taken : vm' = Branch(next, taken)
    BY <1>5 DEF Testset, Do
  <2> QED
    BY <1>1, <2>1, HeldStack, HeldBranch
<1>6. CASE Forprep
  <2>1. (\E m : vm' = luaG_runerror(next, m)) \/ \E vs, pc : vm' = Goto(SetFrom(next, ra, vs), pc)
    BY <1>6 DEF Forprep, Do
  <2> QED
    BY <1>1, <2>1, HeldError, HeldStack
<1>7. CASE Forloop
  <2>1. vm' = next \/ \E v, pc : vm' = Goto(Setobj(Setobj(vm, ra, v), ra + 3, v), pc)
    BY <1>7 DEF Forloop, Do
  <2> QED
    BY <1>1, <2>1, HeldStack
<1>8. CASE Tforloop
  <2>1. \E vs, func, n, c : vm' = luaD_call(Top(SetFrom(next, ra + 3, vs), ra + 6), func, n, c)
    BY <1>8 DEF Tforloop, Do
  <2> QED
    BY <1>1, <2>1, HeldStack, HeldCall
<1> QED
  BY <1>2, <1>3, <1>4, <1>5, <1>6, <1>7, <1>8

(* Calls, functions and what they take.                                      *)
LEMMA CallsHeld ==
  ASSUME HeldInv, Call \/ Tailcall \/ Return \/ Setlist \/ Close \/ Closure \/ Vararg \/ Cfunction
  PROVE  Held(vm', vm.upvals)
<1>1. Held(vm, vm.upvals) /\ Held(next, vm.upvals)
  BY HeldStack DEF HeldInv, next
<1>2. Held(Called, vm.upvals)
  BY <1>1, HeldStack DEF Called
<1>3. CASE Call
  BY <1>2, <1>3, HeldPrecall DEF Call, Do
<1>4. CASE Tailcall
  <2> DEFINE s == luaD_precall(Called, ra, LUA_MULTRET, TRUE)
             t == [s EXCEPT !.C[Len(s.C)].n = @ - 1]
  <2>1. vm' = s \/ vm' = ReplaceFrame(t)
    BY <1>4 DEF Tailcall, Do
  <2>2. Held(s, vm.upvals)
    BY <1>2, HeldPrecall
  <2> HIDE DEF s
  <2>3. Leaves(s, t)
    BY <2>2, HeldHas DEF Leaves, Has
  <2> HIDE DEF t
  <2>4. Held(t, vm.upvals)
    BY <2>2, <2>3, HeldOn
  <2>5. \E level, func, vs, l : ReplaceFrame(t) = With(SetFrom(luaF_close(t, level), func, vs), l)
    BY DEF ReplaceFrame
  <2>6. Held(ReplaceFrame(t), vm.upvals)
    BY <2>4, <2>5, HeldClose, HeldStack
  <2> QED
    BY <2>1, <2>2, <2>6
<1>5. CASE Return
  <2> DEFINE vals == Slots(vm, ra, IF I.b # 0 THEN ra + I.b - 1 ELSE L(vm).top)
             s == luaD_poscall(luaF_close(next, L(vm).base), vals)
             top == IF Ci(vm).nresults # LUA_MULTRET THEN Top(s, Ci(s).top) ELSE s
  <2>1. \/ vm' = [top EXCEPT !.C[Len(vm.C)].n = @ - 1]
        \/ vm' = [PopC(s) EXCEPT !.out = <<"return", vals>>]
        \/ vm' = PopC(s)
    BY <1>5 DEF Return, Do
  <2>2. Held(s, vm.upvals)
    BY <1>1, HeldClose, HeldFinish
  <2> HIDE DEF s, vals
  <2>3. Held(top, vm.upvals) /\ Held(PopC(s), vm.upvals)
    BY <2>2, HeldStack, HeldC
  <2> HIDE DEF top
  <2>4. Leaves(top, [top EXCEPT !.C[Len(vm.C)].n = @ - 1])
    BY <2>3, HeldHas DEF Leaves, Has
  <2>5. Leaves(PopC(s), [PopC(s) EXCEPT !.out = <<"return", vals>>])
    BY <2>3, HeldHas DEF Leaves, Has
  <2> QED
    BY <2>1, <2>3, <2>4, <2>5, HeldOn
<1>6. CASE Setlist
  <2>1. \E pc, h, first, vs : vm' = StoreFrom(Goto(vm, pc), h, first, vs)
                              \/ vm' = StoreFrom(Top(Goto(vm, pc), Ci(vm).top), h, first, vs)
    BY <1>6 DEF Setlist, Do
  <2> QED
    BY <1>1, <2>1, HeldStack, HeldTables
<1>7. CASE Close
  BY <1>1, <1>7, HeldClose DEF Close, Do
<1>8. CASE Closure
  <2> DEFINE p == ProtoOf(vm, Cl(vm)).p[I.b + 1]
             up == [j \in 1..p.nups |-> Code[L(vm).pc + 1 + j]]
             all == luaF_findupvals(vm, {R(up[j].b) : j \in {j \in DOMAIN up : up[j].op = "MOVE"}})
             us == [j \in 1..p.nups |-> IF up[j].op = "MOVE" THEN OpenOf(all, R(up[j].b)) ELSE UpvalOf(up[j].b)]
             new == [path |-> Append(vm.funs[Cl(vm)].path, I.b), upvals |-> us]
             s == [all EXCEPT !.funs = Append(@, new)]
  <2>1. \E v, pc : vm' = Goto(Setobj(s, ra, v), pc)
    BY <1>8 DEF Closure, Do
  <2> HIDE DEF new
  <2>2. Held(s, vm.upvals)
    BY <1>1, HeldFind
  <2> HIDE DEF s
  <2> QED
    BY <2>1, <2>2, HeldStack
<1>9. CASE Vararg
  <2>1. \E vs, n : vm' = SetFrom(next, ra, vs) \/ vm' = Top(SetFrom(next, ra, vs), n)
    BY <1>9 DEF Vararg, Do
  <2> QED
    BY <1>1, <2>1, HeldStack
<1>10. CASE Cfunction
  <2> DEFINE s == [vm EXCEPT !.cfun = NIL]
  <2>1. Leaves(vm, s)
    BY <1>1, HeldHas DEF Leaves, Has
  <2>2. vm' = CFunction(s, vm.cfun)
    BY <1>10 DEF Cfunction, Do
  <2> HIDE DEF s
  <2> QED
    BY <1>1, <2>1, <2>2, HeldOn, HeldCFunction
<1> QED
  BY <1>3, <1>4, <1>5, <1>6, <1>7, <1>8, <1>9, <1>10

(* What waited for a call goes on.                                           *)
LEMMA WaitsHeld ==
  ASSUME HeldInv,
         \/ TMres \/ TM \/ Compared \/ Concatenated \/ Got \/ Set \/ Iterated \/ Pcalled \/ Resumed
         \/ Foreached \/ Foreachied \/ Sorting \/ Substituted
  PROVE  Held(vm', vm.upvals)
<1>1. Held(vm, vm.upvals)
  BY DEF HeldInv
<1>2. Held(PopC(vm), vm.upvals) /\ Held(Popped, vm.upvals)
  BY <1>1, HeldStack, HeldC DEF Popped
<1>3. CASE TMres
  BY <1>2, <1>3, HeldStack DEF TMres, Do
<1>4. CASE TM
  BY <1>2, <1>4 DEF TM, Do
<1>5. CASE Compared
  <2>1. \E taken : vm' = Branch(Popped, taken)
    BY <1>5 DEF Compared, Do
  <2> QED
    BY <1>2, <2>1, HeldBranch
<1>6. CASE Concatenated
  BY <1>2, <1>6, HeldStack, HeldConcat DEF Concatenated, Do
<1>7. CASE Got
  BY <1>2, <1>7, HeldGettable DEF Got, Do
<1>8. CASE Set
  BY <1>2, <1>8, HeldSettable DEF Set, Do
<1>9. CASE Iterated
  <2> DEFINE s == Top(PopC(vm), Ci(vm).top)
  <2>1. (\E taken : vm' = Branch(s, taken)) \/ \E i, v, taken : vm' = Branch(Setobj(s, i, v), taken)
    BY <1>9 DEF Iterated, Do
  <2>2. Held(s, vm.upvals)
    BY <1>2, HeldStack
  <2> HIDE DEF s
  <2> QED
    BY <2>1, <2>2, HeldStack, HeldBranch
<1>10. CASE Pcalled
  BY <1>2, <1>10, HeldFinish DEF Pcalled, Do
<1>11. CASE Resumed
  <2> DEFINE co == vm.threads[Wait.co]
             s == [PopC(vm) EXCEPT !.threads[Wait.co].top = co.base]
  <2>1. \E vals : vm' = Finish(s, vals)
    BY <1>11 DEF Resumed, Do
  <2>2. Leaves(PopC(vm), s)
    BY <1>2, HeldHas DEF Leaves, Has
  <2> HIDE DEF s
  <2> QED
    BY <1>2, <2>1, <2>2, HeldOn, HeldFinish
<1>12. CASE Foreached
  BY <1>2, <1>12, HeldForeach, HeldFinish DEF Foreached, Do
<1>13. CASE Foreachied
  BY <1>2, <1>13, HeldForeach, HeldFinish DEF Foreachied, Do
<1>14. CASE Sorting
  <2>1. \E c, less : \/ vm' = auxsort(Sifted(Popped, Wait, less).s, c)
                     \/ vm' = auxsort(Sifted(PopC(vm), Wait, less).s, c)
    BY <1>14 DEF Sorting, Do
  <2> QED
    BY <1>2, <2>1, HeldSifted, HeldSort
<1>15. CASE Substituted
  <2>1. \E g : vm' = str_gsub(Popped, g) \/ vm' = str_gsub(PopC(vm), g)
    BY <1>15 DEF Substituted, Do
  <2> QED
    BY <1>2, <2>1, HeldGsub
<1> QED
  BY <1>3, <1>4, <1>5, <1>6, <1>7, <1>8, <1>9, <1>10, <1>11, <1>12, <1>13, <1>14, <1>15

(* The program is started.                                                   *)
LEMMA StartHeld ==
  ASSUME HeldInv, Start
  PROVE  Held(vm', vm.upvals)
<1> DEFINE s == [vm EXCEPT !.C = <<[k |-> "execute", th |-> 1, ci |-> 1, n |-> 0]>>]
<1>1. Held(vm, vm.upvals)
  BY DEF HeldInv
<1>2. Leaves(vm, s)
  BY <1>1, HeldHas DEF Leaves, Has
<1>3. vm' = luaD_precall(s, 1, LUA_MULTRET, TRUE)
  BY DEF Start, Do
<1> HIDE DEF s
<1> QED
  BY <1>1, <1>2, <1>3, HeldOn, HeldPrecall

(* Every step leaves the upvalues held.                                      *)
LEMMA HeldStep ==
  ASSUME HeldInv, [Next]_vars
  PROVE  Held(vm', vm.upvals)
<1>1. CASE vm' = vm
  BY <1>1 DEF HeldInv
<1>2. CASE Start \/ Step
  BY <1>2, MovesHeld, TablesHeld, TestsHeld, CallsHeld, WaitsHeld, StartHeld DEF Step
<1> QED
  BY <1>1, <1>2 DEF Next, Load, Done, vars

(* What is held against an earlier state is held as it is.                   *)
LEMMA HeldNow == ASSUME NEW s, NEW o, Held(s, o) PROVE Held(s, s.upvals)
BY DEF Held, Follow

(* There are no upvalues at first.                                           *)
LEMMA HeldInit == ASSUME Init PROVE HeldInv
<1> DEFINE f == [path |-> <<>>, upvals |-> <<>>]
<1>1. Has(vm) /\ vm.upvals = <<>> /\ vm.funs = <<f>>
  BY DEF Init, Has
<1>2. IsSeq(<<f>>)
  <2>1. <<f>> \in Seq({f})
    OBVIOUS
  <2> QED
    BY <2>1, SeqWhere
<1>3. DOMAIN vm.upvals = {}
  BY <1>1
<1> HIDE DEF f
<1> QED
  BY <1>1, <1>2, <1>3 DEF HeldInv, Held, Typed, Numbered, Apart, Follow

(* The upvalues are held in every state.                                     *)
LEMMA AlwaysHeld == Spec => []HeldInv
<1>1. Init => HeldInv
  BY HeldInit
<1>2. HeldInv /\ [Next]_vars => HeldInv'
  <2> SUFFICES ASSUME HeldInv, [Next]_vars PROVE HeldInv'
    OBVIOUS
  <2>1. Held(vm', vm.upvals)
    BY HeldStep
  <2>2. Held(vm', vm'.upvals)
    BY <2>1, HeldNow
  <2> QED
    BY <2>2 DEF HeldInv
<1> QED
  BY <1>1, <1>2, PTL DEF Spec

(* No slot of a thread has two open upvalues, so that the closures that      *)
(* capture a variable share it (luaF_findupval in lfunc.c), whatever the     *)
(* program does with its coroutines and errors.                              *)
THEOREM VariablesAreShared == Spec => []OneUpvalue
<1>1. HeldInv => OneUpvalue
  BY DEF HeldInv, Held, Apart, OneUpvalue
<1> QED
  BY <1>1, AlwaysHeld, PTL

(* An upvalue is the same variable for good: none is lost, none moves to     *)
(* another slot or thread, and one that was closed never opens again         *)
(* (luaF_close in lfunc.c, called by RETURN, CLOSE, tail calls and errors).  *)
UpvaluesKept ==
  \A u \in DOMAIN vm.upvals :
    /\ u \in DOMAIN vm'.upvals
    /\ vm'.upvals[u].open =>
         LET x == vm.upvals[u] IN x.open /\ vm'.upvals[u].th = x.th /\ vm'.upvals[u].i = x.i

(* Every step keeps the upvalues: a variable outlives the frame that had it  *)
(* in one place, whichever way the frame is left.                            *)
THEOREM VariablesAreKept == Spec => [][UpvaluesKept]_vars
<1>1. HeldInv /\ [Next]_vars => [UpvaluesKept]_vars
  BY HeldStep DEF Held, Follow, UpvaluesKept
<1> QED
  BY <1>1, AlwaysHeld, PTL DEF Spec

=============================================================================
