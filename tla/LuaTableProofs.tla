--------------------------- MODULE LuaTableProofs ---------------------------
(* Proofs about LuaTable, for every set of keys, all hashes, and tables of   *)
(* any size: the chains of the hash part, the rehash, the traversal and the  *)
(* length.                                                                   *)
EXTENDS LuaTable, FiniteSetTheorems, SequenceTheorems, WellFoundedInduction, TLAPS

-----------------------------------------------------------------------------
(* Induction over sets of numbers, as no rule with a predicate for parameter *)
(* can be used.                                                              *)

(* A set of numbers has a least member. *)
LEMMA LeastElement ==
  ASSUME NEW S \in SUBSET Nat, S # {}
  PROVE  \E n \in S : \A m \in S : n <= m
<1> DEFINE R == OpToRel(<, Nat)
<1>1. IsWellFoundedOn(R, Nat)
  BY NatLessThanWellFounded
<1>2. \A m \in S, n \in S : m < n => <<m, n>> \in R
  BY DEF OpToRel
<1> HIDE DEF R
<1>3. \E n \in S : \A m \in S : ~ (<<m, n>> \in R)
  BY <1>1, WFMin, Zenon
<1>4. PICK n \in S : \A m \in S : ~ (<<m, n>> \in R)
  BY <1>3
<1>5. \A m \in S : m \in Nat /\ n \in Nat /\ ~(m < n)
  BY <1>2, <1>4
<1> QED
  BY <1>5

(* A set of numbers that has 0 and every successor of a member has them all. *)
LEMMA SetInduction ==
  ASSUME NEW S, 0 \in S, \A n \in Nat : n \in S => n + 1 \in S
  PROVE  Nat \subseteq S
<1> DEFINE T == Nat \ S
<1>1. CASE T # {}
  <2>1. PICK n \in T : \A m \in T : n <= m
    BY <1>1, LeastElement
  <2>2. n # 0 /\ n - 1 \in Nat /\ n - 1 \notin T
    BY <2>1
  <2> QED
    BY <2>1, <2>2
<1> QED
  BY <1>1

-----------------------------------------------------------------------------
(* TwoTo is the function its recursive definition describes. *)
LEMMA TwoToDef ==
  /\ TwoTo \in [Nat -> Nat]
  /\ TwoTo[0] = 1 /\ \A e \in Nat : TwoTo[e + 1] = 2 * TwoTo[e]
<1> DEFINE Goes(f, n) == f[0] = 1 /\ \A e \in 0..n - 1 : f[e + 1] = 2 * f[e]
           S == {n \in Nat : \E f \in [0..n -> Nat] : Goes(f, n)}
           Power(n, v) == \E f \in [0..n -> Nat] : Goes(f, n) /\ f[n] = v
           U == {n \in Nat : \A v, w : Power(n, v) /\ Power(n, w) => v = w}
<1>1. Nat \subseteq S
  <2>1. 0 \in S
    <3>1. [e \in 0..0 |-> 1] \in [0..0 -> Nat] /\ Goes([e \in 0..0 |-> 1], 0)
      OBVIOUS
    <3> QED
      BY <3>1
  <2>2. ASSUME NEW n \in Nat, n \in S PROVE n + 1 \in S
    <3>1. PICK f \in [0..n -> Nat] : Goes(f, n)
      BY <2>2
    <3> DEFINE g == [e \in 0..n + 1 |-> IF e = n + 1 THEN 2 * f[n] ELSE f[e]]
    <3>2. g \in [0..n + 1 -> Nat] /\ g[n + 1] = 2 * f[n] /\ \A e \in 0..n : g[e] = f[e]
      OBVIOUS
    <3> HIDE DEF g
    <3>3. Goes(g, n + 1)
      BY <3>1, <3>2
    <3>4. n + 1 \in Nat
      OBVIOUS
    <3> HIDE DEF Goes
    <3> QED
      BY <3>2, <3>3, <3>4
  <2> QED
    BY <2>1, <2>2, SetInduction
<1>2. ASSUME NEW n \in Nat, NEW v, Power(n + 1, v)
      PROVE  \E w \in Nat : Power(n, w) /\ v = 2 * w
  <2>0. PICK f \in [0..n + 1 -> Nat] : Goes(f, n + 1) /\ f[n + 1] = v
    BY <1>2
  <2> DEFINE g == [e \in 0..n |-> f[e]]
  <2>1. g \in [0..n -> Nat] /\ \A e \in 0..n : g[e] = f[e]
    OBVIOUS
  <2> HIDE DEF g
  <2>2. Goes(g, n)
    BY <2>0, <2>1
  <2>3. Power(n, g[n]) /\ g[n] \in Nat
    <3> HIDE DEF Goes
    <3> QED
      BY <2>1, <2>2
  <2>4. v = 2 * g[n]
    BY <2>0, <2>1
  <2> QED
    BY <2>3, <2>4
<1>3. Nat \subseteq U
  <2>1. 0 \in U
    OBVIOUS
  <2>2. ASSUME NEW n \in Nat, n \in U PROVE n + 1 \in U
    <3> HIDE DEF Power
    <3> QED
      BY <1>2, <2>2
  <2> QED
    BY <2>1, <2>2, SetInduction
<1> DEFINE g == [n \in Nat |-> CHOOSE v : Power(n, v)]
<1>4. \A n \in Nat : Power(n, g[n]) /\ g[n] \in Nat
  <2> SUFFICES ASSUME NEW n \in Nat PROVE Power(n, g[n]) /\ g[n] \in Nat
    OBVIOUS
  <2>1. PICK f \in [0..n -> Nat] : Goes(f, n)
    BY <1>1
  <2>2. Power(n, f[n])
    BY <2>1
  <2>3. Power(n, g[n])
    <3> HIDE DEF Power
    <3> QED
      BY <2>2
  <2>4. \A v : Power(n, v) => v \in Nat
    <3> HIDE DEF Goes
    <3> QED
      OBVIOUS
  <2> HIDE DEF Power
  <2> QED
    BY <2>3, <2>4
<1>5. g \in [Nat -> Nat]
  BY <1>4
<1>6. g[0] = 1
  BY <1>4
<1>7. ASSUME NEW n \in Nat PROVE g[n + 1] = 2 * g[n]
  <2>0. Power(n + 1, g[n + 1])
    <3> HIDE DEF Power, g
    <3> QED
      BY <1>4
  <2>1. PICK w \in Nat : Power(n, w) /\ g[n + 1] = 2 * w
    <3> HIDE DEF Power, g
    <3> QED
      BY <1>2, <2>0
  <2>2. w = g[n]
    <3> HIDE DEF Power, g
    <3> QED
      BY <1>3, <1>4, <2>1
  <2> QED
    BY <2>1, <2>2
<1> HIDE DEF g
<1>8. g = [e \in Nat |-> IF e = 0 THEN 1 ELSE 2 * g[e - 1]]
  <2>1. \A e \in Nat : g[e] = IF e = 0 THEN 1 ELSE 2 * g[e - 1]
    <3> SUFFICES ASSUME NEW e \in Nat, e # 0 PROVE g[e] = 2 * g[e - 1]
      BY <1>6
    <3> QED
      BY <1>7
  <2> QED
    BY <1>5, <2>1
<1>9. TwoTo = [e \in Nat |-> IF e = 0 THEN 1 ELSE 2 * TwoTo[e - 1]]
  BY <1>8 DEF TwoTo
<1>10. TwoTo \in [Nat -> Nat]
  <2> DEFINE T == {e \in Nat : TwoTo[e] \in Nat}
  <2>1. 0 \in T
    BY <1>9
  <2>2. \A e \in Nat : e \in T => e + 1 \in T
    <3> SUFFICES ASSUME NEW e \in Nat, e \in T PROVE TwoTo[e + 1] \in Nat
      OBVIOUS
    <3>1. TwoTo[e + 1] = 2 * TwoTo[e]
      BY <1>9
    <3> QED
      BY <3>1
  <2>3. \A e \in Nat : TwoTo[e] \in Nat
    <3> HIDE DEF T
    <3>1. Nat \subseteq T
      BY <2>1, <2>2, SetInduction
    <3> QED
      BY <3>1 DEF T
  <2> QED
    BY <1>9, <2>3
<1> QED
  BY <1>9, <1>10

(* A power of two is greater than its exponent. *)
LEMMA TwoToGrows ==
  \A e \in Nat : TwoTo[e] \in Nat /\ TwoTo[e] > 0 /\ TwoTo[e] > e
<1> DEFINE S == {e \in Nat : TwoTo[e] > 0 /\ TwoTo[e] > e}
<1>1. 0 \in S
  BY TwoToDef
<1>2. ASSUME NEW e \in Nat, e \in S PROVE e + 1 \in S
  <2>1. TwoTo[e + 1] = 2 * TwoTo[e] /\ TwoTo[e] \in Nat /\ TwoTo[e] > e
    BY <1>2, TwoToDef
  <2> QED
    BY <2>1
<1>3. Nat \subseteq S
  <2> HIDE DEF S
  <2> QED
    BY <1>1, <1>2, SetInduction
<1> QED
  BY <1>3, TwoToDef

(* ceilpow2 gives a size that is large enough (setnodevector). *)
LEMMA CeilPow2 ==
  ASSUME NEW n \in Nat
  PROVE  ceilpow2(n) \in Nat /\ n <= ceilpow2(n) /\ ceilpow2(n) >= 1
<1> DEFINE Fits(p, m) == m <= p /\ (p > 1 => p < 2 * m)
           S == {m \in Nat : \E i \in 0..m : Fits(TwoTo[i], m)}
<1>1. 0 \in S
  BY TwoToDef
<1>2. ASSUME NEW m \in Nat, m \in S PROVE m + 1 \in S
  <2>1. PICK i \in 0..m : Fits(TwoTo[i], m)
    BY <1>2
  <2>2. TwoTo[i] \in Nat /\ TwoTo[i] > 0 /\ TwoTo[i + 1] = 2 * TwoTo[i]
    BY TwoToDef, TwoToGrows
  <2>3. Fits(TwoTo[i], m + 1) \/ Fits(TwoTo[i + 1], m + 1)
    BY <2>1, <2>2
  <2>4. i \in 0..m + 1 /\ i + 1 \in 0..m + 1
    OBVIOUS
  <2> HIDE DEF Fits
  <2> QED
    BY <2>3, <2>4
<1>3. Nat \subseteq S
  <2> HIDE DEF S
  <2> QED
    BY <1>1, <1>2, SetInduction
<1>4. PICK i \in 0..n : Fits(TwoTo[i], n)
  BY <1>3
<1> DEFINE P == {TwoTo[j] : j \in 0..n}
<1>5. ceilpow2(n) = CHOOSE p \in P : Fits(p, n)
  BY DEF ceilpow2
<1>6. ceilpow2(n) \in P /\ Fits(ceilpow2(n), n)
  <2>1. TwoTo[i] \in P
    OBVIOUS
  <2> HIDE DEF P, Fits
  <2> QED
    BY <1>4, <1>5, <2>1
<1> QED
  BY <1>6, TwoToGrows

(* The hash of a number is one: every number has an exponent. *)
LEMMA HashNum ==
  ASSUME NEW n \in Nat \ {0}
  PROVE  hashnum(n) \in Int
<1> DEFINE S == {m \in Nat : m >= 1 => \E e \in 0..m : TwoTo[e] <= m /\ m < TwoTo[e + 1]}
<1>1. 0 \in S
  OBVIOUS
<1>2. ASSUME NEW m \in Nat, m \in S PROVE m + 1 \in S
  <2>1. CASE m = 0
    <3>1. 0 \in 0..m + 1 /\ TwoTo[0] <= m + 1 /\ m + 1 < TwoTo[0 + 1]
      BY <2>1, TwoToDef
    <3> QED
      BY <3>1
  <2>2. CASE m # 0
    <3>1. PICK e \in 0..m : TwoTo[e] <= m /\ m < TwoTo[e + 1]
      BY <1>2, <2>2
    <3>2. /\ TwoTo[e + 1] = 2 * TwoTo[e] /\ TwoTo[e] \in Nat
          /\ TwoTo[e + 2] = 2 * TwoTo[e + 1] /\ TwoTo[e + 1] \in Nat
      <4>1. e \in Nat /\ e + 1 \in Nat /\ (e + 1) + 1 = e + 2
        OBVIOUS
      <4> QED
        BY <4>1, TwoToDef
    <3>3. CASE m + 1 < TwoTo[e + 1]
      BY <3>1, <3>2, <3>3
    <3>4. CASE m + 1 = TwoTo[e + 1]
      <4>1. TwoTo[e + 1] <= m + 1 /\ m + 1 < TwoTo[(e + 1) + 1] /\ e + 1 \in 0..m + 1
        BY <3>1, <3>2, <3>4
      <4> QED
        BY <4>1
    <3> QED
      BY <3>1, <3>2, <3>3, <3>4
  <2> QED
    BY <2>1, <2>2
<1>3. Nat \subseteq S
  <2> HIDE DEF S
  <2> QED
    BY <1>1, <1>2, SetInduction
<1>4. n \in Nat /\ n >= 1
  OBVIOUS
<1>5. Exponent(n) \in 0..n
  BY <1>3, <1>4 DEF Exponent
<1>6. PICK p \in Nat : p = TwoTo[Exponent(n)] /\ p > 0
  BY <1>4, <1>5, TwoToGrows
<1>7. PICK q \in Nat : q = TwoTo[20]
  BY TwoToGrows
<1>9. PICK m \in Int : m = (n - p) * q
  BY <1>4, <1>7
<1>8. m \div p \in Int
  BY <1>6, <1>9
<1>10. (1023 + Exponent(n)) * q \in Int
  BY <1>4, <1>5, <1>7
<1> QED
  BY <1>6, <1>7, <1>8, <1>9, <1>10 DEF hashnum

-----------------------------------------------------------------------------
(* Chains as paths. *)

Node == [key : Key \cup {Nil}, dead : BOOLEAN, val : Value \cup {Nil}, next : Nat \cup {Nil}]

(* Every node is on one path, at a distance from its end, where the links    *)
(* lead.  A node without a key is alone on its path.                         *)
Linked(n, nd, path, pos) ==
  \A p \in 0..n - 1 :
    /\ nd[p].next = Nil <=> pos[p] = 0
    /\ nd[p].next # Nil =>
         /\ nd[p].next \in 0..n - 1
         /\ path[nd[p].next] = path[p] /\ pos[nd[p].next] = pos[p] - 1
Headed(n, path, pos) ==
  \A p \in 0..n - 1 : path[path[p]] = path[p] /\ pos[p] <= pos[path[p]]
OneEach(n, path, pos) ==
  \A p, q \in 0..n - 1 : path[p] = path[q] /\ pos[p] = pos[q] => p = q
FreeAlone(n, nd, path) ==
  \A p, q \in 0..n - 1 : nd[p].key = Nil /\ path[p] = path[q] => p = q

Paths(n, nd, path, pos) ==
  /\ path \in [0..n - 1 -> 0..n - 1] /\ pos \in [0..n - 1 -> Nat]
  /\ Linked(n, nd, path, pos) /\ Headed(n, path, pos)
  /\ OneEach(n, path, pos) /\ FreeAlone(n, nd, path)

(* What a walk along the path from p meets first in S: v. *)
Ahead(n, path, pos, S, p) == {q \in 0..n - 1 : q \in S /\ path[q] = path[p] /\ pos[q] <= pos[p]}
Meets(n, path, pos, S, p, v) ==
  \/ v = Nil /\ Ahead(n, path, pos, S, p) = {}
  \/ /\ v \in Ahead(n, path, pos, S, p)
     /\ \A q \in Ahead(n, path, pos, S, p) : pos[q] <= pos[v]

Walks(nd, S, f) ==
  f = [p \in DOMAIN nd |-> IF p \in S THEN p
                           ELSE IF nd[p].next = Nil THEN Nil ELSE f[nd[p].next]]

(* What a walk meets: exactly one result, the node itself if that is looked  *)
(* for, else what the walk from the next node meets.                         *)
LEMMA MeetsNext ==
  ASSUME NEW n \in Nat, NEW nd \in [0..n - 1 -> Node], NEW path, NEW pos,
         Paths(n, nd, path, pos), NEW S, NEW p \in 0..n - 1
  PROVE  /\ \E v : Meets(n, path, pos, S, p, v)
         /\ \A v, w : Meets(n, path, pos, S, p, v) /\ Meets(n, path, pos, S, p, w) => v = w
         /\ p \in S => Meets(n, path, pos, S, p, p)
         /\ p \notin S /\ nd[p].next = Nil => Meets(n, path, pos, S, p, Nil)
         /\ p \notin S /\ nd[p].next # Nil =>
              \A v : Meets(n, path, pos, S, nd[p].next, v) => Meets(n, path, pos, S, p, v)
<1> DEFINE A == Ahead(n, path, pos, S, p)
<1>0. Nil \notin 0..n - 1
  BY LuaTableAssumption
<1>1. \A q \in A : q \in 0..n - 1 /\ pos[q] \in Nat /\ pos[p] \in Nat /\ pos[q] <= pos[p]
  BY DEF Ahead, Paths, Linked, OneEach
<1>2. \E v : Meets(n, path, pos, S, p, v)
  <2>1. CASE A = {}
    BY <2>1 DEF Meets
  <2>2. CASE A # {}
    <3> DEFINE B == {pos[p] - pos[q] : q \in A}
    <3>1. B \in SUBSET Nat /\ B # {}
      BY <1>1, <2>2
    <3>2. PICK b \in B : \A c \in B : b <= c
      BY <3>1, LeastElement
    <3>3. PICK v \in A : b = pos[p] - pos[v]
      BY <3>2
    <3>4. \A q \in A : pos[p] - pos[v] <= pos[p] - pos[q]
      BY <3>2, <3>3
    <3>5. \A q \in A : pos[q] <= pos[v]
      BY <1>1, <3>4
    <3> QED
      BY <3>5 DEF Meets
  <2> QED
    BY <2>1, <2>2
<1>3. ASSUME NEW v, NEW w, Meets(n, path, pos, S, p, v), Meets(n, path, pos, S, p, w)
      PROVE  v = w
  <2>1. CASE A = {}
    BY <1>3, <2>1 DEF Meets
  <2>2. CASE A # {}
    <3>1. v \in A /\ w \in A /\ pos[v] <= pos[w] /\ pos[w] <= pos[v]
      BY <1>3, <2>2 DEF Meets
    <3>2. pos[v] = pos[w] /\ path[v] = path[w]
      BY <1>1, <3>1 DEF Ahead
    <3> QED
      BY <1>1, <3>1, <3>2 DEF Paths, Linked, OneEach
  <2> QED
    BY <2>1, <2>2
<1>4. p \in S => Meets(n, path, pos, S, p, p)
  BY DEF Meets, Ahead, Paths, Linked, OneEach
<1>5. ASSUME p \notin S, nd[p].next = Nil PROVE A = {}
  <2>1. ASSUME NEW q \in A PROVE FALSE
    <3>1. pos[q] = 0 /\ pos[p] = 0 /\ path[q] = path[p] /\ q \in S
      BY <1>1, <1>5, <2>1 DEF Ahead, Paths, Linked, OneEach
    <3> QED
      BY <1>1, <1>5, <2>1, <3>1 DEF Paths, Linked, OneEach
  <2> QED
    BY <2>1
<1>6. ASSUME p \notin S, nd[p].next # Nil
      PROVE  A = Ahead(n, path, pos, S, nd[p].next)
  <2>1. /\ nd[p].next \in 0..n - 1 /\ path[nd[p].next] = path[p]
        /\ pos[nd[p].next] = pos[p] - 1 /\ pos[p] \in Nat
    BY <1>6 DEF Paths, Linked, OneEach
  <2>2. ASSUME NEW q \in 0..n - 1, q \in S, path[q] = path[p]
        PROVE  pos[q] <= pos[p] <=> pos[q] <= pos[p] - 1
    BY <1>6, <2>1, <2>2 DEF Paths, Linked, OneEach
  <2> QED
    BY <2>1, <2>2 DEF Ahead
<1> QED
  BY <1>2, <1>3, <1>4, <1>5, <1>6 DEF Meets

(* A walk meets one thing. *)
LEMMA MeetsOne ==
  ASSUME NEW n \in Nat, NEW nd \in [0..n - 1 -> Node], NEW path, NEW pos,
         Paths(n, nd, path, pos), NEW S, NEW p \in 0..n - 1, NEW v, NEW w,
         Meets(n, path, pos, S, p, v), Meets(n, path, pos, S, p, w)
  PROVE  v = w
BY MeetsNext

(* The recursive walk of First meets what is ahead on the path. *)
LEMMA Walked ==
  ASSUME NEW n \in Nat, NEW nd \in [0..n - 1 -> Node], NEW path, NEW pos,
         Paths(n, nd, path, pos), NEW S, NEW f, f = CHOOSE g : Walks(nd, S, g)
  PROVE  \A p \in 0..n - 1 : Meets(n, path, pos, S, p, f[p])
<1> DEFINE M(p, v) == Meets(n, path, pos, S, p, v)
           g == [p \in 0..n - 1 |-> CHOOSE v : M(p, v)]
<1>0. DOMAIN nd = 0..n - 1
  OBVIOUS
<1>1. \A p \in 0..n - 1 : M(p, g[p])
  <2> HIDE DEF M
  <2>1. \A p \in 0..n - 1 : \E v : M(p, v)
    BY MeetsNext DEF M
  <2> QED
    BY <2>1
<1>2. \A p \in 0..n - 1 : nd[p].next # Nil => nd[p].next \in 0..n - 1 /\ pos[nd[p].next] < pos[p]
  BY DEF Paths, Linked, OneEach
<1>3. Walks(nd, S, g)
  <2> DEFINE R(p) == IF p \in S THEN p ELSE IF nd[p].next = Nil THEN Nil ELSE g[nd[p].next]
  <2>1. \A p \in 0..n - 1 : g[p] = R(p)
    <3> SUFFICES ASSUME NEW p \in 0..n - 1 PROVE g[p] = R(p)
      OBVIOUS
    <3>1. M(p, R(p))
      <4> HIDE DEF g
      <4> QED
        BY <1>1, <1>2, MeetsNext
    <3>2. M(p, g[p])
      BY <1>1
    <3> HIDE DEF g, R
    <3> QED
      BY <3>1, <3>2, MeetsOne
  <2>2. g = [p \in 0..n - 1 |-> g[p]]
    OBVIOUS
  <2> HIDE DEF g
  <2>3. g = [p \in 0..n - 1 |-> R(p)]
    BY <2>1, <2>2
  <2> QED
    BY <1>0, <2>3 DEF Walks
<1>4. Walks(nd, S, f)
  <2> HIDE DEF g
  <2>1. \E h : Walks(nd, S, h)
    BY <1>3
  <2> QED
    BY <2>1, f = CHOOSE h : Walks(nd, S, h)
<1> HIDE DEF g
<1>5. \A p \in 0..n - 1 :
        f[p] = IF p \in S THEN p ELSE IF nd[p].next = Nil THEN Nil ELSE f[nd[p].next]
  BY <1>0, <1>4 DEF Walks
<1> DEFINE B == {pos[p] : p \in {q \in 0..n - 1 : ~M(q, f[q])}}
<1>6. CASE B # {}
  <2>1. B \in SUBSET Nat
    BY DEF Paths, Linked, OneEach
  <2>2. PICK b \in B : \A c \in B : b <= c
    BY <1>6, <2>1, LeastElement
  <2>3. PICK p \in 0..n - 1 : ~M(p, f[p]) /\ b = pos[p]
    BY <2>2
  <2>4. ASSUME nd[p].next # Nil PROVE M(nd[p].next, f[nd[p].next])
    <3>1. nd[p].next \in 0..n - 1 /\ pos[nd[p].next] \in Nat /\ pos[p] \in Nat /\ pos[nd[p].next] < pos[p]
      BY <1>2, <2>4 DEF Paths, Linked, OneEach
    <3>2. pos[nd[p].next] \notin B
      <4>1. ASSUME pos[nd[p].next] \in B PROVE pos[p] <= pos[nd[p].next]
        BY <2>2, <2>3, <4>1
      <4> HIDE DEF B
      <4> QED
        BY <3>1, <4>1
    <3> HIDE DEF M
    <3> QED
      BY <3>1, <3>2
  <2>5. M(p, f[p])
    BY <1>2, <1>5, <2>4, MeetsNext
  <2> QED
    BY <2>3, <2>5
<1>7. CASE B = {}
  <2> HIDE DEF M
  <2>1. \A p \in 0..n - 1 : M(p, f[p])
    BY <1>7
  <2> QED
    BY <2>1 DEF M
<1> QED
  BY <1>6, <1>7

-----------------------------------------------------------------------------
(* Keys and their main positions. *)

(* mainposition in a hash part of n nodes, with the hashes h. *)
Main(h, n, k) ==
  IF k \in String THEN h[k] % n
  ELSE (IF k \in Object THEN h[k] ELSE hashnum(k)) % (IF n = 1 THEN 1 ELSE n - 1)

(* Every key is behind its main position, which is the main position of the  *)
(* key it holds.                                                             *)
Homed(h, n, nd, path, pos) ==
  \A p \in 0..n - 1 : nd[p].key # Nil =>
    LET m == Main(h, n, nd[p].key)
    IN /\ path[m] = path[p] /\ pos[p] <= pos[m]
       /\ nd[m].key # Nil /\ Main(h, n, nd[m].key) = m

Live(nd, p, k) == nd[p].key = k /\ ~nd[p].dead

(* Dead nodes are behind the live one of the same key. *)
Freshest(n, nd, pos) ==
  \A p, q \in 0..n - 1 : nd[q].key # Nil /\ Live(nd, p, nd[q].key) => pos[q] <= pos[p]

Unique(n, nd) ==
  /\ \A p, q \in 0..n - 1 : nd[p].key # Nil /\ Live(nd, p, nd[q].key) /\ ~nd[q].dead => p = q
  /\ \A p \in 0..n - 1 : nd[p].val # Nil => nd[p].key # Nil /\ ~nd[p].dead

NodesOK(h, n, nd) ==
  /\ nd \in [0..n - 1 -> Node]
  /\ \E path, pos : Paths(n, nd, path, pos) /\ Homed(h, n, nd, path, pos) /\ Freshest(n, nd, pos)
  /\ Unique(n, nd)

Hashes == [String \cup Object -> 0..MaxHash]
Tables(n) == [array : Seq(Value \cup {Nil}), node : [0..n - 1 -> Node], lastfree : Nat]

Good(h, n, t) ==
  /\ h \in Hashes /\ n \in Nat
  /\ t \in Tables(n)
  /\ NodesOK(h, n, t.node)
  /\ \A p \in 0..n - 1 : /\ t.node[p].key = Nil => p < t.lastfree
                         /\ t.node[p].key \notin DOMAIN t.array
  /\ \A i \in DOMAIN t.array : t.array[i] # Nil => i \in Key

(* A main position is one of the nodes. *)
LEMMA MainRange ==
  ASSUME NEW h \in Hashes, NEW n \in Nat, n > 0, NEW k \in Key \cup (Nat \ {0})
  PROVE  Main(h, n, k) \in 0..n - 1
<1>1. CASE k \in String
  <2>1. h[k] \in Nat
    BY <1>1, LuaTableAssumption DEF Hashes
  <2>2. h[k] % n \in 0..n - 1
    BY <2>1
  <2> QED
    BY <1>1, <2>2 DEF Main
<1>2. CASE k \notin String
  <2>1. PICK x \in Int : x = IF k \in Object THEN h[k] ELSE hashnum(k)
    <3>1. CASE k \in Object
      BY <3>1, LuaTableAssumption DEF Hashes
    <3>2. CASE k \notin Object
      <4>1. k \in Nat \ {0}
        BY <1>2, <3>2 DEF Key
      <4> QED
        BY <3>2, <4>1, HashNum
    <3> QED
      BY <3>1, <3>2
  <2>2. PICK m \in Nat \ {0} : m = (IF n = 1 THEN 1 ELSE n - 1) /\ m <= n
    OBVIOUS
  <2>3. x % m \in 0..m - 1
    OBVIOUS
  <2>4. Main(h, n, k) = x % m
    BY <1>2, <2>1, <2>2 DEF Main
  <2>5. 0..m - 1 \subseteq 0..n - 1
    BY <2>2
  <2> QED
    BY <2>3, <2>4, <2>5
<1> QED
  BY <1>1, <1>2

(* The main positions of a table are those of its size. *)
LEMMA SizeOf ==
  ASSUME NEW n \in Nat, NEW t \in Tables(n)
  PROVE  /\ DOMAIN t.node = 0..n - 1 /\ sizenode(t) = n
         /\ \A k : mainposition(t, k) = Main(hash, n, k)
<1>1. DOMAIN t.node = 0..n - 1
  BY DEF Tables
<1>2. Cardinality(0..n - 1) = n
  <2>1. n - 1 \in Int /\ 0 \in Int
    OBVIOUS
  <2>2. Cardinality(0..n - 1) = IF 0 > n - 1 THEN 0 ELSE (n - 1) - 0 + 1
    BY <2>1, FS_Interval
  <2> QED
    BY <2>2
<1>3. sizenode(t) = n
  BY <1>1, <1>2 DEF sizenode
<1> QED
  BY <1>1, <1>3 DEF mainposition, Main

(* First finds what the walk from the main position meets. *)
LEMMA FirstMeets ==
  ASSUME NEW n \in Nat, n > 0, NEW t \in Tables(n), NEW path, NEW pos, hash \in Hashes,
         Paths(n, t.node, path, pos), NEW k \in Key \cup (Nat \ {0}), NEW S
  PROVE  /\ Main(hash, n, k) \in 0..n - 1
         /\ Meets(n, path, pos, S, Main(hash, n, k), First(t, k, S))
<1> DEFINE f == CHOOSE g : Walks(t.node, S, g)
<1>1. Main(hash, n, k) \in 0..n - 1
  BY MainRange
<1>2. t.node \in [0..n - 1 -> Node]
  BY DEF Tables
<1>3. \A p \in 0..n - 1 : Meets(n, path, pos, S, p, f[p])
  BY <1>2, Walked
<1>4. First(t, k, S) = f[Main(hash, n, k)]
  BY SizeOf DEF First, Walks
<1> HIDE DEF f
<1> QED
  BY <1>1, <1>3, <1>4

(* NodeOf finds the live node of a key, if there is one. *)
LEMMA NodeOfIs ==
  ASSUME NEW n, NEW t, Good(hash, n, t), NEW k \in Key
  PROVE  \/ NodeOf(t, k) = Nil /\ \A p \in 0..n - 1 : ~Live(t.node, p, k)
         \/ NodeOf(t, k) \in 0..n - 1 /\ Live(t.node, NodeOf(t, k), k)
<1> DEFINE S == {p \in NodesWith(t, k) : ~t.node[p].dead}
<1>1. n \in Nat /\ t \in Tables(n) /\ hash \in Hashes
  BY DEF Good
<1>2. \A p : p \in S <=> p \in 0..n - 1 /\ Live(t.node, p, k)
  BY <1>1, SizeOf DEF NodesWith, Live
<1>3. NodeOf(t, k) = First(t, k, S)
  BY DEF NodeOf
<1> HIDE DEF S
<1>4. CASE n = 0
  <2>1. First(t, k, S) = Nil
    BY <1>1, <1>4, SizeOf DEF First
  <2> QED
    BY <1>3, <1>4, <2>1
<1>5. CASE n > 0
  <2>1. PICK path, pos : Paths(n, t.node, path, pos) /\ Homed(hash, n, t.node, path, pos)
    BY DEF Good, NodesOK
  <2> DEFINE m == Main(hash, n, k)
  <2>2. m \in 0..n - 1 /\ Meets(n, path, pos, S, m, First(t, k, S))
    BY <1>1, <1>5, <2>1, FirstMeets
  <2>3. \A p \in 0..n - 1 : Live(t.node, p, k) => p \in Ahead(n, path, pos, S, m)
    <3>1. k # Nil
      BY LuaTableAssumption DEF Key
    <3> QED
      BY <1>2, <2>1, <3>1 DEF Ahead, Homed, Live
  <2>4. First(t, k, S) = Nil \/ First(t, k, S) \in S
    BY <2>2 DEF Meets, Ahead
  <2>5. First(t, k, S) = Nil => Ahead(n, path, pos, S, m) = {}
    <3>1. Nil \notin 0..n - 1
      BY LuaTableAssumption
    <3> QED
      BY <2>2, <3>1 DEF Meets, Ahead
  <2> HIDE DEF m
  <2> QED
    BY <1>2, <1>3, <2>3, <2>4, <2>5
<1> QED
  BY <1>1, <1>4, <1>5

-----------------------------------------------------------------------------
(* newkey: the chains. *)

(* A node newkey fills in. *)
LEMMA EmptyNode ==
  ASSUME NEW k \in Key \cup {Nil}, NEW x \in Nat \cup {Nil}
  PROVE  /\ Empty(k, x) \in Node /\ Empty(k, x).key = k /\ Empty(k, x).val = Nil
         /\ Empty(k, x).next = x /\ ~Empty(k, x).dead
BY DEF Empty, Node

(* The main position of a new key takes it, if it holds no value. *)
LEMMA FillOK ==
  ASSUME NEW h \in Hashes, NEW n \in Nat, n > 0, NEW nd, NodesOK(h, n, nd), NEW k \in Key,
         NEW m, m = Main(h, n, k), nd[m].val = Nil, \A p \in 0..n - 1 : ~Live(nd, p, k)
  PROVE  NodesOK(h, n, [nd EXCEPT ![m] = Empty(k, @.next)])
<1>0. PICK u : u = [nd EXCEPT ![m] = Empty(k, @.next)]
  OBVIOUS
<1>1. PICK path, pos : Paths(n, nd, path, pos) /\ Homed(h, n, nd, path, pos) /\ Freshest(n, nd, pos)
  BY DEF NodesOK
<1>2. m \in 0..n - 1 /\ nd \in [0..n - 1 -> Node] /\ k # Nil /\ k \in Key \cup {Nil}
  <2>1. m \in 0..n - 1
    BY MainRange
  <2>2. k # Nil
    BY LuaTableAssumption DEF Key
  <2> QED
    BY <2>1, <2>2 DEF NodesOK
<1>3. nd[m].next \in Nat \cup {Nil}
  BY <1>2 DEF Node
<1>4. /\ u \in [0..n - 1 -> Node] /\ u[m] = Empty(k, nd[m].next)
      /\ \A p \in 0..n - 1 : p # m => u[p] = nd[p]
  BY <1>0, <1>2, <1>3, EmptyNode
<1>5. u[m].key = k /\ u[m].val = Nil /\ u[m].next = nd[m].next /\ ~u[m].dead
  <2>1. PICK x \in Nat \cup {Nil} : x = nd[m].next
    BY <1>3
  <2>2. Empty(k, x).key = k /\ Empty(k, x).val = Nil /\ Empty(k, x).next = x /\ ~Empty(k, x).dead
    BY <1>2, EmptyNode
  <2> QED
    BY <1>4, <2>1, <2>2
<1>6. Paths(n, u, path, pos)
  <2>1. \A p \in 0..n - 1 : u[p].next = nd[p].next /\ (u[p].key = Nil => nd[p].key = Nil)
    BY <1>2, <1>4, <1>5
  <2>2. Linked(n, u, path, pos)
    BY <1>1, <2>1 DEF Paths, Linked
  <2>3. FreeAlone(n, u, path)
    BY <1>1, <2>1 DEF Paths, FreeAlone
  <2> QED
    BY <1>1, <2>2, <2>3 DEF Paths
<1>7. Homed(h, n, u, path, pos)
  <2> SUFFICES ASSUME NEW p \in 0..n - 1, u[p].key # Nil, NEW c, c = Main(h, n, u[p].key)
               PROVE  /\ path[c] = path[p] /\ pos[p] <= pos[c]
                      /\ u[c].key # Nil /\ Main(h, n, u[c].key) = c
    BY DEF Homed
  <2>1. CASE p = m
    <3>1. c = m /\ pos[m] \in Nat
      BY <1>1, <1>2, <1>5, <2>1, m = Main(h, n, k) DEF Paths
    <3> QED
      BY <1>2, <1>5, <2>1, <3>1, m = Main(h, n, k)
  <2>2. CASE p # m
    <3>1. /\ path[c] = path[p] /\ pos[p] <= pos[c]
          /\ nd[c].key # Nil /\ Main(h, n, nd[c].key) = c
      BY <1>1, <1>4, <2>2 DEF Homed
    <3>2. c \in 0..n - 1
      <4>1. u[p].key \in Key
        BY <1>4 DEF Node
      <4> QED
        BY <4>1, MainRange
    <3> QED
      BY <1>2, <1>4, <1>5, <3>1, <3>2, m = Main(h, n, k)
  <2> QED
    BY <2>1, <2>2
<1>8. Unique(n, u)
  BY <1>2, <1>4, <1>5 DEF NodesOK, Unique, Live
<1>9. Freshest(n, u, pos)
  <2> SUFFICES ASSUME NEW p \in 0..n - 1, NEW q \in 0..n - 1, u[q].key # Nil, Live(u, p, u[q].key)
               PROVE  pos[q] <= pos[p]
    BY DEF Freshest
  <2>0. pos[p] \in Nat /\ pos[q] \in Nat
    BY <1>1 DEF Paths
  <2>1. CASE q = p
    BY <2>0, <2>1
  <2>2. CASE p = m /\ q # m
    BY <1>1, <1>4, <1>5, <2>2, m = Main(h, n, k) DEF Homed, Live
  <2>3. CASE p # m /\ q = m
    BY <1>4, <1>5, <2>3 DEF Live
  <2>4. CASE p # m /\ q # m
    BY <1>1, <1>4, <2>4 DEF Freshest, Live
  <2> QED
    BY <2>1, <2>2, <2>3, <2>4
<1> QED
  BY <1>0, <1>4, <1>6, <1>7, <1>8, <1>9 DEF NodesOK

(* A free node is put behind m on its path. *)
Splices(n, nd, m, f, u) ==
  /\ nd[m].key # Nil /\ nd[f].key = Nil
  /\ u[f].key # Nil /\ u[f].next = nd[m].next /\ u[m].next = f
  /\ \A p \in 0..n - 1 : p # f => u[p].key = nd[p].key
  /\ \A p \in 0..n - 1 : p # m /\ p # f => u[p].next = nd[p].next

(* The paths after that: those behind m are one further from the end. *)
LEMMA Spliced ==
  ASSUME NEW n \in Nat, NEW nd, NEW path, NEW pos, Paths(n, nd, path, pos),
         NEW m \in 0..n - 1, NEW f \in 0..n - 1, NEW u, Splices(n, nd, m, f, u)
  PROVE  \E path2, pos2 :
           /\ Paths(n, u, path2, pos2)
           /\ path2[f] = path[m] /\ pos2[f] = pos[m] /\ pos2[m] = pos[m] + 1
           /\ \A p \in 0..n - 1 : p # f => path2[p] = path[p]
           /\ \A p, q \in 0..n - 1 :
                p # f /\ q # f /\ path[p] = path[q] /\ pos[p] <= pos[q] => pos2[p] <= pos2[q]
           /\ \A p \in 0..n - 1 :
                p # f /\ p # m /\ path[p] = path[m] /\ pos[p] <= pos[m] => pos2[p] <= pos2[f]
<1> USE DEF Splices
<1> DEFINE path2 == [p \in 0..n - 1 |-> IF p = f THEN path[m] ELSE path[p]]
           pos2 == [p \in 0..n - 1 |-> IF p = f THEN pos[m]
                                       ELSE IF path[p] = path[m] /\ pos[p] >= pos[m] THEN pos[p] + 1 ELSE pos[p]]
<1>1. \A p \in 0..n - 1 : path[p] \in 0..n - 1 /\ pos[p] \in Nat
  BY DEF Paths
<1>2. Linked(n, nd, path, pos) /\ Headed(n, path, pos) /\ OneEach(n, path, pos) /\ FreeAlone(n, nd, path)
  BY DEF Paths
<1>3. f # m /\ f # Nil
  BY LuaTableAssumption
<1>4. path2 \in [0..n - 1 -> 0..n - 1] /\ pos2 \in [0..n - 1 -> Nat]
  BY <1>1
<1>5. path2[f] = path[m] /\ pos2[f] = pos[m]
  OBVIOUS
<1>6. \A p \in 0..n - 1 : p # f => path2[p] = path[p]
  OBVIOUS
<1>7. \A p \in 0..n - 1 : p # f =>
        /\ path[p] = path[m] /\ pos[p] >= pos[m] => pos2[p] = pos[p] + 1
        /\ path[p] # path[m] \/ pos[p] < pos[m] => pos2[p] = pos[p]
  BY <1>1
<1> HIDE DEF path2, pos2
<1>8. \A p \in 0..n - 1 : p # f => path[p] # f /\ path[p] # path[f]
  BY <1>1, <1>2 DEF FreeAlone, Headed
<1>9. pos2[m] = pos[m] + 1
  BY <1>1, <1>3, <1>7
<1>10. Linked(n, u, path2, pos2)
  <2> SUFFICES ASSUME NEW p \in 0..n - 1
               PROVE  /\ u[p].next = Nil <=> pos2[p] = 0
                      /\ u[p].next # Nil =>
                           /\ u[p].next \in 0..n - 1
                           /\ path2[u[p].next] = path2[p] /\ pos2[u[p].next] = pos2[p] - 1
    BY DEF Linked
  <2>1. nd[m].next = Nil <=> pos[m] = 0
    BY <1>2 DEF Linked
  <2>2. ASSUME nd[m].next # Nil
        PROVE  /\ nd[m].next \in 0..n - 1 /\ path[nd[m].next] = path[m]
               /\ pos[nd[m].next] = pos[m] - 1 /\ nd[m].next # f
    BY <1>2, <1>3, <1>8, <2>2 DEF Linked
  <2>3. CASE p = f
    BY <1>1, <1>5, <1>6, <1>7, <2>1, <2>2, <2>3
  <2>4. CASE p = m
    BY <1>1, <1>3, <1>5, <1>6, <1>9, <2>4
  <2>5. CASE p # f /\ p # m
    <3>1. u[p].next = nd[p].next /\ path2[p] = path[p] /\ (path[p] = path[m] => pos[p] # pos[m])
      BY <1>2, <1>6, <2>5 DEF OneEach
    <3>2. CASE nd[p].next = Nil
      <4>1. pos[p] = 0
        BY <1>2, <3>2 DEF Linked
      <4> QED
        BY <1>1, <1>7, <2>5, <3>1, <3>2, <4>1
    <3>3. CASE nd[p].next # Nil
      <4> DEFINE q == nd[p].next
      <4>1. q \in 0..n - 1 /\ path[q] = path[p] /\ pos[q] = pos[p] - 1 /\ pos[p] # 0 /\ q # f
        BY <1>2, <1>8, <2>5, <3>3 DEF Linked
      <4> HIDE DEF q
      <4>2. path2[q] = path2[p]
        BY <1>6, <3>1, <4>1
      <4>3. pos2[q] = pos2[p] - 1 /\ pos2[p] # 0
        <5> HIDE DEF Splices
        <5> QED
          BY <1>1, <1>7, <2>5, <3>1, <4>1
      <4> QED
        BY <3>1, <3>3, <4>1, <4>2, <4>3 DEF q
    <3> QED
      BY <3>2, <3>3
  <2> QED
    BY <2>3, <2>4, <2>5
<1>11. Headed(n, path2, pos2)
  <2> SUFFICES ASSUME NEW p \in 0..n - 1 PROVE path2[path2[p]] = path2[p] /\ pos2[p] <= pos2[path2[p]]
    BY DEF Headed
  <2> DEFINE c == path2[p]
  <2>1. PICK q \in 0..n - 1 : q # f /\ c = path[q] /\ (p # f => q = p) /\ (p = f => q = m)
    BY <1>3, <1>5, <1>6
  <2>2. c \in 0..n - 1 /\ c # f /\ path[c] = c /\ path[c] = path[q] /\ pos[q] <= pos[c]
    BY <1>1, <1>2, <1>8, <2>1 DEF Headed
  <2>3. pos2[q] <= pos2[c]
    BY <1>1, <1>7, <2>1, <2>2
  <2>4. pos2[p] \in Nat /\ pos2[q] \in Nat /\ pos2[c] \in Nat
    BY <1>4, <2>1, <2>2
  <2>5. pos2[p] <= pos2[q]
    <3>1. CASE p = f
      BY <1>1, <1>5, <1>9, <2>1, <3>1
    <3>2. CASE p # f
      BY <2>1, <2>4, <3>2
    <3> QED
      BY <3>1, <3>2
  <2>6. path2[c] = c
    BY <1>6, <2>2
  <2> HIDE DEF c
  <2>7. pos2[p] <= pos2[c]
    BY <2>3, <2>4, <2>5
  <2> QED
    BY <2>6, <2>7 DEF c
<1>12. OneEach(n, path2, pos2) /\ FreeAlone(n, u, path2)
  <2>1. ASSUME NEW q \in 0..n - 1, q # f, path[q] = path[m] PROVE pos2[q] # pos[m]
    BY <1>1, <1>7, <2>1
  <2>2. ASSUME NEW p \in 0..n - 1, NEW q \in 0..n - 1, path2[p] = path2[q], pos2[p] = pos2[q]
        PROVE  p = q
    <3>1. CASE p = f \/ q = f
      BY <1>5, <1>6, <2>1, <2>2, <3>1
    <3>2. CASE p # f /\ q # f
      <4>1. path[p] = path[q]
        BY <1>6, <2>2, <3>2
      <4>2. pos[p] \in Nat /\ pos[q] \in Nat /\ pos[m] \in Nat
        BY <1>1
      <4>3. pos[p] = pos[q]
        BY <1>7, <2>2, <3>2, <4>1, <4>2
      <4> QED
        BY <1>2, <4>1, <4>3 DEF OneEach
    <3> QED
      BY <3>1, <3>2
  <2>3. ASSUME NEW p \in 0..n - 1, NEW q \in 0..n - 1, u[p].key = Nil, path2[p] = path2[q]
        PROVE  p = q
    <3>1. p # f /\ nd[p].key = Nil /\ p # m
      BY <2>3
    <3>2. q # f
      BY <1>2, <1>5, <1>6, <2>3, <3>1 DEF FreeAlone
    <3> QED
      BY <1>2, <1>6, <2>3, <3>1, <3>2 DEF FreeAlone
  <2> QED
    BY <2>2, <2>3 DEF OneEach, FreeAlone
<1>13. \A p, q \in 0..n - 1 :
         p # f /\ q # f /\ path[p] = path[q] /\ pos[p] <= pos[q] => pos2[p] <= pos2[q]
  BY <1>1, <1>7
<1>14. Paths(n, u, path2, pos2)
  BY <1>4, <1>10, <1>11, <1>12 DEF Paths
<1>15. ASSUME NEW p \in 0..n - 1, p # f, p # m, path[p] = path[m], pos[p] <= pos[m]
       PROVE  pos2[p] <= pos2[f]
  <2>1. pos[p] # pos[m]
    BY <1>2, <1>15 DEF OneEach
  <2>2. pos[p] < pos[m]
    BY <1>1, <1>15, <2>1
  <2> QED
    BY <1>1, <1>5, <1>7, <1>15, <2>2
<1> QED
  BY <1>5, <1>6, <1>9, <1>13, <1>14, <1>15

(* A free node takes a new key whose main position holds one of its own.     *)
LEMMA ChainOK ==
  ASSUME NEW h \in Hashes, NEW n \in Nat, n > 0, NEW nd, NodesOK(h, n, nd), NEW k \in Key,
         NEW m, m = Main(h, n, k), nd[m].val # Nil, Main(h, n, nd[m].key) = m,
         \A p \in 0..n - 1 : ~Live(nd, p, k),
         NEW f \in 0..n - 1, nd[f].key = Nil
  PROVE  NodesOK(h, n, [nd EXCEPT ![f] = Empty(k, nd[m].next), ![m].next = f])
<1>0. PICK u : u = [nd EXCEPT ![f] = Empty(k, nd[m].next), ![m].next = f]
  OBVIOUS
<1>1. PICK path, pos : Paths(n, nd, path, pos) /\ Homed(h, n, nd, path, pos) /\ Freshest(n, nd, pos)
  BY DEF NodesOK
<1>2. m \in 0..n - 1 /\ nd \in [0..n - 1 -> Node] /\ k # Nil /\ k \in Key \cup {Nil}
  <2>1. m \in 0..n - 1
    BY MainRange
  <2>2. k # Nil
    BY LuaTableAssumption DEF Key
  <2> QED
    BY <2>1, <2>2 DEF NodesOK
<1>3. nd[m].next \in Nat \cup {Nil} /\ nd[m].key # Nil /\ f # m /\ ~nd[m].dead /\ nd[f].val = Nil
  BY <1>2 DEF Node, NodesOK, Unique
<1>4. Empty(k, nd[m].next) \in Node /\ [nd[m] EXCEPT !.next = f] \in Node
  BY <1>2, <1>3, EmptyNode DEF Node
<1>5. /\ u[f] = Empty(k, nd[m].next) /\ u[m] = [nd[m] EXCEPT !.next = f]
      /\ \A p \in 0..n - 1 : p # m /\ p # f => u[p] = nd[p]
      /\ u \in [0..n - 1 -> Node]
  BY <1>0, <1>2, <1>3, <1>4
<1>6. u[f].key = k /\ u[f].val = Nil /\ u[f].next = nd[m].next /\ ~u[f].dead
  BY <1>2, <1>3, <1>5, EmptyNode
<1>7. u[m].key = nd[m].key /\ u[m].val = nd[m].val /\ u[m].next = f /\ u[m].dead = nd[m].dead
  BY <1>2, <1>5 DEF Node
<1>8. PICK path2, pos2 :
        /\ Paths(n, u, path2, pos2)
        /\ path2[f] = path[m] /\ pos2[f] = pos[m] /\ pos2[m] = pos[m] + 1
        /\ \A p \in 0..n - 1 : p # f => path2[p] = path[p]
        /\ \A p, q \in 0..n - 1 :
             p # f /\ q # f /\ path[p] = path[q] /\ pos[p] <= pos[q] => pos2[p] <= pos2[q]
        /\ \A p \in 0..n - 1 :
             p # f /\ p # m /\ path[p] = path[m] /\ pos[p] <= pos[m] => pos2[p] <= pos2[f]
  <2>1. \A p \in 0..n - 1 : p # f => u[p].key = nd[p].key
    BY <1>5, <1>7
  <2>2. \A p \in 0..n - 1 : p # m /\ p # f => u[p].next = nd[p].next
    BY <1>5
  <2>3. Splices(n, nd, m, f, u)
    BY <1>2, <1>3, <1>6, <1>7, <2>1, <2>2 DEF Splices
  <2>4. m \in 0..n - 1 /\ Paths(n, nd, path, pos)
    BY <1>1, <1>2
  <2> QED
    BY <2>3, <2>4, Spliced
<1>9. Homed(h, n, u, path2, pos2)
  <2> SUFFICES ASSUME NEW p \in 0..n - 1, u[p].key # Nil, NEW c, c = Main(h, n, u[p].key)
               PROVE  /\ path2[c] = path2[p] /\ pos2[p] <= pos2[c]
                      /\ u[c].key # Nil /\ Main(h, n, u[c].key) = c
    BY DEF Homed
  <2>1. CASE p = f
    <3>1. c = m /\ pos[m] \in Nat
      BY <1>1, <1>2, <1>6, <2>1, m = Main(h, n, k) DEF Paths
    <3> QED
      BY <1>2, <1>3, <1>7, <1>8, <2>1, <3>1
  <2>2. CASE p # f
    <3>1. u[p].key = nd[p].key
      BY <1>5, <1>7, <2>2
    <3>2. /\ path[c] = path[p] /\ pos[p] <= pos[c]
          /\ nd[c].key # Nil /\ Main(h, n, nd[c].key) = c
      BY <1>1, <3>1 DEF Homed
    <3>3. c \in 0..n - 1 /\ c # f
      <4>1. u[p].key \in Key
        BY <1>5 DEF Node
      <4> QED
        BY <3>2, <4>1, MainRange
    <3>4. u[c].key = nd[c].key
      BY <1>5, <1>7, <3>3
    <3> QED
      BY <1>8, <2>2, <3>2, <3>3, <3>4
  <2> QED
    BY <2>1, <2>2
<1>10. Unique(n, u)
  <2>1. \A p \in 0..n - 1 : p # f => u[p].key = nd[p].key /\ u[p].dead = nd[p].dead /\ u[p].val = nd[p].val
    BY <1>5, <1>7
  <2> QED
    BY <1>2, <1>6, <2>1 DEF NodesOK, Unique, Live
<1>11. Freshest(n, u, pos2)
  <2> SUFFICES ASSUME NEW p \in 0..n - 1, NEW q \in 0..n - 1, u[q].key # Nil, Live(u, p, u[q].key)
               PROVE  pos2[q] <= pos2[p]
    BY DEF Freshest
  <2>0. pos2[p] \in Nat /\ pos2[q] \in Nat
    BY <1>8 DEF Paths
  <2>1. \A x \in 0..n - 1 : x # f => u[x].key = nd[x].key /\ u[x].dead = nd[x].dead
    BY <1>5, <1>7
  <2>2. CASE q = p
    BY <2>0, <2>2
  <2>3. CASE p = f /\ q # f
    <3>1. nd[q].key = k
      BY <1>6, <2>1, <2>3 DEF Live
    <3>2. path[q] = path[m] /\ pos[q] <= pos[m]
      BY <1>1, <1>2, <3>1, m = Main(h, n, k) DEF Homed
    <3>3. q # m
      BY <1>2, <1>3, <3>1 DEF Live
    <3> QED
      BY <1>8, <2>3, <3>2, <3>3
  <2>4. CASE p # f /\ q = f
    BY <1>6, <2>1, <2>4 DEF Live
  <2>5. CASE p # f /\ q # f
    <3>1. nd[q].key # Nil /\ Live(nd, p, nd[q].key) /\ nd[p].key = nd[q].key
      BY <2>1, <2>5 DEF Live
    <3>2. pos[q] <= pos[p]
      BY <1>1, <3>1 DEF Freshest
    <3>3. path[q] = path[p]
      BY <1>1, <3>1 DEF Homed
    <3> QED
      BY <1>8, <2>5, <3>2, <3>3
  <2> QED
    BY <2>2, <2>3, <2>4, <2>5
<1> QED
  BY <1>0, <1>5, <1>8, <1>9, <1>10, <1>11 DEF NodesOK

(* The node before one that is not the first on its path. *)
LEMMA Predecessor ==
  ASSUME NEW n \in Nat, NEW nd, NEW path, NEW pos, Paths(n, nd, path, pos),
         NEW m \in 0..n - 1, NEW c \in 0..n - 1, path[c] = path[m], pos[m] < pos[c]
  PROVE  \E r \in 0..n - 1 : nd[r].next = m /\ path[r] = path[m] /\ pos[m] < pos[r] /\ pos[r] <= pos[c]
<1> DEFINE S == {p \in 0..n - 1 : path[p] = path[m] /\ pos[m] < pos[p]}
           B == {pos[p] : p \in S}
<1>1. \A p \in 0..n - 1 : path[p] \in 0..n - 1 /\ pos[p] \in Nat
  BY DEF Paths
<1>2. B \in SUBSET Nat /\ B # {} /\ pos[c] \in B
  BY <1>1
<1>3. PICK b \in B : \A x \in B : b <= x
  BY <1>2, LeastElement
<1>4. PICK r \in S : pos[r] = b
  BY <1>3
<1>5. nd[r].next # Nil /\ pos[r] <= pos[c]
  <2>1. pos[r] <= pos[c]
    BY <1>2, <1>3, <1>4
  <2>2. pos[r] # 0
    BY <1>1, <1>4
  <2> QED
    BY <1>4, <2>1, <2>2 DEF Paths, Linked
<1> DEFINE q == nd[r].next
<1>6. q \in 0..n - 1 /\ path[q] = path[m] /\ pos[q] = pos[r] - 1
  BY <1>4, <1>5 DEF Paths, Linked
<1>7. q \notin S
  <2>1. ASSUME q \in S PROVE pos[r] <= pos[q]
    BY <1>3, <1>4, <2>1
  <2> HIDE DEF S, q
  <2> QED
    BY <1>1, <1>4, <1>6, <2>1 DEF S
<1>8. pos[q] = pos[m]
  <2> HIDE DEF q
  <2> QED
    BY <1>1, <1>4, <1>6, <1>7
<1>9. q = m
  <2> HIDE DEF q
  <2> QED
    BY <1>6, <1>8 DEF Paths, OneEach
<1> QED
  BY <1>4, <1>5, <1>9

(* A free node takes the place of m on its path, and m gets one of its own.  *)
Replaces(n, nd, m, f, r, u) ==
  /\ nd[m].key # Nil /\ nd[f].key = Nil /\ nd[r].next = m
  /\ u[f].key # Nil /\ u[m].key # Nil
  /\ u[f].next = nd[m].next /\ u[m].next = Nil /\ u[r].next = f
  /\ \A p \in 0..n - 1 : p # f /\ p # m => u[p].key = nd[p].key
  /\ \A p \in 0..n - 1 : p # f /\ p # m /\ p # r => u[p].next = nd[p].next

(* The paths after that exchange: the free node stands where m stood. *)
LEMMA Replaced ==
  ASSUME NEW n \in Nat, NEW nd, NEW path, NEW pos, Paths(n, nd, path, pos),
         NEW m \in 0..n - 1, NEW f \in 0..n - 1, NEW r \in 0..n - 1,
         NEW u, Replaces(n, nd, m, f, r, u)
  PROVE  \E path2, pos2 :
           /\ Paths(n, u, path2, pos2)
           /\ path2[f] = path[m] /\ pos2[f] = pos[m]
           /\ \A p \in 0..n - 1 : p # f /\ p # m => path2[p] = path[p] /\ pos2[p] = pos[p]
<1> USE DEF Replaces
<1> DEFINE path2 == [p \in 0..n - 1 |-> IF p = f THEN path[m] ELSE IF p = m THEN m ELSE path[p]]
           pos2 == [p \in 0..n - 1 |-> IF p = f THEN pos[m] ELSE IF p = m THEN 0 ELSE pos[p]]
<1>1. \A p \in 0..n - 1 : path[p] \in 0..n - 1 /\ pos[p] \in Nat
  BY DEF Paths
<1>2. Linked(n, nd, path, pos) /\ Headed(n, path, pos) /\ OneEach(n, path, pos) /\ FreeAlone(n, nd, path)
  BY DEF Paths
<1>3. f # m /\ f # Nil /\ m # Nil
  BY LuaTableAssumption
<1>4. path2 \in [0..n - 1 -> 0..n - 1] /\ pos2 \in [0..n - 1 -> Nat]
  BY <1>1
<1>5. path2[f] = path[m] /\ pos2[f] = pos[m] /\ path2[m] = m /\ pos2[m] = 0
  BY <1>3
<1>6. \A p \in 0..n - 1 : p # f /\ p # m => path2[p] = path[p] /\ pos2[p] = pos[p]
  OBVIOUS
<1> HIDE DEF path2, pos2
<1>7. \A p \in 0..n - 1 : p # f => path[p] # f /\ path[p] # path[f]
  BY <1>1, <1>2 DEF FreeAlone, Headed
<1>8. path[r] = path[m] /\ pos[m] = pos[r] - 1 /\ r # m /\ r # f
  <2>1. path[r] = path[m] /\ pos[m] = pos[r] - 1
    BY <1>2, <1>3 DEF Linked
  <2> QED
    BY <1>1, <1>3, <1>7, <2>1
<1>9. \A p \in 0..n - 1 : path[p] # m
  <2> SUFFICES ASSUME NEW p \in 0..n - 1, path[p] = m PROVE FALSE
    OBVIOUS
  <2>1. path[m] = m
    BY <1>2 DEF Headed
  <2>2. pos[r] <= pos[m]
    BY <1>2, <1>8, <2>1 DEF Headed
  <2> QED
    BY <1>1, <1>8, <2>2
<1>10. Linked(n, u, path2, pos2)
  <2> SUFFICES ASSUME NEW p \in 0..n - 1
               PROVE  /\ u[p].next = Nil <=> pos2[p] = 0
                      /\ u[p].next # Nil =>
                           /\ u[p].next \in 0..n - 1
                           /\ path2[u[p].next] = path2[p] /\ pos2[u[p].next] = pos2[p] - 1
    BY DEF Linked
  <2>1. ASSUME NEW x \in 0..n - 1, x # f
        PROVE  /\ nd[x].next = Nil <=> pos[x] = 0
               /\ nd[x].next # Nil =>
                   /\ nd[x].next \in 0..n - 1 /\ path[nd[x].next] = path[x]
                   /\ pos[nd[x].next] = pos[x] - 1 /\ nd[x].next # f
                   /\ nd[x].next = m => x = r
    <3>1. /\ nd[x].next = Nil <=> pos[x] = 0
          /\ nd[x].next # Nil =>
               nd[x].next \in 0..n - 1 /\ path[nd[x].next] = path[x] /\ pos[nd[x].next] = pos[x] - 1
      BY <1>2 DEF Linked
    <3>2. nd[x].next # Nil => nd[x].next # f
      BY <1>7, <2>1, <3>1
    <3>3. ASSUME nd[x].next = m PROVE x = r
      <4>1. path[x] = path[r] /\ pos[x] = pos[r]
        BY <1>1, <1>3, <1>8, <3>1, <3>3
      <4> QED
        BY <1>2, <4>1 DEF OneEach
    <3> QED
      BY <3>1, <3>2, <3>3
  <2>2. CASE p = f
    <3>1. nd[m].next # Nil => nd[m].next # m
      BY <1>1, <2>1, <1>3
    <3> QED
      BY <1>1, <1>3, <1>5, <1>6, <2>1, <2>2, <3>1
  <2>3. CASE p = m
    BY <1>5, <2>3
  <2>4. CASE p = r
    BY <1>1, <1>3, <1>5, <1>6, <1>8, <2>4
  <2>5. CASE p # f /\ p # m /\ p # r
    <3>1. u[p].next = nd[p].next /\ path2[p] = path[p] /\ pos2[p] = pos[p]
      BY <1>6, <2>5
    <3>2. nd[p].next # Nil => nd[p].next # m /\ nd[p].next # f
      BY <2>1, <2>5
    <3> QED
      BY <1>6, <2>1, <2>5, <3>1, <3>2
  <2> QED
    BY <2>2, <2>3, <2>4, <2>5
<1>11. Headed(n, path2, pos2)
  <2> SUFFICES ASSUME NEW p \in 0..n - 1 PROVE path2[path2[p]] = path2[p] /\ pos2[p] <= pos2[path2[p]]
    BY DEF Headed
  <2>1. CASE p = m
    BY <1>5, <2>1
  <2>2. CASE p # m
    <3>1. PICK q \in 0..n - 1 : q # f /\ path2[p] = path[q] /\ pos2[p] = pos[q]
      BY <1>3, <1>5, <1>6, <2>2
    <3> DEFINE c == path[q]
    <3>2. c \in 0..n - 1 /\ path[c] = c /\ pos[q] <= pos[c] /\ c # m /\ c # f
      BY <1>1, <1>2, <1>7, <1>9, <3>1 DEF Headed
    <3> QED
      BY <1>6, <3>1, <3>2
  <2> QED
    BY <2>1, <2>2
<1>12. OneEach(n, path2, pos2) /\ FreeAlone(n, u, path2)
  <2>1. \A p \in 0..n - 1 : path2[p] = m => p = m
    BY <1>3, <1>5, <1>6, <1>9
  <2>2. ASSUME NEW p \in 0..n - 1, NEW q \in 0..n - 1, path2[p] = path2[q], pos2[p] = pos2[q]
        PROVE  p = q
    <3>1. CASE p = m \/ q = m
      BY <1>5, <2>1, <2>2, <3>1
    <3>2. CASE p # m /\ q # m
      <4>1. PICK x \in 0..n - 1 : x = (IF p = f THEN m ELSE p) /\ path2[p] = path[x] /\ pos2[p] = pos[x]
        BY <1>5, <1>6, <3>2
      <4>2. PICK y \in 0..n - 1 : y = (IF q = f THEN m ELSE q) /\ path2[q] = path[y] /\ pos2[q] = pos[y]
        BY <1>5, <1>6, <3>2
      <4>3. path[x] = path[y] /\ pos[x] = pos[y]
        BY <2>2, <4>1, <4>2
      <4>4. x = y
        BY <1>2, <4>3 DEF OneEach
      <4> QED
        BY <3>2, <4>1, <4>2, <4>4
    <3> QED
      BY <3>1, <3>2
  <2>3. ASSUME NEW p \in 0..n - 1, NEW q \in 0..n - 1, u[p].key = Nil, path2[p] = path2[q]
        PROVE  p = q
    <3>1. p # f /\ p # m /\ nd[p].key = Nil
      BY <2>3
    <3>2. q # m
      BY <1>5, <2>1, <2>3, <3>1
    <3>3. q # f
      BY <1>2, <1>5, <1>6, <2>3, <3>1 DEF FreeAlone
    <3> QED
      BY <1>2, <1>6, <2>3, <3>1, <3>2, <3>3 DEF FreeAlone
  <2> QED
    BY <2>2, <2>3 DEF OneEach, FreeAlone
<1>13. Paths(n, u, path2, pos2)
  BY <1>4, <1>10, <1>11, <1>12 DEF Paths
<1> QED
  BY <1>5, <1>6, <1>13

(* A node that is not in its main position makes way for one that is.        *)
LEMMA MoveOK ==
  ASSUME NEW h \in Hashes, NEW n \in Nat, n > 0, NEW nd, NodesOK(h, n, nd), NEW k \in Key,
         NEW m, m = Main(h, n, k), nd[m].val # Nil, Main(h, n, nd[m].key) # m,
         \A p \in 0..n - 1 : ~Live(nd, p, k),
         NEW f \in 0..n - 1, nd[f].key = Nil,
         NEW r \in 0..n - 1, nd[r].next = m
  PROVE  NodesOK(h, n, [nd EXCEPT ![r].next = f, ![f] = nd[m], ![m] = Empty(k, Nil)])
<1>0. PICK u : u = [nd EXCEPT ![r].next = f, ![f] = nd[m], ![m] = Empty(k, Nil)]
  OBVIOUS
<1>1. PICK path, pos : Paths(n, nd, path, pos) /\ Homed(h, n, nd, path, pos) /\ Freshest(n, nd, pos)
  BY DEF NodesOK
<1>2. m \in 0..n - 1 /\ nd \in [0..n - 1 -> Node] /\ k # Nil /\ k \in Key \cup {Nil}
  <2>1. m \in 0..n - 1
    BY MainRange
  <2>2. k # Nil
    BY LuaTableAssumption DEF Key
  <2> QED
    BY <2>1, <2>2 DEF NodesOK
<1>3. nd[m].next \in Nat \cup {Nil} /\ nd[m].key # Nil /\ f # m /\ ~nd[m].dead /\ nd[f].val = Nil
  BY <1>2 DEF Node, NodesOK, Unique
<1>4. m # Nil /\ nd[f].next = Nil /\ nd[m].next # m
  <2>1. \A p \in 0..n - 1 : path[p] \in 0..n - 1 /\ pos[p] \in Nat
    BY <1>1 DEF Paths
  <2>2. m # Nil /\ nd[m].next # m
    <3>1. m # Nil
      BY <1>2, LuaTableAssumption
    <3>2. nd[m].next # Nil => pos[nd[m].next] = pos[m] - 1
      BY <1>1, <1>2 DEF Paths, Linked
    <3> QED
      BY <1>2, <2>1, <3>1, <3>2
  <2>3. path[f] = f
    BY <1>1, <2>1 DEF Paths, FreeAlone, Headed
  <2>4. nd[f].next # Nil => nd[f].next = f /\ pos[f] = pos[f] - 1
    BY <1>1, <2>3 DEF Paths, FreeAlone, Linked
  <2> QED
    BY <2>1, <2>2, <2>4
<1>5. r # m /\ r # f
  BY <1>4
<1>6. Empty(k, Nil) \in Node /\ [nd[r] EXCEPT !.next = f] \in Node
  <2>1. Empty(k, Nil) \in Node
    BY <1>2, EmptyNode
  <2>2. nd[r] \in Node /\ f \in Nat
    BY <1>2
  <2> QED
    BY <2>1, <2>2 DEF Node
<1>7. /\ u[f] = nd[m] /\ u[m] = Empty(k, Nil) /\ u[r] = [nd[r] EXCEPT !.next = f]
      /\ \A p \in 0..n - 1 : p # m /\ p # f /\ p # r => u[p] = nd[p]
      /\ u \in [0..n - 1 -> Node]
  BY <1>0, <1>2, <1>3, <1>5, <1>6
<1>8. u[m].key = k /\ u[m].val = Nil /\ u[m].next = Nil /\ ~u[m].dead
  <2>1. Empty(k, Nil).key = k /\ Empty(k, Nil).val = Nil /\ Empty(k, Nil).next = Nil /\ ~Empty(k, Nil).dead
    BY DEF Empty
  <2> QED
    BY <1>7, <2>1
<1>9. u[r].key = nd[r].key /\ u[r].val = nd[r].val /\ u[r].next = f /\ u[r].dead = nd[r].dead
  BY <1>2, <1>7 DEF Node
<1>10. PICK path2, pos2 :
        /\ Paths(n, u, path2, pos2)
        /\ path2[f] = path[m] /\ pos2[f] = pos[m]
        /\ \A p \in 0..n - 1 : p # f /\ p # m => path2[p] = path[p] /\ pos2[p] = pos[p]
  <2>1. \A p \in 0..n - 1 : p # f /\ p # m => u[p].key = nd[p].key
    BY <1>7, <1>9
  <2>2. \A p \in 0..n - 1 : p # f /\ p # m /\ p # r => u[p].next = nd[p].next
    BY <1>7
  <2>3. /\ Paths(n, nd, path, pos) /\ nd[m].key # Nil /\ nd[f].key = Nil /\ nd[r].next = m
        /\ u[f].key # Nil /\ u[m].key # Nil /\ u[f].next = nd[m].next /\ u[m].next = Nil /\ u[r].next = f
    BY <1>1, <1>2, <1>3, <1>7, <1>8, <1>9
  <2>4. Replaces(n, nd, m, f, r, u)
    BY <2>1, <2>2, <2>3 DEF Replaces
  <2> QED
    BY <1>1, <1>2, <2>4, Replaced
<1>11. \A p \in 0..n - 1 : nd[p].key # Nil => Main(h, n, nd[p].key) # m
  BY <1>1 DEF Homed
<1>12. Homed(h, n, u, path2, pos2)
  <2> SUFFICES ASSUME NEW p \in 0..n - 1, u[p].key # Nil, NEW c, c = Main(h, n, u[p].key)
               PROVE  /\ path2[c] = path2[p] /\ pos2[p] <= pos2[c]
                      /\ u[c].key # Nil /\ Main(h, n, u[c].key) = c
    BY DEF Homed
  <2>1. CASE p = m
    <3>1. c = m /\ pos2[m] \in Nat
      BY <1>2, <1>8, <1>10, <2>1, m = Main(h, n, k) DEF Paths
    <3> QED
      BY <1>2, <1>8, <2>1, <3>1
  <2>2. CASE p # m
    <3>1. PICK q \in 0..n - 1 : u[p].key = nd[q].key /\ path2[p] = path[q] /\ pos2[p] = pos[q]
      <4>1. CASE p = f
        BY <1>2, <1>7, <1>10, <4>1
      <4>2. CASE p # f
        BY <1>7, <1>9, <1>10, <2>2, <4>2
      <4> QED
        BY <4>1, <4>2
    <3>2. /\ path[c] = path[q] /\ pos[q] <= pos[c]
          /\ nd[c].key # Nil /\ Main(h, n, nd[c].key) = c
      BY <1>1, <3>1 DEF Homed
    <3>3. c \in 0..n - 1 /\ c # f /\ c # m
      <4>1. u[p].key \in Key
        BY <1>7 DEF Node
      <4>2. c # m
        BY <1>11, <3>1
      <4> QED
        BY <3>2, <4>1, <4>2, MainRange
    <3>4. u[c].key = nd[c].key
      BY <1>7, <1>9, <3>3
    <3> QED
      BY <1>10, <3>1, <3>2, <3>3, <3>4
  <2> QED
    BY <2>1, <2>2
<1> DEFINE from(p) == IF p = f THEN m ELSE p
<1>14. \A p \in 0..n - 1 : p # m =>
          /\ from(p) \in 0..n - 1 /\ from(p) # f
          /\ u[p].key = nd[from(p)].key /\ u[p].dead = nd[from(p)].dead /\ u[p].val = nd[from(p)].val
          /\ pos2[p] = pos[from(p)]
  BY <1>2, <1>3, <1>7, <1>9, <1>10
<1>13. Unique(n, u)
  <2>1. \A p \in 0..n - 1 : p # m =>
          /\ from(p) \in 0..n - 1 /\ from(p) # f
          /\ u[p].key = nd[from(p)].key /\ u[p].dead = nd[from(p)].dead /\ u[p].val = nd[from(p)].val
    BY <1>14
  <2>2. ASSUME NEW p \in 0..n - 1, NEW q \in 0..n - 1, u[p].key # Nil, Live(u, p, u[q].key), ~u[q].dead
        PROVE  p = q
    <3>1. CASE p # m /\ q # m
      <4>1. from(p) = from(q)
        <5> HIDE DEF from
        <5>1. PICK x, y \in 0..n - 1 : x = from(p) /\ y = from(q)
          BY <2>1, <3>1
        <5>2. nd[x].key # Nil /\ Live(nd, x, nd[y].key) /\ ~nd[y].dead
          BY <2>1, <2>2, <3>1, <5>1 DEF Live
        <5> QED
          BY <5>1, <5>2 DEF NodesOK, Unique
      <4> QED
        BY <1>3, <3>1, <4>1
    <3>2. CASE p # m /\ q = m
      <4>1. Live(nd, from(p), k)
        <5> HIDE DEF from
        <5> QED
          BY <1>8, <2>1, <2>2, <3>2 DEF Live
      <4> QED
        BY <2>1, <3>2, <4>1
    <3>3. CASE q # m /\ p = m
      <4>1. Live(nd, from(q), k)
        <5> HIDE DEF from
        <5> QED
          BY <1>8, <2>1, <2>2, <3>3 DEF Live
      <4> QED
        BY <2>1, <3>3, <4>1
    <3> QED
      BY <3>1, <3>2, <3>3
  <2>3. ASSUME NEW p \in 0..n - 1, u[p].val # Nil PROVE u[p].key # Nil /\ ~u[p].dead
    <3> HIDE DEF from
    <3> QED
      BY <1>8, <2>1, <2>3 DEF NodesOK, Unique
  <2> QED
    BY <2>2, <2>3 DEF Unique
<1>15. Freshest(n, u, pos2)
  <2> SUFFICES ASSUME NEW p \in 0..n - 1, NEW q \in 0..n - 1, u[q].key # Nil, Live(u, p, u[q].key)
               PROVE  pos2[q] <= pos2[p]
    BY DEF Freshest
  <2>0. pos2[p] \in Nat /\ pos2[q] \in Nat
    BY <1>10 DEF Paths
  <2> HIDE DEF from
  <2>1. CASE q = p
    BY <2>0, <2>1
  <2>2. CASE p = m /\ q # m
    <3>1. nd[from(q)].key = k /\ from(q) \in 0..n - 1
      BY <1>8, <1>14, <2>2 DEF Live
    <3> QED
      BY <1>2, <1>11, <3>1, m = Main(h, n, k)
  <2>3. CASE p # m /\ q = m
    <3>1. Live(nd, from(p), k) /\ from(p) \in 0..n - 1
      BY <1>8, <1>14, <2>3 DEF Live
    <3> QED
      BY <3>1
  <2>4. CASE p # m /\ q # m
    <3>1. PICK x, y \in 0..n - 1 : x = from(p) /\ y = from(q)
      BY <1>14, <2>4
    <3>2. nd[y].key # Nil /\ Live(nd, x, nd[y].key)
      BY <1>14, <2>4, <3>1 DEF Live
    <3>3. pos[y] <= pos[x]
      BY <1>1, <3>2 DEF Freshest
    <3> QED
      BY <1>14, <2>4, <3>1, <3>3
  <2> QED
    BY <2>1, <2>2, <2>3, <2>4
<1> QED
  BY <1>0, <1>7, <1>10, <1>12, <1>13, <1>15 DEF NodesOK

-----------------------------------------------------------------------------
(* newkey: the map. *)

LiveNodes(t, k) == {p \in DOMAIN t.node : Live(t.node, p, k)}

(* What the table has for a key, without a walk. *)
Val(t, k) ==
  IF k \in DOMAIN t.array THEN t.array[k]
  ELSE IF LiveNodes(t, k) = {} THEN Nil
  ELSE t.node[CHOOSE p \in LiveNodes(t, k) : TRUE].val

(* The value of a key is in its slot, or at its live node. *)
LEMMA ValIs ==
  ASSUME NEW h, NEW n, NEW t, Good(h, n, t), NEW k \in Key
  PROVE  /\ k \in DOMAIN t.array => Val(t, k) = t.array[k]
         /\ k \notin DOMAIN t.array =>
              /\ \A p \in 0..n - 1 : Live(t.node, p, k) => Val(t, k) = t.node[p].val
              /\ (\A p \in 0..n - 1 : ~Live(t.node, p, k)) => Val(t, k) = Nil
<1>1. n \in Nat /\ t \in Tables(n) /\ Unique(n, t.node)
  BY DEF Good, NodesOK
<1>2. LiveNodes(t, k) = {p \in 0..n - 1 : Live(t.node, p, k)}
  BY <1>1, SizeOf DEF LiveNodes
<1>3. k # Nil
  BY LuaTableAssumption DEF Key
<1>4. ASSUME NEW p \in 0..n - 1, Live(t.node, p, k), k \notin DOMAIN t.array
      PROVE  Val(t, k) = t.node[p].val
  <2> DEFINE q == CHOOSE x \in LiveNodes(t, k) : TRUE
  <2>1. q \in LiveNodes(t, k)
    BY <1>2, <1>4
  <2>2. Val(t, k) = t.node[q].val
    BY <1>4, <2>1 DEF Val
  <2> HIDE DEF q
  <2>3. q = p
    BY <1>1, <1>2, <1>3, <1>4, <2>1 DEF Unique, Live
  <2> QED
    BY <2>2, <2>3
<1> QED
  BY <1>2, <1>4 DEF Val

(* luaH_get gives it. *)
LEMMA GetIs ==
  ASSUME NEW n, NEW t, Good(hash, n, t), NEW k \in Key
  PROVE  luaH_get(t, k) = Val(t, k)
<1>1. CASE k \in DOMAIN t.array
  BY <1>1, ValIs DEF luaH_get, InArray
<1>2. CASE k \notin DOMAIN t.array
  <2>1. Nil \notin 0..n - 1
    BY LuaTableAssumption DEF Good
  <2> QED
    BY <1>2, <2>1, ValIs, NodeOfIs DEF luaH_get, InArray
<1> QED
  BY <1>1, <1>2

(* The free node newkey takes, the last one, has no key. *)
LEMMA FreeMax ==
  ASSUME NEW h, NEW n, NEW t, Good(h, n, t), FreeNodes(t) # {}
  PROVE  LET f == Max(FreeNodes(t)) IN
           /\ f \in 0..n - 1 /\ t.node[f].key = Nil
           /\ \A p \in 0..n - 1 : t.node[p].key = Nil => p <= f
<1>1. n \in Nat /\ t \in Tables(n)
  BY DEF Good
<1>2. FreeNodes(t) = {p \in 0..n - 1 : t.node[p].key = Nil}
  BY <1>1, SizeOf DEF FreeNodes, Good
<1> DEFINE S == FreeNodes(t)
           B == {n - p : p \in S}
<1>3. B \in SUBSET Nat /\ B # {}
  BY <1>1, <1>2
<1>4. PICK b \in B : \A c \in B : b <= c
  BY <1>3, LeastElement
<1>5. PICK f \in S : b = n - f
  BY <1>4
<1>6. \A p \in S : n - f <= n - p
  BY <1>4, <1>5
<1>7. \A p \in S : f >= p
  BY <1>1, <1>2, <1>6
<1>8. Max(S) \in S /\ \A p \in S : Max(S) >= p
  BY <1>7 DEF Max
<1> HIDE DEF S
<1>9. Max(S) \in 0..n - 1 /\ \A p \in 0..n - 1 : p \in S => p <= Max(S)
  BY <1>1, <1>2, <1>8 DEF S
<1> QED
  BY <1>2, <1>8, <1>9 DEF S

Entry(n, nd, k, v) == \E p \in 0..n - 1 : Live(nd, p, k) /\ nd[p].val = v

(* Two tables with the same entries are the same map. *)
LEMMA SameVal ==
  ASSUME NEW h, NEW n, NEW t, Good(h, n, t), NEW u, Good(h, n, u), NEW k \in Key,
         u.array = t.array,
         \A v \in Value : Entry(n, u.node, k, v) <=> Entry(n, t.node, k, v)
  PROVE  Val(u, k) = Val(t, k)
<1>1. CASE k \in DOMAIN t.array
  BY <1>1, ValIs
<1>2. CASE k \notin DOMAIN t.array
  <2>1. \A p \in 0..n - 1 : /\ t.node[p].val \in Value \cup {Nil}
                            /\ u.node[p].val \in Value \cup {Nil}
    BY DEF Good, Tables, Node
  <2>2. ASSUME NEW x, NEW y, Good(h, n, x), Good(h, n, y), x.array = t.array, y.array = t.array,
               NEW p \in 0..n - 1, Live(x.node, p, k), x.node[p].val \in Value,
               \A v \in Value : Entry(n, x.node, k, v) => Entry(n, y.node, k, v)
        PROVE  Val(x, k) = Val(y, k)
    <3>1. Val(x, k) = x.node[p].val
      BY <1>2, <2>2, ValIs
    <3>2. Entry(n, y.node, k, x.node[p].val)
      BY <2>2 DEF Entry
    <3> QED
      BY <1>2, <2>2, <3>1, <3>2, ValIs DEF Entry
  <2>3. CASE \E p \in 0..n - 1 : Live(t.node, p, k) /\ t.node[p].val \in Value
    BY <2>2, <2>3
  <2>4. CASE \E p \in 0..n - 1 : Live(u.node, p, k) /\ u.node[p].val \in Value
    BY <2>2, <2>4
  <2>5. CASE /\ \A p \in 0..n - 1 : ~(Live(t.node, p, k) /\ t.node[p].val \in Value)
             /\ \A p \in 0..n - 1 : ~(Live(u.node, p, k) /\ u.node[p].val \in Value)
    <3>1. Val(t, k) = Nil
      BY <1>2, <2>1, <2>5, ValIs
    <3>2. Val(u, k) = Nil
      BY <1>2, <2>1, <2>5, ValIs
    <3> QED
      BY <3>1, <3>2
  <2> QED
    BY <2>3, <2>4, <2>5
<1> QED
  BY <1>1, <1>2

(* u is t with a node for the new key k. *)
Extends(h, n, t, u, k) ==
  /\ Good(h, n, u) /\ u.array = t.array
  /\ \E p \in 0..n - 1 : Live(u.node, p, k)
  /\ \A j \in Key \ {k} : \A v \in Value : Entry(n, u.node, j, v) <=> Entry(n, t.node, j, v)
  /\ \A p \in 0..n - 1 :
       u.node[p].key = k \/ \E q \in 0..n - 1 : t.node[q].key = u.node[p].key
  /\ \A p \in 0..n - 1 : u.node[p].dead => \E q \in 0..n - 1 : t.node[q].dead

(* newkey at a main position without a value. *)
LEMMA FilledExtends ==
  ASSUME NEW h, NEW n, n > 0, NEW t, Good(h, n, t), NEW k \in Key, k \notin DOMAIN t.array,
         \A p \in 0..n - 1 : ~Live(t.node, p, k),
         NEW m, m = Main(h, n, k), t.node[m].val = Nil
  PROVE  Extends(h, n, t, [t EXCEPT !.node[m] = Empty(k, @.next)], k)
<1>0. PICK u : u = [t EXCEPT !.node[m] = Empty(k, @.next)]
  OBVIOUS
<1> DEFINE nd == t.node
           w == [nd EXCEPT ![m] = Empty(k, @.next)]
<1>1. h \in Hashes /\ n \in Nat /\ t \in Tables(n) /\ NodesOK(h, n, nd) /\ nd \in [0..n - 1 -> Node]
  BY DEF Good, NodesOK
<1>2. m \in 0..n - 1 /\ k # Nil /\ k \in Key \cup {Nil} /\ nd[m].next \in Nat \cup {Nil}
  <2>1. m \in 0..n - 1
    BY <1>1, MainRange
  <2>2. k # Nil
    BY LuaTableAssumption DEF Key
  <2> QED
    BY <1>1, <2>1, <2>2 DEF Node
<1>3. u.node = w /\ u.array = t.array /\ u.lastfree = t.lastfree
  BY <1>0, <1>1, <1>2 DEF Tables
<1>4. NodesOK(h, n, w)
  BY <1>1, FillOK
<1>5. u \in Tables(n)
  <2>1. w \in [0..n - 1 -> Node]
    BY <1>4 DEF NodesOK
  <2> HIDE DEF w
  <2> QED
    BY <1>0, <1>1, <1>3, <2>1 DEF Tables
<1>6. /\ w[m].key = k /\ w[m].val = Nil /\ ~w[m].dead
      /\ \A p \in 0..n - 1 : p # m => w[p] = nd[p]
  <2>1. w[m] = Empty(k, nd[m].next) /\ \A p \in 0..n - 1 : p # m => w[p] = nd[p]
    BY <1>1, <1>2
  <2> HIDE DEF w, nd
  <2> QED
    BY <1>2, <2>1, EmptyNode
<1> HIDE DEF w, nd
<1>7. \A p \in 0..n - 1 : (nd[p].key = Nil => p < t.lastfree) /\ nd[p].key \notin DOMAIN t.array
  BY DEF Good, nd
<1>8. Good(h, n, u)
  <2>1. \A i \in DOMAIN t.array : t.array[i] # Nil => i \in Key
    BY DEF Good
  <2> QED
    BY <1>1, <1>2, <1>3, <1>4, <1>5, <1>6, <1>7, <2>1 DEF Good
<1>9. \A j \in Key \ {k} : \A v \in Value : Entry(n, w, j, v) <=> Entry(n, nd, j, v)
  <2>1. nd[m].val = Nil /\ Nil \notin Value
    BY LuaTableAssumption DEF nd
  <2> QED
    BY <1>2, <1>6, <2>1 DEF Entry, Live
<1>10. Live(w, m, k)
  BY <1>6 DEF Live
<1> QED
  BY <1>0, <1>2, <1>3, <1>6, <1>8, <1>9, <1>10 DEF Extends, nd

(* The nodes of u are those of t and one without a value for k. *)
SameEntry(a, b) == a.key = b.key /\ a.val = b.val /\ a.dead = b.dead
Adds(n, t, u, k) ==
  /\ u.array = t.array
  /\ \E m \in 0..n - 1 :
       /\ Live(u.node, m, k) /\ u.node[m].val = Nil
       /\ \A p \in 0..n - 1 : p # m => \E q \in 0..n - 1 : SameEntry(u.node[p], t.node[q])
       /\ \A q \in 0..n - 1 : t.node[q].val # Nil =>
            \E p \in 0..n - 1 : p # m /\ SameEntry(u.node[p], t.node[q])
  /\ \A p \in 0..n - 1 : u.node[p].key = Nil => p < u.lastfree

(* A table with one node more is the same map, with room for the key. *)
LEMMA AddsExtends ==
  ASSUME NEW h, NEW n, NEW t, Good(h, n, t), NEW k \in Key, k \notin DOMAIN t.array,
         NEW u, u \in Tables(n), NodesOK(h, n, u.node), Adds(n, t, u, k)
  PROVE  Extends(h, n, t, u, k)
<1>1. PICK m \in 0..n - 1 :
       /\ Live(u.node, m, k) /\ u.node[m].val = Nil
       /\ \A p \in 0..n - 1 : p # m => \E q \in 0..n - 1 : SameEntry(u.node[p], t.node[q])
       /\ \A q \in 0..n - 1 : t.node[q].val # Nil =>
            \E p \in 0..n - 1 : p # m /\ SameEntry(u.node[p], t.node[q])
  BY DEF Adds
<1>2. h \in Hashes /\ n \in Nat
  BY DEF Good
<1>3. u.node[m].key = k /\ ~u.node[m].dead
  BY <1>1 DEF Live
<1>4. u.array = t.array
  BY DEF Adds
<1>5. \A p \in 0..n - 1 : u.node[p].key = k \/ \E q \in 0..n - 1 : t.node[q].key = u.node[p].key
  BY <1>1, <1>3 DEF SameEntry
<1>6. \A p \in 0..n - 1 : u.node[p].dead => \E q \in 0..n - 1 : t.node[q].dead
  BY <1>1, <1>3 DEF SameEntry
<1>7. \A p \in 0..n - 1 : t.node[p].key \notin DOMAIN t.array
  BY DEF Good
<1>8. Good(h, n, u)
  <2>1. \A p \in 0..n - 1 : u.node[p].key \notin DOMAIN u.array
    BY <1>4, <1>5, <1>7
  <2>2. \A p \in 0..n - 1 : u.node[p].key = Nil => p < u.lastfree
    BY DEF Adds
  <2>3. \A i \in DOMAIN u.array : u.array[i] # Nil => i \in Key
    BY <1>4 DEF Good
  <2> QED
    BY <1>2, <2>1, <2>2, <2>3 DEF Good
<1>9. ASSUME NEW j \in Key \ {k}, NEW v \in Value, Entry(n, u.node, j, v)
      PROVE  Entry(n, t.node, j, v)
  <2>1. PICK p \in 0..n - 1 : Live(u.node, p, j) /\ u.node[p].val = v
    BY <1>9 DEF Entry
  <2>2. p # m
    BY <1>3, <2>1 DEF Live
  <2>3. PICK q \in 0..n - 1 : SameEntry(u.node[p], t.node[q])
    BY <1>1, <2>2
  <2>4. Live(t.node, q, j) /\ t.node[q].val = v
    BY <2>1, <2>3 DEF Live, SameEntry
  <2> QED
    BY <2>4 DEF Entry
<1>10. ASSUME NEW j \in Key \ {k}, NEW v \in Value, Entry(n, t.node, j, v)
      PROVE  Entry(n, u.node, j, v)
  <2>1. PICK q \in 0..n - 1 : Live(t.node, q, j) /\ t.node[q].val = v
    BY <1>10 DEF Entry
  <2>2. v # Nil
    BY LuaTableAssumption
  <2>3. PICK p \in 0..n - 1 : SameEntry(u.node[p], t.node[q])
    BY <1>1, <2>1, <2>2
  <2>4. Live(u.node, p, j) /\ u.node[p].val = v
    BY <2>1, <2>3 DEF Live, SameEntry
  <2> QED
    BY <2>4 DEF Entry
<1> QED
  BY <1>1, <1>4, <1>5, <1>6, <1>8, <1>9, <1>10 DEF Extends

(* The conditions under which newkey looks for a free node. *)
Collides(h, n, t, k, m, f) ==
  /\ n > 0 /\ Good(h, n, t) /\ k \in Key /\ k \notin DOMAIN t.array
  /\ \A p \in 0..n - 1 : ~Live(t.node, p, k)
  /\ m = Main(h, n, k) /\ t.node[m].val # Nil
  /\ f \in 0..n - 1 /\ t.node[f].key = Nil /\ \A p \in 0..n - 1 : t.node[p].key = Nil => p <= f

(* What holds where newkey meets a colliding node: it is alive and of        *)
(* another key.                                                              *)
LEMMA CollidesFacts ==
  ASSUME NEW h, NEW n, NEW t, NEW k, NEW m, NEW f, Collides(h, n, t, k, m, f)
  PROVE  /\ h \in Hashes /\ n \in Nat /\ t \in Tables(n) /\ NodesOK(h, n, t.node)
         /\ t.node \in [0..n - 1 -> Node] /\ m \in 0..n - 1 /\ k # Nil /\ f # m /\ f \in Nat
         /\ t.node[m].key \in Key /\ t.node[m].next \in Nat \cup {Nil} /\ ~t.node[m].dead
         /\ t.node[f].val = Nil
<1>1. h \in Hashes /\ n \in Nat /\ t \in Tables(n) /\ NodesOK(h, n, t.node)
      /\ t.node \in [0..n - 1 -> Node]
  BY DEF Good, NodesOK, Collides
<1>2. m \in 0..n - 1 /\ k # Nil
  <2>1. m \in 0..n - 1
    BY <1>1, MainRange DEF Collides
  <2>2. k # Nil
    BY LuaTableAssumption DEF Key, Collides
  <2> QED
    BY <2>1, <2>2
<1>3. t.node[m].key # Nil /\ ~t.node[m].dead
  BY <1>1, <1>2 DEF NodesOK, Unique, Collides
<1>4. t.node[f].val = Nil
  BY <1>1 DEF NodesOK, Unique, Collides
<1> QED
  BY <1>1, <1>2, <1>3, <1>4 DEF Collides, Node

(* newkey where the colliding node is in its main position. *)
LEMMA ChainedExtends ==
  ASSUME NEW h, NEW n, NEW t, NEW k, NEW m, NEW f, Collides(h, n, t, k, m, f),
         Main(h, n, t.node[m].key) = m, NEW u, u = Chained(t, k, m, f)
  PROVE  Extends(h, n, t, u, k)
<1> DEFINE nd == t.node
           w == [nd EXCEPT ![f] = Empty(k, nd[m].next), ![m].next = f]
<1>1. h \in Hashes /\ n \in Nat /\ t \in Tables(n) /\ NodesOK(h, n, nd)
      /\ nd \in [0..n - 1 -> Node] /\ m \in 0..n - 1 /\ k # Nil /\ f # m /\ f \in Nat
      /\ nd[m].key \in Key /\ nd[m].next \in Nat \cup {Nil} /\ nd[f].val = Nil
  BY CollidesFacts
<1>2. u.node = w /\ u.array = t.array /\ u.lastfree = f
  BY <1>1 DEF Tables, Chained
<1>3. n > 0 /\ k \in Key /\ f \in 0..n - 1 /\ nd[f].key = Nil
  BY DEF Collides
<1>4. NodesOK(h, n, w)
  BY <1>1, <1>3, ChainOK DEF Collides
<1>5. u \in Tables(n)
  BY <1>1, <1>2, <1>4 DEF Tables, NodesOK, Chained
<1>6. /\ w[f] = Empty(k, nd[m].next) /\ w[m] = [nd[m] EXCEPT !.next = f]
      /\ \A p \in 0..n - 1 : p # m /\ p # f => w[p] = nd[p]
  BY <1>1, <1>3
<1> HIDE DEF w
<1>7. w[f].key = k /\ w[f].val = Nil /\ ~w[f].dead
  BY <1>1, <1>3, <1>6, EmptyNode
<1>8. SameEntry(w[m], nd[m])
  BY <1>1, <1>6 DEF Node, SameEntry
<1>9. \A p \in 0..n - 1 : p # f => SameEntry(w[p], nd[p])
  BY <1>6, <1>8 DEF SameEntry
<1>10. \A p \in 0..n - 1 : w[p].key = Nil => p < f
  <2> SUFFICES ASSUME NEW p \in 0..n - 1, w[p].key = Nil PROVE p < f
    OBVIOUS
  <2>1. p # f
    BY <1>1, <1>7
  <2>2. nd[p].key = Nil
    BY <1>9, <2>1 DEF SameEntry
  <2>3. p <= f
    BY <2>2 DEF Collides
  <2> QED
    BY <1>1, <2>1, <2>3
<1>11. \A q \in 0..n - 1 : nd[q].val # Nil => q # f
  BY <1>1
<1> HIDE DEF nd
<1>12. Adds(n, t, u, k)
  <2>1. Live(w, f, k)
    BY <1>7 DEF Live
  <2> QED
    BY <1>2, <1>3, <1>7, <1>9, <1>10, <1>11, <2>1 DEF Adds, nd
<1> QED
  BY <1>2, <1>3, <1>4, <1>5, <1>12, AddsExtends DEF Collides

(* newkey where the colliding node makes way. *)
LEMMA MovedExtends ==
  ASSUME NEW n, NEW t, NEW k, NEW m, NEW f, Collides(hash, n, t, k, m, f),
         Main(hash, n, t.node[m].key) # m, NEW u, u = Moved(t, k, m, f)
  PROVE  Extends(hash, n, t, u, k)
<1> DEFINE nd == t.node
           c == Main(hash, n, nd[m].key)
           S == {p \in DOMAIN t.node : t.node[p].next = m}
           r == First(t, t.node[m].key, S)
           w == [nd EXCEPT ![r].next = f, ![f] = nd[m], ![m] = Empty(k, Nil)]
<1>1. hash \in Hashes /\ n \in Nat /\ t \in Tables(n) /\ NodesOK(hash, n, nd)
      /\ nd \in [0..n - 1 -> Node] /\ m \in 0..n - 1 /\ k # Nil /\ f # m /\ f \in Nat
      /\ nd[m].key \in Key /\ nd[m].next \in Nat \cup {Nil} /\ nd[f].val = Nil /\ ~nd[m].dead
  BY CollidesFacts
<1>2. n > 0 /\ k \in Key /\ k \in Key \cup {Nil} /\ f \in 0..n - 1 /\ nd[f].key = Nil
  BY DEF Collides
<1>3. r \in 0..n - 1 /\ nd[r].next = m
  <2>1. PICK path, pos : Paths(n, nd, path, pos) /\ Homed(hash, n, nd, path, pos)
    BY <1>1 DEF NodesOK
  <2>2. c \in 0..n - 1 /\ Meets(n, path, pos, S, c, r)
    <3>1. \A X : Main(hash, n, nd[m].key) \in 0..n - 1
                 /\ Meets(n, path, pos, X, Main(hash, n, nd[m].key), First(t, nd[m].key, X))
      BY <1>1, <1>2, <2>1, FirstMeets
    <3> QED
      BY <3>1
  <2>3. nd[m].key # Nil
    BY <1>1, LuaTableAssumption DEF Key
  <2>4. path[c] = path[m] /\ pos[m] <= pos[c]
    BY <1>1, <2>1, <2>3 DEF Homed
  <2>5. pos[m] < pos[c]
    <3>1. c # m
      OBVIOUS
    <3> HIDE DEF c
    <3>2. pos[m] # pos[c]
      BY <1>1, <2>1, <2>2, <2>4, <3>1 DEF Paths, OneEach
    <3>3. pos[m] \in Nat /\ pos[c] \in Nat
      BY <1>1, <2>1, <2>2 DEF Paths
    <3> QED
      BY <2>4, <3>2, <3>3
  <2>6. PICK q \in 0..n - 1 : nd[q].next = m /\ path[q] = path[m] /\ pos[q] <= pos[c]
    <3> HIDE DEF c, nd
    <3>1. \E q \in 0..n - 1 :
            nd[q].next = m /\ path[q] = path[m] /\ pos[m] < pos[q] /\ pos[q] <= pos[c]
      BY <1>1, <2>1, <2>2, <2>4, <2>5, Predecessor
    <3> QED
      BY <3>1
  <2>7. S \subseteq 0..n - 1 /\ \A p \in 0..n - 1 : p \in S <=> nd[p].next = m
    BY <1>1, SizeOf
  <2> HIDE DEF S, c, r
  <2>8. q \in Ahead(n, path, pos, S, c)
    BY <2>4, <2>6, <2>7 DEF Ahead
  <2>9. r \in S
    BY <2>2, <2>8 DEF Meets, Ahead
  <2> QED
    BY <2>7, <2>9
<1>4. u.node = w /\ u.array = t.array /\ u.lastfree = f
  <2>1. u = [t EXCEPT !.lastfree = f, !.node = [@ EXCEPT ![r].next = f, ![f] = t.node[m], ![m] = Empty(k, Nil)]]
    BY DEF Moved
  <2> HIDE DEF r
  <2> QED
    BY <1>1, <2>1 DEF Tables
<1> HIDE DEF r
<1>5. NodesOK(hash, n, w)
  BY <1>1, <1>2, <1>3, MoveOK DEF Collides
<1>6. u \in Tables(n)
  <2>1. w \in [0..n - 1 -> Node]
    BY <1>5 DEF NodesOK
  <2>2. \E x : u = [t EXCEPT !.lastfree = f, !.node = x]
    BY DEF Moved
  <2> HIDE DEF w
  <2> QED
    BY <1>1, <1>4, <2>1, <2>2 DEF Tables
<1>7. r # m /\ r # f
  <2>1. PICK path, pos : Paths(n, nd, path, pos)
    BY <1>1 DEF NodesOK
  <2>2. \A p \in 0..n - 1 : path[p] \in 0..n - 1 /\ pos[p] \in Nat
    BY <2>1 DEF Paths
  <2>3. m # Nil
    BY <1>1, LuaTableAssumption
  <2>4. path[m] = path[r] /\ pos[m] = pos[r] - 1
    BY <1>3, <2>1, <2>3 DEF Paths, Linked
  <2>5. r # m
    BY <1>1, <2>2, <2>4
  <2>6. r # f
    BY <1>1, <1>2, <2>1, <2>4 DEF Paths, FreeAlone
  <2> QED
    BY <2>5, <2>6
<1>8. /\ w[f] = nd[m] /\ w[m] = Empty(k, Nil) /\ w[r] = [nd[r] EXCEPT !.next = f]
      /\ \A p \in 0..n - 1 : p # m /\ p # f /\ p # r => w[p] = nd[p]
  BY <1>1, <1>2, <1>3, <1>7
<1> HIDE DEF w
<1>9. w[m].key = k /\ w[m].val = Nil /\ ~w[m].dead
  <2>1. Empty(k, Nil).key = k /\ Empty(k, Nil).val = Nil /\ ~Empty(k, Nil).dead
    BY <1>2, EmptyNode
  <2> QED
    BY <1>8, <2>1
<1>10. SameEntry(w[r], nd[r])
  BY <1>1, <1>3, <1>8 DEF Node, SameEntry
<1>11. \A p \in 0..n - 1 : p # f /\ p # m => SameEntry(w[p], nd[p])
  BY <1>8, <1>10 DEF SameEntry
<1>12. SameEntry(w[f], nd[m])
  BY <1>8 DEF SameEntry
<1>13. \A p \in 0..n - 1 : w[p].key = Nil => p < f
  <2> SUFFICES ASSUME NEW p \in 0..n - 1, w[p].key = Nil PROVE p < f
    OBVIOUS
  <2>1. p # m
    BY <1>1, <1>9
  <2>2. p # f
    BY <1>1, <1>12, LuaTableAssumption DEF SameEntry, Key
  <2>3. nd[p].key = Nil
    BY <1>11, <2>1, <2>2 DEF SameEntry
  <2>4. p <= f
    BY <2>3 DEF Collides
  <2> QED
    BY <1>1, <2>2, <2>4
<1>14. \A q \in 0..n - 1 : nd[q].val # Nil => q # f
  BY <1>1
<1> HIDE DEF nd
<1>15. \A p \in 0..n - 1 : p # m => \E q \in 0..n - 1 : SameEntry(w[p], nd[q])
  BY <1>1, <1>11, <1>12
<1>16. \A q \in 0..n - 1 : nd[q].val # Nil => \E p \in 0..n - 1 : p # m /\ SameEntry(w[p], nd[q])
  BY <1>1, <1>2, <1>11, <1>12, <1>14
<1>17. Adds(n, t, u, k)
  <2>1. Live(w, m, k)
    BY <1>9 DEF Live
  <2> QED
    BY <1>1, <1>4, <1>9, <1>13, <1>15, <1>16, <2>1 DEF Adds, nd
<1> QED
  BY <1>2, <1>4, <1>5, <1>6, <1>17, AddsExtends DEF Collides

-----------------------------------------------------------------------------
(* Assignments. *)

(* newkey, whichever of its three ways it goes. *)
LEMMA PlacedExtends ==
  ASSUME NEW n, NEW t, Good(hash, n, t), NEW k \in Key, k \notin DOMAIN t.array,
         \A p \in 0..n - 1 : ~Live(t.node, p, k), ~Full(t, k)
  PROVE  Extends(hash, n, t, Placed(t, k), k)
<1> DEFINE m == Main(hash, n, k)
<1>1. hash \in Hashes /\ n \in Nat /\ t \in Tables(n)
  BY DEF Good
<1>2. /\ DOMAIN t.node = 0..n - 1 /\ sizenode(t) = n
      /\ \A j : mainposition(t, j) = Main(hash, n, j)
  BY <1>1, SizeOf
<1>3. n > 0
  <2>1. CASE n = 0
    <3>1. Occupied(t, k) /\ FreeNodes(t) = {}
      BY <1>2, <2>1 DEF Occupied, FreeNodes
    <3> QED
      BY <3>1 DEF Full
  <2> QED
    BY <1>1, <2>1
<1>4. m \in 0..n - 1
  BY <1>1, <1>3, MainRange
<1>5. Occupied(t, k) <=> t.node[m].val # Nil
  BY <1>2, <1>3 DEF Occupied
<1>6. CASE ~Occupied(t, k)
  <2>1. Placed(t, k) = [t EXCEPT !.node[m] = Empty(k, @.next)]
    BY <1>2, <1>6 DEF Placed
  <2>2. t.node[m].val = Nil
    BY <1>5, <1>6
  <2> QED
    BY <1>3, <2>1, <2>2, FilledExtends
<1>7. CASE Occupied(t, k)
  <2>1. FreeNodes(t) # {}
    BY <1>7 DEF Full
  <2>2. PICK f : f = Max(FreeNodes(t))
    OBVIOUS
  <2>3. /\ f \in 0..n - 1 /\ t.node[f].key = Nil
        /\ \A p \in 0..n - 1 : t.node[p].key = Nil => p <= f
    BY <2>1, <2>2, FreeMax
  <2>4. Collides(hash, n, t, k, m, f)
    BY <1>3, <1>5, <1>7, <2>3 DEF Collides
  <2>5. Placed(t, k) = IF Main(hash, n, t.node[m].key) # m THEN Moved(t, k, m, f) ELSE Chained(t, k, m, f)
    BY <1>2, <1>7, <2>2 DEF Placed
  <2> HIDE DEF m
  <2> QED
    BY <2>4, <2>5, ChainedExtends, MovedExtends
<1> QED
  BY <1>6, <1>7

(* u is t with the value v for the key k. *)
Writes(h, n, t, u, k, v) ==
  /\ Good(h, n, u) /\ Len(u.array) = Len(t.array)
  /\ Val(u, k) = v /\ \A j \in Key \ {k} : Val(u, j) = Val(t, j)
  /\ \A p \in 0..n - 1 :
       u.node[p].key = k \/ \E q \in 0..n - 1 : t.node[q].key = u.node[p].key
  /\ \A p \in 0..n - 1 : u.node[p].dead => \E q \in 0..n - 1 : t.node[q].dead

(* Nodes of which only values differ, and keys that have died. *)
Revalued(n, nd, w) ==
  /\ w \in [0..n - 1 -> Node]
  /\ \A p \in 0..n - 1 : /\ w[p].key = nd[p].key /\ w[p].next = nd[p].next
                         /\ nd[p].dead => w[p].dead
                         /\ w[p].val # Nil => nd[p].key # Nil /\ ~w[p].dead

(* Chains do not depend on the values of live nodes, nor on which keys of    *)
(* empty nodes are dead.                                                     *)
LEMMA RevaluedOK ==
  ASSUME NEW h \in Hashes, NEW n \in Nat, NEW nd, NodesOK(h, n, nd), NEW w, Revalued(n, nd, w)
  PROVE  NodesOK(h, n, w)
<1>1. PICK path, pos : Paths(n, nd, path, pos) /\ Homed(h, n, nd, path, pos) /\ Freshest(n, nd, pos)
  BY DEF NodesOK
<1>2. \A p \in 0..n - 1 : w[p].key = nd[p].key /\ (nd[p].dead => w[p].dead) /\ w[p].next = nd[p].next
  BY DEF Revalued
<1>3. Linked(n, w, path, pos)
  BY <1>1, <1>2 DEF Paths, Linked
<1>4. FreeAlone(n, w, path)
  BY <1>1, <1>2 DEF Paths, FreeAlone
<1>5. Paths(n, w, path, pos)
  BY <1>1, <1>3, <1>4 DEF Paths
<1>6. Homed(h, n, w, path, pos)
  <2>1. \A p \in 0..n - 1 : nd[p].key # Nil => Main(h, n, nd[p].key) \in 0..n - 1
    <3> SUFFICES ASSUME NEW p \in 0..n - 1, nd[p].key # Nil PROVE Main(h, n, nd[p].key) \in 0..n - 1
      OBVIOUS
    <3>1. nd[p].key \in Key /\ n > 0
      BY DEF NodesOK, Node
    <3> QED
      BY <3>1, MainRange
  <2> QED
    BY <1>1, <1>2, <2>1 DEF Homed
<1>7. Unique(n, w)
  BY <1>2 DEF NodesOK, Unique, Live, Revalued
<1>8. Freshest(n, w, pos)
  BY <1>1, <1>2 DEF Freshest, Live
<1> QED
  BY <1>1, <1>5, <1>6, <1>7, <1>8 DEF NodesOK, Revalued

(* A value written in the array part. *)
LEMMA StoredArray ==
  ASSUME NEW n, NEW t, Good(hash, n, t), NEW k \in Key, k \in DOMAIN t.array, NEW v \in Value \cup {Nil}
  PROVE  Writes(hash, n, t, Stored(t, k, v), k, v)
<1> DEFINE u == Stored(t, k, v)
<1>1. hash \in Hashes /\ n \in Nat /\ t \in Tables(n) /\ NodesOK(hash, n, t.node)
      /\ t.array \in Seq(Value \cup {Nil})
  BY DEF Good, Tables
<1>2. u = [t EXCEPT !.array[k] = v]
  BY DEF Stored, InArray
<1>3. u.node = t.node /\ u.array = [t.array EXCEPT ![k] = v] /\ u.lastfree = t.lastfree
  BY <1>1, <1>2 DEF Tables
<1>4. [t.array EXCEPT ![k] = v] \in Seq(Value \cup {Nil})
      /\ Len([t.array EXCEPT ![k] = v]) = Len(t.array)
  BY <1>1
<1>5. u \in Tables(n) /\ DOMAIN u.array = DOMAIN t.array
  BY <1>1, <1>2, <1>3, <1>4 DEF Tables
<1>6. u.array[k] = v /\ \A i \in DOMAIN t.array : i # k => u.array[i] = t.array[i]
  BY <1>1, <1>3
<1> HIDE DEF u
<1>7. Good(hash, n, u)
  <2>1. \A i \in DOMAIN u.array : u.array[i] # Nil => i \in Key
    BY <1>5, <1>6 DEF Good
  <2> QED
    BY <1>1, <1>3, <1>5, <2>1 DEF Good
<1>8. Val(u, k) = v
  BY <1>5, <1>6 DEF Val
<1>9. \A j \in Key \ {k} : Val(u, j) = Val(t, j)
  BY <1>3, <1>5, <1>6 DEF Val, LiveNodes
<1> QED
  BY <1>3, <1>4, <1>7, <1>8, <1>9 DEF Writes, u

(* A value written at the node of its key. *)
LEMMA WrittenAt ==
  ASSUME NEW n, NEW t, Good(hash, n, t), NEW k \in Key, k \notin DOMAIN t.array,
         NEW v \in Value \cup {Nil}, \E p \in 0..n - 1 : Live(t.node, p, k)
  PROVE  Writes(hash, n, t, [t EXCEPT !.node[NodeOf(t, k)].val = v], k, v)
<1>0. PICK u : u = [t EXCEPT !.node[NodeOf(t, k)].val = v]
  OBVIOUS
<1> DEFINE nd == t.node
<1>1. hash \in Hashes /\ n \in Nat /\ t \in Tables(n) /\ NodesOK(hash, n, nd)
      /\ nd \in [0..n - 1 -> Node] /\ k # Nil
  BY LuaTableAssumption DEF Good, NodesOK, Key
<1>2. PICK m \in 0..n - 1 : m = NodeOf(t, k) /\ Live(nd, m, k)
  BY NodeOfIs
<1>3. u = [t EXCEPT !.node[m].val = v]
  BY <1>0, <1>2
<1>4. u.array = t.array /\ u.lastfree = t.lastfree /\ u.node = [nd EXCEPT ![m].val = v]
  BY <1>1, <1>3 DEF Tables
<1>5. [nd[m] EXCEPT !.val = v] \in Node
  BY <1>1 DEF Node
<1>6. /\ u.node \in [0..n - 1 -> Node] /\ u.node[m] = [nd[m] EXCEPT !.val = v]
      /\ \A p \in 0..n - 1 : p # m => u.node[p] = nd[p]
  BY <1>1, <1>4, <1>5
<1>7. u.node[m].val = v /\ u.node[m].key = nd[m].key /\ u.node[m].dead = nd[m].dead
      /\ u.node[m].next = nd[m].next
  BY <1>1, <1>6 DEF Node
<1>8. u \in Tables(n)
  BY <1>1, <1>3, <1>4, <1>6 DEF Tables
<1>9. Revalued(n, nd, u.node)
  <2>1. nd[m].key # Nil /\ ~nd[m].dead
    BY <1>1, <1>2 DEF Live
  <2>2. \A p \in 0..n - 1 : nd[p].val # Nil => nd[p].key # Nil /\ ~nd[p].dead
    BY <1>1 DEF NodesOK, Unique
  <2> HIDE DEF nd
  <2> QED
    BY <1>6, <1>7, <2>1, <2>2 DEF Revalued
<1>10. NodesOK(hash, n, u.node)
  BY <1>1, <1>9, RevaluedOK
<1>11. \A p \in 0..n - 1 : u.node[p].key = nd[p].key /\ u.node[p].dead = nd[p].dead
  BY <1>6, <1>7
<1>12. Good(hash, n, u)
  <2>1. \A p \in 0..n - 1 : /\ nd[p].key = Nil => p < t.lastfree
                            /\ nd[p].key \notin DOMAIN t.array
    BY DEF Good
  <2>2. \A i \in DOMAIN t.array : t.array[i] # Nil => i \in Key
    BY DEF Good
  <2> QED
    BY <1>1, <1>4, <1>8, <1>10, <1>11, <2>1, <2>2 DEF Good
<1>13. Val(u, k) = v
  <2>1. Live(u.node, m, k)
    BY <1>2, <1>7 DEF Live
  <2>2. k \notin DOMAIN u.array
    BY <1>4
  <2>3. Val(u, k) = u.node[m].val
    <3> HIDE DEF nd
    <3> QED
      BY <1>12, <2>1, <2>2, ValIs
  <2> QED
    BY <1>7, <2>3
<1>14. ASSUME NEW j \in Key \ {k} PROVE Val(u, j) = Val(t, j)
  <2>1. nd[m].key = k
    BY <1>2 DEF Live
  <2>2. \A x \in Value : Entry(n, u.node, j, x) <=> Entry(n, nd, j, x)
    BY <1>6, <1>7, <2>1 DEF Entry, Live
  <2> QED
    BY <1>4, <1>12, <2>2, SameVal
<1> QED
  BY <1>0, <1>4, <1>11, <1>12, <1>13, <1>14 DEF Writes

(* An assignment where no rehash is needed. *)
LEMMA StoredWrites ==
  ASSUME NEW n, NEW t, Good(hash, n, t), NEW k \in Key, NEW v \in Value \cup {Nil},
         InArray(t, k) \/ NodeOf(t, k) # Nil \/ ~Full(t, k)
  PROVE  Writes(hash, n, t, Stored(t, k, v), k, v)
<1>0. Nil \notin 0..n - 1
  BY LuaTableAssumption DEF Good
<1>1. CASE k \in DOMAIN t.array
  BY <1>1, StoredArray
<1>2. CASE k \notin DOMAIN t.array /\ NodeOf(t, k) # Nil
  <2>1. \E p \in 0..n - 1 : Live(t.node, p, k)
    BY <1>2, NodeOfIs
  <2>2. Stored(t, k, v) = [t EXCEPT !.node[NodeOf(t, k)].val = v]
    BY <1>2 DEF Stored, InArray
  <2> QED
    BY <1>2, <2>1, <2>2, WrittenAt
<1>3. CASE k \notin DOMAIN t.array /\ NodeOf(t, k) = Nil
  <2>1. \A p \in 0..n - 1 : ~Live(t.node, p, k)
    BY <1>0, <1>3, NodeOfIs
  <2>2. PICK w : w = Placed(t, k)
    OBVIOUS
  <2>3. Extends(hash, n, t, w, k)
    BY <1>3, <2>1, <2>2, PlacedExtends DEF InArray
  <2>4. Stored(t, k, v) = [w EXCEPT !.node[NodeOf(w, k)].val = v]
    BY <1>3, <2>2 DEF Stored, InArray
  <2>5. PICK u : u = Stored(t, k, v)
    OBVIOUS
  <2>6. Good(hash, n, w) /\ w.array = t.array /\ \E p \in 0..n - 1 : Live(w.node, p, k)
    BY <2>3 DEF Extends
  <2>7. Writes(hash, n, w, u, k, v)
    BY <1>3, <2>4, <2>5, <2>6, WrittenAt
  <2>8. \A j \in Key \ {k} : Val(w, j) = Val(t, j)
    BY <2>3, SameVal DEF Extends
  <2>9. \A p \in 0..n - 1 :
       u.node[p].key = k \/ \E q \in 0..n - 1 : t.node[q].key = u.node[p].key
    BY <2>3, <2>7 DEF Extends, Writes
  <2>10. \A p \in 0..n - 1 : u.node[p].dead => \E q \in 0..n - 1 : t.node[q].dead
    BY <2>3, <2>7 DEF Extends, Writes
  <2> QED
    BY <2>5, <2>6, <2>7, <2>8, <2>9, <2>10 DEF Writes
<1> QED
  BY <1>1, <1>2, <1>3

-----------------------------------------------------------------------------
(* resize. *)

(* The free node newkey needs is there, if the keys are fewer than the nodes. *)
LEMMA Room ==
  ASSUME NEW h, NEW n, NEW t, Good(h, n, t), \A p \in 0..n - 1 : ~t.node[p].dead,
         NEW F, IsFiniteSet(F), Cardinality(F) <= n, NEW k \in F,
         \A p \in 0..n - 1 : t.node[p].key \in (F \ {k}) \cup {Nil}
  PROVE  FreeNodes(t) # {}
<1>1. n \in Nat /\ t \in Tables(n) /\ Unique(n, t.node)
  BY DEF Good, NodesOK
<1>2. DOMAIN t.node = 0..n - 1
  BY <1>1, SizeOf
<1>3. SUFFICES ASSUME \A p \in 0..n - 1 : t.node[p].key # Nil PROVE FALSE
  BY <1>1, <1>2 DEF FreeNodes, Good
<1> DEFINE f == [p \in 0..n - 1 |-> t.node[p].key]
<1>4. IsFiniteSet(F \ {k}) /\ Cardinality(F \ {k}) = Cardinality(F) - 1
  BY FS_RemoveElement
<1>5. Cardinality(F) \in Nat
  BY FS_CardinalityType
<1>6. IsFiniteSet(0..n - 1) /\ Cardinality(0..n - 1) = n
  <2>1. n - 1 \in Int /\ 0 \in Int
    BY <1>1
  <2>2. IsFiniteSet(0..n - 1) /\ Cardinality(0..n - 1) = IF 0 > n - 1 THEN 0 ELSE (n - 1) - 0 + 1
    BY <2>1, FS_Interval
  <2> QED
    BY <1>1, <2>2
<1>7. Cardinality(F \ {k}) < Cardinality(0..n - 1)
  BY <1>1, <1>4, <1>5, <1>6
<1>8. f \in [0..n - 1 -> F \ {k}]
  BY <1>3
<1>9. PICK p, q \in 0..n - 1 : p # q /\ f[p] = f[q]
  <2>1. PICK S, T : S = 0..n - 1 /\ T = F \ {k}
    OBVIOUS
  <2> HIDE DEF f
  <2>2. IsFiniteSet(S) /\ IsFiniteSet(T) /\ Cardinality(T) < Cardinality(S) /\ f \in [S -> T]
    BY <1>4, <1>6, <1>7, <1>8, <2>1
  <2>3. \E x, y \in S : x # y /\ f[x] = f[y]
    BY <2>2, FS_PigeonHole
  <2> QED
    BY <2>1, <2>3
<1> QED
  BY <1>1, <1>3, <1>9 DEF Unique, Live

(* What resize inserts again, in order, is what the table has beyond the new *)
(* array part.                                                               *)
OldEntry == [key : Nat \cup Key \cup {Nil}, val : Value \cup {Nil}]
Remains(t, nasize, old) ==
  /\ old \in Seq(OldEntry)
  /\ \A i \in 1..Len(old) : old[i].val # Nil =>
       old[i].key \in Key /\ old[i].val = Val(t, old[i].key)
  /\ \A j \in Key : Val(t, j) # Nil =>
       \/ j \in 1..nasize /\ j \in DOMAIN t.array
       \/ \E i \in 1..Len(old) : old[i].val # Nil /\ old[i].key = j
(* The entries resize reads: no key twice, the keys beyond the new array     *)
(* part, with their values.                                                  *)
LEMMA OldEntries ==
  ASSUME NEW h, NEW n, NEW t, Good(h, n, t), NEW nasize \in Nat
  PROVE  Remains(t, nasize, Vanishing(t, nasize) \o Entries(t))
<1> DEFINE a == Vanishing(t, nasize)
           b == Entries(t)
           la == IF Len(t.array) > nasize THEN Len(t.array) - nasize ELSE 0
<1>1. /\ n \in Nat /\ t \in Tables(n) /\ Unique(n, t.node)
      /\ t.array \in Seq(Value \cup {Nil}) /\ t.node \in [0..n - 1 -> Node]
  BY DEF Good, NodesOK, Tables
<1>2. la \in Nat /\ 1..Len(t.array) - nasize = 1..la
  BY <1>1
<1>3. /\ a \in Seq(OldEntry) /\ Len(a) = la
      /\ \A i \in 1..la : a[i].key = nasize + i /\ a[i].val = t.array[nasize + i]
  <2>1. a = [i \in 1..la |-> [key |-> nasize + i, val |-> t.array[nasize + i]]]
    <3>1. CASE nasize >= Len(t.array)
      <4>1. a = <<>> /\ 1..la = {}
        BY <1>1, <3>1 DEF Vanishing
      <4>2. <<>> = [i \in {} |-> [key |-> nasize + i, val |-> t.array[nasize + i]]]
        OBVIOUS
      <4> QED
        BY <4>1, <4>2
    <3>2. CASE ~(nasize >= Len(t.array))
      <4>1. a = [i \in 1..Len(t.array) - nasize |-> [key |-> nasize + i, val |-> t.array[nasize + i]]]
        BY <3>2 DEF Vanishing
      <4> HIDE DEF a, la
      <4> QED
        BY <1>2, <4>1
    <3> QED
      BY <3>1, <3>2
  <2>2. \A i \in 1..la : [key |-> nasize + i, val |-> t.array[nasize + i]] \in OldEntry
    BY <1>1 DEF OldEntry
  <2> HIDE DEF la, a
  <2>3. a \in [1..la -> OldEntry]
    BY <2>1, <2>2
  <2>4. a \in Seq(OldEntry) /\ Len(a) = la
    BY <1>2, <2>3
  <2> QED
    BY <2>1, <2>4
<1>4. /\ b \in Seq(OldEntry) /\ Len(b) = n
      /\ \A i \in 1..n : b[i].key = t.node[n - i].key /\ b[i].val = t.node[n - i].val
  <2>1. b = [i \in 1..n |-> [key |-> t.node[n - i].key, val |-> t.node[n - i].val]]
    BY <1>1, SizeOf DEF Entries
  <2>2. \A i \in 1..n : [key |-> t.node[n - i].key, val |-> t.node[n - i].val] \in OldEntry
    BY <1>1 DEF OldEntry, Node
  <2> HIDE DEF b
  <2>3. b \in [1..n -> OldEntry]
    BY <2>1, <2>2
  <2>4. b \in Seq(OldEntry) /\ Len(b) = n
    BY <1>1, <2>3
  <2> QED
    BY <2>1, <2>4
<1> HIDE DEF a, b, la
<1>5. PICK old : old = a \o b
  OBVIOUS
<1>6. /\ old \in Seq(OldEntry) /\ Len(old) = la + n
      /\ \A i \in 1..la : old[i] = a[i]
      /\ \A i \in 1..n : old[la + i] = b[i]
  <2>1. old \in Seq(OldEntry) /\ Len(old) = Len(a) + Len(b)
    BY <1>3, <1>4, <1>5, ConcatProperties
  <2>2. \A i \in 1..Len(a) + Len(b) : old[i] = IF i <= Len(a) THEN a[i] ELSE b[i - Len(a)]
    BY <1>3, <1>4, <1>5, ConcatProperties
  <2>3. ASSUME NEW i \in 1..la PROVE old[i] = a[i]
    BY <1>1, <1>2, <1>3, <1>4, <2>2
  <2>4. ASSUME NEW i \in 1..n PROVE old[la + i] = b[i]
    <3>1. la + i \in 1..Len(a) + Len(b) /\ ~(la + i <= Len(a)) /\ (la + i) - Len(a) = i
      BY <1>1, <1>2, <1>3, <1>4
    <3> QED
      BY <2>2, <3>1
  <2> QED
    BY <1>3, <1>4, <2>1, <2>3, <2>4
<1>7. ASSUME NEW i \in 1..Len(old), old[i].val # Nil
      PROVE  old[i].key \in Key /\ old[i].val = Val(t, old[i].key)
  <2>1. CASE i \in 1..la
    <3>1. old[i].key = nasize + i /\ old[i].val = t.array[nasize + i] /\ nasize + i \in DOMAIN t.array
      <4>1. old[i].key = nasize + i /\ old[i].val = t.array[nasize + i]
        BY <1>3, <1>6, <2>1
      <4>2. nasize + i \in 1..Len(t.array)
        BY <1>1, <2>1 DEF la
      <4> QED
        BY <1>1, <4>1, <4>2
    <3>2. nasize + i \in Key
      BY <1>7, <3>1 DEF Good
    <3>3. Val(t, nasize + i) = t.array[nasize + i]
      BY <3>1, <3>2, ValIs
    <3> QED
      BY <3>1, <3>2, <3>3
  <2>2. CASE i \notin 1..la
    <3>1. PICK j \in 1..n : i = la + j
      <4>1. i - la \in 1..n /\ i = la + (i - la)
        BY <1>1, <1>2, <1>6, <2>2
      <4> QED
        BY <4>1
    <3>2. PICK p \in 0..n - 1 : p = n - j
      BY <1>1
    <3>3. old[i].key = t.node[p].key /\ old[i].val = t.node[p].val
      BY <1>4, <1>6, <3>1, <3>2
    <3>4. t.node[p].key # Nil /\ ~t.node[p].dead /\ t.node[p].key \in Key
      BY <1>1, <1>7, <3>3 DEF Unique, Node
    <3>5. t.node[p].key \notin DOMAIN t.array /\ Live(t.node, p, t.node[p].key)
      BY <3>4 DEF Good, Live
    <3>6. Val(t, t.node[p].key) = t.node[p].val
      BY <3>4, <3>5, ValIs
    <3> QED
      BY <3>3, <3>4, <3>6
  <2> QED
    BY <2>1, <2>2
<1>8. ASSUME NEW j \in Key, Val(t, j) # Nil
      PROVE  \/ j \in 1..nasize /\ j \in DOMAIN t.array
             \/ \E i \in 1..Len(old) : old[i].val # Nil /\ old[i].key = j
  <2>1. CASE j \in DOMAIN t.array /\ j \notin 1..nasize
    <3>1. j \in 1..Len(t.array) /\ t.array[j] # Nil
      BY <1>1, <1>8, <2>1, ValIs
    <3>2. PICK i \in 1..la : j = nasize + i
      <4>1. j - nasize \in 1..la /\ j = nasize + (j - nasize)
        BY <1>1, <2>1, <3>1 DEF la
      <4> QED
        BY <4>1
    <3>3. i \in 1..Len(old) /\ old[i].key = j /\ old[i].val = t.array[j]
      BY <1>1, <1>2, <1>3, <1>6, <3>2
    <3> QED
      BY <3>1, <3>3
  <2>2. CASE j \notin DOMAIN t.array
    <3>1. PICK p \in 0..n - 1 : Live(t.node, p, j) /\ t.node[p].val # Nil
      BY <1>8, <2>2, ValIs
    <3>2. PICK i \in 1..n : p = n - i
      <4>1. n - p \in 1..n /\ p = n - (n - p)
        BY <1>1
      <4> QED
        BY <4>1
    <3>3. old[la + i].key = j /\ old[la + i].val = t.node[p].val
      BY <1>4, <1>6, <3>1, <3>2 DEF Live
    <3>4. la + i \in 1..Len(old)
      BY <1>1, <1>2, <1>6
    <3> QED
      BY <3>1, <3>3, <3>4
  <2> QED
    BY <2>1, <2>2
<1> QED
  BY <1>5, <1>6, <1>7, <1>8 DEF Remains, a, b

(* The keys resize has to find a node for. *)
Kept(t, nasize) == {j \in Key : Val(t, j) # Nil /\ j \notin 1..nasize}

(* u is a new table, of m nodes, with some of the entries of t. *)
Reinserted(t, m, nasize, u) ==
  /\ Good(hash, m, u) /\ Len(u.array) = nasize
  /\ \A p \in 0..m - 1 : ~u.node[p].dead /\ u.node[p].key \in Kept(t, nasize) \cup {Nil}
  /\ \A j \in Key : Val(u, j) \in {Nil, Val(t, j)}

(* One entry inserted again: it finds room, and every other key keeps its    *)
(* value.                                                                    *)
LEMMA InsertAgain ==
  ASSUME NEW t, NEW m, NEW nasize \in Nat,
         IsFiniteSet(Kept(t, nasize)), Cardinality(Kept(t, nasize)) <= m,
         NEW u, Reinserted(t, m, nasize, u), NEW k \in Key, Val(t, k) # Nil,
         Val(t, k) \in Value \cup {Nil}, NEW w, w = Stored(u, k, Val(t, k))
  PROVE  /\ Reinserted(t, m, nasize, w) /\ Val(w, k) = Val(t, k)
         /\ \A j \in Key : Val(u, j) = Val(t, j) => Val(w, j) = Val(t, j)
<1>1. Good(hash, m, u) /\ Len(u.array) = nasize /\ k # Nil
  BY LuaTableAssumption DEF Reinserted, Key
<1>2. m \in Nat /\ u \in Tables(m) /\ DOMAIN u.array = 1..nasize
  <2>1. m \in Nat /\ u \in Tables(m)
    BY <1>1 DEF Good
  <2>2. u.array \in Seq(Value \cup {Nil})
    BY <2>1 DEF Tables
  <2> QED
    BY <1>1, <2>1, <2>2
<1>3. \A p \in 0..m - 1 : ~u.node[p].dead /\ u.node[p].key \in Kept(t, nasize) \cup {Nil}
  BY DEF Reinserted
<1>4. InArray(u, k) \/ NodeOf(u, k) # Nil \/ ~Full(u, k)
  <2> SUFFICES ASSUME ~InArray(u, k), NodeOf(u, k) = Nil PROVE ~Full(u, k)
    OBVIOUS
  <2>1. k \in Kept(t, nasize)
    BY <1>2 DEF InArray, Kept
  <2>2. Nil \notin 0..m - 1
    BY LuaTableAssumption, <1>2
  <2>3. \A p \in 0..m - 1 : ~Live(u.node, p, k)
    BY <1>1, <2>2, NodeOfIs
  <2>4. \A p \in 0..m - 1 : u.node[p].key \in (Kept(t, nasize) \ {k}) \cup {Nil}
    BY <1>3, <2>3 DEF Live
  <2>5. \A p \in 0..m - 1 : ~u.node[p].dead
    BY <1>3
  <2>6. FreeNodes(u) # {}
    BY <1>1, <2>1, <2>4, <2>5, Room
  <2> QED
    BY <2>6 DEF Full
<1>5. Writes(hash, m, u, w, k, Val(t, k))
  BY <1>1, <1>4, StoredWrites
<1>6. Good(hash, m, w) /\ Len(w.array) = Len(u.array) /\ Val(w, k) = Val(t, k)
      /\ \A j \in Key \ {k} : Val(w, j) = Val(u, j)
  BY <1>5 DEF Writes
<1>7. \A p \in 0..m - 1 : ~w.node[p].dead
  BY <1>3, <1>5 DEF Writes
<1>8. \A p \in 0..m - 1 : w.node[p].key \in Kept(t, nasize) \cup {Nil}
  <2> SUFFICES ASSUME NEW p \in 0..m - 1 PROVE w.node[p].key \in Kept(t, nasize) \cup {Nil}
    OBVIOUS
  <2>1. CASE w.node[p].key = k
    <3>1. w \in Tables(m) /\ m \in Nat
      BY <1>6 DEF Good
    <3>2. w.array \in Seq(Value \cup {Nil})
      BY <3>1 DEF Tables
    <3>3. DOMAIN w.array = 1..nasize
      BY <1>1, <1>6, <3>2
    <3>4. k \notin 1..nasize
      BY <1>6, <2>1, <3>3 DEF Good
    <3> QED
      BY <2>1, <3>4 DEF Kept
  <2>2. CASE w.node[p].key # k
    <3>1. \E q \in 0..m - 1 : u.node[q].key = w.node[p].key
      BY <1>5, <2>2 DEF Writes
    <3> QED
      BY <1>3, <3>1
  <2> QED
    BY <2>1, <2>2
<1>9. \A j \in Key : Val(w, j) \in {Nil, Val(t, j)}
  BY <1>6 DEF Reinserted
<1> QED
  BY <1>1, <1>6, <1>7, <1>8, <1>9 DEF Reinserted

(* The new parts of a table. *)
Blank(t, nasize, nhsize) ==
  [array |-> setarrayvector(t.array, nasize), node |-> setnodevector(nhsize),
   lastfree |-> Cardinality(DOMAIN setnodevector(nhsize))]

(* The new parts of a table before the first entry is inserted again. *)
LEMMA BlankOK ==
  ASSUME NEW n, NEW t, Good(hash, n, t), NEW nasize \in Nat, NEW nhsize \in Nat,
         NEW u, u = Blank(t, nasize, nhsize)
  PROVE  \E m \in Nat : /\ nhsize <= m /\ Reinserted(t, m, nasize, u)
                        /\ \A j \in Key : j \in 1..nasize /\ j \in DOMAIN t.array => Val(u, j) = Val(t, j)
<1> DEFINE m == IF nhsize = 0 THEN 0 ELSE ceilpow2(nhsize)
<1>1. m \in Nat /\ nhsize <= m
  BY CeilPow2
<1>2. hash \in Hashes /\ t.array \in Seq(Value \cup {Nil})
  BY DEF Good, Tables
<1>3. PICK e : e = Empty(Nil, Nil)
  OBVIOUS
<1>4. e \in Node /\ e.key = Nil /\ e.val = Nil /\ e.next = Nil /\ ~e.dead
  <2>1. Nil \in Key \cup {Nil} /\ Nil \in Nat \cup {Nil}
    OBVIOUS
  <2> QED
    BY <1>3, <2>1, EmptyNode
<1>5. setnodevector(nhsize) = [p \in 0..m - 1 |-> e]
  BY <1>3 DEF setnodevector
<1> HIDE DEF m
<1>6. Cardinality(0..m - 1) = m
  <2>1. m - 1 \in Int /\ 0 \in Int
    BY <1>1
  <2>2. Cardinality(0..m - 1) = IF 0 > m - 1 THEN 0 ELSE (m - 1) - 0 + 1
    BY <2>1, FS_Interval
  <2> QED
    BY <1>1, <2>2
<1>7. u.array = setarrayvector(t.array, nasize) /\ u.node = [p \in 0..m - 1 |-> e] /\ u.lastfree = m
  BY <1>5, <1>6 DEF Blank
<1>8. /\ u.array \in Seq(Value \cup {Nil}) /\ Len(u.array) = nasize /\ DOMAIN u.array = 1..nasize
      /\ \A i \in 1..nasize : u.array[i] = IF i \in DOMAIN t.array THEN t.array[i] ELSE Nil
  <2> DEFINE a == setarrayvector(t.array, nasize)
  <2>1. a = [i \in 1..nasize |-> IF i \in DOMAIN t.array THEN t.array[i] ELSE Nil]
    BY DEF setarrayvector
  <2>2. \A i \in 1..nasize : (IF i \in DOMAIN t.array THEN t.array[i] ELSE Nil) \in Value \cup {Nil}
    BY <1>2
  <2> HIDE DEF a
  <2>3. a \in [1..nasize -> Value \cup {Nil}]
    BY <2>1, <2>2
  <2>4. a \in Seq(Value \cup {Nil}) /\ Len(a) = nasize
    BY <2>3
  <2> QED
    BY <1>7, <2>1, <2>4 DEF a
<1>9. u.node \in [0..m - 1 -> Node] /\ \A p \in 0..m - 1 : u.node[p] = e
  BY <1>4, <1>7
<1>10. u \in Tables(m)
  BY <1>1, <1>7, <1>8, <1>9 DEF Blank, Tables
<1>11. NodesOK(hash, m, u.node)
  <2> DEFINE path == [p \in 0..m - 1 |-> p]
             pos == [p \in 0..m - 1 |-> 0]
  <2>1. path \in [0..m - 1 -> 0..m - 1] /\ pos \in [0..m - 1 -> Nat]
    OBVIOUS
  <2>2. \A p \in 0..m - 1 : path[p] = p /\ pos[p] = 0
    OBVIOUS
  <2> HIDE DEF path, pos
  <2>3. Paths(m, u.node, path, pos)
    BY <1>4, <1>9, <2>1, <2>2 DEF Paths, Linked, Headed, OneEach, FreeAlone
  <2>4. Homed(hash, m, u.node, path, pos)
    BY <1>4, <1>9 DEF Homed
  <2>5. Unique(m, u.node)
    BY <1>4, <1>9 DEF Unique, Live
  <2>6. Freshest(m, u.node, pos)
    BY <1>4, <1>9 DEF Freshest
  <2> QED
    BY <1>9, <2>3, <2>4, <2>5, <2>6 DEF NodesOK
<1>12. Good(hash, m, u)
  <2>1. \A i \in DOMAIN u.array : u.array[i] # Nil => i \in Key
    BY <1>8 DEF Good
  <2>2. \A p \in 0..m - 1 : u.node[p].key = Nil /\ p < u.lastfree
    BY <1>1, <1>4, <1>7, <1>9
  <2>3. Nil \notin DOMAIN u.array
    BY <1>8, LuaTableAssumption
  <2> QED
    BY <1>1, <1>2, <1>10, <1>11, <2>1, <2>2, <2>3 DEF Good
<1>13. \A j \in Key : /\ j \in 1..nasize /\ j \in DOMAIN t.array => Val(u, j) = Val(t, j)
                      /\ ~(j \in 1..nasize /\ j \in DOMAIN t.array) => Val(u, j) = Nil
  <2> SUFFICES ASSUME NEW j \in Key
               PROVE  /\ j \in 1..nasize /\ j \in DOMAIN t.array => Val(u, j) = Val(t, j)
                      /\ ~(j \in 1..nasize /\ j \in DOMAIN t.array) => Val(u, j) = Nil
    OBVIOUS
  <2>1. CASE j \in 1..nasize
    BY <1>8, <2>1 DEF Val
  <2>2. CASE j \notin 1..nasize
    <3>1. j # Nil
      BY LuaTableAssumption DEF Key
    <3>2. \A p \in 0..m - 1 : ~Live(u.node, p, j)
      BY <1>4, <1>9, <3>1 DEF Live
    <3>3. Val(u, j) = Nil
      BY <1>8, <1>12, <2>2, <3>2, ValIs
    <3> QED
      BY <2>2, <3>3
  <2> QED
    BY <2>1, <2>2
<1>14. Reinserted(t, m, nasize, u)
  <2>1. \A p \in 0..m - 1 : ~u.node[p].dead /\ u.node[p].key = Nil
    BY <1>4, <1>9
  <2> QED
    BY <1>8, <1>12, <1>13, <2>1 DEF Reinserted
<1> QED
  BY <1>1, <1>13, <1>14

(* g[i] is the new table after i entries of the old one. *)
Loops(new, old, m, g) ==
  g = [i \in 0..m |->
         IF i = 0 THEN new
         ELSE IF old[i].val = Nil THEN g[i - 1] ELSE Stored(g[i - 1], old[i].key, old[i].val)]

(* The loop of resize has a result after every number of entries. *)
LEMMA LoopExists ==
  ASSUME NEW new, NEW old, NEW n \in Nat
  PROVE  \E g : Loops(new, old, n, g)
<1> DEFINE S == {m \in Nat : \E g : Loops(new, old, m, g)}
           next(i, x) == IF old[i].val = Nil THEN x ELSE Stored(x, old[i].key, old[i].val)
<1>1. 0 \in S
  <2> DEFINE g == [i \in 0..0 |-> new]
  <2>1. g = [i \in 0..0 |-> IF i = 0 THEN new ELSE next(i, g[i - 1])]
    OBVIOUS
  <2> QED
    BY <2>1 DEF Loops
<1>2. ASSUME NEW m \in Nat, m \in S PROVE m + 1 \in S
  <2>1. PICK g : Loops(new, old, m, g)
    BY <1>2
  <2>2. g = [i \in 0..m |-> IF i = 0 THEN new ELSE next(i, g[i - 1])]
    BY <2>1 DEF Loops
  <2> HIDE DEF next
  <2> DEFINE f == [i \in 0..m + 1 |-> IF i = m + 1 THEN next(m + 1, g[m]) ELSE g[i]]
  <2>3. f[m + 1] = next(m + 1, g[m]) /\ \A i \in 0..m : f[i] = g[i]
    OBVIOUS
  <2>4. \A i \in 0..m + 1 : f[i] = IF i = 0 THEN new ELSE next(i, f[i - 1])
    <3> SUFFICES ASSUME NEW i \in 0..m + 1 PROVE f[i] = IF i = 0 THEN new ELSE next(i, f[i - 1])
      OBVIOUS
    <3> HIDE DEF f
    <3>1. CASE i = m + 1
      <4>1. f[i - 1] = g[m] /\ i # 0
        BY <2>3, <3>1
      <4> QED
        BY <2>3, <3>1, <4>1
    <3>2. CASE i = 0
      BY <2>2, <2>3, <3>2
    <3>3. CASE i # 0 /\ i # m + 1
      <4>1. i \in 0..m /\ i - 1 \in 0..m
        BY <3>3
      <4> QED
        BY <2>2, <2>3, <3>3, <4>1
    <3> QED
      BY <3>1, <3>2, <3>3
  <2>5. f = [i \in 0..m + 1 |-> IF i = 0 THEN new ELSE next(i, f[i - 1])]
    <3>1. f = [i \in 0..m + 1 |-> f[i]]
      OBVIOUS
    <3> HIDE DEF f
    <3> QED
      BY <2>4, <3>1
  <2>6. Loops(new, old, m + 1, f)
    <3> HIDE DEF f
    <3> QED
      BY <2>5 DEF Loops, next
  <2> HIDE DEF f
  <2> QED
    BY <2>6
<1>3. Nat \subseteq S
  <2> HIDE DEF S
  <2> QED
    BY <1>1, <1>2, SetInduction
<1> QED
  BY <1>3

(* resize gives a table of the same map, with as many slots and nodes as     *)
(* asked for, if that is enough for the keys that need a node.               *)
LEMMA Resized ==
  ASSUME NEW n, NEW t, Good(hash, n, t), NEW nasize \in Nat, NEW nhsize \in Nat,
         IsFiniteSet(Kept(t, nasize)), Cardinality(Kept(t, nasize)) <= nhsize
  PROVE  \E m \in Nat : /\ nhsize <= m /\ Reinserted(t, m, nasize, resize(t, nasize, nhsize))
                        /\ \A j \in Key : Val(resize(t, nasize, nhsize), j) = Val(t, j)
<1>1. PICK new : new = Blank(t, nasize, nhsize)
  OBVIOUS
<1>2. PICK old : old = Vanishing(t, nasize) \o Entries(t)
  OBVIOUS
<1>3. /\ old \in Seq(OldEntry)
      /\ \A i \in 1..Len(old) : old[i].val # Nil =>
           old[i].key \in Key /\ old[i].val = Val(t, old[i].key)
      /\ \A j \in Key : Val(t, j) # Nil =>
           \/ j \in 1..nasize /\ j \in DOMAIN t.array
           \/ \E i \in 1..Len(old) : old[i].val # Nil /\ old[i].key = j
  <2>1. Remains(t, nasize, old)
    BY <1>2, OldEntries
  <2> QED
    BY <2>1 DEF Remains
<1> DEFINE N == Len(old)
           f == CHOOSE g : Loops(new, old, N, g)
<1>4. N \in Nat
  BY <1>3
<1>5. resize(t, nasize, nhsize) = f[N]
  BY <1>1, <1>2 DEF resize, Loops, Blank
<1>6. f = [i \in 0..N |->
             IF i = 0 THEN new
             ELSE IF old[i].val = Nil THEN f[i - 1] ELSE Stored(f[i - 1], old[i].key, old[i].val)]
  <2>1. \E g : Loops(new, old, N, g)
    BY <1>4, LoopExists
  <2>2. Loops(new, old, N, f)
    BY <2>1
  <2> HIDE DEF f
  <2> QED
    BY <2>2 DEF Loops
<1> HIDE DEF f
<1>7. PICK m \in Nat :
        /\ nhsize <= m /\ Reinserted(t, m, nasize, new)
        /\ \A j \in Key : j \in 1..nasize /\ j \in DOMAIN t.array => Val(new, j) = Val(t, j)
  BY <1>1, BlankOK
<1> DEFINE Done(i, j) == \/ j \in 1..nasize /\ j \in DOMAIN t.array
                         \/ \E x \in 1..i : old[x].val # Nil /\ old[x].key = j
           Inv(i) == /\ Reinserted(t, m, nasize, f[i])
                     /\ \A j \in Key : Done(i, j) => Val(f[i], j) = Val(t, j)
           S == {i \in Nat : i <= N => Inv(i)}
<1>8. 0 \in S
  <2>1. f[0] = new
    BY <1>4, <1>6
  <2>2. \A j \in Key : Done(0, j) => j \in 1..nasize /\ j \in DOMAIN t.array
    OBVIOUS
  <2> HIDE DEF Done
  <2> QED
    BY <1>7, <2>1, <2>2
<1>9. ASSUME NEW i \in Nat, i \in S PROVE i + 1 \in S
  <2> SUFFICES ASSUME i + 1 <= N PROVE Inv(i + 1)
    OBVIOUS
  <2>1. Inv(i)
    BY <1>4, <1>9
  <2>2. i + 1 \in 1..N /\ i + 1 \in 0..N /\ (i + 1) - 1 = i /\ i + 1 # 0
    BY <1>4
  <2>3. f[i + 1] = IF old[i + 1].val = Nil THEN f[i] ELSE Stored(f[i], old[i + 1].key, old[i + 1].val)
    BY <1>6, <2>2
  <2>4. \A j : Done(i + 1, j) => Done(i, j) \/ (old[i + 1].val # Nil /\ old[i + 1].key = j)
    <3>1. \A x \in 1..i + 1 : x \in 1..i \/ x = i + 1
      OBVIOUS
    <3> QED
      BY <3>1
  <2> HIDE DEF Done, N
  <2>5. CASE old[i + 1].val = Nil
    BY <2>1, <2>3, <2>4, <2>5
  <2>6. CASE old[i + 1].val # Nil
    <3>1. PICK k \in Key : k = old[i + 1].key /\ old[i + 1].val = Val(t, k) /\ Val(t, k) # Nil
      BY <1>3, <2>2, <2>6 DEF N
    <3>2. Val(t, k) \in Value \cup {Nil}
      <4>1. old[i + 1] \in OldEntry
        BY <1>3, <2>2 DEF N
      <4>2. old[i + 1].val \in Value \cup {Nil}
        BY <4>1 DEF OldEntry
      <4> QED
        BY <3>1, <4>2
    <3>3. f[i + 1] = Stored(f[i], k, Val(t, k))
      BY <2>3, <2>6, <3>1
    <3>4. Cardinality(Kept(t, nasize)) <= m
      <4>1. Cardinality(Kept(t, nasize)) \in Nat
        BY FS_CardinalityType
      <4> QED
        BY <1>7, <4>1
    <3>5. /\ Reinserted(t, m, nasize, f[i + 1]) /\ Val(f[i + 1], k) = Val(t, k)
          /\ \A j \in Key : Val(f[i], j) = Val(t, j) => Val(f[i + 1], j) = Val(t, j)
      BY <2>1, <3>1, <3>2, <3>3, <3>4, InsertAgain
    <3> QED
      BY <2>1, <2>4, <3>1, <3>5
  <2> QED
    BY <2>5, <2>6
<1>10. Inv(N)
  <2>1. Nat \subseteq S
    <3> HIDE DEF S
    <3> QED
      BY <1>8, <1>9, SetInduction
  <2> HIDE DEF Inv
  <2> QED
    BY <1>4, <2>1
<1>11. \A j \in Key : Val(f[N], j) = Val(t, j)
  <2> SUFFICES ASSUME NEW j \in Key PROVE Val(f[N], j) = Val(t, j)
    OBVIOUS
  <2>1. CASE Val(t, j) # Nil
    BY <1>3, <1>10, <2>1
  <2>2. CASE Val(t, j) = Nil
    <3>1. Val(f[N], j) \in {Nil, Val(t, j)}
      BY <1>10 DEF Reinserted
    <3> QED
      BY <2>2, <3>1
  <2> QED
    BY <2>1, <2>2
<1> QED
  BY <1>5, <1>7, <1>10, <1>11

-----------------------------------------------------------------------------
(* rehash. *)

(* A bounded set of numbers has a greatest member, and Max is it. *)
LEMMA MaxOf ==
  ASSUME NEW S \in SUBSET Nat, S # {}, NEW b \in Nat, \A x \in S : x <= b
  PROVE  Max(S) \in S /\ \A x \in S : x <= Max(S)
<1> DEFINE B == {b - x : x \in S}
<1>1. B \in SUBSET Nat /\ B # {}
  <2>1. \A x \in S : x \in Nat /\ x <= b
    OBVIOUS
  <2>2. \A x \in S : b - x \in Nat
    BY <2>1
  <2> QED
    BY <2>2
<1>2. PICK c \in B : \A d \in B : c <= d
  BY <1>1, LeastElement
<1>3. PICK f \in S : c = b - f
  BY <1>2
<1>4. \A x \in S : b - f <= b - x
  BY <1>2, <1>3
<1>5. \A x \in S : f >= x
  BY <1>4
<1>6. Max(S) \in S /\ \A x \in S : Max(S) >= x
  BY <1>5 DEF Max
<1> QED
  BY <1>6

(* The sizes computesizes chooses from. *)
Fitting(ints) ==
  {n \in Sizes : (\E i \in ints : n \div 2 < i /\ i <= n) /\ UpTo(ints, n) > n \div 2}

(* computesizes gives the greatest of the sizes that would be well used, or  *)
(* 0.                                                                        *)
LEMMA SizeChosen ==
  ASSUME NEW ints \in SUBSET (1..MaxKey)
  PROVE  /\ computesizes(ints) \in Nat
         /\ computesizes(ints) # 0 => computesizes(ints) \in Fitting(ints)
         /\ \A n \in Fitting(ints) : n <= computesizes(ints)
<1>1. MaxKey \in Nat
  BY LuaTableAssumption
<1>2. Sizes \subseteq Nat
  BY <1>1, TwoToGrows DEF Sizes
<1>3. ASSUME NEW n \in Fitting(ints) PROVE n \in Nat /\ n <= 2 * MaxKey
  <2>1. n \in Nat
    BY <1>2 DEF Fitting
  <2>2. PICK i \in ints : n \div 2 < i
    BY DEF Fitting
  <2>3. i \in Int /\ i <= MaxKey
    BY <1>1
  <2> QED
    BY <1>1, <2>1, <2>2, <2>3
<1>4. 2 * MaxKey \in Nat
  BY <1>1
<1>5. computesizes(ints) = IF Fitting(ints) = {} THEN 0 ELSE Max(Fitting(ints))
  BY DEF computesizes, Fitting
<1>6. CASE Fitting(ints) = {}
  BY <1>5, <1>6
<1>7. CASE Fitting(ints) # {}
  <2>1. Max(Fitting(ints)) \in Fitting(ints) /\ \A n \in Fitting(ints) : n <= Max(Fitting(ints))
    <3>1. Fitting(ints) \in SUBSET Nat
      BY <1>3
    <3> QED
      BY <1>3, <1>4, <1>7, <3>1, MaxOf
  <2> QED
    BY <1>3, <1>5, <1>7, <2>1
<1> QED
  BY <1>6, <1>7

NodeKeys(t) == {t.node[p].key : p \in UsedNodes(t)}

(* The keys with a value are those that are in use. *)
LEMMA InUse ==
  ASSUME NEW h, NEW n, NEW t, Good(h, n, t)
  PROVE  /\ UsedArray(t) \subseteq 1..MaxKey /\ UsedArray(t) \subseteq 1..Len(t.array)
         /\ NodeKeys(t) \subseteq Key
         /\ \A j \in Key : Val(t, j) # Nil <=> j \in UsedArray(t) \cup NodeKeys(t)
<1>1. n \in Nat /\ t \in Tables(n) /\ Unique(n, t.node) /\ t.array \in Seq(Value \cup {Nil})
      /\ t.node \in [0..n - 1 -> Node]
  BY DEF Good, NodesOK, Tables
<1>2. UsedArray(t) \subseteq 1..Len(t.array)
  BY <1>1 DEF UsedArray
<1>3. UsedArray(t) \subseteq 1..MaxKey
  <2>1. UsedArray(t) \subseteq Key
    BY DEF UsedArray, Good
  <2>2. \A k \in String \cup Object : k \notin 1..Len(t.array)
    BY LuaTableAssumption
  <2> QED
    BY <1>2, <2>1, <2>2 DEF Key
<1>4. UsedNodes(t) = {p \in 0..n - 1 : t.node[p].val # Nil}
  BY <1>1, SizeOf DEF UsedNodes
<1>5. ASSUME NEW p \in UsedNodes(t)
      PROVE  /\ p \in 0..n - 1 /\ Live(t.node, p, t.node[p].key) /\ t.node[p].key \in Key
             /\ t.node[p].key \notin DOMAIN t.array /\ Val(t, t.node[p].key) # Nil
  <2>1. p \in 0..n - 1 /\ t.node[p].val # Nil
    BY <1>4
  <2>2. t.node[p].key \in Key /\ ~t.node[p].dead
    BY <1>1, <2>1 DEF Unique, Node
  <2>3. Live(t.node, p, t.node[p].key) /\ t.node[p].key \notin DOMAIN t.array
    BY <2>1, <2>2 DEF Live, Good
  <2> QED
    BY <2>1, <2>2, <2>3, ValIs
<1>6. ASSUME NEW j \in Key PROVE Val(t, j) # Nil <=> j \in UsedArray(t) \cup NodeKeys(t)
  <2>1. CASE j \in DOMAIN t.array
    <3>1. Val(t, j) = t.array[j]
      BY <2>1, ValIs
    <3>2. j \notin NodeKeys(t)
      BY <1>5, <2>1 DEF NodeKeys
    <3> QED
      BY <2>1, <3>1, <3>2 DEF UsedArray
  <2>2. CASE j \notin DOMAIN t.array
    <3>1. ASSUME Val(t, j) # Nil PROVE j \in NodeKeys(t)
      <4>1. PICK p \in 0..n - 1 : Live(t.node, p, j) /\ t.node[p].val # Nil
        BY <2>2, <3>1, ValIs
      <4> QED
        BY <1>4, <4>1 DEF NodeKeys, Live
    <3>2. ASSUME j \in NodeKeys(t) PROVE Val(t, j) # Nil
      BY <1>5, <3>2 DEF NodeKeys
    <3> QED
      BY <2>2, <3>1, <3>2 DEF UsedArray
  <2> QED
    BY <2>1, <2>2
<1> QED
  BY <1>2, <1>3, <1>5, <1>6 DEF NodeKeys

(* numusearray and numusehash count no key twice. *)
LEMMA Counted ==
  ASSUME NEW h, NEW n, NEW t, Good(h, n, t)
  PROVE  /\ IsFiniteSet(UsedArray(t)) /\ IsFiniteSet(NodeKeys(t)) /\ IsFiniteSet(UsedNodes(t))
         /\ Cardinality(NodeKeys(t)) <= Cardinality(UsedNodes(t)) /\ Cardinality(UsedNodes(t)) <= n
<1>1. n \in Nat /\ t \in Tables(n) /\ t.array \in Seq(Value \cup {Nil})
  BY DEF Good, Tables
<1>2. IsFiniteSet(UsedArray(t))
  <2>1. IsFiniteSet(1..Len(t.array))
    BY <1>1, FS_Interval
  <2>2. UsedArray(t) \in SUBSET (1..Len(t.array))
    BY InUse
  <2> QED
    BY <2>1, <2>2, FS_Subset
<1>3. IsFiniteSet(UsedNodes(t)) /\ Cardinality(UsedNodes(t)) <= n
  <2>1. n - 1 \in Int /\ 0 \in Int
    BY <1>1
  <2>2. IsFiniteSet(0..n - 1) /\ Cardinality(0..n - 1) = IF 0 > n - 1 THEN 0 ELSE (n - 1) - 0 + 1
    BY <2>1, FS_Interval
  <2>3. Cardinality(0..n - 1) = n
    BY <1>1, <2>2
  <2>4. UsedNodes(t) \in SUBSET (0..n - 1)
    BY <1>1, SizeOf DEF UsedNodes
  <2> QED
    BY <2>2, <2>3, <2>4, FS_Subset
<1> DEFINE f == [p \in UsedNodes(t) |-> t.node[p].key]
<1>4. f \in Surjection(UsedNodes(t), NodeKeys(t))
  BY DEF Surjection, NodeKeys
<1>5. IsFiniteSet(NodeKeys(t)) /\ Cardinality(NodeKeys(t)) <= Cardinality(UsedNodes(t))
  BY <1>3, <1>4, FS_Surjection
<1> QED
  BY <1>2, <1>3, <1>5

(* The hash part a rehash asks for is enough for the keys that need a node,  *)
(* the new one among them.                                                   *)
LEMMA CountedRoom ==
  ASSUME NEW n, NEW t, Good(hash, n, t), NEW k \in Key, NEW nasize \in Nat,
         NEW nh, nh = (Cardinality(UsedArray(t)) + Cardinality(UsedNodes(t)) + 1)
                      - UpTo(Ints(t, k), nasize)
  PROVE  /\ IsFiniteSet((Kept(t, nasize) \cup {k}) \ 1..nasize) /\ nh \in Nat
         /\ Cardinality((Kept(t, nasize) \cup {k}) \ 1..nasize) <= nh
<1> DEFINE A == UsedArray(t)
           B == NodeKeys(t)
           U == (A \cup B) \cup {k}
           X == 1..nasize
<1>1. /\ IsFiniteSet(A) /\ IsFiniteSet(B) /\ IsFiniteSet(UsedNodes(t))
      /\ Cardinality(B) <= Cardinality(UsedNodes(t))
  BY Counted
<1>2. /\ A \subseteq 1..MaxKey /\ B \subseteq Key
      /\ \A j \in Key : Val(t, j) # Nil <=> j \in A \cup B
  BY InUse
<1> DEFINE low == {i \in Ints(t, k) : i <= nasize}
<1>3. Ints(t, k) = A \cup ((B \cup {k}) \cap 1..MaxKey) /\ UpTo(Ints(t, k), nasize) = Cardinality(low)
  BY DEF Ints, UpTo, NodeKeys
<1>4. low = U \cap X
  <2>1. MaxKey \in Nat
    BY LuaTableAssumption
  <2>2. \A j \in Key : j \in X => j \in 1..MaxKey
    BY LuaTableAssumption DEF Key
  <2>3. \A j \in 1..MaxKey : j \in X <=> j <= nasize
    BY <2>1
  <2> HIDE DEF A, B, X
  <2> QED
    BY <1>2, <1>3, <2>2, <2>3
<1> HIDE DEF A, B, X, low
<1>5. IsFiniteSet(A \cup B) /\ Cardinality(A \cup B) <= Cardinality(A) + Cardinality(B)
      /\ Cardinality(A) \in Nat /\ Cardinality(B) \in Nat /\ Cardinality(A \cup B) \in Nat
  <2>1. IsFiniteSet(A \cup B) /\ Cardinality(A \cup B) = Cardinality(A) + Cardinality(B) - Cardinality(A \cap B)
    BY <1>1, FS_Union
  <2>2. IsFiniteSet(A \cap B)
    BY <1>1, FS_Intersection
  <2>3. Cardinality(A) \in Nat /\ Cardinality(B) \in Nat /\ Cardinality(A \cap B) \in Nat
        /\ Cardinality(A \cup B) \in Nat
    BY <1>1, <2>1, <2>2, FS_CardinalityType
  <2> QED
    BY <2>1, <2>3
<1>6. IsFiniteSet(U) /\ Cardinality(U) \in Nat /\ Cardinality(U) <= Cardinality(A) + Cardinality(B) + 1
  <2>1. IsFiniteSet(U) /\ (Cardinality(U) = Cardinality(A \cup B) \/ Cardinality(U) = Cardinality(A \cup B) + 1)
    BY <1>5, FS_AddElement
  <2> QED
    BY <1>5, <2>1
<1> HIDE DEF U
<1>7. /\ IsFiniteSet(U \ X) /\ Cardinality(U \ X) = Cardinality(U) - Cardinality(low)
      /\ Cardinality(U \ X) \in Nat /\ Cardinality(low) \in Nat
  <2>1. IsFiniteSet(U \ X) /\ Cardinality(U \ X) = Cardinality(U) - Cardinality(U \cap X)
    BY <1>6, FS_Difference
  <2>2. IsFiniteSet(U \cap X)
    BY <1>6, FS_Intersection
  <2> QED
    BY <1>4, <2>1, <2>2, FS_CardinalityType
<1>8. (Kept(t, nasize) \cup {k}) \ X \in SUBSET (U \ X)
  BY <1>2 DEF U, Kept
<1>9. /\ IsFiniteSet((Kept(t, nasize) \cup {k}) \ X)
      /\ Cardinality((Kept(t, nasize) \cup {k}) \ X) <= Cardinality(U \ X)
  BY <1>7, <1>8, FS_Subset
<1>10. Cardinality((Kept(t, nasize) \cup {k}) \ X) \in Nat
  BY <1>9, FS_CardinalityType
<1>11. Cardinality(UsedNodes(t)) \in Nat
  BY <1>1, FS_CardinalityType
<1>12. nh = (Cardinality(A) + Cardinality(UsedNodes(t)) + 1) - Cardinality(low)
  BY <1>3 DEF A
<1>13. Cardinality(U \ X) <= nh /\ nh \in Nat
  BY <1>1, <1>5, <1>6, <1>7, <1>11, <1>12
<1> QED
  BY <1>7, <1>9, <1>10, <1>13 DEF X

(* The integers a rehash counts are those with a value and the new one. *)
LEMMA IntsAre ==
  ASSUME NEW h, NEW n, NEW t, Good(h, n, t), NEW k \in Key
  PROVE  /\ Ints(t, k) \subseteq 1..MaxKey
         /\ \A i \in 1..MaxKey : i \in Ints(t, k) <=> Val(t, i) # Nil \/ i = k
<1>1. Ints(t, k) = UsedArray(t) \cup ((NodeKeys(t) \cup {k}) \cap 1..MaxKey)
  BY DEF Ints, NodeKeys
<1>2. 1..MaxKey \subseteq Key
  BY DEF Key
<1> QED
  BY <1>1, <1>2, InUse

(* A rehash gives a table of the same map in which newkey finds room.        *)
LEMMA Rehashed ==
  ASSUME NEW n, NEW t, Good(hash, n, t), NEW k \in Key, Val(t, k) = Nil
  PROVE  \E m \in Nat :
           /\ Reinserted(t, m, computesizes(Ints(t, k)), rehash(t, k))
           /\ \A j \in Key : Val(rehash(t, k), j) = Val(t, j)
           /\ InArray(rehash(t, k), k) \/ ~Full(rehash(t, k), k)
<1>1. PICK u : u = rehash(t, k)
  OBVIOUS
<1>2. PICK nasize \in Nat : nasize = computesizes(Ints(t, k))
  BY IntsAre, SizeChosen
<1>3. PICK nh : nh = (Cardinality(UsedArray(t)) + Cardinality(UsedNodes(t)) + 1)
                      - UpTo(Ints(t, k), nasize)
  OBVIOUS
<1> DEFINE F == (Kept(t, nasize) \cup {k}) \ 1..nasize
<1>4. IsFiniteSet(F) /\ nh \in Nat /\ Cardinality(F) <= nh
  BY <1>3, CountedRoom
<1>5. u = resize(t, nasize, nh)
  BY <1>1, <1>2, <1>3 DEF rehash
<1>6. Kept(t, nasize) \in SUBSET F
  BY DEF Kept
<1> HIDE DEF F
<1>7. IsFiniteSet(Kept(t, nasize)) /\ Cardinality(Kept(t, nasize)) <= nh
  <2>1. IsFiniteSet(Kept(t, nasize)) /\ Cardinality(Kept(t, nasize)) <= Cardinality(F)
    BY <1>4, <1>6, FS_Subset
  <2>2. Cardinality(Kept(t, nasize)) \in Nat /\ Cardinality(F) \in Nat
    BY <1>4, <2>1, FS_CardinalityType
  <2> QED
    BY <1>4, <2>1, <2>2
<1>8. PICK m \in Nat : nh <= m /\ Reinserted(t, m, nasize, u) /\ \A j \in Key : Val(u, j) = Val(t, j)
  BY <1>4, <1>5, <1>7, Resized
<1>9. InArray(u, k) \/ ~Full(u, k)
  <2> SUFFICES ASSUME ~InArray(u, k) PROVE ~Full(u, k)
    OBVIOUS
  <2>1. Good(hash, m, u) /\ Len(u.array) = nasize
        /\ \A p \in 0..m - 1 : ~u.node[p].dead /\ u.node[p].key \in Kept(t, nasize) \cup {Nil}
    BY <1>8 DEF Reinserted
  <2>2. DOMAIN u.array = 1..nasize
    <3>1. u \in Tables(m)
      BY <2>1 DEF Good
    <3>2. u.array \in Seq(Value \cup {Nil})
      BY <3>1 DEF Tables
    <3> QED
      BY <2>1, <3>2
  <2>3. k \in F
    BY <2>2 DEF InArray, F
  <2>4. k \notin Kept(t, nasize)
    BY DEF Kept
  <2>5. \A p \in 0..m - 1 : u.node[p].key \in (F \ {k}) \cup {Nil}
    BY <1>6, <2>1, <2>4
  <2>6. Cardinality(F) <= m
    <3>1. Cardinality(F) \in Nat
      BY <1>4, FS_CardinalityType
    <3> QED
      BY <1>4, <1>8, <3>1
  <2>7. FreeNodes(u) # {}
    BY <1>4, <2>1, <2>3, <2>5, <2>6, Room
  <2> QED
    BY <2>7 DEF Full
<1> QED
  BY <1>1, <1>2, <1>8, <1>9

(* luaH_set: the key has the value it is assigned, every other key the one   *)
(* it had.                                                                   *)
LEMMA SetWrites ==
  ASSUME NEW n, NEW t, Good(hash, n, t), NEW k \in Key, NEW v \in Value \cup {Nil}
  PROVE  \E m \in Nat :
           /\ Good(hash, m, luaH_set(t, k, v))
           /\ Val(luaH_set(t, k, v), k) = v
           /\ \A j \in Key \ {k} : Val(luaH_set(t, k, v), j) = Val(t, j)
           /\ \/ Len(luaH_set(t, k, v).array) = Len(t.array)
              \/ Len(luaH_set(t, k, v).array) = computesizes(Ints(t, k)) /\ Val(t, k) = Nil
<1>1. PICK w : w = luaH_set(t, k, v)
  OBVIOUS
<1>2. n \in Nat
  BY DEF Good
<1>3. CASE InArray(t, k) \/ NodeOf(t, k) # Nil \/ ~Full(t, k)
  <2>1. w = Stored(t, k, v)
    BY <1>1, <1>3 DEF luaH_set
  <2>2. Writes(hash, n, t, w, k, v)
    BY <1>3, <2>1, StoredWrites
  <2> QED
    BY <1>1, <1>2, <2>2 DEF Writes
<1>4. CASE ~(InArray(t, k) \/ NodeOf(t, k) # Nil \/ ~Full(t, k))
  <2>1. PICK u : u = rehash(t, k)
    OBVIOUS
  <2>2. w = Stored(u, k, v)
    BY <1>1, <1>4, <2>1 DEF luaH_set
  <2>3. Val(t, k) = Nil
    BY <1>4, GetIs DEF luaH_get
  <2>4. PICK m \in Nat :
          /\ Reinserted(t, m, computesizes(Ints(t, k)), u)
          /\ \A j \in Key : Val(u, j) = Val(t, j)
          /\ InArray(u, k) \/ ~Full(u, k)
    BY <2>1, <2>3, Rehashed
  <2>5. Good(hash, m, u) /\ Len(u.array) = computesizes(Ints(t, k))
    BY <2>4 DEF Reinserted
  <2>6. Writes(hash, m, u, w, k, v)
    BY <2>2, <2>4, <2>5, StoredWrites
  <2> QED
    BY <1>1, <2>3, <2>4, <2>5, <2>6 DEF Writes
<1> QED
  BY <1>3, <1>4

(* luaH_resizearray *)
LEMMA ArrayResized ==
  ASSUME NEW n, NEW t, Good(hash, n, t), NEW nasize \in Nat, nasize > Len(t.array)
  PROVE  \E m \in Nat : /\ Good(hash, m, resize(t, nasize, sizenode(t)))
                        /\ \A j \in Key : Val(resize(t, nasize, sizenode(t)), j) = Val(t, j)
<1>1. n \in Nat /\ t \in Tables(n) /\ t.array \in Seq(Value \cup {Nil})
  BY DEF Good, Tables
<1>2. sizenode(t) = n
  BY <1>1, SizeOf
<1>3. Kept(t, nasize) \in SUBSET NodeKeys(t)
  <2>1. UsedArray(t) \subseteq 1..Len(t.array)
    BY InUse
  <2>2. UsedArray(t) \subseteq 1..nasize
    BY <1>1, <2>1
  <2> QED
    BY <2>2, InUse DEF Kept
<1>4. IsFiniteSet(NodeKeys(t)) /\ Cardinality(NodeKeys(t)) <= n
  <2>1. /\ IsFiniteSet(NodeKeys(t)) /\ IsFiniteSet(UsedNodes(t))
        /\ Cardinality(NodeKeys(t)) <= Cardinality(UsedNodes(t)) /\ Cardinality(UsedNodes(t)) <= n
    BY Counted
  <2>2. Cardinality(NodeKeys(t)) \in Nat /\ Cardinality(UsedNodes(t)) \in Nat
    BY <2>1, FS_CardinalityType
  <2> QED
    BY <1>1, <2>1, <2>2
<1>5. IsFiniteSet(Kept(t, nasize)) /\ Cardinality(Kept(t, nasize)) <= n
  <2>1. IsFiniteSet(Kept(t, nasize)) /\ Cardinality(Kept(t, nasize)) <= Cardinality(NodeKeys(t))
    BY <1>3, <1>4, FS_Subset
  <2>2. Cardinality(Kept(t, nasize)) \in Nat /\ Cardinality(NodeKeys(t)) \in Nat
    BY <1>4, <2>1, FS_CardinalityType
  <2> QED
    BY <1>1, <1>4, <2>1, <2>2
<1> QED
  BY <1>1, <1>2, <1>5, Resized DEF Reinserted

-----------------------------------------------------------------------------
(* The collector, and new tables. *)

(* The collector marks keys of empty entries: the map stays the same. *)
Marked(t) == [t EXCEPT !.node = [p \in DOMAIN @ |-> removeentry(@[p])]]

SameShape(n, t, u) ==
  /\ Len(u.array) = Len(t.array)
  /\ \A p \in 0..n - 1 : u.node[p].key = t.node[p].key /\ u.node[p].next = t.node[p].next

(* The table after the collector went through it. *)
LEMMA MarkedOK ==
  ASSUME NEW h, NEW n, NEW t, Good(h, n, t), NEW u, u = Marked(t)
  PROVE  Good(h, n, u) /\ SameShape(n, t, u) /\ \A k \in Key : Val(u, k) = Val(t, k)
<1> DEFINE nd == t.node
<1>1. /\ h \in Hashes /\ n \in Nat /\ t \in Tables(n) /\ NodesOK(h, n, nd) /\ Unique(n, nd)
      /\ nd \in [0..n - 1 -> Node] /\ DOMAIN nd = 0..n - 1
  BY SizeOf DEF Good, NodesOK
<1>2. u.array = t.array /\ u.lastfree = t.lastfree /\ u.node = [p \in 0..n - 1 |-> removeentry(nd[p])]
  BY <1>1 DEF Marked, Tables
<1>3. ASSUME NEW e \in Node
      PROVE  /\ removeentry(e) \in Node /\ removeentry(e).key = e.key
             /\ removeentry(e).val = e.val /\ removeentry(e).next = e.next
             /\ e.dead => removeentry(e).dead
             /\ e.val # Nil => removeentry(e).dead = e.dead
  BY DEF Node, removeentry
<1>4. u.node \in [0..n - 1 -> Node]
  BY <1>1, <1>2, <1>3
<1>5. \A p \in 0..n - 1 :
        /\ u.node[p].key = nd[p].key /\ u.node[p].val = nd[p].val /\ u.node[p].next = nd[p].next
        /\ nd[p].dead => u.node[p].dead
        /\ nd[p].val # Nil => u.node[p].dead = nd[p].dead
  BY <1>1, <1>2, <1>3
<1>6. u \in Tables(n)
  BY <1>1, <1>2, <1>4 DEF Marked, Tables
<1> HIDE DEF nd
<1>7. Revalued(n, nd, u.node)
  BY <1>1, <1>4, <1>5 DEF Revalued, Unique
<1>8. NodesOK(h, n, u.node)
  BY <1>1, <1>7, RevaluedOK
<1>9. Good(h, n, u)
  <2>1. \A p \in 0..n - 1 : /\ nd[p].key = Nil => p < t.lastfree
                            /\ nd[p].key \notin DOMAIN t.array
    BY DEF Good, nd
  <2>2. \A i \in DOMAIN t.array : t.array[i] # Nil => i \in Key
    BY DEF Good
  <2> QED
    BY <1>1, <1>2, <1>5, <1>6, <1>8, <2>1, <2>2 DEF Good
<1>10. ASSUME NEW k \in Key PROVE Val(u, k) = Val(t, k)
  <2>1. Nil \notin Value
    BY LuaTableAssumption
  <2>2. \A v \in Value : Entry(n, u.node, k, v) <=> Entry(n, nd, k, v)
    BY <1>5, <2>1 DEF Entry, Live
  <2> QED
    BY <1>2, <1>9, <2>2, SameVal DEF nd
<1> QED
  BY <1>2, <1>5, <1>9, <1>10 DEF SameShape, nd

(* The table a script starts with. *)
LEMMA NewTable ==
  ASSUME hash \in Hashes, NEW narray \in Nat, NEW nhash \in Nat
  PROVE  \E m \in Nat : Good(hash, m, luaH_new(narray, nhash))
                        /\ \A k \in Key : Val(luaH_new(narray, nhash), k) = Nil
<1> DEFINE e == [array |-> <<>>, node |-> <<>>, lastfree |-> 0]
<1>1. e.array = <<>> /\ e.node = <<>> /\ e.lastfree = 0
  OBVIOUS
<1>2. e \in Tables(0)
  <2>1. <<>> \in Seq(Value \cup {Nil})
    OBVIOUS
  <2>2. <<>> \in [0..0 - 1 -> Node]
    OBVIOUS
  <2> QED
    BY <2>1, <2>2 DEF Tables
<1> HIDE DEF e
<1>3. DOMAIN e.array = {} /\ 0..0 - 1 = {} /\ Len(e.array) = 0
  BY <1>1
<1>4. NodesOK(hash, 0, e.node)
  <2>1. e.node \in [0..0 - 1 -> Node]
    BY <1>2 DEF Tables
  <2>2. <<>> \in [0..0 - 1 -> 0..0 - 1] /\ <<>> \in [0..0 - 1 -> Nat]
    OBVIOUS
  <2>3. Paths(0, e.node, <<>>, <<>>)
    BY <1>3, <2>2 DEF Paths, Linked, Headed, OneEach, FreeAlone
  <2>4. Homed(hash, 0, e.node, <<>>, <<>>) /\ Freshest(0, e.node, <<>>)
    BY <1>3 DEF Homed, Freshest
  <2>5. Unique(0, e.node)
    BY <1>3 DEF Unique
  <2> QED
    BY <2>1, <2>3, <2>4, <2>5 DEF NodesOK
<1>5. Good(hash, 0, e)
  BY <1>2, <1>3, <1>4 DEF Good
<1>6. \A k \in Key : Val(e, k) = Nil
  BY <1>3, <1>5, ValIs
<1>7. Kept(e, narray) = {}
  BY <1>6 DEF Kept
<1>8. IsFiniteSet(Kept(e, narray)) /\ Cardinality(Kept(e, narray)) <= nhash
  BY <1>7, FS_EmptySet
<1>9. luaH_new(narray, nhash) = resize(e, narray, nhash)
  BY DEF luaH_new, e
<1> QED
  BY <1>5, <1>6, <1>8, <1>9, Resized DEF Reinserted

-----------------------------------------------------------------------------
(* Traversal. *)

(* findindex for a key: its place in the array part, or after that part the  *)
(* node the walk finds first, a dead one too.                                *)
LEMMA FindIs ==
  ASSUME NEW n, NEW t, Good(hash, n, t), NEW k \in Key
  PROVE  /\ k \in DOMAIN t.array => findindex(t, k) = k
         /\ k \notin DOMAIN t.array =>
              /\ \/ findindex(t, k) = Nil /\ \A p \in 0..n - 1 : t.node[p].key # k
                 \/ \E p \in 0..n - 1 : t.node[p].key = k /\ findindex(t, k) = Len(t.array) + p + 1
              /\ \A p \in 0..n - 1 : Live(t.node, p, k) => findindex(t, k) = Len(t.array) + p + 1
<1>1. n \in Nat /\ t \in Tables(n) /\ hash \in Hashes /\ k # Nil
  BY LuaTableAssumption DEF Good, Key
<1>2. CASE k \in DOMAIN t.array
  BY <1>1, <1>2 DEF findindex, InArray
<1>3. CASE k \notin DOMAIN t.array
  <2> DEFINE S == NodesWith(t, k)
  <2>1. \A p : p \in S <=> p \in 0..n - 1 /\ t.node[p].key = k
    BY <1>1, SizeOf DEF NodesWith
  <2>2. PICK v : v = First(t, k, S)
    OBVIOUS
  <2>3. findindex(t, k) = IF v = Nil THEN Nil ELSE Len(t.array) + v + 1
    BY <1>1, <1>3, <2>2 DEF findindex, InArray
  <2> HIDE DEF S
  <2>4. CASE n = 0
    <3>1. v = Nil
      BY <1>1, <2>2, <2>4, SizeOf DEF First
    <3> QED
      BY <1>3, <2>3, <2>4, <3>1
  <2>5. CASE n > 0
    <3>1. PICK path, pos : /\ Paths(n, t.node, path, pos) /\ Homed(hash, n, t.node, path, pos)
                           /\ Freshest(n, t.node, pos)
      BY DEF Good, NodesOK
    <3> DEFINE m == Main(hash, n, k)
               A == Ahead(n, path, pos, S, m)
    <3>2. m \in 0..n - 1 /\ Meets(n, path, pos, S, m, v)
      BY <1>1, <2>2, <2>5, <3>1, FirstMeets
    <3>3. \A p \in 0..n - 1 : t.node[p].key = k => p \in A
      BY <1>1, <2>1, <3>1 DEF Ahead, Homed
    <3>4. A \subseteq S /\ A \subseteq 0..n - 1
      BY DEF Ahead
    <3>5. \/ v = Nil /\ A = {}
          \/ v \in A /\ \A q \in A : pos[q] <= pos[v]
      BY <3>2 DEF Meets
    <3> HIDE DEF m, A
    <3>6. Nil \notin 0..n - 1
      BY LuaTableAssumption
    <3>7. ASSUME NEW p \in 0..n - 1, Live(t.node, p, k) PROVE v = p
      <4>1. t.node[p].key = k /\ p \in A
        BY <3>3, <3>7 DEF Live
      <4>2. v \in 0..n - 1 /\ t.node[v].key = k /\ pos[p] <= pos[v]
        BY <2>1, <3>4, <3>5, <4>1
      <4>3. pos[v] <= pos[p]
        BY <1>1, <3>1, <3>7, <4>1, <4>2 DEF Freshest, Live
      <4>4. path[v] = path[p]
        BY <1>1, <3>1, <4>1, <4>2 DEF Homed
      <4>5. pos[v] \in Nat /\ pos[p] \in Nat
        BY <3>1, <4>2 DEF Paths
      <4>6. pos[v] = pos[p]
        BY <4>2, <4>3, <4>5
      <4> QED
        BY <3>1, <4>2, <4>4, <4>6 DEF Paths, OneEach
    <3>8. \/ v = Nil /\ \A p \in 0..n - 1 : t.node[p].key # k
          \/ v \in 0..n - 1 /\ t.node[v].key = k
      BY <2>1, <3>3, <3>4, <3>5
    <3>9. v \in 0..n - 1 => findindex(t, k) = Len(t.array) + v + 1
      BY <2>3, <3>6
    <3>10. v = Nil => findindex(t, k) = Nil
      BY <2>3
    <3> QED
      BY <1>3, <3>6, <3>7, <3>8, <3>9, <3>10
  <2> QED
    BY <1>1, <2>4, <2>5
<1> QED
  BY <1>2, <1>3

(* Where keys are found depends on the keys and the links alone. *)
LEMMA FindSame ==
  ASSUME NEW n, NEW t, Good(hash, n, t), NEW u, Good(hash, n, u), SameShape(n, t, u), NEW k \in Key
  PROVE  findindex(u, k) = findindex(t, k)
<1>1. n \in Nat /\ t \in Tables(n) /\ u \in Tables(n) /\ hash \in Hashes /\ k # Nil
      /\ t.array \in Seq(Value \cup {Nil}) /\ u.array \in Seq(Value \cup {Nil})
      /\ t.node \in [0..n - 1 -> Node] /\ u.node \in [0..n - 1 -> Node]
  BY LuaTableAssumption DEF Good, Key, Tables
<1>2. Len(u.array) = Len(t.array) /\ DOMAIN u.array = DOMAIN t.array
  BY <1>1 DEF SameShape
<1>3. \A p \in 0..n - 1 : u.node[p].key = t.node[p].key /\ u.node[p].next = t.node[p].next
  BY DEF SameShape
<1>4. CASE k \in DOMAIN t.array
  BY <1>2, <1>4, FindIs
<1>5. CASE k \notin DOMAIN t.array
  <2> DEFINE S == NodesWith(t, k)
  <2>1. NodesWith(u, k) = S
    BY <1>1, <1>3, SizeOf DEF NodesWith
  <2> HIDE DEF S
  <2>2. First(u, k, S) = First(t, k, S)
    <3>1. CASE n = 0
      BY <1>1, <3>1, SizeOf DEF First
    <3>2. CASE n > 0
      <4>1. PICK path, pos : Paths(n, t.node, path, pos)
        BY DEF Good, NodesOK
      <4>2. Linked(n, u.node, path, pos)
        BY <1>3, <4>1 DEF Paths, Linked
      <4>3. FreeAlone(n, u.node, path)
        BY <1>3, <4>1 DEF Paths, FreeAlone
      <4>4. Paths(n, u.node, path, pos)
        BY <4>1, <4>2, <4>3 DEF Paths
      <4>5. PICK m \in 0..n - 1 : m = Main(hash, n, k)
        BY <1>1, <3>2, MainRange
      <4>6. ASSUME NEW w \in Tables(n), Paths(n, w.node, path, pos)
            PROVE  Meets(n, path, pos, S, m, First(w, k, S))
        BY <1>1, <3>2, <4>5, <4>6, FirstMeets
      <4>7. Meets(n, path, pos, S, m, First(t, k, S)) /\ Meets(n, path, pos, S, m, First(u, k, S))
        BY <1>1, <4>1, <4>4, <4>6
      <4>8. PICK nd \in [0..n - 1 -> Node] : nd = t.node
        BY <1>1
      <4>9. Paths(n, nd, path, pos)
        BY <4>1, <4>8
      <4> QED
        BY <1>1, <4>7, <4>9, MeetsOne
    <3> QED
      BY <1>1, <3>1, <3>2
  <2> QED
    BY <1>1, <1>2, <1>5, <2>1, <2>2 DEF findindex, InArray, S
<1> QED
  BY <1>4, <1>5

(* The entry at an index, and the index of an entry. *)
LEMMA Indexed ==
  ASSUME NEW n, NEW t, Good(hash, n, t)
  PROVE  /\ Len(t.array) \in Nat /\ sizenode(t) = n /\ n \in Nat
         /\ \A k \in Key : findindex(t, k) \in (1..Len(t.array) + n) \cup {Nil}
         /\ \A k \in Key : Val(t, k) # Nil =>
              /\ findindex(t, k) \in 1..Len(t.array) + n /\ ValueAt(t, findindex(t, k)) # Nil
              /\ KeyAt(t, findindex(t, k)) = k
         /\ \A i \in 1..Len(t.array) + n : ValueAt(t, i) # Nil =>
              KeyAt(t, i) \in Key /\ findindex(t, KeyAt(t, i)) = i /\ Val(t, KeyAt(t, i)) # Nil
<1> DEFINE L == Len(t.array)
<1>1. n \in Nat /\ t \in Tables(n) /\ t.array \in Seq(Value \cup {Nil})
      /\ t.node \in [0..n - 1 -> Node] /\ Unique(n, t.node)
  BY DEF Good, Tables, NodesOK
<1>2. L \in Nat /\ DOMAIN t.array = 1..L /\ sizenode(t) = n
  BY <1>1, SizeOf
<1> HIDE DEF L
<1>3. \A p \in 0..n - 1 : L + p + 1 \in 1..L + n /\ ~(L + p + 1 <= L) /\ (L + p + 1) - L - 1 = p
  BY <1>1, <1>2
<1>4. \A i \in 1..L : i \in 1..L + n
  BY <1>1, <1>2
<1>5. ASSUME NEW k \in Key PROVE findindex(t, k) \in (1..L + n) \cup {Nil}
  <2>1. CASE k \in 1..L
    BY <1>2, <1>4, <2>1, FindIs
  <2>2. CASE k \notin 1..L
    <3>1. \/ findindex(t, k) = Nil
          \/ \E p \in 0..n - 1 : t.node[p].key = k /\ findindex(t, k) = L + p + 1
      BY <1>2, <2>2, FindIs DEF L
    <3> QED
      BY <1>3, <3>1
  <2> QED
    BY <2>1, <2>2
<1>6. ASSUME NEW k \in Key, Val(t, k) # Nil
      PROVE  /\ findindex(t, k) \in 1..L + n /\ ValueAt(t, findindex(t, k)) # Nil
             /\ KeyAt(t, findindex(t, k)) = k
  <2>1. CASE k \in 1..L
    <3>1. findindex(t, k) = k /\ t.array[k] # Nil /\ k <= L
      BY <1>2, <1>6, <2>1, FindIs, ValIs
    <3> QED
      BY <1>4, <2>1, <3>1 DEF ValueAt, KeyAt, L
  <2>2. CASE k \notin 1..L
    <3>1. PICK p \in 0..n - 1 : Live(t.node, p, k) /\ t.node[p].val # Nil
      BY <1>2, <1>6, <2>2, ValIs
    <3>2. findindex(t, k) = L + p + 1
      BY <1>2, <2>2, <3>1, FindIs DEF L
    <3> QED
      BY <1>3, <3>1, <3>2 DEF ValueAt, KeyAt, Live, L
  <2> QED
    BY <2>1, <2>2
<1>7. ASSUME NEW i \in 1..L + n, ValueAt(t, i) # Nil
      PROVE  KeyAt(t, i) \in Key /\ findindex(t, KeyAt(t, i)) = i /\ Val(t, KeyAt(t, i)) # Nil
  <2>1. CASE i <= L
    <3>1. i \in 1..L /\ KeyAt(t, i) = i /\ t.array[i] # Nil
      BY <1>1, <1>2, <1>7, <2>1 DEF KeyAt, ValueAt, L
    <3>2. i \in Key
      BY <1>2, <3>1 DEF Good
    <3> QED
      BY <1>2, <3>1, <3>2, FindIs, ValIs
  <2>2. CASE ~(i <= L)
    <3>1. PICK p \in 0..n - 1 : p = i - L - 1 /\ i = L + p + 1
      <4>1. i - L - 1 \in 0..n - 1 /\ i = L + (i - L - 1) + 1
        BY <1>1, <1>2, <2>2
      <4> QED
        BY <4>1
    <3>2. KeyAt(t, i) = t.node[p].key /\ t.node[p].val # Nil
      BY <1>7, <2>2, <3>1 DEF KeyAt, ValueAt, L
    <3>3. t.node[p].key \in Key /\ ~t.node[p].dead
      BY <1>1, <3>2 DEF Unique, Node
    <3>4. Live(t.node, p, t.node[p].key) /\ t.node[p].key \notin DOMAIN t.array
      BY <3>3 DEF Live, Good
    <3>5. findindex(t, t.node[p].key) = L + p + 1
      BY <3>3, <3>4, FindIs DEF L
    <3>6. Val(t, t.node[p].key) = t.node[p].val
      BY <3>3, <3>4, ValIs
    <3> QED
      BY <3>1, <3>2, <3>3, <3>5, <3>6
  <2> QED
    BY <2>1, <2>2
<1> QED
  BY <1>1, <1>2, <1>5, <1>6, <1>7 DEF L

-----------------------------------------------------------------------------
(* The invariant. *)

(* A traversal that stands at c: it has visited what was found up to there   *)
(* and nothing else.                                                         *)
Standing(t, c, s, f) ==
  /\ findindex(t, c) \in Nat
  /\ \A k \in s : findindex(t, k) \in Nat /\ findindex(t, k) <= findindex(t, c)
  /\ \A k \in Key : f[k] # Nil /\ findindex(t, k) <= findindex(t, c) => k \in s

SameMap(t, f) == f \in [Key -> Value \cup {Nil}] /\ \A k \in Key : Val(t, k) = f[k]

TableInv ==
  /\ \E n : Good(hash, n, table)
  /\ SameMap(table, map)
  /\ cursor \in Key \cup {Nil, Off} /\ seen \subseteq Key
  /\ cursor = Off => seen = {}
  /\ cursor # Off => Standing(table, cursor, seen, map)

(* Standing depends on the variables and the hashes alone. *)
LEMMA StandingPrimed ==
  ASSUME hash' = hash
  PROVE  Standing(table, cursor, seen, map)' <=> Standing(table', cursor', seen', map')
<1>1. \A c : First(table, c, NodesWith(table, c))' = First(table', c, NodesWith(table', c))
  BY DEF First, mainposition
<1>2. \A c : findindex(table, c)' = findindex(table', c)
  BY <1>1 DEF findindex
<1>3. findindex(table, cursor)' = findindex(table', cursor')
  BY <1>1 DEF findindex
<1> QED
  BY <1>2, <1>3 DEF Standing

(* The table Init gives, by luaH_new, has the invariant. *)
LEMMA InitInv == Init => TableInv
<1> SUFFICES ASSUME Init PROVE TableInv
  OBVIOUS
<1>1. hash \in Hashes /\ cursor = Off /\ seen = {} /\ map = [k \in Key |-> Nil]
  BY DEF Init, Hashes
<1>2. PICK narray, nhash \in Nat : table = luaH_new(narray, nhash)
  BY DEF Init
<1>3. PICK m \in Nat : Good(hash, m, table) /\ \A k \in Key : Val(table, k) = Nil
  BY <1>1, <1>2, NewTable
<1>4. SameMap(table, map)
  BY <1>1, <1>3 DEF SameMap
<1> QED
  BY <1>1, <1>3, <1>4 DEF TableInv

(* A step that leaves the shape of the table keeps the traversal's place.    *)
LEMMA StandingKept ==
  ASSUME NEW n, NEW t, Good(hash, n, t), NEW u, Good(hash, n, u), SameShape(n, t, u),
         NEW c \in Key \cup {Nil}, NEW s \in SUBSET Key, NEW f, NEW g,
         Standing(t, c, s, f), \A k \in Key : g[k] # Nil => f[k] # Nil
  PROVE  Standing(u, c, s, g)
<1>1. \A k \in Key : findindex(u, k) = findindex(t, k)
  BY FindSame
<1>2. findindex(u, c) = findindex(t, c)
  BY <1>1 DEF findindex
<1> QED
  BY <1>1, <1>2 DEF Standing

(* An assignment keeps the invariant: if it adds a key it ends the           *)
(* traversal.                                                                *)
LEMMA SetInv == ASSUME TableInv, NEW k \in Key, NEW v \in Value \cup {Nil}, Set(k, v) PROVE TableInv'
<1>1. PICK n : Good(hash, n, table)
  BY DEF TableInv
<1>2. hash' = hash /\ table' = luaH_set(table, k, v) /\ map' = [map EXCEPT ![k] = v]
  BY DEF Set
<1>3. SameMap(table, map) /\ map \in [Key -> Value \cup {Nil}]
  BY DEF TableInv, SameMap
<1>4. PICK m \in Nat : /\ Good(hash, m, table') /\ Val(table', k) = v
                       /\ \A j \in Key \ {k} : Val(table', j) = Val(table, j)
  BY <1>1, <1>2, SetWrites
<1>5. SameMap(table', map')
  BY <1>2, <1>3, <1>4 DEF SameMap
<1>6. Good(hash', m, table')
  BY <1>2, <1>4
<1>7. CASE luaH_get(table, k) = Nil
  <2>1. cursor' = Off /\ seen' = {}
    BY <1>7 DEF Set
  <2> QED
    BY <1>5, <1>6, <2>1 DEF TableInv
<1>8. CASE luaH_get(table, k) # Nil
  <2>1. cursor' = cursor /\ seen' = seen
    BY <1>8 DEF Set
  <2>2. InArray(table, k) \/ NodeOf(table, k) # Nil
    BY <1>8 DEF luaH_get
  <2>3. table' = Stored(table, k, v)
    BY <1>2, <2>2 DEF luaH_set
  <2>4. SameShape(n, table, table') /\ Good(hash, n, table')
    <3>1. Good(hash, n, table') /\ Len(table'.array) = Len(table.array)
      BY <1>1, <2>2, <2>3, StoredWrites DEF Writes
    <3>2. \A p \in 0..n - 1 : table'.node[p].key = table.node[p].key /\ table'.node[p].next = table.node[p].next
      <4>1. table \in Tables(n) /\ table.node \in [0..n - 1 -> Node]
        BY <1>1 DEF Good, Tables
      <4>2. CASE InArray(table, k)
        <5>1. table' = [table EXCEPT !.array[k] = v]
          BY <2>3, <4>2 DEF Stored
        <5> QED
          BY <4>1, <5>1 DEF Tables
      <4>3. CASE ~InArray(table, k)
        <5>1. PICK q : q = NodeOf(table, k)
          OBVIOUS
        <5>2. table' = [table EXCEPT !.node[q].val = v]
          BY <2>2, <2>3, <4>3, <5>1 DEF Stored
        <5>3. table'.node = [table.node EXCEPT ![q].val = v]
          BY <4>1, <5>2 DEF Tables
        <5> QED
          BY <4>1, <5>3 DEF Node
      <4> QED
        BY <4>2, <4>3
    <3> QED
      BY <3>1, <3>2 DEF SameShape
  <2>5. map[k] # Nil
    BY <1>1, <1>3, <1>8, GetIs DEF SameMap
  <2>6. \A j \in Key : map'[j] # Nil => map[j] # Nil
    BY <1>2, <1>3, <2>5
  <2>7. cursor # Off => Standing(table', cursor, seen, map')
    BY <1>1, <2>4, <2>6, StandingKept DEF TableInv
  <2> QED
    BY <1>2, <1>5, <1>6, <2>1, <2>7, StandingPrimed DEF TableInv
<1> QED
  BY <1>7, <1>8

(* luaH_resizearray keeps the invariant. *)
LEMMA ResizeInv == ASSUME TableInv, NEW n \in 1..MaxKey, luaH_resizearray(n) PROVE TableInv'
<1>1. PICK m : Good(hash, m, table)
  BY DEF TableInv
<1>2. /\ hash' = hash /\ cursor' = cursor /\ seen' = seen /\ map' = map /\ cursor = Off
      /\ table' = resize(table, n, sizenode(table)) /\ n > Len(table.array)
  BY DEF luaH_resizearray
<1>3. n \in Nat
  BY LuaTableAssumption
<1>4. PICK l \in Nat : Good(hash, l, table') /\ \A j \in Key : Val(table', j) = Val(table, j)
  BY <1>1, <1>2, <1>3, ArrayResized
<1>5. SameMap(table', map')
  BY <1>2, <1>4 DEF TableInv, SameMap
<1>6. Good(hash', l, table')
  BY <1>2, <1>4
<1> QED
  BY <1>2, <1>5, <1>6 DEF TableInv

(* The collector keeps the invariant: a key it marks dead still tells where  *)
(* the traversal stands.                                                     *)
LEMMA MarkInv == ASSUME TableInv, traversetable PROVE TableInv'
<1>1. PICK n : Good(hash, n, table)
  BY DEF TableInv
<1>2. hash' = hash /\ cursor' = cursor /\ seen' = seen /\ map' = map /\ table' = Marked(table)
  BY DEF traversetable, Marked
<1>3. /\ Good(hash, n, table') /\ SameShape(n, table, table')
      /\ \A k \in Key : Val(table', k) = Val(table, k)
  BY <1>1, <1>2, MarkedOK
<1>4. SameMap(table', map')
  BY <1>2, <1>3 DEF TableInv, SameMap
<1>5. cursor # Off => Standing(table', cursor, seen, map)
  BY <1>1, <1>3, StandingKept DEF TableInv
<1>6. Good(hash', n, table')
  BY <1>2, <1>3
<1> QED
  BY <1>2, <1>4, <1>5, <1>6, StandingPrimed DEF TableInv

(* The traversal may start at any time. *)
LEMMA StartInv == ASSUME TableInv, Start PROVE TableInv'
<1>1. cursor = Off /\ cursor' = Nil /\ table' = table /\ hash' = hash /\ seen' = seen /\ map' = map
  BY DEF Start
<1>2. PICK n : Good(hash, n, table)
  BY DEF TableInv
<1>3. Standing(table, Nil, {}, map)
  <2>1. findindex(table, Nil) = 0
    BY DEF findindex
  <2>2. ASSUME NEW k \in Key, map[k] # Nil PROVE ~(findindex(table, k) <= 0)
    <3>1. Val(table, k) # Nil
      BY <2>2 DEF TableInv, SameMap
    <3>2. findindex(table, k) \in 1..Len(table.array) + n /\ Len(table.array) + n \in Nat
      BY <1>2, <3>1, Indexed
    <3> QED
      BY <3>2
  <2> QED
    BY <2>1, <2>2 DEF Standing
<1>4. Nil # Off
  BY LuaTableAssumption
<1> QED
  BY <1>1, <1>2, <1>3, <1>4, StandingPrimed DEF TableInv, SameMap

(* A call of next: where the traversal goes. *)
NextVisits ==
  /\ cursor' # Invalid
  /\ cursor' \in Key => cursor' \notin seen
  /\ cursor' = Off => \A k \in Key : map[k] # Nil => k \in seen

(* A call of next finds its place, visits a key it has not visited or ends,  *)
(* and keeps the invariant.                                                  *)
LEMMA NextStep == ASSUME TableInv, luaH_next PROVE NextVisits /\ TableInv'
<1> DEFINE L == Later(table, cursor)
           at == findindex(table, cursor)
           i == Min(L)
           k == KeyAt(table, i)
<1>1. PICK n : Good(hash, n, table)
  BY DEF TableInv
<1>2. /\ cursor \in Key \cup {Nil} /\ table' = table /\ hash' = hash /\ map' = map
      /\ cursor' = IF at = Nil THEN Invalid ELSE IF L = {} THEN Off ELSE k
      /\ seen' = IF cursor' \in Key THEN seen \cup {k} ELSE {}
  BY DEF luaH_next
<1>3. Off \notin Key \cup {Nil} /\ Invalid \notin Key \cup {Nil, Off} /\ Nil \notin Int
  <2>1. \A x \in {Off, Invalid} : x \notin 1..MaxKey
    BY LuaTableAssumption
  <2> QED
    BY <2>1, LuaTableAssumption DEF Key
<1>4. Standing(table, cursor, seen, map) /\ SameMap(table, map) /\ seen \subseteq Key
  BY <1>2, <1>3 DEF TableInv
<1> DEFINE N == Len(table.array) + n
<1>5. at \in Nat /\ N \in Nat /\ L = {x \in at + 1..N : ValueAt(table, x) # Nil}
  <2>1. at \in Nat
    BY <1>4 DEF Standing
  <2>2. Len(table.array) \in Nat /\ sizenode(table) = n /\ n \in Nat
    BY <1>1, Indexed
  <2> QED
    BY <2>1, <2>2 DEF Later
<1>6. \A j \in Key : map[j] # Nil =>
        /\ findindex(table, j) \in 1..N /\ ValueAt(table, findindex(table, j)) # Nil
        /\ KeyAt(table, findindex(table, j)) = j
  BY <1>1, <1>4, Indexed DEF SameMap
<1>7. \A x \in 1..N : ValueAt(table, x) # Nil =>
        KeyAt(table, x) \in Key /\ findindex(table, KeyAt(table, x)) = x
  BY <1>1, Indexed
<1>8. ASSUME NEW j \in Key, map[j] # Nil PROVE findindex(table, j) <= at \/ findindex(table, j) \in L
  <2> HIDE DEF L, at, N
  <2>1. PICK x \in 1..N : x = findindex(table, j) /\ ValueAt(table, x) # Nil
    BY <1>6, <1>8
  <2> QED
    BY <1>5, <2>1
<1> HIDE DEF N, L, i, k
<1>9. CASE L = {}
  <2>1. cursor' = Off /\ seen' = {}
    BY <1>2, <1>3, <1>5, <1>9
  <2>2. \A j \in Key : map[j] # Nil => j \in seen
    BY <1>4, <1>8, <1>9 DEF Standing
  <2> QED
    BY <1>1, <1>2, <1>3, <1>4, <2>1, <2>2 DEF NextVisits, TableInv
<1>10. CASE L # {}
  <2>1. i \in L /\ \A x \in L : i <= x
    <3>1. L \in SUBSET Nat
      BY <1>5
    <3>2. \E x \in L : \A y \in L : x <= y
      BY <1>10, <3>1, LeastElement
    <3> QED
      BY <3>2 DEF Min, i
  <2>2. i \in 1..N /\ i > at /\ ValueAt(table, i) # Nil
    BY <1>5, <2>1
  <2>3. k \in Key /\ findindex(table, k) = i
    BY <1>7, <2>2 DEF k
  <2>4. cursor' = k /\ seen' = seen \cup {k}
    BY <1>2, <1>3, <1>5, <1>10, <2>3
  <2>5. k \notin seen
    <3> SUFFICES ASSUME k \in seen PROVE FALSE
      OBVIOUS
    <3>1. i <= at
      BY <1>4, <2>3 DEF Standing
    <3> QED
      BY <1>5, <2>2, <3>1
  <2>6. Standing(table, k, seen \cup {k}, map)
    <3>1. i \in Nat /\ at < i
      BY <1>5, <2>2
    <3>2. ASSUME NEW j \in seen PROVE findindex(table, j) \in Nat /\ findindex(table, j) <= i
      <4>1. findindex(table, j) \in Nat /\ findindex(table, j) <= at
        BY <1>4 DEF Standing
      <4> QED
        BY <1>5, <3>1, <4>1
    <3>3. ASSUME NEW j \in Key, map[j] # Nil, findindex(table, j) <= i PROVE j \in seen \cup {k}
      <4>1. CASE findindex(table, j) <= at
        BY <1>4, <3>3, <4>1 DEF Standing
      <4>2. CASE findindex(table, j) \in L
        <5>1. findindex(table, j) = i
          BY <1>5, <2>1, <3>1, <3>3, <4>2
        <5>2. j = k
          <6>1. KeyAt(table, findindex(table, j)) = j
            BY <1>6, <3>3
          <6> QED
            BY <5>1, <6>1 DEF k
        <5> QED
          BY <5>2
      <4> QED
        BY <1>8, <3>3, <4>1, <4>2
    <3> QED
      BY <2>3, <3>1, <3>2, <3>3 DEF Standing
  <2>7. k # Off /\ k # Invalid
    BY <1>3, <2>3
  <2>8. NextVisits
    BY <2>4, <2>5, <2>7 DEF NextVisits
  <2>9. Standing(table, cursor, seen, map)'
    BY <1>2, <2>4, <2>6, StandingPrimed
  <2>10. Good(hash', n, table')
    BY <1>1, <1>2
  <2>11. SameMap(table', map')
    BY <1>2, <1>4
  <2>12. cursor' \in Key /\ cursor' # Off /\ seen' \subseteq Key
    BY <1>4, <2>3, <2>4, <2>7
  <2>13. TableInv'
    BY <2>9, <2>10, <2>11, <2>12 DEF TableInv
  <2> QED
    BY <2>8, <2>13
<1> QED
  BY <1>9, <1>10

-----------------------------------------------------------------------------
(* The theorems. *)

(* A step that changes nothing keeps the invariant. *)
LEMMA UnchangedInv == ASSUME TableInv, UNCHANGED vars PROVE TableInv'
<1>1. table' = table /\ hash' = hash /\ cursor' = cursor /\ seen' = seen /\ map' = map
  BY DEF vars
<1>2. Standing(table, cursor, seen, map)' <=> Standing(table, cursor, seen, map)
  BY <1>1, StandingPrimed
<1> QED
  BY <1>1, <1>2 DEF TableInv, SameMap

(* The inductive invariant: the chains of the table are paths, every key is  *)
(* behind its main position on one of them, the table is the map that was    *)
(* assigned, and a traversal under way has visited what is before its place  *)
(* (newkey, resize, luaH_next).                                              *)
THEOREM TableInvHolds == Spec => []TableInv
<1>1. TableInv /\ [Next]_vars => TableInv'
  <2> SUFFICES ASSUME TableInv, [Next]_vars PROVE TableInv'
    OBVIOUS
  <2>1. ASSUME NEW k \in Key, NEW v \in Value \cup {Nil}, Set(k, v) PROVE TableInv'
    BY <2>1, SetInv
  <2>2. ASSUME NEW n \in 1..MaxKey, luaH_resizearray(n) PROVE TableInv'
    BY <2>2, ResizeInv
  <2>3. CASE traversetable
    BY <2>3, MarkInv
  <2>4. CASE Start
    BY <2>4, StartInv
  <2>5. CASE luaH_next
    BY <2>5, NextStep
  <2>6. CASE UNCHANGED vars
    BY <2>6, UnchangedInv
  <2> QED
    BY <2>1, <2>2, <2>3, <2>4, <2>5, <2>6 DEF Next
<1> QED
  BY InitInv, <1>1, PTL DEF Spec

(* For every set of keys, every size and all hashes: a look-up gives what    *)
(* was assigned last, through collisions, moved nodes and rehashes           *)
(* (luaH_get, luaH_set).                                                     *)
THEOREM MapHolds == Spec => []IsMap
<1>1. TableInv => IsMap
  <2> SUFFICES ASSUME TableInv, NEW k \in Key PROVE luaH_get(table, k) = map[k]
    BY DEF IsMap
  <2> QED
    BY GetIs DEF TableInv, SameMap
<1> QED
  BY <1>1, TableInvHolds, PTL

(* The main invariant of ltable.c, for all hashes: a node in the way of      *)
(* another key is in its own main position, and the chain from there leads   *)
(* to the key (newkey).                                                      *)
THEOREM MainPositionsHold == Spec => []MainPositions
<1>1. TableInv => MainPositions
  <2> SUFFICES ASSUME TableInv, NEW p \in UsedNodes(table), NEW k, k = table.node[p].key,
                      NEW m, m = mainposition(table, k)
               PROVE  /\ table.node[m].val # Nil => mainposition(table, table.node[m].key) = m
                      /\ NodeOf(table, k) = p
    BY DEF MainPositions
  <2>1. PICK n : Good(hash, n, table)
    BY DEF TableInv
  <2>2. /\ n \in Nat /\ table \in Tables(n) /\ Unique(n, table.node)
        /\ table.node \in [0..n - 1 -> Node] /\ DOMAIN table.node = 0..n - 1
        /\ \A j : mainposition(table, j) = Main(hash, n, j)
    BY <2>1, SizeOf DEF Good, NodesOK, Tables
  <2>3. p \in 0..n - 1 /\ table.node[p].val # Nil
    BY <2>2 DEF UsedNodes
  <2>4. k \in Key /\ k # Nil /\ Live(table.node, p, k)
    BY <2>2, <2>3, LuaTableAssumption DEF Unique, Node, Live, Key
  <2>5. Main(hash, n, table.node[m].key) = m
    BY <2>1, <2>2, <2>3, <2>4 DEF Good, NodesOK, Homed
  <2>6. NodeOf(table, k) = p
    <3>1. NodeOf(table, k) \in 0..n - 1 /\ Live(table.node, NodeOf(table, k), k)
      BY <2>1, <2>3, <2>4, NodeOfIs
    <3> QED
      BY <2>2, <2>3, <2>4, <3>1 DEF Unique, Live
  <2> QED
    BY <2>2, <2>5, <2>6
<1> QED
  BY <1>1, TableInvHolds, PTL

(* A traversal that changes and clears entries never fails, visits no key    *)
(* twice and ends when it has visited all that are left, whatever the        *)
(* collector marks dead (luaH_next, findindex).                              *)
THEOREM TraversedOnceHolds == Spec => TraversedOnce
<1>1. TableInv /\ [Next]_vars => [luaH_next => NextVisits]_vars
  BY NextStep
<1>2. [][luaH_next => NextVisits]_vars <=> TraversedOnce
  BY PTL DEF TraversedOnce, NextVisits
<1> QED
  BY <1>1, <1>2, TableInvHolds, PTL DEF Spec

(* Of the keys no more than m are among the first m integers. *)
LEMMA UpToBound ==
  ASSUME NEW S \in SUBSET (1..MaxKey), NEW m \in Nat, ~ \E i \in S : m \div 2 < i /\ i <= m
  PROVE  UpTo(S, m) <= m \div 2
<1> DEFINE T == {i \in S : i <= m}
<1>1. m \div 2 \in Nat
  OBVIOUS
<1>2. MaxKey \in Nat
  BY LuaTableAssumption
<1>3. T \in SUBSET (1..m \div 2)
  <2> SUFFICES ASSUME NEW i \in S, i <= m PROVE i \in 1..m \div 2
    OBVIOUS
  <2>1. i \in Int /\ i >= 1 /\ ~(m \div 2 < i)
    BY <1>2
  <2> QED
    BY <1>1, <2>1
<1>4. IsFiniteSet(1..m \div 2) /\ Cardinality(1..m \div 2) = m \div 2
  <2>1. PICK h \in Nat : h = m \div 2
    BY <1>1
  <2>2. IsFiniteSet(1..h) /\ Cardinality(1..h) = IF 1 > h THEN 0 ELSE h - 1 + 1
    BY FS_Interval
  <2> QED
    BY <2>1, <2>2
<1> HIDE DEF T
<1>5. Cardinality(T) <= m \div 2
  <2>1. PICK B : B = 1..m \div 2
    OBVIOUS
  <2>2. IsFiniteSet(B) /\ T \in SUBSET B
    BY <1>3, <1>4, <2>1
  <2>3. Cardinality(T) <= Cardinality(B)
    BY <2>2, FS_Subset
  <2> QED
    BY <1>4, <2>1, <2>3
<1> QED
  BY <1>5 DEF UpTo, T

(* Of the array part an assignment gives a table at least half is in use, of *)
(* no larger power of two more than half (computesizes, rehash).             *)
THEOREM ArraySizedHolds == Spec => ArraySized
<1> DEFINE A == Len(table.array) # Len(table'.array) /\ map # map' =>
       LET n == Len(table'.array)
           used == {i \in 1..MaxKey : map'[i] # Nil}
       IN /\ 2 * UpTo(used, n) >= n
          /\ \A m \in Sizes : m > n => UpTo(used, m) <= m \div 2
           Fits(l, used) == /\ 2 * UpTo(used, l) >= l
                            /\ \A m \in Sizes : m > l => UpTo(used, m) <= m \div 2
<1>1. TableInv /\ [Next]_vars => [A]_vars
  <2> SUFFICES ASSUME TableInv, Next, Len(table.array) # Len(table'.array), map # map',
                      NEW l, NEW used,
                      l = Len(table'.array) /\ used = {i \in 1..MaxKey : map'[i] # Nil}
               PROVE  Fits(l, used)
    BY DEF Fits
  <2>1. PICK k \in Key, v \in Value \cup {Nil} : Set(k, v)
    BY DEF Next, luaH_resizearray, traversetable, Start, luaH_next
  <2>2. table' = luaH_set(table, k, v) /\ map' = [map EXCEPT ![k] = v]
    BY <2>1 DEF Set
  <2>3. PICK n : Good(hash, n, table)
    BY DEF TableInv
  <2>4. l = computesizes(Ints(table, k)) /\ Val(table, k) = Nil
    BY <2>2, <2>3, SetWrites
  <2>5. v # Nil
    <3>1. map[k] = Nil /\ map \in [Key -> Value \cup {Nil}]
      BY <2>4 DEF TableInv, SameMap
    <3> QED
      BY <2>2, <3>1
  <2>6. used = Ints(table, k)
    <3>1. /\ Ints(table, k) \subseteq 1..MaxKey
          /\ \A i \in 1..MaxKey : i \in Ints(table, k) <=> Val(table, i) # Nil \/ i = k
      BY <2>3, IntsAre
    <3>2. map \in [Key -> Value \cup {Nil}] /\ \A i \in Key : Val(table, i) = map[i]
      BY DEF TableInv, SameMap
    <3>3. 1..MaxKey \subseteq Key
      BY DEF Key
    <3>4. \A i \in 1..MaxKey : map'[i] # Nil <=> i \in Ints(table, k)
      BY <2>2, <2>5, <3>1, <3>2, <3>3
    <3> QED
      BY <3>1, <3>4
  <2>7. used \in SUBSET (1..MaxKey)
    OBVIOUS
  <2>0. ASSUME NEW m \in Nat PROVE UpTo(used, m) \in Nat
    <3>1. MaxKey \in Int /\ 1 \in Int
      BY LuaTableAssumption
    <3>2. IsFiniteSet(1..MaxKey)
      BY <3>1, FS_Interval
    <3>3. {i \in used : i <= m} \in SUBSET (1..MaxKey)
      BY <2>7
    <3>4. IsFiniteSet({i \in used : i <= m})
      BY <3>2, <3>3, FS_Subset
    <3> QED
      BY <3>4, FS_CardinalityType DEF UpTo
  <2>8. /\ l \in Nat /\ (l # 0 => l \in Fitting(used))
        /\ \A m \in Fitting(used) : m <= l
    BY <2>4, <2>6, <2>7, SizeChosen
  <2>9. ASSUME NEW m \in Sizes, m > l PROVE UpTo(used, m) <= m \div 2
    <3>1. m \in Nat
      <4>1. MaxKey \in Nat
        BY LuaTableAssumption
      <4> QED
        BY <4>1, TwoToGrows DEF Sizes
    <3>2. m \notin Fitting(used)
      BY <2>8, <2>9, <3>1
    <3>3. CASE ~(\E i \in used : m \div 2 < i /\ i <= m)
      BY <2>7, <3>1, <3>3, UpToBound
    <3>4. CASE ~(UpTo(used, m) > m \div 2)
      BY <2>0, <3>1, <3>4
    <3> QED
      BY <3>2, <3>3, <3>4 DEF Fitting
  <2>10. 2 * UpTo(used, l) >= l
    <3>1. l \in Nat /\ UpTo(used, l) \in Nat
      BY <2>0, <2>8
    <3>2. CASE l = 0
      BY <3>1, <3>2
    <3>3. CASE l # 0
      <4>1. UpTo(used, l) > l \div 2
        BY <2>8, <3>3 DEF Fitting
      <4>2. \A a, b \in Nat : a > b \div 2 => 2 * a >= b
        OBVIOUS
      <4> QED
        BY <3>1, <4>1, <4>2
    <3> QED
      BY <3>2, <3>3
  <2> QED
    BY <2>9, <2>10 DEF Fits
<1>2. [][A]_vars <=> ArraySized
  BY PTL DEF ArraySized
<1> HIDE DEF A
<1> QED
  BY <1>1, <1>2, TableInvHolds, PTL DEF Spec

-----------------------------------------------------------------------------
(* Length. *)

(* The rounds of a loop, one by one. *)
RoundsOf(round, m, bounds, g) ==
  g = [s \in 0..m |-> IF s = 0 THEN bounds ELSE round[g[s - 1]]]

(* A loop has a result after every number of rounds. *)
LEMMA RoundsExist ==
  ASSUME NEW round, NEW bounds, NEW n \in Nat
  PROVE  \E g : RoundsOf(round, n, bounds, g)
<1> DEFINE S == {m \in Nat : \E g : RoundsOf(round, m, bounds, g)}
<1>1. 0 \in S
  <2> DEFINE g == [s \in 0..0 |-> bounds]
  <2>1. g = [s \in 0..0 |-> IF s = 0 THEN bounds ELSE round[g[s - 1]]]
    OBVIOUS
  <2> QED
    BY <2>1 DEF RoundsOf
<1>2. ASSUME NEW m \in Nat, m \in S PROVE m + 1 \in S
  <2>1. PICK g : RoundsOf(round, m, bounds, g)
    BY <1>2
  <2>2. g = [s \in 0..m |-> IF s = 0 THEN bounds ELSE round[g[s - 1]]]
    BY <2>1 DEF RoundsOf
  <2> DEFINE f == [s \in 0..m + 1 |-> IF s = m + 1 THEN round[g[m]] ELSE g[s]]
  <2>3. f[m + 1] = round[g[m]] /\ \A s \in 0..m : f[s] = g[s]
    OBVIOUS
  <2>4. \A s \in 0..m + 1 : f[s] = IF s = 0 THEN bounds ELSE round[f[s - 1]]
    <3> SUFFICES ASSUME NEW s \in 0..m + 1 PROVE f[s] = IF s = 0 THEN bounds ELSE round[f[s - 1]]
      OBVIOUS
    <3> HIDE DEF f
    <3>1. CASE s = m + 1
      <4>1. f[s - 1] = g[m] /\ s # 0
        BY <2>3, <3>1
      <4> QED
        BY <2>3, <3>1, <4>1
    <3>2. CASE s = 0
      BY <2>2, <2>3, <3>2
    <3>3. CASE s # 0 /\ s # m + 1
      <4>1. s \in 0..m /\ s - 1 \in 0..m
        BY <3>3
      <4> QED
        BY <2>2, <2>3, <3>3, <4>1
    <3> QED
      BY <3>1, <3>2, <3>3
  <2>5. f = [s \in 0..m + 1 |-> IF s = 0 THEN bounds ELSE round[f[s - 1]]]
    <3>1. f = [s \in 0..m + 1 |-> f[s]]
      OBVIOUS
    <3> HIDE DEF f
    <3> QED
      BY <2>4, <3>1
  <2>6. RoundsOf(round, m + 1, bounds, f)
    <3> HIDE DEF f
    <3> QED
      BY <2>5 DEF RoundsOf
  <2> HIDE DEF f
  <2> QED
    BY <2>6
<1>3. Nat \subseteq S
  <2> HIDE DEF S
  <2> QED
    BY <1>1, <1>2, SetInduction
<1> QED
  BY <1>3

(* A loop ends in a set of bounds that every round keeps to. *)
LEMMA RoundsKeep ==
  ASSUME NEW round, NEW n \in Nat, NEW bounds, NEW I,
         bounds \in I[0], \A s \in Nat : \A b \in I[s] : round[b] \in I[s + 1]
  PROVE  Rounds(round, n, bounds) \in I[n]
<1> DEFINE f == CHOOSE g : RoundsOf(round, n, bounds, g)
           S == {s \in Nat : s <= n => f[s] \in I[s]}
<1>1. Rounds(round, n, bounds) = f[n]
  BY DEF Rounds, RoundsOf
<1>2. f = [s \in 0..n |-> IF s = 0 THEN bounds ELSE round[f[s - 1]]]
  <2>1. \E g : RoundsOf(round, n, bounds, g)
    BY RoundsExist
  <2>2. RoundsOf(round, n, bounds, f)
    BY <2>1
  <2> HIDE DEF f
  <2> QED
    BY <2>2 DEF RoundsOf
<1> HIDE DEF f
<1>3. 0 \in S
  BY <1>2
<1>4. ASSUME NEW s \in Nat, s \in S PROVE s + 1 \in S
  <2> SUFFICES ASSUME s + 1 <= n PROVE f[s + 1] \in I[s + 1]
    OBVIOUS
  <2>1. f[s] \in I[s]
    BY <1>4
  <2>2. s + 1 \in 0..n /\ s + 1 # 0 /\ (s + 1) - 1 = s
    OBVIOUS
  <2>3. f[s + 1] = round[f[s]]
    BY <1>2, <2>2
  <2> QED
    BY <2>1, <2>3
<1>5. Nat \subseteq S
  <2> HIDE DEF S
  <2> QED
    BY <1>3, <1>4, SetInduction
<1> QED
  BY <1>1, <1>5

(* An integer that is no key has no value. *)
LEMMA GetInt ==
  ASSUME NEW n, NEW t, Good(hash, n, t), NEW j \in Nat \ {0}
  PROVE  /\ j <= MaxKey => j \in Key /\ luaH_get(t, j) = Val(t, j)
         /\ j > MaxKey => luaH_get(t, j) = Nil
<1>0. MaxKey \in Nat
  BY LuaTableAssumption
<1>1. CASE j <= MaxKey
  <2>1. j \in Key
    BY <1>0, <1>1 DEF Key
  <2> QED
    BY <1>0, <1>1, <2>1, GetIs
<1>2. CASE j > MaxKey
  <2>1. j \notin Key /\ j # Nil
    BY <1>0, <1>2, LuaTableAssumption DEF Key
  <2>2. CASE j \in DOMAIN t.array
    <3>1. t.array[j] = Nil
      BY <2>1, <2>2 DEF Good
    <3> QED
      BY <1>0, <1>2, <2>2, <3>1 DEF luaH_get, InArray
  <2>3. CASE j \notin DOMAIN t.array
    <3>1. n \in Nat /\ t \in Tables(n) /\ hash \in Hashes /\ t.node \in [0..n - 1 -> Node]
      BY DEF Good, Tables
    <3>2. \A p \in 0..n - 1 : t.node[p].key # j
      BY <2>1, <3>1 DEF Node
    <3> DEFINE S == {p \in NodesWith(t, j) : ~t.node[p].dead}
    <3>3. S = {}
      BY <3>1, <3>2, SizeOf DEF NodesWith
    <3> HIDE DEF S
    <3>4. First(t, j, S) = Nil
      <4>1. CASE n = 0
        BY <3>1, <4>1, SizeOf DEF First
      <4>2. CASE n > 0
        <5>1. PICK path, pos : Paths(n, t.node, path, pos)
          BY DEF Good, NodesOK
        <5>2. Meets(n, path, pos, S, Main(hash, n, j), First(t, j, S))
          BY <3>1, <4>2, <5>1, FirstMeets
        <5> QED
          BY <3>3, <5>2 DEF Meets, Ahead
      <4> QED
        BY <3>1, <4>1, <4>2
    <3>5. NodeOf(t, j) = Nil
      BY <3>4 DEF NodeOf, S
    <3> QED
      BY <1>0, <1>2, <2>3, <3>5 DEF luaH_get, InArray
  <2> QED
    BY <2>2, <2>3
<1> QED
  BY <1>0, <1>1, <1>2

(* i may be the length, if j = i + 1. *)
Bounds(t, i, j) ==
  i \in Nat /\ j \in Nat /\ i < j /\ (i = 0 \/ luaH_get(t, i) # Nil) /\ luaH_get(t, j) = Nil

(* Halving keeps a value, or 0, at its lower bound and nil at its upper one, *)
(* and has closed the gap when its rounds are over.                          *)
LEMMA BisectBorder ==
  ASSUME NEW t, NEW i, NEW j, Bounds(t, i, j)
  PROVE  Bounds(t, Bisect(t, i, j), Bisect(t, i, j) + 1)
<1> DEFINE I == [s \in Nat |-> {b \in Nat \X Nat :
                   Bounds(t, b[1], b[2]) /\ (b[2] - b[1] <= 1 \/ b[2] - b[1] <= (j - i) - s)}]
<1>1. i \in Nat /\ j \in Nat /\ i < j /\ j - i \in Nat
  BY DEF Bounds
<1>2. <<i, j>> \in I[0]
  BY <1>1
<1>3. ASSUME NEW s \in Nat, NEW b \in I[s] PROVE Halve(t)[b] \in I[s + 1]
  <2>1. PICK x, y \in Nat : b = <<x, y>>
    OBVIOUS
  <2>2. Bounds(t, x, y) /\ (y - x <= 1 \/ y - x <= (j - i) - s)
    BY <2>1
  <2>3. Halve(t)[b] = IF y - x <= 1 THEN b
                      ELSE IF luaH_get(t, (x + y) \div 2) = Nil THEN <<x, (x + y) \div 2>>
                           ELSE <<(x + y) \div 2, y>>
    BY <2>1 DEF Halve
  <2>4. CASE y - x <= 1
    BY <2>1, <2>2, <2>3, <2>4
  <2>5. CASE ~(y - x <= 1)
    <3>1. PICK m \in Nat : m = (x + y) \div 2
      OBVIOUS
    <3>2. x < m /\ m < y /\ y - m <= (y - x) - 1 /\ m - x <= (y - x) - 1
      BY <2>2, <2>5, <3>1 DEF Bounds
    <3>3. y - m <= (j - i) - (s + 1) /\ m - x <= (j - i) - (s + 1)
      BY <1>1, <2>2, <2>5, <3>2
    <3>4. CASE luaH_get(t, m) = Nil
      <4>1. Bounds(t, x, m)
        BY <2>2, <3>2, <3>4 DEF Bounds
      <4>2. Halve(t)[b] = <<x, m>>
        BY <2>3, <2>5, <3>1, <3>4
      <4> QED
        BY <3>3, <4>1, <4>2
    <3>5. CASE luaH_get(t, m) # Nil
      <4>1. Bounds(t, m, y)
        BY <2>2, <3>2, <3>5 DEF Bounds
      <4>2. Halve(t)[b] = <<m, y>>
        BY <2>3, <2>5, <3>1, <3>5
      <4> QED
        BY <3>3, <4>1, <4>2
    <3> QED
      BY <3>4, <3>5
  <2> QED
    BY <2>4, <2>5
<1> HIDE DEF I
<1>4. Rounds(Halve(t), j - i, <<i, j>>) \in I[j - i]
  BY <1>1, <1>2, <1>3, RoundsKeep
<1>5. PICK x, y \in Nat : Rounds(Halve(t), j - i, <<i, j>>) = <<x, y>> /\ Bounds(t, x, y) /\ y - x <= 1
  BY <1>1, <1>4 DEF I, Bounds
<1>6. Bisect(t, i, j) = x /\ y = x + 1
  BY <1>5 DEF Bisect, Bounds
<1> QED
  BY <1>5, <1>6

(* Doubling from the end of the array part finds a nil, or exceeds MAX_INT   *)
(* and counts on; halving then finds the border (unbound_search).            *)
LEMMA UnboundBorder ==
  ASSUME NEW n, NEW t, Good(hash, n, t), NEW i \in Nat, i = 0 \/ luaH_get(t, i) # Nil
  PROVE  Bounds(t, unbound_search(t, i), unbound_search(t, i) + 1)
<1> DEFINE I == [s \in Nat |-> {b \in Nat \X Nat :
                   /\ b[1] < b[2] /\ (b[1] = 0 \/ luaH_get(t, b[1]) # Nil)
                   /\ luaH_get(t, b[2]) = Nil \/ 2 * b[2] > MAX_INT \/ b[2] >= s + 1}]
<1>1. MaxKey \in Nat /\ MAX_INT \in Nat
  BY LuaTableAssumption
<1>2. <<i, i + 1>> \in I[0]
  OBVIOUS
<1>3. ASSUME NEW s \in Nat, NEW b \in I[s] PROVE Double(t)[b] \in I[s + 1]
  <2>1. PICK x, y \in Nat : b = <<x, y>>
    OBVIOUS
  <2>2. /\ x < y /\ (x = 0 \/ luaH_get(t, x) # Nil)
        /\ luaH_get(t, y) = Nil \/ 2 * y > MAX_INT \/ y >= s + 1
    BY <2>1
  <2>3. Double(t)[b] = IF luaH_get(t, y) = Nil \/ 2 * y > MAX_INT THEN b ELSE <<y, 2 * y>>
    BY <2>1 DEF Double
  <2>4. CASE luaH_get(t, y) = Nil \/ 2 * y > MAX_INT
    BY <2>1, <2>2, <2>3, <2>4
  <2>5. CASE ~(luaH_get(t, y) = Nil \/ 2 * y > MAX_INT)
    <3>1. PICK z \in Nat : z = 2 * y
      OBVIOUS
    <3>2. y < z /\ z >= s + 1 + 1 /\ luaH_get(t, y) # Nil
      BY <2>2, <2>5, <3>1
    <3>3. Double(t)[b] = <<y, z>>
      BY <2>3, <2>5, <3>1
    <3> QED
      BY <3>2, <3>3
  <2> QED
    BY <2>4, <2>5
<1> HIDE DEF I
<1> DEFINE b == Rounds(Double(t), MaxKey + 1, <<i, i + 1>>)
<1>4. b \in I[MaxKey + 1]
  BY <1>1, <1>2, <1>3, RoundsKeep
<1>5. PICK x, y \in Nat :
        /\ b = <<x, y>> /\ x < y /\ (x = 0 \/ luaH_get(t, x) # Nil)
        /\ luaH_get(t, y) = Nil \/ 2 * y > MAX_INT \/ y >= MaxKey + 1 + 1
  BY <1>1, <1>4 DEF I
<1> HIDE DEF b
<1>6. unbound_search(t, i) = IF luaH_get(t, y) = Nil THEN Bisect(t, x, y)
                             ELSE Min({m \in 1..MaxKey + 1 : luaH_get(t, m) = Nil}) - 1
  BY <1>5 DEF unbound_search, b
<1>7. CASE luaH_get(t, y) = Nil
  <2>1. Bounds(t, x, y)
    BY <1>5, <1>7 DEF Bounds
  <2> QED
    BY <1>6, <1>7, <2>1, BisectBorder
<1>8. CASE luaH_get(t, y) # Nil
  <2> DEFINE S == {m \in 1..MaxKey + 1 : luaH_get(t, m) = Nil}
  <2>1. MaxKey + 1 \in S
    <3>1. luaH_get(t, MaxKey + 1) = Nil
      BY <1>1, GetInt
    <3> QED
      BY <1>1, <3>1
  <2>2. S \in SUBSET Nat
    BY <1>1
  <2>3. \E m \in S : \A k \in S : m <= k
    BY <2>1, <2>2, LeastElement
  <2>4. PICK m \in S : m = Min(S) /\ \A k \in S : m <= k
    BY <2>3 DEF Min
  <2>5. m \in 1..MaxKey + 1 /\ luaH_get(t, m) = Nil
    OBVIOUS
  <2>6. m - 1 \in Nat /\ (m - 1 = 0 \/ luaH_get(t, m - 1) # Nil)
    <3>1. m - 1 \notin S
      BY <1>1, <2>4
    <3> QED
      BY <1>1, <2>5, <3>1
  <2>7. unbound_search(t, i) = m - 1
    BY <1>6, <1>8, <2>4
  <2> HIDE DEF S
  <2> QED
    BY <1>1, <2>5, <2>6, <2>7 DEF Bounds
<1> QED
  BY <1>7, <1>8

(* The length of a table is a border, whichever part it is in (luaH_getn). *)
LEMMA LengthBorder ==
  ASSUME NEW n, NEW t, Good(hash, n, t)
  PROVE  Bounds(t, luaH_getn(t), luaH_getn(t) + 1)
<1> DEFINE L == Len(t.array)
<1>1. n \in Nat /\ t \in Tables(n) /\ t.array \in Seq(Value \cup {Nil})
  BY DEF Good, Tables
<1>2. L \in Nat /\ DOMAIN t.array = 1..L /\ sizenode(t) = n
  BY <1>1, SizeOf
<1> HIDE DEF L
<1>3. L > 0 => luaH_get(t, L) = t.array[L]
  BY <1>2 DEF luaH_get, InArray
<1>4. CASE L > 0 /\ t.array[L] = Nil
  <2>1. Bounds(t, 0, L)
    BY <1>2, <1>3, <1>4 DEF Bounds
  <2>2. luaH_getn(t) = Bisect(t, 0, L)
    BY <1>4 DEF luaH_getn, L
  <2> QED
    BY <2>1, <2>2, BisectBorder
<1>5. CASE ~(L > 0 /\ t.array[L] = Nil) /\ n = 0
  <2>1. luaH_getn(t) = L
    BY <1>2, <1>5 DEF luaH_getn, L
  <2>2. NodeOf(t, L + 1) = Nil
    BY <1>2, <1>5 DEF NodeOf, First
  <2>3. luaH_get(t, L + 1) = Nil
    BY <1>2, <2>2 DEF luaH_get, InArray
  <2> QED
    BY <1>2, <1>3, <1>5, <2>1, <2>3 DEF Bounds
<1>6. CASE ~(L > 0 /\ t.array[L] = Nil) /\ n # 0
  <2>1. luaH_getn(t) = unbound_search(t, L)
    BY <1>2, <1>6 DEF luaH_getn, L
  <2>2. L = 0 \/ luaH_get(t, L) # Nil
    BY <1>2, <1>3, <1>6
  <2> QED
    BY <1>2, <2>1, <2>2, UnboundBorder
<1> QED
  BY <1>4, <1>5, <1>6

(* The length operator gives a border of the map that was assigned: a value  *)
(* at it, or 0, and nil after it (luaH_getn).                                *)
THEOREM LengthHolds == Spec => []LengthIsBorder
<1>1. TableInv => LengthIsBorder
  <2> SUFFICES ASSUME TableInv, NEW r, r = luaH_getn(table)
               PROVE  (r = 0 \/ map[r] # Nil) /\ (r < MaxKey => map[r + 1] = Nil)
    BY DEF LengthIsBorder
  <2>1. PICK n : Good(hash, n, table)
    BY DEF TableInv
  <2>2. Bounds(table, r, r + 1)
    BY <2>1, LengthBorder
  <2>3. r \in Nat /\ (r = 0 \/ luaH_get(table, r) # Nil) /\ luaH_get(table, r + 1) = Nil
    BY <2>2 DEF Bounds
  <2>4. \A k \in Key : Val(table, k) = map[k]
    BY DEF TableInv, SameMap
  <2>5. MaxKey \in Nat
    BY LuaTableAssumption
  <2>6. r = 0 \/ map[r] # Nil
    <3>1. CASE r # 0
      <4>1. r \in Key /\ luaH_get(table, r) = Val(table, r)
        BY <2>1, <2>3, <2>5, <3>1, GetInt
      <4> QED
        BY <2>3, <2>4, <3>1, <4>1
    <3> QED
      BY <3>1
  <2>7. ASSUME r < MaxKey PROVE map[r + 1] = Nil
    <3>1. r + 1 \in Nat \ {0} /\ r + 1 <= MaxKey
      BY <2>3, <2>5, <2>7
    <3>2. r + 1 \in Key /\ luaH_get(table, r + 1) = Val(table, r + 1)
      BY <2>1, <3>1, GetInt
    <3> QED
      BY <2>3, <2>4, <3>2
  <2> QED
    BY <2>6, <2>7
<1> QED
  BY <1>1, TableInvHolds, PTL
=============================================================================
