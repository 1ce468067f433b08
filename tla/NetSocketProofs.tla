--------------------------- MODULE NetSocketProofs ---------------------------
(* Proofs about NetSocket: whatever handlers and other threads do to the     *)
(* handler table while Listener walks it, for any number of threads, nested  *)
(* calls and registrations, a dispatch calls in the order of registration    *)
(* and misses a handler only after a removal.                                *)
EXTENDS NetSocket, SequenceTheorems, TLAPS

Registration == [fn : Function, id : 1..MaxReg]

Loop == {"check", "fetch", "handler"}
Pc == {"malloc", "alloc", "recv", "free", "freeing"} \cup Loop

Frame ==
  [pc : Pc, i : 0..MaxReg, loop : BOOLEAN, due : SUBSET (1..MaxReg),
   calls : Seq(1..MaxReg), cut : BOOLEAN]

(* The entries a dispatch in its loop is done with. *)
Served(f) == IF f.pc = "handler" THEN f.i + 1 ELSE f.i

(* The vector keeps the order of registration; r registrations were made.    *)
VectorOK(hs, r) ==
  /\ hs \in Seq(Registration)
  /\ Len(hs) <= r
  /\ \A k \in 1..Len(hs) : hs[k].id <= r
  /\ \A j, k \in 1..Len(hs) : j < k => hs[j].id < hs[k].id

InOrder(calls) == \A a, b \in 1..Len(calls) : a < b => calls[a] < calls[b]

(* Every call made is older than every entry still to be visited. *)
Ahead(f, hs) ==
  f.pc \in Loop =>
    \A k \in 1..Len(hs) : k > Served(f) => \A a \in 1..Len(f.calls) : f.calls[a] < hs[k].id

(* Unless something was removed, what was due has been called or lies ahead. *)
Covered(f, hs) ==
  ~f.cut =>
    /\ f.pc \in Loop =>
         \A d \in f.due : \/ \E a \in 1..Len(f.calls) : f.calls[a] = d
                          \/ \E k \in 1..Len(hs) : k > Served(f) /\ hs[k].id = d
    /\ f.pc = "fetch" => f.i < Len(hs)
    /\ f.pc \notin Loop => \A d \in f.due : \E a \in 1..Len(f.calls) : f.calls[a] = d

Sound(f, hs, r) ==
  /\ f \in Frame
  /\ f.pc \in {"fetch", "handler"} => f.i < MaxReg
  /\ f.pc \in {"malloc", "alloc", "recv"} => f.i = 0 /\ f.calls = <<>> /\ f.due = {}
  /\ InOrder(f.calls)
  /\ \A a \in 1..Len(f.calls) : f.calls[a] <= r
  /\ Ahead(f, hs)
  /\ Covered(f, hs)

FramesOK(fr, hs, r) ==
  /\ fr \in [Thread -> Seq(Frame)]
  /\ \A t \in Thread : \A k \in 1..Len(fr[t]) : Sound(fr[t][k], hs, r)

Half == SecondHalf \cup {None}

RestOK ==
  /\ socketUserdata \in [Function -> 0..MaxReg]
  /\ listenThread \in Listener \cup {None, Pseudo, Garbage}
  /\ life \in [Thread -> {"unborn", "alive", "killed"}]
  /\ suspended \in [Thread -> Nat] /\ \A t \in Thread : suspended[t] <= ops
  /\ pending \in [Thread -> Half]
  /\ heap \in Thread \cup {None}
  /\ live \in BOOLEAN /\ fault \in BOOLEAN
  /\ inbox \in Seq(BOOLEAN)
  /\ regs \in 0..MaxReg /\ ops \in 0..MaxOps

IInv ==
  RestOK /\ VectorOK(socketHandlers, regs) /\ FramesOK(frames, socketHandlers, regs)

-----------------------------------------------------------------------------
LEMMA Typed ==
  ASSUME NEW S, NEW s \in Seq(S)
  PROVE  Len(s) \in Nat /\ \A k \in 1..Len(s) : s[k] \in S
  OBVIOUS

LEMMA FrontElements ==
  ASSUME NEW S, NEW s \in Seq(S), s # <<>>
  PROVE  /\ Front(s) \in Seq(S) /\ Len(Front(s)) = Len(s) - 1
         /\ \A k \in 1..Len(s) - 1 : Front(s)[k] = s[k]
<1>1. Len(s) \in 1..Len(s)
  BY EmptySeq
<1>2. ASSUME NEW i \in 1..Len(s)
      PROVE  /\ SubSeq(s, 1, i - 1) \in Seq(S) /\ Len(SubSeq(s, 1, i - 1)) = i - 1
             /\ \A k \in 1..i - 1 : SubSeq(s, 1, i - 1)[k] = s[k]
  OBVIOUS
<1> QED
  BY <1>1, <1>2 DEF Front

LEMMA Elements ==
  ASSUME NEW hs \in Seq(Registration)
  PROVE  /\ Len(hs) \in Nat
         /\ \A k \in 1..Len(hs) : hs[k] \in Registration /\ hs[k].id \in Int
<1>1. \A e \in Registration : e.id \in Int
  BY NetSocketAssumption DEF Registration
<1>2. Len(hs) \in Nat /\ \A k \in 1..Len(hs) : hs[k] \in Registration
  OBVIOUS
<1> QED
  BY <1>1, <1>2

LEMMA FrameFields ==
  ASSUME NEW f \in Frame
  PROVE  /\ f.pc \in Pc /\ f.i \in Nat /\ f.i <= MaxReg
         /\ Served(f) \in Nat
         /\ f.due \subseteq 1..MaxReg /\ f.cut \in BOOLEAN /\ f.loop \in BOOLEAN
         /\ f.calls \in Seq(1..MaxReg) /\ Len(f.calls) \in Nat
         /\ \A a \in 1..Len(f.calls) : f.calls[a] \in Int
<1>1. /\ f.pc \in Pc /\ f.i \in 0..MaxReg /\ f.due \subseteq 1..MaxReg
      /\ f.cut \in BOOLEAN /\ f.loop \in BOOLEAN /\ f.calls \in Seq(1..MaxReg)
  BY DEF Frame
<1>2. f.i \in Nat /\ f.i <= MaxReg /\ Served(f) \in Nat
  BY <1>1, NetSocketAssumption DEF Served
<1>3. Len(f.calls) \in Nat /\ \A a \in 1..Len(f.calls) : f.calls[a] \in 1..MaxReg
  BY <1>1, Typed
<1>4. \A n \in 1..MaxReg : n \in Int
  OBVIOUS
<1> QED
  BY <1>1, <1>2, <1>3, <1>4

LEMMA RemoveAtElements ==
  ASSUME NEW S, NEW s \in Seq(S), NEW i \in 1..Len(s)
  PROVE  /\ RemoveAt(s, i) \in Seq(S)
         /\ Len(RemoveAt(s, i)) = Len(s) - 1
         /\ \A k \in 1..Len(s) - 1 : RemoveAt(s, i)[k] = IF k < i THEN s[k] ELSE s[k + 1]
<1> DEFINE p == SubSeq(s, 1, i - 1)
           q == SubSeq(s, i + 1, Len(s))
<1>1. /\ p \in Seq(S) /\ Len(p) = i - 1
      /\ \A k \in 1..i - 1 : p[k] = s[k]
  OBVIOUS
<1>2. /\ q \in Seq(S) /\ Len(q) = Len(s) - i
      /\ \A k \in 1..Len(s) - i : q[k] = s[k + i]
  OBVIOUS
<1>3. RemoveAt(s, i) = p \o q
  BY DEF RemoveAt
<1> HIDE DEF p, q
<1>4. /\ p \o q \in Seq(S)
      /\ Len(p \o q) = Len(p) + Len(q)
      /\ \A k \in 1..Len(p) + Len(q) :
           (p \o q)[k] = IF k <= Len(p) THEN p[k] ELSE q[k - Len(p)]
  BY <1>1, <1>2, ConcatProperties, Zenon
<1>5. ASSUME NEW k \in 1..Len(s) - 1
      PROVE  (p \o q)[k] = IF k < i THEN s[k] ELSE s[k + 1]
  <2>1. CASE k < i
    BY <2>1, <1>1, <1>2, <1>4
  <2>2. CASE k >= i
    <3>0. Len(p) + Len(q) = Len(s) - 1 /\ Len(p) = i - 1
      BY <1>1, <1>2
    <3>1. (p \o q)[k] = q[k - (i - 1)]
      BY <2>2, <3>0, <1>4
    <3>2. k - (i - 1) \in 1..Len(s) - i
      BY <2>2
    <3>3. q[k - (i - 1)] = s[(k - (i - 1)) + i]
      BY <3>2, <1>2
    <3> QED
      BY <2>2, <3>1, <3>3
  <2>3. k < i \/ k >= i
    OBVIOUS
  <2> QED
    BY <2>1, <2>2, <2>3
<1> QED
  BY <1>1, <1>2, <1>3, <1>4, <1>5

(* The vector after push_back. *)
LEMMA VectorAppend ==
  ASSUME NEW hs, NEW r \in Nat, VectorOK(hs, r), r < MaxReg, NEW fn \in Function
  PROVE  VectorOK(Append(hs, [fn |-> fn, id |-> r + 1]), r + 1)
<1> DEFINE e == [fn |-> fn, id |-> r + 1]
<1>1. e \in Registration /\ e.id = r + 1
  BY NetSocketAssumption DEF Registration
<1>2. hs \in Seq(Registration) /\ \A k \in 1..Len(hs) : hs[k].id \in Int
  BY Elements DEF VectorOK
<1> HIDE DEF e
<1>3. /\ Append(hs, e) \in Seq(Registration)
      /\ Len(Append(hs, e)) = Len(hs) + 1
      /\ \A k \in 1..Len(hs) : Append(hs, e)[k] = hs[k]
      /\ Append(hs, e)[Len(hs) + 1] = e
  BY <1>1, <1>2, AppendProperties
<1>4. VectorOK(Append(hs, e), r + 1)
  BY <1>1, <1>2, <1>3 DEF VectorOK
<1> QED
  BY <1>4 DEF e

LEMMA VectorRemove ==
  ASSUME NEW hs, NEW r \in Nat, VectorOK(hs, r), NEW i \in 1..Len(hs)
  PROVE  VectorOK(RemoveAt(hs, i), r)
<1>1. hs \in Seq(Registration) /\ Len(hs) \in Nat /\ \A k \in 1..Len(hs) : hs[k].id \in Int
  BY Elements DEF VectorOK
<1>2. /\ RemoveAt(hs, i) \in Seq(Registration)
      /\ Len(RemoveAt(hs, i)) = Len(hs) - 1
      /\ \A k \in 1..Len(hs) - 1 : RemoveAt(hs, i)[k] = IF k < i THEN hs[k] ELSE hs[k + 1]
  BY <1>1, RemoveAtElements
<1> DEFINE gs == RemoveAt(hs, i)
<1> HIDE DEF gs
<1>3. /\ \A k \in 1..Len(hs) : hs[k].id <= r
      /\ \A j, k \in 1..Len(hs) : j < k => hs[j].id < hs[k].id
      /\ Len(hs) <= r
  BY DEF VectorOK
<1>4. \A k \in 1..Len(gs) :
        \E n \in 1..Len(hs) : gs[k] = hs[n] /\ n = IF k < i THEN k ELSE k + 1
  BY <1>1, <1>2 DEF gs
<1>5. /\ \A k \in 1..Len(gs) : gs[k].id <= r
      /\ Len(gs) <= r
  BY <1>1, <1>2, <1>3, <1>4 DEF gs
<1>6. ASSUME NEW j \in 1..Len(gs), NEW k \in 1..Len(gs), j < k
      PROVE  gs[j].id < gs[k].id
  BY <1>1, <1>3, <1>4, <1>6
<1>7. VectorOK(gs, r)
  BY <1>2, <1>5, <1>6 DEF VectorOK, gs
<1> QED
  BY <1>7 DEF gs

-----------------------------------------------------------------------------
(* A dispatch under way stays sound when a handler is registered, ...        *)
LEMMA SoundAppend ==
  ASSUME NEW f, NEW hs, NEW r \in Nat, VectorOK(hs, r), Sound(f, hs, r),
         NEW e \in Registration, e.id = r + 1
  PROVE  Sound(f, Append(hs, e), r + 1)
<1>1. hs \in Seq(Registration) /\ Len(hs) \in Nat
  BY DEF VectorOK
<1>2. /\ Len(Append(hs, e)) = Len(hs) + 1
      /\ \A k \in 1..Len(hs) : Append(hs, e)[k] = hs[k]
      /\ Append(hs, e)[Len(hs) + 1] = e
  BY <1>1, AppendProperties
<1>3. f \in Frame /\ Len(f.calls) \in Nat /\ \A a \in 1..Len(f.calls) : f.calls[a] \in Int
  BY FrameFields DEF Sound
<1>4. Ahead(f, Append(hs, e))
  BY <1>1, <1>2, <1>3 DEF Sound, Ahead
<1>5. Covered(f, Append(hs, e))
  <2>1. \A d : (\E k \in 1..Len(hs) : k > Served(f) /\ hs[k].id = d)
               => \E k \in 1..Len(Append(hs, e)) : k > Served(f) /\ Append(hs, e)[k].id = d
    BY <1>1, <1>2
  <2>2. f.i < Len(hs) => f.i < Len(Append(hs, e))
    BY <1>1, <1>2, <1>3 DEF Frame
  <2> QED
    BY <2>1, <2>2 DEF Sound, Covered
<1> QED
  BY <1>3, <1>4, <1>5 DEF Sound

(* ... and, marked as cut, when one is removed anywhere or all are. *)
LEMMA SoundCut ==
  ASSUME NEW f, NEW hs, NEW r, Sound(f, hs, r), NEW gs,
         \A k \in 1..Len(gs) : k > Served(f) =>
            \E j \in 1..Len(hs) : j > Served(f) /\ gs[k] = hs[j]
  PROVE  Sound([f EXCEPT !.cut = TRUE], gs, r)
<1> DEFINE g == [f EXCEPT !.cut = TRUE]
<1>1. f \in Frame
  BY DEF Sound
<1>2. /\ g \in Frame /\ g.pc = f.pc /\ g.i = f.i /\ g.due = f.due
      /\ g.calls = f.calls /\ g.cut = TRUE
  BY <1>1 DEF Frame
<1> HIDE DEF g
<1>3. Served(g) = Served(f)
  BY <1>2 DEF Served
<1>4. Ahead(g, gs)
  BY <1>2, <1>3 DEF Sound, Ahead
<1>5. Covered(g, gs)
  BY <1>2 DEF Covered
<1>6. Sound(g, gs, r)
  BY <1>2, <1>4, <1>5 DEF Sound
<1> QED
  BY <1>6 DEF g

CutFrames(fr) == [t \in Thread |-> [k \in DOMAIN fr[t] |-> [fr[t][k] EXCEPT !.cut = TRUE]]]

LEMMA FramesCut ==
  ASSUME NEW fr, NEW hs, NEW r, FramesOK(fr, hs, r), NEW gs,
         \A n \in Nat : \A k \in 1..Len(gs) : k > n =>
            \E j \in 1..Len(hs) : j > n /\ gs[k] = hs[j]
  PROVE  FramesOK(CutFrames(fr), gs, r)
<1>1. ASSUME NEW t \in Thread
      PROVE  /\ CutFrames(fr)[t] \in Seq(Frame)
             /\ \A k \in 1..Len(CutFrames(fr)[t]) : Sound(CutFrames(fr)[t][k], gs, r)
  <2> DEFINE s == fr[t]
             c == [k \in DOMAIN s |-> [s[k] EXCEPT !.cut = TRUE]]
  <2>1. s \in Seq(Frame) /\ \A k \in 1..Len(s) : Sound(s[k], hs, r)
    BY DEF FramesOK
  <2>2. CutFrames(fr)[t] = c
    BY DEF CutFrames
  <2> HIDE DEF s
  <2>3. DOMAIN s = 1..Len(s) /\ Len(s) \in Nat
    BY <2>1
  <2>4. ASSUME NEW k \in 1..Len(s)
        PROVE  Sound([s[k] EXCEPT !.cut = TRUE], gs, r)
    <3>1. Sound(s[k], hs, r) /\ s[k] \in Frame
      BY <2>1 DEF Sound
    <3>2. Served(s[k]) \in Nat
      BY <3>1, NetSocketAssumption DEF Served, Frame
    <3> QED
      BY <3>1, <3>2, SoundCut
  <2>5. \A k \in 1..Len(s) : [s[k] EXCEPT !.cut = TRUE] \in Frame
    BY <2>4 DEF Sound
  <2>6. c \in [1..Len(s) -> Frame] /\ \A k \in 1..Len(s) : c[k] = [s[k] EXCEPT !.cut = TRUE]
    BY <2>3, <2>5
  <2>7. c \in Seq(Frame) /\ Len(c) = Len(s)
    BY <2>3, <2>6
  <2> QED
    BY <2>2, <2>4, <2>6, <2>7
<1>2. CutFrames(fr) \in [Thread -> Seq(Frame)]
  BY <1>1 DEF CutFrames
<1> QED
  BY <1>1, <1>2 DEF FramesOK

-----------------------------------------------------------------------------
(* The frames of one thread replaced, the others as they were. *)
LEMMA FramesReplaced ==
  ASSUME NEW fr, NEW hs, NEW r, FramesOK(fr, hs, r), NEW t \in Thread,
         NEW s \in Seq(Frame), \A k \in 1..Len(s) : Sound(s[k], hs, r)
  PROVE  FramesOK([fr EXCEPT ![t] = s], hs, r)
<1> DEFINE g == [fr EXCEPT ![t] = s]
<1>1. g \in [Thread -> Seq(Frame)]
  BY DEF FramesOK
<1>2. \A u \in Thread : g[u] = IF u = t THEN s ELSE fr[u]
  BY DEF FramesOK
<1> HIDE DEF g
<1>3. ASSUME NEW u \in Thread, NEW k \in 1..Len(g[u])
      PROVE  Sound(g[u][k], hs, r)
  BY <1>2 DEF FramesOK
<1>4. FramesOK(g, hs, r)
  BY <1>1, <1>3 DEF FramesOK
<1> QED
  BY <1>4 DEF g

LEMMA TopReplaced ==
  ASSUME NEW fr, NEW hs, NEW r, FramesOK(fr, hs, r), NEW t \in Thread, fr[t] # <<>>,
         NEW g, Sound(g, hs, r)
  PROVE  FramesOK([fr EXCEPT ![t][Len(fr[t])] = g], hs, r)
<1> DEFINE s == fr[t]
           n == Len(s)
<1>1. s \in Seq(Frame) /\ \A k \in 1..Len(s) : Sound(s[k], hs, r)
  BY DEF FramesOK
<1>2. g \in Frame
  BY DEF Sound
<1>3. n \in 1..Len(s)
  BY <1>1, EmptySeq
<1>4. /\ [s EXCEPT ![n] = g] \in Seq(Frame)
      /\ Len([s EXCEPT ![n] = g]) = Len(s)
      /\ \A k \in 1..Len(s) : [s EXCEPT ![n] = g][k] = IF k = n THEN g ELSE s[k]
  <2> HIDE DEF s, n
  <2> QED
    BY <1>1, <1>2, <1>3, ExceptSeq
<1>5. \A k \in 1..Len([s EXCEPT ![n] = g]) : Sound([s EXCEPT ![n] = g][k], hs, r)
  BY <1>1, <1>4
<1>6. FramesOK([fr EXCEPT ![t] = [s EXCEPT ![n] = g]], hs, r)
  BY <1>4, <1>5, FramesReplaced
<1>7. [fr EXCEPT ![t][n] = g] = [fr EXCEPT ![t] = [s EXCEPT ![n] = g]]
  OBVIOUS
<1> QED
  BY <1>6, <1>7

LEMMA TopPushed ==
  ASSUME NEW fr, NEW hs, NEW r, FramesOK(fr, hs, r), NEW t \in Thread,
         NEW g, Sound(g, hs, r)
  PROVE  FramesOK([fr EXCEPT ![t] = Append(@, g)], hs, r)
<1> DEFINE s == fr[t]
<1>1. s \in Seq(Frame) /\ Len(s) \in Nat /\ \A k \in 1..Len(s) : Sound(s[k], hs, r)
  BY Typed DEF FramesOK
<1>2. g \in Frame
  BY DEF Sound
<1> HIDE DEF s
<1>3. /\ Append(s, g) \in Seq(Frame) /\ Len(Append(s, g)) = Len(s) + 1
      /\ \A k \in 1..Len(s) : Append(s, g)[k] = s[k]
      /\ Append(s, g)[Len(s) + 1] = g
  BY <1>1, <1>2, AppendProperties
<1>4. \A k \in 1..Len(Append(s, g)) : Sound(Append(s, g)[k], hs, r)
  BY <1>1, <1>3
<1>5. FramesOK([fr EXCEPT ![t] = Append(s, g)], hs, r)
  BY <1>3, <1>4, FramesReplaced
<1> QED
  BY <1>5 DEF s

LEMMA Single ==
  ASSUME NEW g, NEW hs, NEW r, Sound(g, hs, r)
  PROVE  /\ <<g>> \in Seq(Frame) /\ Len(<<g>>) = 1
         /\ \A k \in 1..Len(<<g>>) : Sound(<<g>>[k], hs, r)
<1>1. g \in Frame
  BY DEF Sound
<1>2. <<g>> \in Seq(Frame) /\ Len(<<g>>) = 1 /\ <<g>>[1] = g
  BY <1>1
<1>3. \A k \in 1..Len(<<g>>) : k = 1
  BY <1>2
<1> QED
  BY <1>2, <1>3

(* A Listener() call returns: its frame goes, or starts again in a loop. *)
LEMMA TopReturned ==
  ASSUME NEW fr, NEW hs, NEW r, FramesOK(fr, hs, r), NEW t \in Thread, fr[t] # <<>>,
         NEW e, e = <<>> \/ \E g : e = <<g>> /\ Sound(g, hs, r)
  PROVE  FramesOK([fr EXCEPT ![t] = Front(@) \o e], hs, r)
<1> DEFINE s == fr[t]
<1>1. s \in Seq(Frame) /\ s # <<>> /\ \A k \in 1..Len(s) : Sound(s[k], hs, r)
  BY DEF FramesOK
<1> HIDE DEF s
<1>2. Len(s) \in Nat \ {0}
  BY <1>1, EmptySeq
<1>3. /\ Front(s) \in Seq(Frame) /\ Len(Front(s)) = Len(s) - 1
      /\ \A k \in 1..Len(s) - 1 : Front(s)[k] = s[k]
  BY <1>1, <1>2, FrontElements
<1>4. /\ e \in Seq(Frame) /\ Len(e) \in {0, 1}
      /\ \A k \in 1..Len(e) : Sound(e[k], hs, r)
  <2>1. CASE e = <<>>
    BY <2>1
  <2>2. ASSUME NEW g, e = <<g>>, Sound(g, hs, r)
        PROVE  /\ e \in Seq(Frame) /\ Len(e) \in {0, 1}
               /\ \A k \in 1..Len(e) : Sound(e[k], hs, r)
    BY <2>2, Single
  <2> QED
    BY <2>1, <2>2
<1>5. /\ Front(s) \o e \in Seq(Frame)
      /\ Len(Front(s) \o e) = Len(Front(s)) + Len(e)
      /\ \A k \in 1..Len(Front(s)) + Len(e) :
           (Front(s) \o e)[k] = IF k <= Len(Front(s)) THEN Front(s)[k] ELSE e[k - Len(Front(s))]
  BY <1>3, <1>4, ConcatProperties, Zenon
<1>6. ASSUME NEW k \in 1..Len(Front(s) \o e)
      PROVE  Sound((Front(s) \o e)[k], hs, r)
  <2>1. CASE k <= Len(Front(s))
    BY <1>1, <1>2, <1>3, <1>4, <1>5, <2>1
  <2>2. CASE k > Len(Front(s))
    <3>1. k - Len(Front(s)) \in 1..Len(e)
      BY <1>2, <1>3, <1>4, <1>5, <2>2
    <3>2. (Front(s) \o e)[k] = e[k - Len(Front(s))]
      BY <1>2, <1>3, <1>4, <1>5, <2>2
    <3> QED
      BY <1>4, <3>1, <3>2
  <2>3. k <= Len(Front(s)) \/ k > Len(Front(s))
    BY <1>2, <1>3
  <2> QED
    BY <2>1, <2>2, <2>3
<1>7. FramesOK([fr EXCEPT ![t] = Front(s) \o e], hs, r)
  BY <1>5, <1>6, FramesReplaced
<1> QED
  BY <1>7 DEF s

-----------------------------------------------------------------------------
(* One lemma per step of a Listener() call. *)
LEMMA FirstFrame ==
  ASSUME NEW l \in BOOLEAN, NEW hs, NEW r
  PROVE  Sound(NewFrame(l), hs, r)
<1>1. NewFrame(l) \in Frame
  BY NetSocketAssumption DEF NewFrame, Frame, Pc
<1> QED
  BY <1>1 DEF NewFrame, Sound, InOrder, Ahead, Covered, Loop

LEMMA MovedOn ==
  ASSUME NEW f, NEW hs, NEW r, Sound(f, hs, r), NEW p,
         <<f.pc, p>> \in {<<"malloc", "alloc">>, <<"alloc", "recv">>, <<"recv", "free">>,
                          <<"free", "freeing">>}
  PROVE  Sound([f EXCEPT !.pc = p], hs, r)
<1> DEFINE g == [f EXCEPT !.pc = p]
<1>1. f \in Frame /\ p \in Pc /\ p \notin Loop /\ f.pc \notin Loop
  BY DEF Sound, Pc, Loop
<1>2. /\ g \in Frame /\ g.pc = p /\ g.i = f.i /\ g.due = f.due
      /\ g.calls = f.calls /\ g.cut = f.cut
  BY <1>1 DEF Frame
<1> HIDE DEF g
<1>3. Ahead(g, hs) /\ Covered(g, hs)
  BY <1>1, <1>2 DEF Sound, Ahead, Covered, Loop
<1>4. p \in {"alloc", "recv"} => f.pc \in {"malloc", "alloc"}
  OBVIOUS
<1>5. p \notin {"fetch", "handler", "malloc"}
  OBVIOUS
<1>6. Sound(g, hs, r)
  BY <1>2, <1>3, <1>4, <1>5 DEF Sound
<1> QED
  BY <1>6 DEF g

LEMMA Received ==
  ASSUME NEW f, NEW hs, NEW r, Sound(f, hs, r), VectorOK(hs, r), f.pc = "recv"
  PROVE  Sound([f EXCEPT !.pc = "check", !.due = {hs[k].id : k \in DOMAIN hs}], hs, r)
<1> DEFINE due == {hs[k].id : k \in DOMAIN hs}
           g == [f EXCEPT !.pc = "check", !.due = due]
<1>1. f \in Frame /\ f.calls = <<>> /\ f.i = 0
  BY DEF Sound
<1>2. /\ DOMAIN hs = 1..Len(hs)
      /\ \A k \in 1..Len(hs) : hs[k] \in Registration
  BY Typed DEF VectorOK
<1>3. due \subseteq 1..MaxReg
  BY <1>2 DEF Registration
<1> HIDE DEF due
<1>4. /\ g \in Frame /\ g.pc = "check" /\ g.i = 0 /\ g.due = due
      /\ g.calls = <<>> /\ g.cut = f.cut
  BY <1>1, <1>3 DEF Frame, Pc, Loop
<1>5. Served(g) = 0
  BY <1>4 DEF Served
<1> HIDE DEF g
<1>6. Ahead(g, hs) /\ Covered(g, hs)
  BY <1>2, <1>4, <1>5 DEF Ahead, Covered, Loop, due
<1>7. Sound(g, hs, r)
  BY <1>4, <1>6 DEF Sound, InOrder
<1> QED
  BY <1>7 DEF g, due

(* The size test. *)
LEMMA Checked ==
  ASSUME NEW f, NEW hs, NEW r \in 0..MaxReg, Sound(f, hs, r), VectorOK(hs, r),
         f.pc = "check"
  PROVE  Sound([f EXCEPT !.pc = IF f.i < Len(hs) THEN "fetch" ELSE "free"], hs, r)
<1> DEFINE p == IF f.i < Len(hs) THEN "fetch" ELSE "free"
           g == [f EXCEPT !.pc = p]
<1>1. f \in Frame /\ f.i \in Nat /\ Served(f) = f.i
  BY FrameFields DEF Sound, Served
<1>2. /\ g \in Frame /\ g.pc = p /\ g.i = f.i /\ g.due = f.due
      /\ g.calls = f.calls /\ g.cut = f.cut
  BY <1>1 DEF Frame, Pc, Loop
<1> HIDE DEF g
<1>3. Served(g) = f.i
  BY <1>2 DEF Served
<1>4. Len(hs) \in Nat /\ Len(hs) <= MaxReg
  BY Typed, NetSocketAssumption DEF VectorOK
<1>5. CASE f.i < Len(hs)
  <2>1. Ahead(g, hs) /\ Covered(g, hs)
    BY <1>1, <1>2, <1>3, <1>5 DEF Sound, Ahead, Covered, Loop
  <2>2. g.i < MaxReg
    BY <1>1, <1>2, <1>4, <1>5, NetSocketAssumption
  <2>3. g.pc = "fetch"
    BY <1>2, <1>5
  <2> QED
    BY <1>2, <2>1, <2>2, <2>3 DEF Sound, g
<1>6. CASE ~(f.i < Len(hs))
  <2>1. ~\E k \in 1..Len(hs) : k > f.i
    BY <1>1, <1>4, <1>6
  <2>2. Ahead(g, hs) /\ Covered(g, hs)
    BY <1>1, <1>2, <1>6, <2>1 DEF Sound, Ahead, Covered, Loop
  <2>3. g.pc = "free"
    BY <1>2, <1>6
  <2> QED
    BY <1>2, <2>2, <2>3 DEF Sound, g
<1> QED
  BY <1>5, <1>6

(* The call of the handler the index stands at: it is younger than every     *)
(* call before it, and older than what comes after it.                       *)
LEMMA Fetched ==
  ASSUME NEW f, NEW hs, NEW r, Sound(f, hs, r), VectorOK(hs, r),
         f.pc = "fetch", f.i < Len(hs)
  PROVE  Sound([f EXCEPT !.pc = "handler", !.calls = Append(@, hs[f.i + 1].id)], hs, r)
<1> DEFINE id == hs[f.i + 1].id
           calls == Append(f.calls, id)
           g == [f EXCEPT !.pc = "handler", !.calls = calls]
<1>1. f \in Frame /\ f.i \in Nat /\ f.i < MaxReg /\ Served(f) = f.i
  BY FrameFields DEF Sound, Served
<1>2. /\ f.calls \in Seq(1..MaxReg) /\ Len(f.calls) \in Nat
      /\ \A a \in 1..Len(f.calls) : f.calls[a] \in Int
  BY <1>1, FrameFields
<1>3. hs \in Seq(Registration) /\ Len(hs) \in Nat /\ f.i + 1 \in 1..Len(hs)
  BY <1>1, Typed DEF VectorOK
<1>4. id \in 1..MaxReg /\ id \in Int /\ id <= r
  <2>1. hs[f.i + 1] \in Registration /\ id \in Int
    BY <1>3, Elements
  <2> QED
    BY <1>3, <2>1 DEF VectorOK, Registration
<1>5. /\ \A k \in 1..Len(hs) : k > f.i + 1 => id < hs[k].id
      /\ \A a \in 1..Len(f.calls) : f.calls[a] < id
  BY <1>1, <1>3 DEF VectorOK, Sound, Ahead, Loop
<1> HIDE DEF id
<1>6. /\ calls \in Seq(1..MaxReg) /\ Len(calls) = Len(f.calls) + 1
      /\ \A a \in 1..Len(f.calls) : calls[a] = f.calls[a]
      /\ calls[Len(f.calls) + 1] = id
  BY <1>2, <1>4, AppendProperties
<1> HIDE DEF calls
<1>7. /\ g \in Frame /\ g.pc = "handler" /\ g.i = f.i /\ g.due = f.due
      /\ g.calls = calls /\ g.cut = f.cut
  BY <1>1, <1>6 DEF Frame, Pc, Loop
<1> HIDE DEF g
<1>8. Served(g) = f.i + 1
  BY <1>7 DEF Served
<1>9. InOrder(g.calls) /\ \A a \in 1..Len(g.calls) : g.calls[a] <= r
  <2>1. \A a \in 1..Len(calls) : a \in 1..Len(f.calls) \/ a = Len(f.calls) + 1
    BY <1>2, <1>6
  <2>2. /\ \A a, b \in 1..Len(f.calls) : a < b => f.calls[a] < f.calls[b]
        /\ \A a \in 1..Len(f.calls) : f.calls[a] <= r
    BY DEF Sound, InOrder
  <2>3. \A a \in 1..Len(calls) : calls[a] <= r
    BY <1>4, <1>6, <2>1, <2>2
  <2>4. ASSUME NEW a \in 1..Len(calls), NEW b \in 1..Len(calls), a < b
        PROVE  calls[a] < calls[b]
    <3>1. a \in 1..Len(f.calls)
      BY <1>2, <1>6, <2>4
    <3>2. CASE b \in 1..Len(f.calls)
      BY <1>6, <2>2, <2>4, <3>1, <3>2
    <3>3. CASE b = Len(f.calls) + 1
      BY <1>5, <1>6, <3>1, <3>3
    <3> QED
      BY <2>1, <3>2, <3>3
  <2> QED
    BY <1>7, <2>3, <2>4 DEF InOrder
<1>10. Ahead(g, hs)
  <2>1. ASSUME NEW k \in 1..Len(hs), k > f.i + 1, NEW a \in 1..Len(calls)
        PROVE  calls[a] < hs[k].id
    <3>1. CASE a = Len(f.calls) + 1
      BY <1>5, <1>6, <2>1, <3>1
    <3>2. CASE a \in 1..Len(f.calls)
      <4>1. k > f.i
        BY <1>1, <2>1
      <4> QED
        BY <1>1, <1>6, <3>2, <4>1 DEF Sound, Ahead, Loop
    <3> QED
      BY <1>2, <1>6, <3>1, <3>2
  <2> QED
    BY <1>7, <1>8, <2>1 DEF Ahead
<1>11. Covered(g, hs)
  <2>1. SUFFICES ASSUME ~f.cut, NEW d \in f.due
                 PROVE  \/ \E a \in 1..Len(calls) : calls[a] = d
                        \/ \E k \in 1..Len(hs) : k > f.i + 1 /\ hs[k].id = d
    BY <1>7, <1>8 DEF Covered, Loop
  <2>2. \/ \E a \in 1..Len(f.calls) : f.calls[a] = d
        \/ \E k \in 1..Len(hs) : k > f.i /\ hs[k].id = d
    BY <1>1, <2>1 DEF Sound, Covered, Loop
  <2>3. ASSUME NEW a \in 1..Len(f.calls), f.calls[a] = d
        PROVE  \E b \in 1..Len(calls) : calls[b] = d
    <3>1. a \in 1..Len(calls) /\ calls[a] = d
      BY <1>2, <1>6, <2>3
    <3> QED
      BY <3>1
  <2>4. ASSUME NEW k \in 1..Len(hs), k > f.i, hs[k].id = d
        PROVE  \/ \E a \in 1..Len(calls) : calls[a] = d
               \/ \E j \in 1..Len(hs) : j > f.i + 1 /\ hs[j].id = d
    <3>1. CASE k = f.i + 1
      <4>1. Len(f.calls) + 1 \in 1..Len(calls)
        BY <1>2, <1>6
      <4>2. calls[Len(f.calls) + 1] = d
        BY <1>6, <2>4, <3>1 DEF id
      <4> QED
        BY <4>1, <4>2
    <3>2. CASE k > f.i + 1
      BY <2>4, <3>2
    <3>3. k = f.i + 1 \/ k > f.i + 1
      BY <1>1, <2>4
    <3> QED
      BY <3>1, <3>2, <3>3
  <2> QED
    BY <2>2, <2>3, <2>4
<1>12. Sound(g, hs, r)
  BY <1>1, <1>7, <1>9, <1>10, <1>11 DEF Sound
<1> QED
  BY <1>12 DEF g, calls, id

(* The read past the end, possible only after a removal. *)
LEMMA FetchedPast ==
  ASSUME NEW f, NEW hs, NEW r, Sound(f, hs, r), VectorOK(hs, r),
         f.pc = "fetch", f.i >= Len(hs)
  PROVE  Sound([f EXCEPT !.pc = "handler"], hs, r)
<1> DEFINE g == [f EXCEPT !.pc = "handler"]
<1>1. f \in Frame /\ f.i \in Nat /\ f.i < MaxReg /\ Len(hs) \in Nat
  BY FrameFields, Typed DEF Sound, VectorOK
<1>2. /\ g \in Frame /\ g.pc = "handler" /\ g.i = f.i /\ g.due = f.due
      /\ g.calls = f.calls /\ g.cut = f.cut
  BY <1>1 DEF Frame, Pc, Loop
<1> HIDE DEF g
<1>3. f.cut
  BY <1>1 DEF Sound, Covered
<1>4. ~\E k \in 1..Len(hs) : k > Served(g)
  BY <1>1, <1>2 DEF Served
<1>5. Ahead(g, hs) /\ Covered(g, hs)
  BY <1>2, <1>3, <1>4 DEF Ahead, Covered
<1>6. Sound(g, hs, r)
  BY <1>1, <1>2, <1>5 DEF Sound
<1> QED
  BY <1>6 DEF g

(* A handler returns to the loop. *)
LEMMA Returned ==
  ASSUME NEW f, NEW hs, NEW r, Sound(f, hs, r), f.pc = "handler"
  PROVE  Sound(Advance(f), hs, r)
<1>1. f \in Frame /\ f.i \in Nat /\ f.i < MaxReg
  BY FrameFields DEF Sound
<1>0. f.i + 1 \in 0..MaxReg /\ "check" \in Pc
  BY <1>1, NetSocketAssumption DEF Pc, Loop
<1>2. /\ Advance(f) \in Frame /\ Advance(f).pc = "check" /\ Advance(f).i = f.i + 1
      /\ Advance(f).due = f.due /\ Advance(f).calls = f.calls /\ Advance(f).cut = f.cut
  BY <1>0, <1>1 DEF Advance, Frame
<1>3. Served(Advance(f)) = Served(f)
  BY <1>2 DEF Served
<1>4. Ahead(Advance(f), hs) /\ Covered(Advance(f), hs)
  BY <1>2, <1>3 DEF Sound, Ahead, Covered, Loop
<1> QED
  BY <1>2, <1>4 DEF Sound

-----------------------------------------------------------------------------
LEMMA TopSound ==
  ASSUME IInv, NEW t \in Thread, frames[t] # <<>>
  PROVE  Sound(Top(t), socketHandlers, regs)
<1>1. frames[t] \in Seq(Frame)
  BY DEF IInv, FramesOK
<1>2. Len(frames[t]) \in 1..Len(frames[t])
  BY <1>1, EmptySeq
<1> QED
  BY <1>2 DEF IInv, FramesOK, Top, Depth

(* The steps of Listener() keep every dispatch sound. *)
LEMMA ListenerSteps ==
  ASSUME IInv, NEW t \in Thread,
         TakeHeap(t) \/ DropHeap(t) \/ Receive(t) \/ Check(t) \/ Fetch(t) \/ Return(t)
  PROVE  FramesOK(frames', socketHandlers', regs')
<1> DEFINE f == Top(t)
           hs == socketHandlers
           Moves(g) == SetTop(t, g) /\ Sound(g, hs, regs)
<1>1. UNCHANGED <<socketHandlers, regs>>
  BY DEF TakeHeap, DropHeap, Receive, Check, Fetch, Return, Dispatch, object
<1>2. frames[t] # <<>> /\ FramesOK(frames, hs, regs) /\ VectorOK(hs, regs) /\ regs \in 0..MaxReg
  BY DEF IInv, RestOK, TakeHeap, DropHeap, Receive, Check, Fetch, Return, At
<1>3. Sound(f, hs, regs)
  BY <1>2, TopSound
<1>4. ASSUME NEW g, Moves(g)
      PROVE  FramesOK(frames', socketHandlers', regs')
  <2>1. FramesOK([frames EXCEPT ![t][Len(frames[t])] = g], hs, regs)
    BY <1>2, <1>4, TopReplaced
  <2> QED
    BY <1>1, <1>4, <2>1 DEF SetTop, Depth
<1>5. CASE TakeHeap(t)
  <2>1. PICK p : SetTop(t, [f EXCEPT !.pc = p])
                 /\ <<f.pc, p>> \in {<<"malloc", "alloc">>, <<"free", "freeing">>}
    BY <1>5 DEF TakeHeap, At, Goto, Top
  <2>2. Moves([f EXCEPT !.pc = p])
    BY <1>3, <2>1, MovedOn
  <2> QED
    BY <1>4, <2>2
<1>6. CASE DropHeap(t)
  <2>1. CASE At(t, "alloc") /\ Goto(t, "recv")
    <3>1. Moves([f EXCEPT !.pc = "recv"])
      BY <1>3, <2>1, MovedOn DEF At, Goto, Top
    <3> QED
      BY <1>4, <3>1
  <2>2. CASE frames' = [frames EXCEPT ![t] = Front(@) \o Again(Last(@))]
    <3>1. \/ Again(Last(frames[t])) = <<>>
          \/ \E g : Again(Last(frames[t])) = <<g>> /\ Sound(g, hs, regs)
      BY FirstFrame DEF Again
    <3>2. FramesOK([frames EXCEPT ![t] = Front(@) \o Again(Last(frames[t]))], hs, regs)
      BY <1>2, <3>1, TopReturned
    <3> QED
      BY <1>1, <2>2, <3>2
  <2> QED
    BY <1>6, <2>1, <2>2 DEF DropHeap
<1>7. CASE Receive(t)
  <2>1. f.pc = "recv"
    BY <1>7 DEF Receive, At, Top
  <2>2. /\ Sound([f EXCEPT !.pc = "check", !.due = Registered], hs, regs)
        /\ Sound([f EXCEPT !.pc = "free"], hs, regs)
    <3> HIDE DEF f, hs
    <3>1. Sound([f EXCEPT !.pc = "check", !.due = {hs[k].id : k \in DOMAIN hs}], hs, regs)
      BY <1>2, <1>3, <2>1, Received
    <3>2. Sound([f EXCEPT !.pc = "free"], hs, regs)
      BY <1>3, <2>1, MovedOn
    <3> QED
      BY <3>1, <3>2 DEF Registered, hs
  <2>3. \/ SetTop(t, [f EXCEPT !.pc = "check", !.due = Registered])
        \/ SetTop(t, [f EXCEPT !.pc = "free"])
    BY <1>7 DEF Receive, Goto
  <2> QED
    BY <1>4, <2>2, <2>3
<1>8. CASE Check(t)
  <2>1. Moves([f EXCEPT !.pc = IF f.i < Len(hs) THEN "fetch" ELSE "free"])
    BY <1>2, <1>3, <1>8, Checked DEF Check, At, Goto, Top, InRange
  <2> QED
    BY <1>4, <2>1
<1>9. CASE Fetch(t)
  <2>1. \/ Moves([f EXCEPT !.pc = "handler", !.calls = Append(@, hs[f.i + 1].id)])
        \/ Moves([f EXCEPT !.pc = "handler"])
    BY <1>2, <1>3, <1>9, Fetched, FetchedPast DEF Fetch, At, Goto, Top
  <2> QED
    BY <1>4, <2>1
<1>10. CASE Return(t)
  <2>1. Moves(Advance(f))
    BY <1>3, <1>10, Returned DEF Return, At, Top
  <2> QED
    BY <1>4, <2>1
<1> QED
  BY <1>5, <1>6, <1>7, <1>8, <1>9, <1>10

-----------------------------------------------------------------------------
(* The steps that edit the vector. *)
TableOK == VectorOK(socketHandlers, regs) /\ FramesOK(frames, socketHandlers, regs)

LEMMA Registers ==
  ASSUME IInv, NEW t \in Thread, NEW fn \in Function, AddHandler(t, fn)
  PROVE  TableOK'
<1> DEFINE e == [fn |-> fn, id |-> regs + 1]
<1>1. /\ regs \in Nat /\ regs < MaxReg /\ regs' = regs + 1
      /\ socketHandlers' = Append(socketHandlers, e) /\ frames' = frames
      /\ VectorOK(socketHandlers, regs) /\ FramesOK(frames, socketHandlers, regs)
  BY DEF AddHandler, PushedBack, IInv, RestOK
<1>2. VectorOK(socketHandlers', regs')
  BY <1>1, VectorAppend
<1>3. e \in Registration /\ e.id = regs + 1
  BY <1>1, NetSocketAssumption DEF Registration
<1> HIDE DEF e
<1>4. ASSUME NEW u \in Thread, NEW k \in 1..Len(frames[u])
      PROVE  Sound(frames[u][k], Append(socketHandlers, e), regs + 1)
  BY <1>1, <1>3, SoundAppend DEF FramesOK
<1>5. FramesOK(frames', socketHandlers', regs')
  BY <1>1, <1>4 DEF FramesOK
<1> QED
  BY <1>2, <1>5 DEF TableOK

LEMMA Erases ==
  ASSUME IInv, NEW i \in 1..Len(socketHandlers),
         socketHandlers' = RemoveAt(socketHandlers, i), Cut, regs' = regs
  PROVE  TableOK'
<1> DEFINE hs == socketHandlers
           gs == RemoveAt(hs, i)
<1>1. VectorOK(hs, regs) /\ FramesOK(frames, hs, regs) /\ regs \in Nat
  BY DEF IInv, RestOK
<1>2. VectorOK(gs, regs)
  BY <1>1, VectorRemove
<1>3. Len(hs) \in Nat /\ hs \in Seq(Registration)
  BY <1>1, Typed DEF VectorOK
<1>4. /\ Len(gs) = Len(hs) - 1
      /\ \A k \in 1..Len(hs) - 1 : gs[k] = IF k < i THEN hs[k] ELSE hs[k + 1]
  BY <1>3, RemoveAtElements
<1> HIDE DEF gs
<1>5. ASSUME NEW n \in Nat, NEW k \in 1..Len(gs), k > n
      PROVE  \E j \in 1..Len(hs) : j > n /\ gs[k] = hs[j]
  <2>1. k \in 1..Len(hs) /\ k + 1 \in 1..Len(hs) /\ k + 1 > n
    BY <1>3, <1>4, <1>5
  <2> QED
    BY <1>4, <1>5, <2>1
<1>6. FramesOK(CutFrames(frames), gs, regs)
  BY <1>1, <1>5, FramesCut
<1> QED
  BY <1>2, <1>6 DEF TableOK, Cut, CutFrames, gs

LEMMA Clears ==
  ASSUME IInv, socketHandlers' = <<>>, Cut, regs' = regs
  PROVE  TableOK'
<1>1. FramesOK(frames, socketHandlers, regs) /\ regs \in Nat
  BY DEF IInv, RestOK
<1>2. VectorOK(<<>>, regs)
  BY <1>1 DEF VectorOK
<1>3. FramesOK(CutFrames(frames), <<>>, regs)
  BY <1>1, FramesCut
<1> QED
  BY <1>2, <1>3 DEF TableOK, Cut, CutFrames

LEMMA TableStep ==
  ASSUME IInv, [Next]_vars
  PROVE  TableOK'
<1> USE DEF object
<1>0. VectorOK(socketHandlers, regs) /\ FramesOK(frames, socketHandlers, regs)
  BY DEF IInv
<1>1. CASE UNCHANGED <<socketHandlers, regs, frames>>
  BY <1>0, <1>1 DEF TableOK
<1>2. ASSUME UNCHANGED <<socketHandlers, regs>>, NEW t \in Thread, NEW l \in BOOLEAN,
             frames' = [frames EXCEPT ![t] = Append(@, NewFrame(l))]
      PROVE  TableOK'
  <2>1. FramesOK([frames EXCEPT ![t] = Append(@, NewFrame(l))], socketHandlers, regs)
    BY <1>0, FirstFrame, TopPushed
  <2> QED
    BY <1>0, <1>2, <2>1 DEF TableOK
<1>3. CASE Arrive \/ UNCHANGED vars
  BY <1>1, <1>3 DEF Arrive, vars
<1>4. ASSUME NEW t \in Thread, Call(t)
      PROVE  TableOK'
  <2>1. ASSUME NEW fn \in Function, AddHandler(t, fn)
        PROVE  TableOK'
    BY <2>1, Registers
  <2>2. ASSUME NEW fn \in Function, RemoveHandler(t, fn)
        PROVE  TableOK'
    <3>1. DOMAIN socketHandlers = 1..Len(socketHandlers)
      BY <1>0 DEF VectorOK
    <3> QED
      BY <2>2, <3>1, Erases DEF RemoveHandler
  <2>3. ASSUME NEW i \in 0..MaxReg, RemoveHandlerAt(t, i)
        PROVE  TableOK'
    BY <1>1, <2>3 DEF RemoveHandlerAt
  <2>4. CASE RemoveHandlers(t)
    BY <2>4, Clears DEF RemoveHandlers
  <2>5. CASE StepListener(t)
    BY <1>2, <2>5 DEF StepListener, Control
  <2>6. CASE Listen(t)
    BY <1>2, <2>6 DEF Listen, Control
  <2>7. CASE ListenAsync(t)
    <3>1. ASSUME NEW l \in Listener, frames' = [frames EXCEPT ![l] = <<NewFrame(TRUE)>>]
          PROVE  TableOK'
      <4>1. Sound(NewFrame(TRUE), socketHandlers, regs)
        BY FirstFrame
      <4>2. /\ <<NewFrame(TRUE)>> \in Seq(Frame)
            /\ \A k \in 1..Len(<<NewFrame(TRUE)>>) :
                 Sound(<<NewFrame(TRUE)>>[k], socketHandlers, regs)
        BY <4>1, Single
      <4>3. FramesOK([frames EXCEPT ![l] = <<NewFrame(TRUE)>>], socketHandlers, regs)
        <5>1. l \in Thread
          BY DEF Thread
        <5> QED
          BY <1>0, <4>2, <5>1, FramesReplaced
      <4> QED
        BY <1>0, <2>7, <3>1, <4>3 DEF ListenAsync, Control, TableOK
    <3> QED
      BY <1>1, <2>7, <3>1 DEF ListenAsync, Control
  <2>8. CASE StopListener(t) \/ StartListener(t) \/ Destroy(t)
    BY <1>1, <2>8 DEF StopListener, StartListener, Destroy, Control
  <2> QED
    BY <1>4, <2>1, <2>2, <2>3, <2>4, <2>5, <2>6, <2>7, <2>8 DEF Call
<1>5. ASSUME NEW t \in Thread, Finish(t)
      PROVE  TableOK'
  <2>1. regs' = regs
    BY <1>5 DEF Finish
  <2>2. CASE UNCHANGED <<socketHandlers, frames>>
    BY <1>1, <2>1, <2>2
  <2>3. CASE /\ pending[t].op = "eraseAt" /\ ~Astray(t)
             /\ socketHandlers' = RemoveAt(socketHandlers, pending[t].i + 1) /\ Cut
    <3>1. pending[t] \in Half /\ pending[t] # None
      BY <1>5 DEF IInv, RestOK, Finish
    <3>2. pending[t].i \in Nat
      BY <2>3, <3>1, NetSocketAssumption DEF Half, SecondHalf
    <3>3. Len(socketHandlers) \in Nat
      BY <1>0 DEF VectorOK
    <3>4. pending[t].i + 1 \in 1..Len(socketHandlers)
      BY <2>3, <3>1, <3>2, <3>3 DEF Astray
    <3> QED
      BY <2>1, <2>3, <3>4, Erases
  <2> QED
    BY <1>5, <2>2, <2>3 DEF Finish
<1>6. ASSUME NEW t \in Thread, ~Finish(t), Step(t)
      PROVE  TableOK'
  <2>1. UNCHANGED <<socketHandlers, regs>>
    BY <1>6 DEF Step, TakeHeap, DropHeap, Receive, Check, Fetch, Return, Dispatch
  <2>2. FramesOK(frames', socketHandlers', regs')
    BY <1>6, ListenerSteps DEF Step
  <2> QED
    BY <1>0, <2>1, <2>2 DEF TableOK
<1> QED
  BY <1>3, <1>4, <1>5, <1>6 DEF Next

-----------------------------------------------------------------------------
LEMMA NamedThreads ==
  ASSUME RestOK, NEW t \in Thread
  PROVE  Named(t) \subseteq Thread \cup {None}
<1>1. listenThread \in Thread \cup {None, Pseudo, Garbage}
  BY DEF RestOK, Thread
<1> QED
  BY <1>1 DEF Named

(* The remaining state, one case per action. *)
LEMMA RestStep ==
  ASSUME IInv, [Next]_vars
  PROVE  RestOK'
<1> USE DEF object, threads, config
<1>0. RestOK
  BY DEF IInv
<1>1. CASE UNCHANGED vars
  BY <1>0, <1>1 DEF RestOK, vars
<1>2. CASE Arrive
  <2>1. inbox' \in Seq(BOOLEAN)
    BY <1>0, <1>2 DEF Arrive, RestOK
  <2> QED
    BY <1>0, <1>2, <2>1 DEF Arrive, RestOK
<1>3. ASSUME NEW t \in Thread, Call(t)
      PROVE  RestOK'
  <2>1. ops \in Int /\ ops' = ops + 1 /\ ops' \in 0..MaxOps
    <3>1. ops < MaxOps /\ ops' = ops + 1
      BY <1>3 DEF Call, UserCode, AddHandler, RemoveHandler, RemoveHandlerAt, RemoveHandlers,
                  Edit, StepListener, Listen, ListenAsync, StopListener, StartListener, Destroy
    <3>2. ops \in 0..MaxOps
      BY <1>0 DEF RestOK
    <3> QED
      BY <3>1, <3>2, NetSocketAssumption
  <2>2. \A u \in Thread : suspended[u] \in Nat /\ suspended[u] <= ops'
    BY <1>0, <2>1 DEF RestOK
  <2>3. ASSUME NEW half \in Half, Edit(t, half), regs' \in 0..MaxReg,
               MayCrash(t) \/ fault' \in BOOLEAN,
               socketUserdata' \in [Function -> 0..MaxReg]
        PROVE  RestOK'
    <3>1. fault' \in BOOLEAN
      BY <2>3 DEF MayCrash, Racing
    <3> QED
      BY <1>0, <2>1, <2>2, <2>3, <3>1 DEF RestOK, Edit
  <2>4. ASSUME NEW fn \in Function, AddHandler(t, fn)
        PROVE  RestOK'
    <3>1. regs \in Nat /\ regs + 1 \in 1..MaxReg
      BY <1>0, <2>4, NetSocketAssumption DEF RestOK, AddHandler
    <3>2. [op |-> "set", fn |-> fn, id |-> regs + 1] \in Half
      BY <3>1 DEF Half, SecondHalf
    <3>3. regs' \in 0..MaxReg /\ socketUserdata' \in [Function -> 0..MaxReg]
      BY <1>0, <2>4, <3>1 DEF RestOK, AddHandler
    <3> QED
      BY <2>3, <2>4, <3>2, <3>3 DEF AddHandler
  <2>5. ASSUME NEW fn \in Function, RemoveHandler(t, fn)
        PROVE  RestOK'
    <3>1. [op |-> "erase", fn |-> fn] \in Half
      BY DEF Half, SecondHalf
    <3> QED
      BY <1>0, <2>3, <2>5, <3>1 DEF RestOK, RemoveHandler
  <2>6. ASSUME NEW i \in 0..MaxReg, RemoveHandlerAt(t, i)
        PROVE  RestOK'
    <3>1. [op |-> "eraseAt", i |-> i] \in Half
      BY DEF Half, SecondHalf
    <3>2. regs' \in 0..MaxReg /\ socketUserdata' \in [Function -> 0..MaxReg]
      <4>1. /\ regs' = regs
            /\ \/ socketUserdata' = Forgotten(i + 1) \/ UNCHANGED socketUserdata
               \/ \E fn \in Function : socketUserdata' = [socketUserdata EXCEPT ![fn] = 0]
        BY <2>6 DEF RemoveHandlerAt
      <4>2. 0 \in 0..MaxReg
        BY NetSocketAssumption
      <4> QED
        BY <1>0, <4>1, <4>2 DEF RestOK, Forgotten
    <3> QED
      BY <2>3, <2>6, <3>1, <3>2 DEF RemoveHandlerAt
  <2>7. CASE RemoveHandlers(t)
    <3>1. [op |-> "clear"] \in Half
      BY DEF Half, SecondHalf
    <3> QED
      BY <1>0, <2>3, <2>7, <3>1 DEF RestOK, RemoveHandlers
  <2>8. CASE StepListener(t) \/ Listen(t)
    BY <1>0, <2>1, <2>2, <2>8 DEF RestOK, StepListener, Listen, Control
  <2>9. CASE ListenAsync(t)
    BY <1>0, <2>1, <2>2, <2>9 DEF RestOK, ListenAsync, Control, Thread
  <2>10. CASE StopListener(t)
    <3>1. \/ suspended' = suspended
          \/ \E s \in Thread : suspended' = [suspended EXCEPT ![s] = @ + 1]
      BY <1>0, <2>10, NamedThreads DEF StopListener
    <3>2. ASSUME suspended' = suspended
          PROVE  /\ suspended' \in [Thread -> Nat]
                 /\ \A u \in Thread : suspended'[u] <= ops'
      BY <1>0, <2>2, <3>2 DEF RestOK
    <3>3. ASSUME NEW s \in Thread, suspended' = [suspended EXCEPT ![s] = @ + 1]
          PROVE  /\ suspended' \in [Thread -> Nat]
                 /\ \A u \in Thread : suspended'[u] <= ops'
      <4>1. \A u \in Thread : suspended'[u] = IF u = s THEN suspended[u] + 1 ELSE suspended[u]
        BY <1>0, <3>3 DEF RestOK
      <4>2. suspended[s] \in Nat /\ suspended[s] <= ops
        BY <1>0 DEF RestOK
      <4>3. suspended' \in [Thread -> Nat]
        BY <1>0, <3>3, <4>2 DEF RestOK
      <4> QED
        BY <2>1, <2>2, <4>1, <4>2, <4>3
    <3>4. /\ suspended' \in [Thread -> Nat]
          /\ \A u \in Thread : suspended'[u] <= ops'
      BY <3>1, <3>2, <3>3
    <3> QED
      BY <1>0, <2>1, <2>10, <3>4 DEF RestOK, StopListener, Control
  <2>11. CASE StartListener(t)
    <3>1. suspended' = suspended \/ \E s \in Thread : suspended' = Resumed(s)
      BY <1>0, <2>11, NamedThreads DEF StartListener
    <3>2. ASSUME suspended' = suspended
          PROVE  /\ suspended' \in [Thread -> Nat]
                 /\ \A u \in Thread : suspended'[u] <= ops'
      BY <1>0, <2>2, <3>2 DEF RestOK
    <3>3. ASSUME NEW s \in Thread, suspended' = Resumed(s)
          PROVE  /\ suspended' \in [Thread -> Nat]
                 /\ \A u \in Thread : suspended'[u] <= ops'
      <4> DEFINE n == IF suspended[s] > 0 THEN suspended[s] - 1 ELSE 0
      <4>1. suspended[s] \in Nat /\ suspended[s] <= ops'
        BY <2>2
      <4>2. n \in Nat /\ n <= ops'
        BY <2>1, <4>1
      <4>3. suspended' = [suspended EXCEPT ![s] = n]
        BY <3>3 DEF Resumed
      <4> HIDE DEF n
      <4>4. suspended' \in [Thread -> Nat]
        BY <1>0, <4>2, <4>3 DEF RestOK
      <4>5. \A u \in Thread : suspended'[u] = IF u = s THEN n ELSE suspended[u]
        BY <1>0, <4>3 DEF RestOK
      <4> QED
        BY <2>2, <4>2, <4>4, <4>5
    <3>4. /\ suspended' \in [Thread -> Nat]
          /\ \A u \in Thread : suspended'[u] <= ops'
      BY <3>1, <3>2, <3>3
    <3> QED
      BY <1>0, <2>1, <2>11, <3>4 DEF RestOK, StartListener, Control
  <2>12. CASE Destroy(t)
    <3>1. [op |-> "delete"] \in Half
      BY DEF Half, SecondHalf
    <3>2. /\ pending' \in [Thread -> Half]
          /\ life' \in [Thread -> {"unborn", "alive", "killed"}]
      BY <1>0, <2>12, <3>1 DEF RestOK, Destroy
    <3> QED
      BY <1>0, <2>1, <2>2, <2>12, <3>2 DEF RestOK, Destroy
  <2> QED
    BY <1>3, <2>4, <2>5, <2>6, <2>7, <2>8, <2>9, <2>10, <2>11, <2>12 DEF Call
<1>4. ASSUME NEW t \in Thread, Finish(t)
      PROVE  RestOK'
  <2>1. pending[t] \in Half /\ pending[t] # None
    BY <1>0, <1>4 DEF RestOK, Finish
  <2>2. pending' \in [Thread -> Half]
    BY <1>0, <1>4 DEF RestOK, Finish, Half, SecondHalf
  <2>3. fault' \in BOOLEAN /\ live' \in BOOLEAN
    BY <1>0, <1>4, Zenon DEF RestOK, Finish, MayCrash, Racing
  <2>4. socketUserdata' \in [Function -> 0..MaxReg]
    <3>1. CASE socketUserdata' = socketUserdata
      BY <1>0, <3>1 DEF RestOK
    <3>2. CASE /\ pending[t].op \in {"set", "erase", "clear"}
               /\ socketUserdata' =
                    CASE pending[t].op = "set" ->
                           [socketUserdata EXCEPT ![pending[t].fn] = pending[t].id]
                      [] pending[t].op = "erase" -> [socketUserdata EXCEPT ![pending[t].fn] = 0]
                      [] pending[t].op = "clear" -> [fn \in Function |-> 0]
      <4>1. pending[t].op = "set" => pending[t].id \in 0..MaxReg
        BY <2>1 DEF Half, SecondHalf
      <4>2. 0 \in 0..MaxReg
        BY NetSocketAssumption
      <4> QED
        BY <1>0, <3>2, <4>1, <4>2 DEF RestOK
    <3> QED
      BY <1>4, <3>1, <3>2 DEF Finish
  <2> QED
    BY <1>0, <1>4, <2>2, <2>3, <2>4 DEF RestOK, Finish
<1>5. ASSUME NEW t \in Thread, ~Finish(t), Step(t)
      PROVE  RestOK'
  <2>1. fault' \in BOOLEAN
    BY <1>0, <1>5
       DEF RestOK, Step, TakeHeap, DropHeap, Receive, Check, Fetch, Return, Racing
  <2>2. heap' \in Thread \cup {None}
    BY <1>0, <1>5 DEF RestOK, Step, TakeHeap, DropHeap, Receive, Check, Fetch, Return, Released
  <2>4. inbox' \in Seq(BOOLEAN)
    <3>1. inbox' = inbox \/ (inbox # <<>> /\ inbox' = Tail(inbox))
      BY <1>5 DEF Step, TakeHeap, DropHeap, Receive, Check, Fetch, Return
    <3>2. inbox \in Seq(BOOLEAN)
      BY <1>0 DEF RestOK
    <3> QED
      BY <3>1, <3>2, HeadTailProperties
  <2>3. UNCHANGED <<config, object, threads, live, pending, ops, arrivals>>
    BY <1>5 DEF Step, TakeHeap, DropHeap, Receive, Check, Fetch, Return, Dispatch
  <2> QED
    BY <1>0, <2>1, <2>2, <2>3, <2>4 DEF RestOK
<1> QED
  BY <1>1, <1>2, <1>3, <1>4, <1>5 DEF Next

-----------------------------------------------------------------------------
LEMMA Initially ==
  ASSUME Init
  PROVE  IInv
<1> USE NetSocketAssumption
<1>1. RestOK
  <2>1. 0 \in 0..MaxReg /\ 0 \in 0..MaxOps /\ 0 \in Nat /\ <<>> \in Seq(BOOLEAN)
    OBVIOUS
  <2>2. /\ pending \in [Thread -> Half] /\ suspended \in [Thread -> Nat]
        /\ \A t \in Thread : suspended[t] = 0
    BY DEF Init, Half, SecondHalf
  <2>3. life \in [Thread -> {"unborn", "alive", "killed"}]
    BY DEF Init
  <2>4. \A t \in Thread : suspended[t] <= ops
    BY <2>2 DEF Init
  <2> QED
    BY <2>1, <2>2, <2>3, <2>4 DEF Init, RestOK
<1>2. VectorOK(socketHandlers, regs)
  BY DEF Init, VectorOK
<1>3. FramesOK(frames, socketHandlers, regs)
  BY DEF Init, FramesOK
<1> QED
  BY <1>1, <1>2, <1>3 DEF IInv

(* IInv holds throughout: the table of AddHandler and the RemoveHandlers and *)
(* every Listener() call under way stay sound together.                      *)
THEOREM Inductive == Spec => []IInv
<1>1. Init => IInv
  BY Initially
<1>2. IInv /\ [Next]_vars => IInv'
  BY TableStep, RestStep DEF IInv, TableOK
<1> QED
  BY <1>1, <1>2, PTL DEF Spec

(* Type correctness, for any number of threads and registrations: no suspend *)
(* count goes below zero, no index or registration above its bound.          *)
THEOREM TypeCorrect == Spec => []TypeOK
<1>1. IInv => TypeOK
  <2>1. SUFFICES ASSUME IInv PROVE TypeOK
    OBVIOUS
  <2>2. socketHandlers \in Seq([fn : Function, id : 1..MaxReg])
    BY <2>1 DEF IInv, VectorOK, Registration
  <2>3. suspended \in [Thread -> 0..MaxOps]
    <3>1. \A t \in Thread : suspended[t] \in Nat /\ suspended[t] <= ops /\ ops \in 0..MaxOps
      BY <2>1 DEF IInv, RestOK
    <3>2. \A t \in Thread : suspended[t] \in 0..MaxOps
      BY <3>1, NetSocketAssumption
    <3> QED
      BY <2>1, <3>2 DEF IInv, RestOK
  <2>4. ASSUME NEW t \in Thread, NEW k \in DOMAIN frames[t]
        PROVE  frames[t][k].i \in 0..MaxReg /\ Range(frames[t][k].calls) \subseteq 1..MaxReg
    <3>1. k \in 1..Len(frames[t])
      BY <2>1 DEF IInv, FramesOK
    <3>2. frames[t][k] \in Frame
      BY <2>1, <3>1 DEF IInv, FramesOK, Sound
    <3>3. frames[t][k].i \in 0..MaxReg /\ frames[t][k].calls \in Seq(1..MaxReg)
      BY <3>2 DEF Frame
    <3>4. /\ DOMAIN frames[t][k].calls = 1..Len(frames[t][k].calls)
          /\ \A a \in 1..Len(frames[t][k].calls) : frames[t][k].calls[a] \in 1..MaxReg
      BY <3>3, LenProperties, Typed
    <3> QED
      BY <3>3, <3>4 DEF Range
  <2> QED
    BY <2>1, <2>2, <2>3, <2>4 DEF IInv, RestOK, TypeOK
<1> QED
  BY <1>1, Inductive, PTL

(* However handlers and threads interleave, a dispatch reaches registrations *)
(* in the order they were made and none twice (Listener's loop over a vector *)
(* that AddHandler and the RemoveHandlers edit under it).                    *)
THEOREM DispatchInOrder == Spec => []CalledInOrder
<1>1. IInv => CalledInOrder
  <2>1. SUFFICES ASSUME IInv, NEW t \in Thread, NEW k \in DOMAIN frames[t],
                        NEW i \in DOMAIN frames[t][k].calls,
                        NEW j \in DOMAIN frames[t][k].calls, i < j
                 PROVE  frames[t][k].calls[i] < frames[t][k].calls[j]
    BY DEF CalledInOrder
  <2>2. k \in 1..Len(frames[t])
    BY <2>1 DEF IInv, FramesOK
  <2>3. frames[t][k] \in Frame /\ InOrder(frames[t][k].calls)
    BY <2>1, <2>2 DEF IInv, FramesOK, Sound
  <2>4. frames[t][k].calls \in Seq(1..MaxReg)
    BY <2>3 DEF Frame
  <2>5. DOMAIN frames[t][k].calls = 1..Len(frames[t][k].calls)
    BY <2>4, LenProperties
  <2> QED
    BY <2>1, <2>3, <2>5 DEF InOrder
<1> QED
  BY <1>1, Inductive, PTL

(* A registration that was due misses its datagram only if something was     *)
(* removed during the dispatch (the same loop).                              *)
THEOREM DispatchComplete == Spec => []MissedOnlyAfterRemoval
<1>1. IInv => MissedOnlyAfterRemoval
  <2>1. SUFFICES ASSUME IInv, NEW t \in Thread, NEW k \in DOMAIN frames[t],
                        frames[t][k].pc \in {"free", "freeing"}, ~frames[t][k].cut,
                        NEW d \in frames[t][k].due
                 PROVE  d \in Range(frames[t][k].calls)
    BY DEF MissedOnlyAfterRemoval
  <2>2. k \in 1..Len(frames[t])
    BY <2>1 DEF IInv, FramesOK
  <2>3. frames[t][k] \in Frame /\ Covered(frames[t][k], socketHandlers)
    BY <2>1, <2>2 DEF IInv, FramesOK, Sound
  <2>4. \E a \in 1..Len(frames[t][k].calls) : frames[t][k].calls[a] = d
    BY <2>1, <2>3 DEF Covered, Loop
  <2>5. frames[t][k].calls \in Seq(1..MaxReg)
    BY <2>3 DEF Frame
  <2>6. DOMAIN frames[t][k].calls = 1..Len(frames[t][k].calls)
    BY <2>5, LenProperties
  <2> QED
    BY <2>4, <2>6 DEF Range
<1> QED
  BY <1>1, Inductive, PTL

-----------------------------------------------------------------------------
(* A socket that no listening thread was started for: only the main thread   *)
(* runs, and inside handlers it runs the calls that led to them as well.     *)
Alone == \A l \in Listener : life[l] = "unborn"

(* A thread that was never started has not done anything. *)
Quiet == \A l \in Listener : life[l] = "unborn" => frames[l] = <<>> /\ pending[l] = None

InUserCode(fr) == fr = <<>> \/ fr[Len(fr)].pc = "handler"

(* The main thread is inside a handler of every call but the innermost, and  *)
(* of that one too while it edits; what it has just checked stays in range.  *)
CarefulAt(fr, half, n) ==
  /\ \A k \in 1..Len(fr) - 1 : fr[k].pc = "handler"
  /\ half # None => InUserCode(fr)
  /\ fr # <<>> /\ fr[Len(fr)].pc = "fetch" => fr[Len(fr)].i < n

Careful == CarefulAt(frames[Main], pending[Main], Len(socketHandlers))

Guarded == Quiet /\ AloneSafe /\ (Alone => Careful)

LEMMA Actor ==
  ASSUME NEW t \in Thread, Call(t) \/ Step(t)
  PROVE  life[t] = "alive" /\ fault # TRUE
<1>1. CASE Call(t)
  BY <1>1 DEF Call, UserCode, Running, AddHandler, RemoveHandler, RemoveHandlerAt,
              RemoveHandlers, Edit, StepListener, Listen, ListenAsync, StopListener,
              StartListener, Destroy
<1>2. CASE Step(t)
  BY <1>2 DEF Step, Finish, TakeHeap, DropHeap, Receive, Check, Fetch, Return, At, Running
<1> QED
  BY <1>1, <1>2

LEMMA LifeGrows ==
  ASSUME IInv, [Next]_vars
  PROVE  \A l \in Thread : life'[l] = "unborn" => life[l] = "unborn"
<1>1. life \in [Thread -> {"unborn", "alive", "killed"}]
  BY DEF IInv, RestOK
<1>2. CASE UNCHANGED life
  BY <1>2
<1>3. ASSUME NEW t \in Thread, ListenAsync(t) \/ Destroy(t)
      PROVE  \A l \in Thread : life'[l] = "unborn" => life[l] = "unborn"
  BY <1>1, <1>3 DEF ListenAsync, Destroy
<1>4. ASSUME NEW t \in Thread, Call(t), ~ListenAsync(t), ~Destroy(t)
      PROVE  UNCHANGED life
  BY <1>4 DEF Call, AddHandler, RemoveHandler, RemoveHandlerAt, RemoveHandlers, Edit,
              StepListener, Listen, StopListener, StartListener, threads
<1>5. ASSUME NEW t \in Thread, Step(t)
      PROVE  UNCHANGED life
  BY <1>5 DEF Step, Finish, TakeHeap, DropHeap, Receive, Check, Fetch, Return, Dispatch, threads
<1>6. CASE Arrive \/ UNCHANGED vars
  BY <1>6 DEF Arrive, vars, threads
<1> QED
  BY <1>2, <1>3, <1>4, <1>5, <1>6 DEF Next

(* What a step leaves of the frames of a thread. *)
LEMMA CutFields ==
  ASSUME NEW fr \in [Thread -> Seq(Frame)], NEW t \in Thread
  PROVE  LET c == CutFrames(fr)[t]
         IN  /\ Len(c) = Len(fr[t]) /\ (c = <<>> <=> fr[t] = <<>>)
             /\ \A k \in 1..Len(fr[t]) : c[k].pc = fr[t][k].pc /\ c[k].i = fr[t][k].i
<1> DEFINE s == fr[t]
           c == [k \in DOMAIN s |-> [s[k] EXCEPT !.cut = TRUE]]
<1>1. s \in Seq(Frame)
  OBVIOUS
<1>2. CutFrames(fr)[t] = c
  BY DEF CutFrames
<1> HIDE DEF s
<1>3. DOMAIN s = 1..Len(s) /\ Len(s) \in Nat /\ \A k \in 1..Len(s) : s[k] \in Frame
  BY <1>1
<1>4. \A k \in 1..Len(s) : /\ [s[k] EXCEPT !.cut = TRUE] \in Frame
                           /\ [s[k] EXCEPT !.cut = TRUE].pc = s[k].pc
                           /\ [s[k] EXCEPT !.cut = TRUE].i = s[k].i
  BY <1>3 DEF Frame
<1>5. c \in Seq(Frame) /\ Len(c) = Len(s)
  BY <1>3, <1>4
<1>6. \A k \in 1..Len(s) : c[k].pc = s[k].pc /\ c[k].i = s[k].i
  BY <1>3, <1>4
<1>7. c = <<>> <=> s = <<>>
  BY <1>1, <1>5, EmptySeq
<1> QED
  BY <1>2, <1>5, <1>6, <1>7 DEF s

LEMMA TopFields ==
  ASSUME NEW fr \in [Thread -> Seq(Frame)], NEW t \in Thread, fr[t] # <<>>, NEW g \in Frame
  PROVE  LET n == Len(fr[t])
             h == [fr EXCEPT ![t][n] = g]
         IN  /\ n \in Nat \ {0}
             /\ Len(h[t]) = n /\ h[t] # <<>> /\ h[t][n] = g
             /\ \A k \in 1..n - 1 : h[t][k] = fr[t][k]
             /\ \A u \in Thread : u # t => h[u] = fr[u]
<1> DEFINE s == fr[t]
           n == Len(s)
           h == [fr EXCEPT ![t][n] = g]
<1>1. s \in Seq(Frame) /\ s # <<>>
  OBVIOUS
<1>2. h[t] = [s EXCEPT ![n] = g] /\ \A u \in Thread : u # t => h[u] = fr[u]
  OBVIOUS
<1> HIDE DEF s
<1>3. n \in Nat \ {0} /\ n \in 1..Len(s)
  BY <1>1, EmptySeq
<1>4. /\ [s EXCEPT ![n] = g] \in Seq(Frame)
      /\ Len([s EXCEPT ![n] = g]) = Len(s)
      /\ \A k \in 1..Len(s) : [s EXCEPT ![n] = g][k] = IF k = n THEN g ELSE s[k]
  <2> HIDE DEF n
  <2> QED
    BY <1>1, <1>3, ExceptSeq
<1>5. [s EXCEPT ![n] = g] # <<>>
  BY <1>3, <1>4, EmptySeq
<1> HIDE DEF h
<1>6. /\ Len(h[t]) = n /\ h[t] # <<>> /\ h[t][n] = g
      /\ \A k \in 1..n - 1 : h[t][k] = s[k]
  <2>1. h[t] = [s EXCEPT ![n] = g]
    BY <1>2
  <2> DEFINE m == n
  <2>2. m \in Nat /\ m \in 1..m /\ \A k \in 1..m - 1 : k \in 1..m /\ k # m
    BY <1>3
  <2> QED
    BY <1>4, <1>5, <2>1, <2>2
<1> QED
  BY <1>2, <1>3, <1>6 DEF s, h

(* A step changes the frames and the edit of its own thread only, but for    *)
(* the marks of a removal and the first frame of a thread it starts.         *)
LEMMA OwnFrames ==
  ASSUME IInv, NEW t \in Thread, Call(t) \/ Step(t), NEW u \in Thread, u # t,
         life'[u] = "unborn"
  PROVE  /\ frames'[u] = frames[u] \/ frames'[u] = CutFrames(frames)[u]
         /\ pending'[u] = pending[u]
<1>1. frames \in [Thread -> Seq(Frame)] /\ pending \in [Thread -> Half]
      /\ life \in [Thread -> {"unborn", "alive", "killed"}]
  BY DEF IInv, FramesOK, RestOK
<1>2. CASE \E fn \in Function : AddHandler(t, fn) \/ RemoveHandler(t, fn)
  BY <1>1, <1>2 DEF AddHandler, RemoveHandler, Edit, Cut, CutFrames
<1>3. CASE (\E i \in 0..MaxReg : RemoveHandlerAt(t, i)) \/ RemoveHandlers(t)
  BY <1>1, <1>3 DEF RemoveHandlerAt, RemoveHandlers, Edit, Cut, CutFrames
<1>4. CASE StepListener(t) \/ Listen(t)
  BY <1>1, <1>4 DEF StepListener, Listen, Control
<1>5. CASE ListenAsync(t)
  <2>1. ASSUME NEW l \in Listener, life' = [life EXCEPT ![l] = "alive"],
               frames' = [frames EXCEPT ![l] = <<NewFrame(TRUE)>>]
        PROVE  frames'[u] = frames[u]
    <3>1. l # u
      BY <1>1, <2>1 DEF Thread
    <3> QED
      BY <1>1, <2>1, <3>1
  <2>2. pending' = pending
    BY <1>5 DEF ListenAsync, Control
  <2> QED
    BY <1>5, <2>1, <2>2 DEF ListenAsync
<1>6. CASE StopListener(t) \/ StartListener(t) \/ Destroy(t)
  BY <1>1, <1>6 DEF StopListener, StartListener, Destroy, Control
<1>7. CASE Finish(t)
  BY <1>1, <1>7 DEF Finish, Cut, CutFrames
<1>8. CASE TakeHeap(t) \/ Receive(t) \/ Check(t) \/ Fetch(t) \/ Return(t)
  <2>1. \E g : SetTop(t, g)
    BY <1>8 DEF TakeHeap, Receive, Check, Fetch, Return, Goto
  <2>2. frames'[u] = frames[u]
    BY <1>1, <2>1 DEF SetTop
  <2> QED
    BY <1>8, <2>2 DEF TakeHeap, Receive, Check, Fetch, Return, Dispatch
<1>9. CASE DropHeap(t)
  <2>1. (\E g : SetTop(t, g)) \/ \E x : frames' = [frames EXCEPT ![t] = x]
    BY <1>9 DEF DropHeap, Goto
  <2>2. frames'[u] = frames[u]
    BY <1>1, <2>1 DEF SetTop
  <2> QED
    BY <1>9, <2>2 DEF DropHeap, Dispatch
<1> QED
  BY <1>2, <1>3, <1>4, <1>5, <1>6, <1>7, <1>8, <1>9 DEF Call, Step

LEMMA QuietStep ==
  ASSUME IInv, Quiet, [Next]_vars
  PROVE  Quiet'
<1>1. \A l \in Thread : life'[l] = "unborn" => life[l] = "unborn"
  BY LifeGrows
<1>2. Listener \subseteq Thread
  BY DEF Thread
<1>3. CASE Arrive \/ UNCHANGED vars
  BY <1>1, <1>2, <1>3 DEF Quiet, Arrive, vars
<1>4. ASSUME NEW t \in Thread, Call(t) \/ Step(t), NEW l \in Listener, life'[l] = "unborn"
      PROVE  frames'[l] = <<>> /\ pending'[l] = None
  <2>1. l # t /\ frames[l] = <<>> /\ pending[l] = None
    BY <1>1, <1>2, <1>4, Actor DEF Quiet
  <2>2. CutFrames(frames)[l] = <<>>
    BY <1>2, <2>1, CutFields DEF IInv, FramesOK
  <2> QED
    BY <1>2, <1>4, <2>1, <2>2, OwnFrames
<1> QED
  BY <1>3, <1>4 DEF Next, Quiet

(* Without a listening thread there is no race, and only the main thread     *)
(* moves.                                                                    *)
LEMMA MainAlone ==
  ASSUME IInv, Quiet, Alone
  PROVE  ~Racing(Main) /\ \A t \in Thread : Call(t) \/ Step(t) => t = Main
<1>1. \A s \in Thread \ {Main} : pending[s] = None /\ life[s] = "unborn"
  BY DEF Quiet, Alone, Thread
<1> QED
  BY <1>1, Actor DEF Racing

LEMMA PendingMain ==
  ASSUME IInv
  PROVE  /\ pending \in [Thread -> Half] /\ Main \in Thread
         /\ frames \in [Thread -> Seq(Frame)] /\ frames[Main] \in Seq(Frame)
         /\ socketHandlers \in Seq(Registration) /\ Len(socketHandlers) \in Nat
         /\ fault \in BOOLEAN /\ live \in BOOLEAN
  BY DEF IInv, RestOK, FramesOK, VectorOK, Thread

(* In user code only the edit under way matters. *)
LEMMA UserCareful ==
  ASSUME IInv, Careful, InUserCode(frames[Main]), frames' = frames \/ Cut,
         NEW half, NEW n
  PROVE  CarefulAt(frames'[Main], half, n)
<1> DEFINE s == frames[Main]
           c == frames'[Main]
<1>1. s \in Seq(Frame) /\ Len(s) \in Nat
  BY PendingMain
<1>2. /\ Len(c) = Len(s) /\ (c = <<>> <=> s = <<>>)
      /\ \A k \in 1..Len(s) : c[k].pc = s[k].pc /\ c[k].i = s[k].i
  <2>1. frames' = frames \/ frames' = CutFrames(frames)
    BY DEF Cut, CutFrames
  <2> QED
    BY <2>1, PendingMain, CutFields
<1>3. \A k \in 1..Len(s) - 1 : s[k].pc = "handler"
  BY DEF Careful, CarefulAt
<1> HIDE DEF s, c
<1>4. s # <<>> => Len(s) \in 1..Len(s)
  BY <1>1, EmptySeq
<1>5. c # <<>> => c[Len(c)].pc = "handler"
  BY <1>2, <1>4 DEF InUserCode, s
<1>6. \A k \in 1..Len(c) - 1 : c[k].pc = "handler"
  BY <1>1, <1>2, <1>3
<1> QED
  BY <1>5, <1>6 DEF CarefulAt, InUserCode, c

LEMMA CallsFromUserCode ==
  ASSUME NEW t, UserCode(t)
  PROVE  InUserCode(frames[t]) /\ pending[t] = None
  BY DEF UserCode, InUserCode, Top, Depth

LEMMA NoRace ==
  ASSUME IInv, Quiet, Alone, fault' \in {FALSE, Racing(Main)}
  PROVE  fault' = FALSE
<1>1. Racing(Main) = FALSE
  BY MainAlone DEF Racing
<1> QED
  BY <1>1

(* An edit begins in user code, undisturbed, ...                             *)
LEMMA EditCareful ==
  ASSUME IInv, Quiet, Alone, Careful, NEW half, Edit(Main, half),
         frames' = frames \/ Cut
  PROVE  Careful' /\ pending'[Main] = half /\ (MayCrash(Main) => fault' = FALSE)
<1>1. pending' = [pending EXCEPT ![Main] = half] /\ UserCode(Main)
  BY DEF Edit
<1>2. MayCrash(Main) => fault' = FALSE
  BY NoRace DEF MayCrash
<1>3. InUserCode(frames[Main])
  BY <1>1, CallsFromUserCode
<1>4. pending'[Main] = half
  BY <1>1, PendingMain
<1>5. CarefulAt(frames'[Main], half, Len(socketHandlers'))
  BY <1>3, UserCareful
<1> QED
  BY <1>2, <1>4, <1>5 DEF Careful

(* ... and ends there, unless it erases a position that does not exist.      *)
LEMMA FinishCareful ==
  ASSUME IInv, Quiet, Alone, Careful, ~fault, Finish(Main)
  PROVE  Careful' /\ (fault' => Astray(Main)')
<1>0. CASE Astray(Main)
  <2>1. UNCHANGED <<pending, socketHandlers, frames>>
    BY <1>0 DEF Finish, Astray
  <2> QED
    BY <1>0, <2>1 DEF Careful, Astray
<1> SUFFICES ASSUME ~Astray(Main) PROVE Careful' /\ ~fault'
  BY <1>0
<1>1. pending[Main] # None /\ pending'[Main] = None
  BY PendingMain DEF Finish
<1>2. InUserCode(frames[Main])
  BY <1>1 DEF Careful, CarefulAt
<1>3. frames' = frames \/ Cut
  BY DEF Finish
<1>4. CarefulAt(frames'[Main], None, Len(socketHandlers'))
  BY <1>2, <1>3, UserCareful
<1>6. fault' \in {FALSE, Racing(Main)} \/ fault' = fault
  BY DEF Finish, MayCrash
<1>7. fault' = FALSE
  BY <1>6, NoRace, PendingMain
<1> QED
  BY <1>1, <1>4, <1>7 DEF Careful

(* A step of the innermost Listener() call keeps what it checked in range.   *)
LEMMA TopCareful ==
  ASSUME IInv, Careful, frames[Main] # <<>>, NEW g, SetTop(Main, g), pending[Main] = None,
         frames' \in [Thread -> Seq(Frame)],
         UNCHANGED <<pending, socketHandlers>>, g.pc = "fetch" => g.i < Len(socketHandlers)
  PROVE  Careful' /\ frames'[Main] # <<>>
<1> DEFINE s == frames[Main]
           n == Len(s)
           h == [frames EXCEPT ![Main][n] = g]
<1>1. frames' = h /\ s \in Seq(Frame) /\ s # <<>>
  BY PendingMain DEF SetTop, Depth
<1>2. g \in Frame
  <2>1. h[Main] = [s EXCEPT ![n] = g] /\ h[Main] \in Seq(Frame)
    BY <1>1, PendingMain
  <2> HIDE DEF s, h
  <2>2. n \in 1..Len(s) /\ DOMAIN s = 1..Len(s)
    BY <1>1, EmptySeq
  <2>3. DOMAIN h[Main] = 1..Len(s) /\ h[Main][n] = g
    BY <2>1, <2>2
  <2> QED
    BY <2>1, <2>2, <2>3
<1>3. /\ n \in Nat \ {0}
      /\ Len(h[Main]) = n /\ h[Main] # <<>> /\ h[Main][n] = g
      /\ \A k \in 1..n - 1 : h[Main][k] = s[k]
  BY <1>2, PendingMain, TopFields
<1>4. \A k \in 1..n - 1 : s[k].pc = "handler"
  BY DEF Careful, CarefulAt
<1> HIDE DEF h, s, n
<1>5. CarefulAt(h[Main], None, Len(socketHandlers))
  BY <1>3, <1>4 DEF CarefulAt
<1> QED
  BY <1>1, <1>3, <1>5 DEF Careful

(* A call that returns leaves the handler that made it, or starts again.     *)
LEMMA ReturnCareful ==
  ASSUME IInv, Careful, frames[Main] # <<>>, pending[Main] = None,
         NEW e, e = <<>> \/ \E l \in BOOLEAN : e = <<NewFrame(l)>>,
         frames'[Main] = Front(frames[Main]) \o e,
         UNCHANGED <<pending, socketHandlers>>
  PROVE  Careful'
<1> DEFINE s == frames[Main]
           n == Len(s)
           c == frames'[Main]
           b == Front(s)
<1>1. s \in Seq(Frame) /\ s # <<>> /\ n \in Nat \ {0}
  <2>1. s \in Seq(Frame) /\ s # <<>>
    BY PendingMain
  <2> HIDE DEF s
  <2> QED
    BY <2>1, EmptySeq
<1>2. \A k \in 1..n - 1 : s[k].pc = "handler"
  BY DEF Careful, CarefulAt
<1> HIDE DEF s
<1>3. /\ b \in Seq(Frame) /\ Len(b) = n - 1
      /\ \A k \in 1..n - 1 : b[k] = s[k]
  BY <1>1, FrontElements
<1> HIDE DEF n
<1>4. /\ e \in Seq(Frame) /\ Len(e) \in {0, 1}
      /\ \A k \in 1..Len(e) : k = 1 /\ e[k].pc = "malloc"
  <2>1. CASE e = <<>>
    BY <2>1
  <2>2. ASSUME NEW l \in BOOLEAN, e = <<NewFrame(l)>>
        PROVE  /\ e \in Seq(Frame) /\ Len(e) \in {0, 1}
               /\ \A k \in 1..Len(e) : k = 1 /\ e[k].pc = "malloc"
    <3>1. NewFrame(l) \in Frame
      BY FirstFrame DEF Sound
    <3>2. NewFrame(l).pc = "malloc"
      BY DEF NewFrame
    <3> QED
      BY <2>2, <3>1, <3>2
  <2> QED
    BY <2>1, <2>2
<1> HIDE DEF b
<1>5. /\ b \o e \in Seq(Frame) /\ Len(b \o e) = Len(b) + Len(e)
      /\ \A k \in 1..Len(b) + Len(e) :
           (b \o e)[k] = IF k <= Len(b) THEN b[k] ELSE e[k - Len(b)]
  <2>1. b \in Seq(Frame) /\ e \in Seq(Frame)
    BY <1>3, <1>4
  <2> QED
    BY <2>1, ConcatProperties, Zenon
<1>6. c = b \o e
  BY DEF b, s
<1> HIDE DEF c
<1>7. /\ c \in Seq(Frame) /\ Len(c) = n - 1 + Len(e)
      /\ \A k \in 1..n - 1 : c[k].pc = "handler"
      /\ \A k \in n..Len(c) : c[k].pc = "malloc"
  <2>1. \A k \in 1..n - 1 : k \in 1..Len(b) + Len(e) /\ k <= Len(b)
    BY <1>1, <1>3, <1>4
  <2>2. \A k \in n..Len(c) : k \in 1..Len(b) + Len(e) /\ ~(k <= Len(b)) /\ k - Len(b) \in 1..Len(e)
    BY <1>1, <1>3, <1>4, <1>5, <1>6
  <2>3. \A k \in 1..n - 1 : c[k].pc = "handler"
    BY <1>2, <1>3, <1>5, <1>6, <2>1
  <2>4. \A k \in n..Len(c) : c[k].pc = "malloc"
    BY <1>4, <1>5, <1>6, <2>2
  <2> QED
    BY <1>3, <1>5, <1>6, <2>3, <2>4
<1>8. CarefulAt(c, None, Len(socketHandlers))
  <2>1. \A k \in 1..Len(c) - 1 : k \in 1..n - 1
    BY <1>1, <1>4, <1>7
  <2>2. c # <<>> => c[Len(c)].pc \in {"handler", "malloc"}
    <3>1. c # <<>> => Len(c) \in 1..n - 1 \/ Len(c) \in n..Len(c)
      BY <1>1, <1>4, <1>7, EmptySeq
    <3> QED
      BY <1>7, <3>1
  <2> QED
    BY <1>7, <2>1, <2>2 DEF CarefulAt
<1> QED
  BY <1>8 DEF Careful, c

(* A step of Listener() on the main thread goes wrong only on a deleted      *)
(* object.                                                                   *)
LEMMA ListenerCareful ==
  ASSUME IInv, Quiet, Alone, Careful, ~fault,
         TakeHeap(Main) \/ DropHeap(Main) \/ Receive(Main) \/ Check(Main) \/ Fetch(Main)
           \/ Return(Main)
  PROVE  Careful' /\ (fault' => ~live' /\ frames'[Main] # <<>>)
<1>0. live' = live
  BY DEF TakeHeap, DropHeap, Receive, Check, Fetch, Return, Dispatch
<1> SUFFICES Careful' /\ (fault' => ~live /\ frames'[Main] # <<>>)
  BY <1>0
<1> DEFINE f == Top(Main)
           n == Len(socketHandlers)
<1>1. /\ UNCHANGED <<pending, live, socketHandlers>>
      /\ frames[Main] # <<>> /\ f = frames[Main][Len(frames[Main])]
  BY DEF TakeHeap, DropHeap, Receive, Check, Fetch, Return, Dispatch, At, Top, Depth, object
<1>2. pending[Main] = None
  <2>1. CASE Return(Main)
    BY <2>1 DEF Return
  <2>2. CASE ~Return(Main)
    <3>1. f.pc # "handler"
      BY <2>2 DEF TakeHeap, DropHeap, Receive, Check, Fetch, At, Top
    <3> QED
      BY <1>1, <3>1 DEF Careful, CarefulAt, InUserCode
  <2> QED
    BY <2>1, <2>2
<1>3. frames' \in [Thread -> Seq(Frame)]
  <2>1. FramesOK(frames', socketHandlers', regs')
    BY PendingMain, ListenerSteps
  <2> QED
    BY <2>1 DEF FramesOK
<1>4. ASSUME NEW g, SetTop(Main, g), g.pc = "fetch" => g.i < n
      PROVE  Careful' /\ frames'[Main] # <<>>
  BY <1>1, <1>2, <1>3, <1>4, TopCareful
<1>5. f \in Frame
  BY <1>1, PendingMain, TopSound DEF Sound
<1>6. /\ \A p : [f EXCEPT !.pc = p].pc = p /\ [f EXCEPT !.pc = p].i = f.i
      /\ \A p, d : [f EXCEPT !.pc = p, !.due = d].pc = p
      /\ \A p, d : [f EXCEPT !.pc = p, !.calls = d].pc = p
      /\ Advance(f).pc = "check"
  <2> HIDE DEF f
  <2> QED
    BY <1>5 DEF Advance, Frame
<1>7. fault' \in {~live, ~live \/ Racing(Main)} => (fault' => ~live)
  BY MainAlone
<1> HIDE DEF f
<1>8. CASE TakeHeap(Main)
  <2>1. Goto(Main, "alloc") \/ Goto(Main, "freeing")
    BY <1>8 DEF TakeHeap
  <2>2. Careful' /\ frames'[Main] # <<>>
    BY <1>4, <1>6, <2>1 DEF Goto, f
  <2>3. fault' => ~live
    BY <1>8 DEF TakeHeap
  <2> QED
    BY <2>2, <2>3
<1>9. CASE DropHeap(Main)
  <2>1. ASSUME Goto(Main, "recv") PROVE Careful'
    BY <1>4, <1>6, <2>1 DEF Goto, f
  <2>2. ASSUME frames' = [frames EXCEPT ![Main] = Front(@) \o Again(Last(@))]
        PROVE  Careful'
    <3> DEFINE e == Again(Last(frames[Main]))
    <3>1. e = <<>> \/ \E l \in BOOLEAN : e = <<NewFrame(l)>>
      BY DEF Again
    <3>2. frames'[Main] = Front(frames[Main]) \o e
      BY <2>2, PendingMain
    <3> HIDE DEF e
    <3> QED
      BY <1>1, <1>2, <3>1, <3>2, ReturnCareful
  <2>3. ~fault'
    BY <1>9 DEF DropHeap
  <2> QED
    BY <1>9, <2>1, <2>2, <2>3 DEF DropHeap
<1>10. CASE Receive(Main)
  <2>1. \/ SetTop(Main, [f EXCEPT !.pc = "check", !.due = Registered])
        \/ Goto(Main, "free")
    BY <1>10 DEF Receive, f
  <2>2. Careful' /\ frames'[Main] # <<>>
    BY <1>4, <1>6, <2>1 DEF Goto, f
  <2>3. fault' => ~live
    BY <1>10 DEF Receive
  <2> QED
    BY <2>2, <2>3
<1>11. CASE Check(Main)
  <2>1. Goto(Main, IF f.i < n THEN "fetch" ELSE "free")
    BY <1>11 DEF Check, InRange, f
  <2>2. Careful' /\ frames'[Main] # <<>>
    BY <1>4, <1>6, <2>1 DEF Goto, f
  <2>3. fault' \in {~live, ~live \/ Racing(Main)}
    BY <1>11 DEF Check
  <2> QED
    BY <1>7, <2>2, <2>3
<1>12. CASE Fetch(Main)
  <2>1. f.i < n /\ f.i \in Int
    <3>1. f.pc = "fetch"
      BY <1>12 DEF Fetch, At, f, Top
    <3>2. f.i \in Int
      BY <1>5, NetSocketAssumption DEF Frame
    <3> QED
      BY <1>1, <3>1, <3>2 DEF Careful, CarefulAt
  <2> DEFINE calls == Append(f.calls, socketHandlers[f.i + 1].id)
  <2>2. ~(f.i >= Len(socketHandlers))
    BY <2>1, PendingMain
  <2>3. /\ SetTop(Main, [f EXCEPT !.pc = "handler", !.calls = calls])
        /\ fault' \in {~live, ~live \/ Racing(Main)}
    BY <1>12, <2>2, Zenon DEF Fetch, f
  <2> HIDE DEF calls
  <2>4. Careful' /\ frames'[Main] # <<>>
    BY <1>4, <1>6, <2>3
  <2> QED
    BY <1>7, <2>3, <2>4
<1>13. CASE Return(Main)
  <2>1. SetTop(Main, Advance(f)) /\ ~fault'
    BY <1>13 DEF Return, f
  <2> QED
    BY <1>4, <1>6, <2>1
<1> QED
  BY <1>8, <1>9, <1>10, <1>11, <1>12, <1>13

(* A call by user code on the main thread. *)
LEMMA CallCareful ==
  ASSUME IInv, Quiet, Alone, Alone', Careful, ~fault, Call(Main)
  PROVE  Careful' /\ (fault' => Astray(Main)')
<1> DEFINE hs == socketHandlers
<1>0. Main \in Thread /\ frames \in [Thread -> Seq(Frame)] /\ pending \in [Thread -> Half]
  BY PendingMain
<1>1. ASSUME NEW fn \in Function, AddHandler(Main, fn)
      PROVE  Careful' /\ ~fault'
  <2> DEFINE half == [op |-> "set", fn |-> fn, id |-> regs + 1]
  <2>1. Edit(Main, half) /\ MayCrash(Main) /\ frames' = frames
    BY <1>1 DEF AddHandler
  <2> HIDE DEF half
  <2> QED
    BY <2>1, EditCareful
<1>2. ASSUME NEW fn \in Function, RemoveHandler(Main, fn)
      PROVE  Careful' /\ ~fault'
  <2> DEFINE half == [op |-> "erase", fn |-> fn]
  <2>1. Edit(Main, half) /\ MayCrash(Main) /\ Cut
    BY <1>2 DEF RemoveHandler
  <2> HIDE DEF half
  <2> QED
    BY <2>1, EditCareful
<1>3. ASSUME NEW i \in 0..MaxReg, RemoveHandlerAt(Main, i)
      PROVE  Careful' /\ (fault' => Astray(Main)')
  <2> DEFINE half == [op |-> "eraseAt", i |-> i]
  <2>1. /\ Edit(Main, half) /\ UNCHANGED <<frames, socketHandlers>>
        /\ MayCrash(Main) \/ half.i >= Len(socketHandlers)
    BY <1>3 DEF RemoveHandlerAt
  <2>2. half.op = "eraseAt" /\ half \in SecondHalf
    BY DEF SecondHalf
  <2> HIDE DEF half
  <2>3. half # None
    BY <2>2, NetSocketAssumption
  <2>4. Careful' /\ pending'[Main] = half /\ (MayCrash(Main) => fault' = FALSE)
    BY <2>1, EditCareful
  <2> QED
    BY <2>1, <2>2, <2>3, <2>4 DEF Astray
<1>4. CASE RemoveHandlers(Main)
  <2> DEFINE half == [op |-> "clear"]
  <2>1. Edit(Main, half) /\ MayCrash(Main) /\ Cut
    BY <1>4 DEF RemoveHandlers
  <2> HIDE DEF half
  <2> QED
    BY <2>1, EditCareful
<1>5. ASSUME UserCode(Main), frames' = frames, UNCHANGED <<fault, socketHandlers>>,
             pending' = pending \/ pending' = [pending EXCEPT ![Main] = [op |-> "delete"]]
      PROVE  Careful' /\ ~fault'
  <2>1. InUserCode(frames[Main]) /\ pending[Main] = None
    BY <1>5, CallsFromUserCode
  <2>2. pending'[Main] = None \/ pending'[Main] = [op |-> "delete"]
    BY <1>0, <1>5, <2>1
  <2>4. CarefulAt(frames'[Main], pending'[Main], Len(socketHandlers'))
    BY <1>5, <2>1, UserCareful
  <2> QED
    BY <1>5, <2>4 DEF Careful
<1>6. ASSUME UserCode(Main), NEW l \in BOOLEAN, UNCHANGED <<fault, pending, socketHandlers>>,
             frames' = [frames EXCEPT ![Main] = Append(@, NewFrame(l))]
      PROVE  Careful' /\ ~fault'
  <2> DEFINE s == frames[Main]
             n == Len(s)
             c == Append(s, NewFrame(l))
  <2>1. InUserCode(s) /\ pending[Main] = None
    BY <1>6, CallsFromUserCode
  <2>2. s \in Seq(Frame) /\ n \in Nat /\ NewFrame(l) \in Frame
    <3>1. Sound(NewFrame(l), socketHandlers, regs)
      BY FirstFrame
    <3>2. NewFrame(l) \in Frame
      BY <3>1 DEF Sound
    <3> QED
      BY <3>2, PendingMain
  <2>3. \A k \in 1..n - 1 : s[k].pc = "handler"
    BY DEF Careful, CarefulAt
  <2>4. frames'[Main] = c
    BY <1>0, <1>6
  <2>5. NewFrame(l).pc = "malloc"
    BY DEF NewFrame
  <2> HIDE DEF s
  <2>6. /\ c \in Seq(Frame) /\ Len(c) = n + 1 /\ c[n + 1] = NewFrame(l)
        /\ \A k \in 1..n : c[k] = s[k]
    BY <2>2, AppendProperties
  <2>7. \A k \in 1..n : s[k].pc = "handler"
    <3>1. s # <<>> => s[n].pc = "handler"
      BY <2>1 DEF InUserCode
    <3>2. s = <<>> => n = 0
      OBVIOUS
    <3>3. \A k \in 1..n : k \in 1..n - 1 \/ (k = n /\ n # 0)
      BY <2>2
    <3> QED
      BY <2>3, <3>1, <3>2, <3>3
  <2> HIDE DEF c, n
  <2>8. CarefulAt(c, None, Len(hs))
    <3>1. \A k \in 1..Len(c) - 1 : k \in 1..n
      BY <2>2, <2>6 DEF n
    <3> QED
      BY <2>5, <2>6, <2>7, <3>1 DEF CarefulAt
  <2> QED
    BY <1>6, <2>1, <2>4, <2>8 DEF Careful
<1>7. CASE StepListener(Main) \/ Listen(Main)
  BY <1>6, <1>7 DEF StepListener, Listen, Control, object
<1>8. CASE ListenAsync(Main)
  <2>1. ~\E l \in Listener : life' = [life EXCEPT ![l] = "alive"]
    BY DEF Alone, IInv, RestOK, Thread
  <2> QED
    BY <1>5, <1>8, <2>1 DEF ListenAsync, Control, object
<1>9. CASE StopListener(Main) \/ StartListener(Main)
  BY <1>5, <1>9 DEF StopListener, StartListener, Control, object
<1>10. CASE Destroy(Main)
  BY <1>5, <1>10 DEF Destroy, object
<1> QED
  BY <1>1, <1>2, <1>3, <1>4, <1>7, <1>8, <1>9, <1>10 DEF Call

LEMMA GuardedStep ==
  ASSUME IInv, Guarded, [Next]_vars
  PROVE  Guarded'
<1>1. Quiet /\ Quiet'
  BY QuietStep DEF Guarded
<1>2. Alone' => Alone
  BY LifeGrows DEF Alone, Thread
<1>3. ~Alone' => AloneSafe'
  BY DEF Alone, AloneSafe
<1>4. SUFFICES ASSUME Alone' PROVE AloneSafe' /\ Careful'
  BY <1>1, <1>3 DEF Guarded
<1>5. Alone /\ Careful /\ AloneSafe
  BY <1>2, <1>4 DEF Guarded
<1>6. CASE Arrive \/ UNCHANGED vars
  <2>1. UNCHANGED <<frames, pending, socketHandlers, fault, live>>
    BY <1>6 DEF Arrive, vars, object
  <2>2. Careful'
    BY <1>5, <2>1 DEF Careful
  <2>3. AloneSafe'
    BY <1>2, <1>4, <1>5, <2>1 DEF AloneSafe, Alone, Astray
  <2> QED
    BY <2>2, <2>3
<1>7. ASSUME NEW t \in Thread, Call(t) \/ Step(t)
      PROVE  AloneSafe' /\ Careful'
  <2>1. t = Main /\ ~fault
    BY <1>1, <1>5, <1>7, MainAlone, Actor, PendingMain
  <2>2. CASE Call(Main)
    BY <1>1, <1>4, <1>5, <2>1, <2>2, CallCareful DEF AloneSafe
  <2>3. CASE Finish(Main)
    BY <1>1, <1>5, <2>1, <2>3, FinishCareful DEF AloneSafe
  <2>4. CASE Step(Main) /\ ~Finish(Main)
    BY <1>1, <1>5, <2>1, <2>4, ListenerCareful DEF AloneSafe, Step
  <2> QED
    BY <1>7, <2>1, <2>2, <2>3, <2>4
<1> QED
  BY <1>6, <1>7 DEF Next

LEMMA GuardedInit == Init => Guarded
<1> SUFFICES ASSUME Init PROVE Guarded
  OBVIOUS
<1>1. /\ \A t \in Thread : frames[t] = <<>> /\ pending[t] = None
      /\ fault = FALSE /\ Main \in Thread /\ Listener \subseteq Thread
  BY DEF Init, Thread
<1>2. Careful
  BY <1>1 DEF Careful, CarefulAt
<1> QED
  BY <1>1, <1>2 DEF Guarded, Quiet, AloneSafe

(* A socket without a listening thread is memory safe, whatever handlers add *)
(* and remove from inside nested Listener() calls, but for two mistakes of   *)
(* its user: a handler that deletes the socket that is calling it, and an    *)
(* index for RemoveHandler(int) that the vector does not have.  Listener's   *)
(* own index test is never overtaken.                                        *)
THEOREM SafeAlone == Spec => []AloneSafe
<1>1. Init => Guarded
  BY GuardedInit
<1>2. IInv /\ Guarded /\ [Next]_vars => Guarded'
  BY GuardedStep
<1>3. Guarded => AloneSafe
  BY DEF Guarded
<1> QED
  BY <1>1, <1>2, <1>3, Inductive, PTL DEF Spec

-----------------------------------------------------------------------------
(* Each function is registered once, and the map gives every entry of the    *)
(* vector its userdata but for the entry the edit under way is about.        *)
Is(half, op) == half # None /\ half.op = op

DistinctIn(hs) == \A j, k \in 1..Len(hs) : hs[j].fn = hs[k].fn => j = k

InStepAt(hs, ud, half) ==
  \A k \in 1..Len(hs) :
    \/ Is(half, "set") /\ half.fn = hs[k].fn /\ half.id = hs[k].id
    \/ /\ Is(half, "set") \/ Is(half, "erase") => half.fn # hs[k].fn
       /\ ~Is(half, "clear")
       /\ ud[hs[k].fn] = hs[k].id \/ (Is(half, "eraseAt") /\ half.i = k - 1)

Consistent(hs, ud, half) == DistinctIn(hs) /\ InStepAt(hs, ud, half)

Matched ==
  Alone => Astray(Main) \/ Consistent(socketHandlers, socketUserdata, pending[Main])

LEMMA Functions ==
  ASSUME NEW hs \in Seq(Registration)
  PROVE  /\ Len(hs) \in Nat
         /\ \A k \in 1..Len(hs) : hs[k].fn \in Function /\ hs[k].id \in 1..MaxReg
<1>1. \A e \in Registration : e.fn \in Function /\ e.id \in 1..MaxReg
  BY DEF Registration
<1>2. Len(hs) \in Nat /\ \A k \in 1..Len(hs) : hs[k] \in Registration
  OBVIOUS
<1> QED
  BY <1>1, <1>2

(* Without an edit under way the map gives every entry its userdata. *)
LEMMA Rested ==
  ASSUME NEW hs, NEW ud
  PROVE  InStepAt(hs, ud, None) <=> \A k \in 1..Len(hs) : ud[hs[k].fn] = hs[k].id
  BY DEF InStepAt, Is

(* The first half of each edit. *)
LEMMA SetBegun ==
  ASSUME NEW hs \in Seq(Registration), NEW ud, NEW fn \in Function, NEW id \in 1..MaxReg,
         Consistent(hs, ud, None), \A k \in 1..Len(hs) : hs[k].fn # fn
  PROVE  Consistent(Append(hs, [fn |-> fn, id |-> id]), ud, [op |-> "set", fn |-> fn, id |-> id])
<1> DEFINE e == [fn |-> fn, id |-> id]
           half == [op |-> "set", fn |-> fn, id |-> id]
           c == Append(hs, e)
           n == Len(hs)
<1>1. e \in Registration /\ e.fn = fn /\ e.id = id
  BY DEF Registration
<1>2. half \in SecondHalf /\ half.op = "set" /\ half.fn = fn /\ half.id = id
  BY DEF SecondHalf
<1> HIDE DEF e, half
<1>3. half # None
  BY <1>2, NetSocketAssumption
<1>4. /\ n \in Nat /\ Len(c) = n + 1 /\ c[n + 1] = e
      /\ \A k \in 1..n : c[k] = hs[k]
  BY <1>1, AppendProperties
<1> HIDE DEF c
<1>5. \A k \in 1..n + 1 : k \in 1..n \/ k = n + 1
  BY <1>4
<1>6. DistinctIn(c)
  BY <1>1, <1>4, <1>5 DEF DistinctIn, Consistent
<1>7. \A k \in 1..n : ud[hs[k].fn] = hs[k].id
  BY Rested DEF Consistent
<1>8. InStepAt(c, ud, half)
  BY <1>1, <1>2, <1>3, <1>4, <1>5, <1>7 DEF InStepAt, Is
<1> QED
  BY <1>6, <1>8 DEF Consistent, c, e, half

LEMMA EraseBegun ==
  ASSUME NEW hs \in Seq(Registration), NEW ud, NEW i \in 1..Len(hs), Consistent(hs, ud, None)
  PROVE  Consistent(RemoveAt(hs, i), ud, [op |-> "erase", fn |-> hs[i].fn])
<1> DEFINE half == [op |-> "erase", fn |-> hs[i].fn]
           c == RemoveAt(hs, i)
           n == Len(hs)
<1>1. half.op = "erase" /\ half.fn = hs[i].fn
  OBVIOUS
<1> HIDE DEF half
<1>2. n \in Nat /\ Len(c) = n - 1 /\ \A k \in 1..n - 1 : c[k] = IF k < i THEN hs[k] ELSE hs[k + 1]
  BY RemoveAtElements
<1> HIDE DEF c
<1>3. DistinctIn(c)
  BY <1>2 DEF DistinctIn, Consistent
<1>4. \A k \in 1..n : ud[hs[k].fn] = hs[k].id
  BY Rested DEF Consistent
<1>5. \A k \in 1..n - 1 : c[k].fn # hs[i].fn /\ ud[c[k].fn] = c[k].id
  <2>1. \A k \in 1..n - 1 : \E j \in 1..n : j # i /\ c[k] = hs[j]
    BY <1>2
  <2> QED
    BY <1>4, <2>1 DEF DistinctIn, Consistent
<1>6. InStepAt(c, ud, half)
  BY <1>1, <1>2, <1>5 DEF InStepAt, Is
<1> QED
  BY <1>3, <1>6 DEF Consistent, c, half

LEMMA ForgottenBegun ==
  ASSUME NEW hs \in Seq(Registration), NEW ud \in [Function -> 0..MaxReg],
         NEW i \in 0..Len(hs) - 1, i \in 0..MaxReg, Consistent(hs, ud, None)
  PROVE  Consistent(hs, [ud EXCEPT ![hs[i + 1].fn] = 0], [op |-> "eraseAt", i |-> i])
<1> DEFINE half == [op |-> "eraseAt", i |-> i]
           d == [ud EXCEPT ![hs[i + 1].fn] = 0]
           n == Len(hs)
<1>1. half \in SecondHalf /\ half.op = "eraseAt" /\ half.i = i
  BY DEF SecondHalf
<1> HIDE DEF half
<1>2. half # None
  BY <1>1, NetSocketAssumption
<1>3. \A k \in 1..n : hs[k].fn \in Function /\ ud[hs[k].fn] = hs[k].id
  BY Rested, Functions DEF Consistent
<1>4. \A k \in 1..n : k = i + 1 \/ hs[k].fn # hs[i + 1].fn
  BY DEF Consistent, DistinctIn
<1>5. \A k \in 1..n : k = i + 1 \/ d[hs[k].fn] = hs[k].id
  BY <1>3, <1>4
<1>6. InStepAt(hs, d, half)
  BY <1>1, <1>2, <1>5 DEF InStepAt, Is
<1> QED
  BY <1>6 DEF Consistent, half

(* The second half of each. *)
LEMMA SetDone ==
  ASSUME NEW hs \in Seq(Registration), NEW ud \in [Function -> 0..MaxReg], NEW half,
         Is(half, "set"), Consistent(hs, ud, half)
  PROVE  Consistent(hs, [ud EXCEPT ![half.fn] = half.id], None)
<1> DEFINE d == [ud EXCEPT ![half.fn] = half.id]
<1>1. \A k \in 1..Len(hs) :
        \/ half.fn = hs[k].fn /\ half.id = hs[k].id
        \/ half.fn # hs[k].fn /\ ud[hs[k].fn] = hs[k].id
  BY DEF Consistent, InStepAt, Is
<1>2. \A k \in 1..Len(hs) : d[hs[k].fn] = hs[k].id
  BY <1>1, Functions
<1> QED
  BY <1>2, Rested DEF Consistent

LEMMA EraseDone ==
  ASSUME NEW hs \in Seq(Registration), NEW ud \in [Function -> 0..MaxReg], NEW half,
         Is(half, "erase"), Consistent(hs, ud, half)
  PROVE  Consistent(hs, [ud EXCEPT ![half.fn] = 0], None)
<1> DEFINE d == [ud EXCEPT ![half.fn] = 0]
<1>1. \A k \in 1..Len(hs) : half.fn # hs[k].fn /\ ud[hs[k].fn] = hs[k].id
  BY DEF Consistent, InStepAt, Is
<1>2. \A k \in 1..Len(hs) : d[hs[k].fn] = hs[k].id
  BY <1>1, Functions
<1> QED
  BY <1>2, Rested DEF Consistent

LEMMA ForgottenDone ==
  ASSUME NEW hs \in Seq(Registration), NEW ud, NEW half, Is(half, "eraseAt"),
         half.i \in 0..Len(hs) - 1, Consistent(hs, ud, half)
  PROVE  Consistent(RemoveAt(hs, half.i + 1), ud, None)
<1> DEFINE i == half.i + 1
           c == RemoveAt(hs, i)
           n == Len(hs)
<1>1. i \in 1..n /\ n \in Nat
  BY Functions
<1>2. \A k \in 1..n : k # i => ud[hs[k].fn] = hs[k].id
  BY <1>1 DEF Consistent, InStepAt, Is
<1> HIDE DEF i
<1>3. Len(c) = n - 1 /\ \A k \in 1..n - 1 : c[k] = IF k < i THEN hs[k] ELSE hs[k + 1]
  BY <1>1, RemoveAtElements
<1> HIDE DEF c
<1>4. DistinctIn(c)
  BY <1>1, <1>3 DEF DistinctIn, Consistent
<1>5. \A k \in 1..n - 1 : \E j \in 1..n : j # i /\ c[k] = hs[j]
  BY <1>1, <1>3
<1>6. \A k \in 1..Len(c) : ud[c[k].fn] = c[k].id
  BY <1>2, <1>3, <1>5
<1>7. Consistent(c, ud, None)
  BY <1>4, <1>6, Rested DEF Consistent
<1> QED
  BY <1>7 DEF c, i

LEMMA Emptied ==
  ASSUME NEW ud, NEW half
  PROVE  Consistent(<<>>, ud, half)
  BY DEF Consistent, DistinctIn, InStepAt

(* A call starts an edit only when none is under way, one that AddHandler's  *)
(* caller may make registers a function that is not registered.              *)
LEMMA CallMatched ==
  ASSUME Reuse = FALSE, IInv, Call(Main),
         Consistent(socketHandlers, socketUserdata, pending[Main])
  PROVE  Astray(Main)' \/ Consistent(socketHandlers, socketUserdata, pending[Main])'
<1> DEFINE hs == socketHandlers
           ud == socketUserdata
<1> SUFFICES ASSUME ~Astray(Main)' PROVE Consistent(hs', ud', pending'[Main])
  OBVIOUS
<1>0. /\ pending \in [Thread -> Half] /\ Main \in Thread
      /\ hs \in Seq(Registration) /\ ud \in [Function -> 0..MaxReg] /\ regs \in 0..MaxReg
  BY PendingMain DEF IInv, RestOK
<1>1. ASSUME UserCode(Main) PROVE Consistent(hs, ud, None)
  BY <1>1, CallsFromUserCode
<1>2. DOMAIN hs = 1..Len(hs) /\ Len(hs) \in Nat
  BY <1>0
<1> HIDE DEF hs, ud
<1>3. ASSUME NEW half, Edit(Main, half)
      PROVE  Consistent(hs, ud, None) /\ pending'[Main] = half
  BY <1>0, <1>1, <1>3 DEF Edit
<1>4. ASSUME NEW fn \in Function, AddHandler(Main, fn)
      PROVE  Consistent(hs', ud', pending'[Main])
  <2> DEFINE half == [op |-> "set", fn |-> fn, id |-> regs + 1]
  <2>1. Edit(Main, half)
    BY <1>4 DEF AddHandler
  <2>2. /\ regs + 1 \in 1..MaxReg /\ \A k \in 1..Len(hs) : hs[k].fn # fn
        /\ hs' = Append(hs, [fn |-> fn, id |-> regs + 1]) /\ ud' = ud
    BY <1>0, <1>2, <1>4, NetSocketAssumption DEF AddHandler, PushedBack, hs, ud
  <2>3. Consistent(hs', ud, half)
    BY <1>0, <1>3, <2>1, <2>2, SetBegun
  <2> HIDE DEF half
  <2> QED
    BY <1>3, <2>1, <2>2, <2>3
<1>5. ASSUME NEW fn \in Function, RemoveHandler(Main, fn)
      PROVE  Consistent(hs', ud', pending'[Main])
  <2> DEFINE half == [op |-> "erase", fn |-> fn]
  <2>1. PICK i \in 1..Len(hs) : /\ hs[i].fn = fn /\ Edit(Main, half)
                                /\ hs' = RemoveAt(hs, i) /\ ud' = ud
    BY <1>2, <1>5 DEF RemoveHandler, hs, ud
  <2>2. Consistent(hs', ud, half)
    BY <1>0, <1>3, <2>1, EraseBegun
  <2> HIDE DEF half
  <2> QED
    BY <1>3, <2>1, <2>2
<1>6. ASSUME NEW i \in 0..MaxReg, RemoveHandlerAt(Main, i)
      PROVE  Consistent(hs', ud', pending'[Main])
  <2> DEFINE half == [op |-> "eraseAt", i |-> i]
  <2>0. half \in SecondHalf /\ half # None /\ half.op = "eraseAt" /\ half.i = i
    BY NetSocketAssumption DEF SecondHalf
  <2>1. /\ Edit(Main, half) /\ i < Len(hs) /\ hs' = hs
        /\ ud' = [ud EXCEPT ![hs[i + 1].fn] = 0]
    <3>1. Edit(Main, half) /\ hs' = hs
      BY <1>6 DEF RemoveHandlerAt, hs
    <3> HIDE DEF half
    <3>2. pending'[Main] = half
      BY <1>3, <3>1
    <3>3. ~(i >= Len(hs))
      BY <2>0, <3>1, <3>2 DEF Astray, hs
    <3> QED
      BY <1>2, <1>6, <3>1, <3>3 DEF RemoveHandlerAt, Forgotten, hs, ud
  <2>2. i \in 0..Len(hs) - 1
    BY <1>2, <2>1
  <2>3. Consistent(hs, ud', half)
    BY <1>0, <1>3, <2>1, <2>2, ForgottenBegun
  <2> HIDE DEF half
  <2> QED
    BY <1>3, <2>1, <2>3
<1>7. CASE RemoveHandlers(Main)
  <2>1. hs' = <<>>
    BY <1>7 DEF RemoveHandlers, hs
  <2> QED
    BY <2>1, Emptied
<1>8. ASSUME UserCode(Main), hs' = hs, ud' = ud,
             pending' = pending \/ pending' = [pending EXCEPT ![Main] = [op |-> "delete"]]
      PROVE  Consistent(hs', ud', pending'[Main])
  <2>1. Consistent(hs, ud, None) /\ (pending'[Main] = None \/ pending'[Main].op = "delete")
    BY <1>0, <1>1, <1>8, CallsFromUserCode
  <2>2. InStepAt(hs, ud, pending'[Main])
    BY <2>1 DEF Consistent, InStepAt, Is
  <2> QED
    BY <1>8, <2>1, <2>2 DEF Consistent
<1>9. CASE \/ StepListener(Main) \/ Listen(Main) \/ ListenAsync(Main)
           \/ StopListener(Main) \/ StartListener(Main) \/ Destroy(Main)
  BY <1>8, <1>9 DEF StepListener, Listen, ListenAsync, StopListener, StartListener, Destroy,
                    Control, object, hs, ud
<1> QED
  BY <1>4, <1>5, <1>6, <1>7, <1>9 DEF Call

LEMMA FinishMatched ==
  ASSUME IInv, Finish(Main), ~Astray(Main),
         Consistent(socketHandlers, socketUserdata, pending[Main])
  PROVE  Consistent(socketHandlers, socketUserdata, pending[Main])'
<1> DEFINE hs == socketHandlers
           ud == socketUserdata
           half == pending[Main]
<1> SUFFICES Consistent(hs', ud', pending'[Main])
  OBVIOUS
<1>0. /\ pending \in [Thread -> Half] /\ Main \in Thread
      /\ hs \in Seq(Registration) /\ ud \in [Function -> 0..MaxReg] /\ Len(hs) \in Nat
  BY PendingMain DEF IInv, RestOK
<1>1. half # None /\ pending'[Main] = None
  BY <1>0 DEF Finish
<1>2. half.op = "eraseAt" => half.i \in 0..Len(hs) - 1
  <2>1. half.op = "eraseAt" => half.i \in 0..MaxReg
    BY <1>0, <1>1 DEF Half, SecondHalf
  <2>2. half.op = "eraseAt" => ~(half.i >= Len(hs))
    BY <1>1 DEF Astray
  <2> QED
    BY <1>0, <2>1, <2>2, NetSocketAssumption
<1>3. Consistent(hs, ud, half)
  OBVIOUS
<1>4. \/ /\ half.op \in {"set", "erase", "clear"} /\ hs' = hs
         /\ ud' = CASE half.op = "set" -> [ud EXCEPT ![half.fn] = half.id]
                    [] half.op = "erase" -> [ud EXCEPT ![half.fn] = 0]
                    [] half.op = "clear" -> [fn \in Function |-> 0]
      \/ half.op = "eraseAt" /\ hs' = RemoveAt(hs, half.i + 1) /\ ud' = ud
      \/ half.op = "delete" /\ hs' = hs /\ ud' = ud
  BY Zenon DEF Finish
<1> HIDE DEF hs, ud, half
<1>5. CASE half.op = "set"
  BY <1>0, <1>1, <1>3, <1>4, <1>5, SetDone DEF Is
<1>6. CASE half.op = "erase"
  BY <1>0, <1>1, <1>3, <1>4, <1>6, EraseDone DEF Is
<1>7. CASE half.op = "clear"
  <2>1. \A k \in 1..Len(hs) : FALSE
    BY <1>1, <1>3, <1>7 DEF Consistent, InStepAt, Is
  <2>2. hs' = hs
    BY <1>4, <1>7
  <2> QED
    BY <1>1, <1>3, <2>1, <2>2 DEF Consistent, DistinctIn, InStepAt
<1>8. CASE half.op = "eraseAt"
  <2>1. Consistent(RemoveAt(hs, half.i + 1), ud, None)
    BY <1>0, <1>1, <1>2, <1>3, <1>8, ForgottenDone DEF Is
  <2>2. hs' = RemoveAt(hs, half.i + 1) /\ ud' = ud
    BY <1>4, <1>8
  <2> QED
    BY <1>1, <2>1, <2>2
<1>9. CASE half.op = "delete"
  <2>1. InStepAt(hs, ud, None)
    BY <1>3, <1>9 DEF Consistent, InStepAt, Is
  <2>2. hs' = hs /\ ud' = ud
    BY <1>4, <1>9
  <2>3. Consistent(hs', ud', None)
    BY <1>3, <2>1, <2>2 DEF Consistent
  <2> QED
    BY <1>1, <2>3
<1> QED
  BY <1>4, <1>5, <1>6, <1>7, <1>8, <1>9

LEMMA MatchedStep ==
  ASSUME Reuse = FALSE, IInv, Guarded, Matched, [Next]_vars
  PROVE  Matched'
<1> DEFINE Kept == Astray(Main) \/ Consistent(socketHandlers, socketUserdata, pending[Main])
<1>1. SUFFICES ASSUME Alone' PROVE Kept'
  BY DEF Matched
<1>2. Alone /\ Quiet /\ Kept
  BY <1>1, LifeGrows DEF Alone, Thread, Guarded, Matched
<1>3. CASE UNCHANGED <<pending, socketHandlers, socketUserdata>>
  BY <1>2, <1>3 DEF Astray
<1>4. CASE Arrive \/ UNCHANGED vars
  BY <1>3, <1>4 DEF Arrive, vars, object
<1>5. ASSUME NEW t \in Thread, Call(t) \/ Step(t)
      PROVE  Kept'
  <2>1. t = Main
    BY <1>2, <1>5, MainAlone
  <2>2. CASE Call(Main)
    <3>1. UserCode(Main)
      BY <2>2 DEF Call, AddHandler, RemoveHandler, RemoveHandlerAt, RemoveHandlers, Edit,
                  StepListener, Listen, ListenAsync, StopListener, StartListener, Destroy
    <3>2. ~Astray(Main)
      BY <3>1, CallsFromUserCode DEF Astray
    <3> QED
      BY <1>2, <2>2, <3>2, CallMatched
  <2>3. CASE Finish(Main) /\ ~Astray(Main)
    BY <1>2, <2>3, FinishMatched
  <2>5. CASE Finish(Main) /\ Astray(Main)
    <3>1. UNCHANGED <<pending, socketHandlers>>
      BY <2>5 DEF Finish, Astray
    <3> QED
      BY <2>5, <3>1 DEF Astray
  <2>4. CASE Step(Main) /\ ~Finish(Main)
    BY <1>3, <2>4
       DEF Step, TakeHeap, DropHeap, Receive, Check, Fetch, Return, Dispatch, object
  <2> QED
    BY <1>5, <2>1, <2>2, <2>3, <2>4, <2>5
<1> QED
  BY <1>4, <1>5 DEF Next

(* When no function is registered twice at a time, every handler of a socket *)
(* without a listening thread gets the userdata it was registered with: the  *)
(* vector and the map that AddHandler and the three RemoveHandlers edit one  *)
(* after the other agree again after each call.                              *)
THEOREM UserdataKept ==
  ASSUME Reuse = FALSE
  PROVE  Spec => []UserdataOfRegistration
<1>1. Init => Guarded /\ Matched
  <2>1. Init => Consistent(socketHandlers, socketUserdata, pending[Main])
    BY Emptied DEF Init
  <2> QED
    BY <2>1, GuardedInit DEF Matched
<1>2. IInv /\ Guarded /\ Matched /\ [Next]_vars => (Guarded /\ Matched)'
  BY GuardedStep, MatchedStep
<1>3. IInv /\ Matched => UserdataOfRegistration
  <2>1. SUFFICES ASSUME IInv, Matched, Alone, pending[Main] = None
                 PROVE  \A k \in DOMAIN socketHandlers :
                          socketUserdata[socketHandlers[k].fn] = socketHandlers[k].id
    BY PendingMain DEF UserdataOfRegistration, Alone
  <2>2. DOMAIN socketHandlers = 1..Len(socketHandlers)
    BY <2>1, PendingMain
  <2> QED
    BY <2>1, <2>2, Rested DEF Matched, Consistent, Astray
<1> QED
  BY <1>1, <1>2, <1>3, Inductive, PTL DEF Spec
=============================================================================
