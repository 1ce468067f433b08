--------------------------- MODULE CollectorProofs ---------------------------
(* Nothing the program can get at is freed, for any heap, any objects and    *)
(* any order of operations and collector steps.                              *)
EXTENDS Collector, TLAPS

Marking == gcstate \in {"propagate", "remark", "reweak", "again", "preserve"}
Sweeping == gcstate \in {"sweepstring", "sweep"}
Idle == gcstate \in {"pause", "finalize"}
Gcable == Table \cup Closure \cup Thread
Kept == {o \in alive : ~IsDead(o)}
Shady(S) == \A x \in S : ~White(x)

(* References are typed: userdata refer to tables, strings to nothing, and   *)
(* upvalues are found in functions only.                                     *)
Typed(o, x) == (o \in Userdata => x \in Table) /\ (x \in UpVal => o \in Closure) /\ o \notin String
RefTyped == \A o \in Obj : \A x \in Contents(o) : Typed(o, x)

(* What is never black, and never gray; so a weak table is not looked at a   *)
(* second time.                                                              *)
Shades ==
  /\ \A o \in Obj :
       /\ colour[o] = "black" => o \notin Weak \cup Thread \cup String
                                 /\ (o \in UpVal => ~Open(o))
       /\ colour[o] = "gray" => o \notin Userdata
  /\ grayagain \cap Weak = {}

(* An open upvalue is in its thread's list, not in the collector's.          *)
Struct ==
  /\ TypeOK /\ RefTyped /\ Shades
  /\ \A x \in tosweep \cap UpVal : ~Open(x)

(* What is kept refers to what is kept.                                      *)
Closed ==
  /\ Roots \subseteq Kept
  /\ \A o \in Kept : Contents(o) \subseteq Kept
Owners == \A x \in UpVal : Open(x) => x \in alive /\ owner[x] \in alive

(* How far each userdata is on the way to its finalizer.                     *)
Finals ==
  /\ tmudata \subseteq Kept \cap finalized
  /\ \A u \in alive \cap Userdata : IsDead(u) => u \in finalized
  /\ \A u \in Userdata : ran[u] <= 1
  /\ \A u \in tmudata : ran[u] = 0
  /\ \A u \in alive \cap Userdata : u \notin finalized => ran[u] = 0
  /\ \A u \in alive \cap finalized \cap Finalizable : u \in tmudata \/ ran[u] = 1
  /\ gcstate = "closing" => alive \cap Userdata \subseteq finalized

(* Between two cycles everything has the current white; the sweep brings it  *)
(* there.                                                                    *)
IdleInv ==
  Idle => gray = {} /\ \A o \in alive \ tmudata : colour[o] = currentwhite
SweepInv ==
  Sweeping =>
    /\ gray = {} /\ tosweep \cap tmudata = {}
    /\ \A o \in alive \ tmudata : colour[o] # currentwhite =>
         o \in tosweep \/ (o \in UpVal /\ Open(o) /\ owner[o] \in tosweep)

(* The collector's lists hold what is gray, and nothing black refers to      *)
(* something white.                                                          *)
MarkInv ==
  Marking =>
    /\ \A o \in alive : colour[o] # OtherWhite
    /\ \A o \in gray \cup grayagain \cup weak : o \in alive /\ colour[o] = "gray"
    /\ \A o \in alive \cap Gcable : colour[o] = "gray" => o \in gray \cup grayagain \cup weak
    /\ \A o \in alive : colour[o] = "black" /\ (o \notin tmudata \/ gcstate = "preserve") =>
         Shady(Contents(o))
    /\ \A x \in alive \cap UpVal : colour[x] = "gray" => Open(x)
    /\ Shady({main, registry})

(* The stages of the atomic phase, each keeping what the ones before did.    *)
AtomicInv ==
  /\ gcstate \in {"remark", "reweak", "again", "preserve"} =>
       \A x \in alive \cap UpVal : colour[x] = "gray" => Shady(Contents(x))
  /\ gcstate \in {"reweak", "again", "preserve"} =>
       Shady({running} \cup mt) /\ \A t \in weak : Shady(Strong(t))
  /\ gcstate \in {"again", "preserve"} => \A o \in grayagain : Shady(Strong(o))
  /\ gcstate = "preserve" =>
       Shady(tmudata) /\ \A u \in alive \cap Userdata : White(u) => u \in finalized

Core ==
  Closed /\ Owners /\ Finals /\ OneList /\ IdleInv /\ SweepInv /\ MarkInv /\ AtomicInv
IInv == Struct /\ (~tainted /\ gcstate # "closed" => Core) /\ OneList /\ FinalizedOnce

LEMMA Kinds ==
  /\ Thread \subseteq Obj /\ Table \subseteq Obj /\ Userdata \subseteq Obj
  /\ String \subseteq Obj /\ Closure \subseteq Obj /\ UpVal \subseteq Obj
  /\ Weak \subseteq Table /\ main \in Thread /\ registry \in Table /\ registry \notin Weak
  /\ Nil \notin Obj /\ Field \notin Obj /\ Nil # Field /\ Gcable \subseteq Obj
  /\ Obj = Gcable \cup Userdata \cup String \cup UpVal
  /\ Fixed \subseteq String \cup Thread /\ main \in Fixed
  /\ Finalizable \subseteq Userdata
BY KindsAssumption, SubkindsAssumption DEF Obj, Thread, Weak, Gcable, Fixed

(* Objects are of one kind. *)
LEMMA Apart ==
  /\ \A o \in Table : o \notin Userdata \cup String \cup Closure \cup UpVal \cup Thread
  /\ \A o \in Userdata : o \notin String \cup Closure \cup UpVal \cup Thread
  /\ \A o \in String : o \notin Closure \cup UpVal \cup Thread
  /\ \A o \in Closure : o \notin UpVal \cup Thread
  /\ \A o \in UpVal : o \notin Thread
BY KindsAssumption DEF Thread

(* What an object refers to, entry by entry. *)
LEMMA EndsDef ==
  ASSUME NEW E, NEW x
  PROVE  x \in Ends(E) <=> x # Nil /\ x # Field /\ \E e \in E : x = e[1] \/ x = e[2]
BY DEF Ends

LEMMA StrongDef ==
  ASSUME NEW o, NEW x
  PROVE  x \in Strong(o) <=> x # Nil /\ x # Field /\ \E e \in ref[o] : x \in StrongPart(o, e)
BY DEF Strong

LEMMA EndsAdd ==
  ASSUME NEW E, NEW d
  PROVE  /\ Ends(E \cup {d}) = Ends(E) \cup ({d[1], d[2]} \ {Nil, Field})
         /\ Ends({d}) = {d[1], d[2]} \ {Nil, Field}
<1>1. ASSUME NEW x
      PROVE  x \in Ends(E \cup {d}) <=> x \in Ends(E) \/ x \in {d[1], d[2]} \ {Nil, Field}
  BY EndsDef
<1>2. ASSUME NEW x PROVE x \in Ends({d}) <=> x \in {d[1], d[2]} \ {Nil, Field}
  BY EndsDef
<1> QED
  BY <1>1, <1>2

LEMMA EndsFields ==
  ASSUME NEW F
  PROVE  Ends({<<Field, x>> : x \in F}) = F \ {Nil, Field}
<1> DEFINE D == {<<Field, y>> : y \in F}
<1>1. ASSUME NEW x \in Ends(D) PROVE x \in F \ {Nil, Field}
  <2>1. x # Nil /\ x # Field /\ \E e \in D : x = e[1] \/ x = e[2]
    BY <1>1, EndsDef
  <2>2. PICK e \in D : x = e[1] \/ x = e[2]
    BY <2>1
  <2>3. PICK y \in F : e = <<Field, y>>
    BY <2>2
  <2>4. e[1] = Field /\ e[2] = y
    BY <2>3
  <2> QED
    BY <2>1, <2>2, <2>4
<1>2. ASSUME NEW x \in F \ {Nil, Field} PROVE x \in Ends(D)
  <2>1. <<Field, x>> \in D /\ <<Field, x>>[2] = x
    OBVIOUS
  <2> QED
    BY <2>1, EndsDef
<1> QED
  BY <1>1, <1>2

LEMMA EndsSub ==
  ASSUME NEW E, NEW D \in SUBSET E
  PROVE  Ends(D) \subseteq Ends(E)
BY EndsDef

(* Contents are objects, where references are typed. *)
LEMMA ContentsObj ==
  ASSUME ref \in [Obj -> SUBSET Entry], NEW o \in Obj
  PROVE  Contents(o) \subseteq Obj
<1>1. ASSUME NEW x \in Contents(o) PROVE x \in Obj
  <2>1. PICK e \in ref[o] : x = e[1] \/ x = e[2]
    BY <1>1, EndsDef DEF Contents
  <2>2. e \in Entry
    BY <2>1
  <2>3. x # Nil /\ x # Field
    BY <1>1, EndsDef DEF Contents
  <2> QED
    BY <2>1, <2>2, <2>3 DEF Entry
<1> QED
  BY <1>1

LEMMA StrongContents ==
  ASSUME NEW o
  PROVE  /\ Strong(o) \subseteq Contents(o)
         /\ o \notin Weak => Strong(o) = Contents(o)
<1>1. ASSUME NEW x \in Strong(o) PROVE x \in Contents(o)
  BY StrongDef, EndsDef DEF StrongPart, Contents
<1>2. ASSUME NEW x \in Contents(o), o \notin Weak PROVE x \in Strong(o)
  <2>1. PICK e \in ref[o] : x = e[1] \/ x = e[2]
    BY EndsDef DEF Contents
  <2>2. x # Nil /\ x # Field
    BY EndsDef DEF Contents
  <2> QED
    BY <2>1, <2>2, <1>2, StrongDef DEF StrongPart, Weak
<1> QED
  BY <1>1, <1>2

-----------------------------------------------------------------------------
(* Marking turns white objects to the colour of their kind, those it was     *)
(* asked to and what becomes reachable through userdata and upvalues on the  *)
(* way, and changes no other colour.                                         *)
Shaded(col, S) ==
  /\ col \in [Obj -> Whites \cup {"gray", "black"}]
  /\ \A o \in Obj : col[o] = colour[o] \/ (White(o) /\ col[o] = MarkColour(o))
  /\ \A x \in S : col[x] \notin Whites
  /\ \A y \in Userdata \cup UpVal : col[y] # colour[y] =>
       \A x \in Contents(y) : col[x] \notin Whites

LEMMA BelowIn ==
  ASSUME NEW T, NEW o \in T, NEW x \in Strong(o)
  PROVE  x \in Below(T)
BY DEF Below

LEMMA Marks ==
  ASSUME TypeOK, RefTyped, NEW S \in SUBSET Obj
  PROVE  /\ Shaded(Colours(S), S)
         /\ Listed(S) = {o \in Gcable : Colours(S)[o] # colour[o]}
         /\ S \subseteq alive /\ (\A o \in alive : Contents(o) \subseteq alive) =>
              \A o \in Obj : Colours(S)[o] # colour[o] => o \in alive
<1> DEFINE a == WhiteOf(S)
           b == a \cup WhiteOf(Below(a \cap UpVal))
           M == b \cup WhiteOf(Below(b \cap Userdata))
<1>0. M = Marked(S)
  BY DEF Marked
<1>1. M \subseteq Obj /\ \A x \in M : White(x)
  <2>1. ASSUME NEW T \in SUBSET Obj PROVE Below(T) \subseteq Obj
    BY <2>1, StrongContents, ContentsObj DEF Below, TypeOK
  <2>2. a \subseteq Obj /\ b \subseteq Obj
    <3>1. a \subseteq Obj
      BY DEF WhiteOf
    <3> QED
      BY <3>1, <2>1 DEF WhiteOf
  <2> QED
    BY <2>1, <2>2 DEF WhiteOf
<1>2. \A x \in S : x \in M \/ ~White(x)
  BY DEF WhiteOf
<1>3. ASSUME NEW y \in M \cap (Userdata \cup UpVal), NEW x \in Contents(y)
      PROVE  x \in M \/ ~White(x)
  <2>1. y \in Obj /\ y \notin Weak
    BY <1>1, Kinds, Apart
  <2>2. x \in Strong(y) /\ Typed(y, x)
    BY <2>1, StrongContents DEF RefTyped
  <2>5. ASSUME NEW T \in SUBSET Obj, y \in Below(T)
        PROVE  \E z \in T : Typed(z, y)
    <3>1. PICK z \in T : y \in Strong(z)
      BY <2>5 DEF Below
    <3> QED
      BY <3>1, StrongContents DEF RefTyped
  <2>3. CASE y \in Userdata
    <3>1. x \in Table
      BY <2>3, <2>2 DEF Typed
    <3>2. y \in b
      <4>1. ASSUME y \in WhiteOf(Below(b \cap Userdata)) PROVE FALSE
        <5>1. PICK z \in b \cap Userdata : Typed(z, y)
          BY <4>1, <2>5, Kinds DEF WhiteOf
        <5> QED
          BY <5>1, <2>3, Apart DEF Typed
      <4> QED
        BY <4>1, <1>3
    <3>3. x \in Below(b \cap Userdata)
      BY <3>2, <2>3, <2>2, BelowIn
    <3> QED
      BY <3>3 DEF WhiteOf
  <2>4. CASE y \in UpVal
    <3>1. y \in a
      <4>1. ASSUME NEW T \in SUBSET Obj, T \subseteq Userdata \/ T \subseteq UpVal,
                   y \in Below(T)
            PROVE  FALSE
        BY <4>1, <2>5, <2>4, Apart DEF Typed
      <4>2. y \notin Below(a \cap UpVal)
        BY <4>1, Kinds DEF WhiteOf
      <4>3. y \notin Below(b \cap Userdata)
        BY <4>1, Kinds
      <4> QED
        BY <4>2, <4>3, <1>3 DEF WhiteOf
    <3>2. x \in Below(a \cap UpVal)
      BY <3>1, <2>4, <2>2, BelowIn
    <3> QED
      BY <3>2 DEF WhiteOf
  <2> QED
    BY <2>3, <2>4, <1>3
<1>4. ASSUME S \subseteq alive, \A o \in alive : Contents(o) \subseteq alive
      PROVE  M \subseteq alive
  <2>1. ASSUME NEW T \in SUBSET alive PROVE WhiteOf(Below(T)) \subseteq alive
    BY <1>4, StrongContents DEF Below, WhiteOf
  <2>2. a \subseteq alive
    BY <1>4 DEF WhiteOf
  <2>3. WhiteOf(Below(a \cap UpVal)) \subseteq alive
    BY <2>1, <2>2
  <2>4. b \cap Userdata \subseteq alive
    BY <2>2, <2>3
  <2> QED
    BY <2>1, <2>2, <2>3, <2>4
<1> HIDE DEF M
<1>5. ASSUME NEW o \in Obj
      PROVE  Colours(S)[o] = IF o \in M THEN MarkColour(o) ELSE colour[o]
  BY <1>0 DEF Colours
<1>6. \A o \in Obj : MarkColour(o) \in {"gray", "black"} /\ colour[o] \in Whites \cup {"gray", "black"}
  BY DEF MarkColour, TypeOK
<1>7. Colours(S) \in [Obj -> Whites \cup {"gray", "black"}]
  <2>1. Colours(S) = [o \in Obj |-> IF o \in M THEN MarkColour(o) ELSE colour[o]]
    BY <1>0 DEF Colours
  <2> QED
    BY <2>1, <1>6
<1>8. \A o \in Obj : o \in M => Colours(S)[o] # colour[o] /\ Colours(S)[o] \notin Whites
  BY <1>1, <1>5, <1>6 DEF White, Whites
<1>9. \A o \in Obj : o \notin M => Colours(S)[o] = colour[o]
  BY <1>5
<1>10. \A o \in Obj : Colours(S)[o] = colour[o] \/ (White(o) /\ Colours(S)[o] = MarkColour(o))
  BY <1>5, <1>1
<1>11. \A x \in S : Colours(S)[x] \notin Whites
  BY <1>2, <1>8, <1>9 DEF White
<1>12. ASSUME NEW y \in Userdata \cup UpVal, Colours(S)[y] # colour[y], NEW x \in Contents(y)
       PROVE  Colours(S)[x] \notin Whites
  <2>1. y \in M /\ x \in Obj
    BY <1>12, <1>9, Kinds, ContentsObj DEF TypeOK
  <2>2. x \in M \/ ~White(x)
    BY <2>1, <1>12, <1>3
  <2> QED
    BY <2>1, <2>2, <1>8, <1>9 DEF White
<1>13. Shaded(Colours(S), S)
  BY <1>7, <1>10, <1>11, <1>12 DEF Shaded
<1>14. Listed(S) = M \cap Gcable
  BY <1>0 DEF Listed, Gcable
<1> QED
  BY <1>13, <1>14, <1>4, <1>8, <1>9, Kinds

-----------------------------------------------------------------------------
(* What the barriers do to colours and lists.                                *)
LEMMA ForwardStep ==
  ASSUME TypeOK, RefTyped, NEW p \in Obj, NEW v \in Obj, Forward(p, v)
  PROVE  /\ colour' \in [Obj -> Whites \cup {"gray", "black"}]
         /\ gray \subseteq gray' /\ gray' \subseteq Gcable
         /\ \A o \in Obj :
              \/ colour'[o] = colour[o]
              \/ o = p /\ colour[o] = "black" /\ gcstate # "propagate" /\ colour'[o] = currentwhite
              \/ /\ gcstate = "propagate" /\ White(o) /\ colour'[o] = MarkColour(o)
                 /\ o \in Gcable => o \in gray'
                 /\ o \in Userdata \cup UpVal => \A x \in Contents(o) : colour'[x] \notin Whites
         /\ \A o \in gray' \ gray :
              gcstate = "propagate" /\ White(o) /\ colour'[o] = "gray" /\ colour'[o] # colour[o]
         /\ gcstate = "propagate" /\ (colour[p] = "black" \/ \E o \in Obj : colour'[o] # colour[o])
              => colour'[v] \notin Whites
         /\ v \in alive /\ (\A o \in alive : Contents(o) \subseteq alive) =>
              \A o \in Obj : gcstate = "propagate" /\ colour'[o] # colour[o] => o \in alive
<1>1. CASE colour[p] = "black" /\ White(v) /\ gcstate = "propagate"
  <2>1. colour' = Colours({v}) /\ gray' = gray \cup Listed({v})
    BY <1>1 DEF Forward
  <2>2. Shaded(colour', {v}) /\ Listed({v}) = {o \in Gcable : colour'[o] # colour[o]}
    BY <2>1, Marks
  <2>3. \A o \in Gcable : MarkColour(o) = "gray"
    BY Apart DEF Gcable, MarkColour
  <2>4. v \in alive /\ (\A o \in alive : Contents(o) \subseteq alive) =>
              \A o \in Obj : colour'[o] # colour[o] => o \in alive
    BY <2>1, Marks
  <2>5. \A o \in Obj :
              \/ colour'[o] = colour[o]
              \/ /\ gcstate = "propagate" /\ White(o) /\ colour'[o] = MarkColour(o)
                 /\ o \in Gcable => o \in gray'
                 /\ o \in Userdata \cup UpVal => \A x \in Contents(o) : colour'[x] \notin Whites
    BY <1>1, <2>1, <2>2 DEF Shaded
  <2>6. \A o \in gray' \ gray : White(o) /\ colour'[o] = "gray" /\ colour'[o] # colour[o]
    BY <2>1, <2>2, <2>3, Kinds DEF Shaded
  <2>7. colour'[v] \notin Whites /\ gray' \subseteq Gcable
    BY <2>1, <2>2 DEF Shaded, TypeOK, Gcable
  <2> QED
    BY <1>1, <2>1, <2>2, <2>4, <2>5, <2>6, <2>7 DEF Shaded
<1>2. CASE colour[p] = "black" /\ White(v) /\ gcstate # "propagate"
  <2>1. colour' = [colour EXCEPT ![p] = currentwhite] /\ gray' = gray
    BY <1>2 DEF Forward
  <2> QED
    BY <1>2, <2>1 DEF TypeOK, Gcable
<1>3. CASE ~(colour[p] = "black" /\ White(v))
  <2>1. colour' = colour /\ gray' = gray
    BY <1>3 DEF Forward
  <2> QED
    BY <1>3, <2>1 DEF TypeOK, Gcable, White
<1> QED
  BY <1>1, <1>2, <1>3

LEMMA BackStep ==
  ASSUME TypeOK, NEW t \in Table, NEW S \in SUBSET Obj, Back(t, S)
  PROVE  /\ colour' \in [Obj -> Whites \cup {"gray", "black"}]
         /\ grayagain \subseteq grayagain' /\ grayagain' \subseteq grayagain \cup {t}
         /\ \A o \in Obj : \/ colour'[o] = colour[o]
                           \/ /\ o = t /\ colour[o] = "black" /\ colour'[o] = "gray"
                              /\ o \in grayagain'
         /\ \A o \in grayagain' \ grayagain :
              o = t /\ colour[o] = "black" /\ colour'[o] = "gray"
         /\ colour'[t] = "black" => colour' = colour /\ Shady(S)
<1> t \in Obj
  BY Kinds
<1>1. CASE colour[t] = "black" /\ WhiteOf(S) # {}
  <2>1. colour' = [colour EXCEPT ![t] = "gray"] /\ grayagain' = grayagain \cup {t}
    BY <1>1 DEF Back
  <2> QED
    BY <1>1, <2>1 DEF TypeOK
<1>2. CASE ~(colour[t] = "black" /\ WhiteOf(S) # {})
  <2>1. colour' = colour /\ grayagain' = grayagain
    BY <1>2 DEF Back
  <2> QED
    BY <1>2, <2>1 DEF TypeOK, WhiteOf, Shady
<1> QED
  BY <1>1, <1>2

(* What an assignment does to what objects refer to.                         *)
Adds(p, k, v) == ref' = [ref EXCEPT ![p] = @ \cup {<<k, v>>}]
Added(p, k, v) ==
  /\ ref' \in [Obj -> SUBSET Entry]
  /\ \A o \in Obj : Contents(o)' = IF o = p THEN Contents(o) \cup ({k, v} \ {Nil, Field})
                                   ELSE Contents(o)

LEMMA RefAdd ==
  ASSUME TypeOK, NEW p \in Obj, NEW k \in Obj \cup {Nil, Field}, NEW v \in Obj \cup {Nil},
         Adds(p, k, v)
  PROVE  Added(p, k, v)
<1>1. <<k, v>> \in Entry
  BY DEF Entry
<1>2. ref' \in [Obj -> SUBSET Entry]
  BY <1>1 DEF TypeOK, Adds
<1>3. Contents(p)' = Contents(p) \cup ({k, v} \ {Nil, Field})
  <2>1. ref'[p] = ref[p] \cup {<<k, v>>}
    BY DEF TypeOK, Adds
  <2>2. Contents(p)' = Ends(ref[p] \cup {<<k, v>>})
    BY <2>1 DEF Contents
  <2> DEFINE d == <<k, v>>
  <2>3. Ends(ref[p] \cup {d}) = Ends(ref[p]) \cup ({d[1], d[2]} \ {Nil, Field})
    <3> HIDE DEF d
    <3> QED
      BY EndsAdd
  <2>4. d[1] = k /\ d[2] = v
    OBVIOUS
  <2> QED
    BY <2>2, <2>3, <2>4 DEF Contents
<1>4. \A o \in Obj \ {p} : ref'[o] = ref[o]
  BY DEF TypeOK, Adds
<1> QED
  BY <1>2, <1>3, <1>4 DEF Contents, Added

-----------------------------------------------------------------------------
(* An operation of the program, as far as the collector can tell: it keeps   *)
(* what is kept, allocates in the current white, refers to nothing else, and *)
(* the barrier has been there.                                               *)
New == alive' \ alive
Fresh == {o \in alive' : colour'[o] = currentwhite}
Framed ==
  /\ gcstate \in {"pause", "propagate", "sweepstring", "sweep", "finalize"}
  /\ UNCHANGED <<currentwhite, gcstate, weak, tosweep, tmudata>>
HeapStep ==
  /\ Kept \subseteq alive' /\ alive \ alive' \subseteq UpVal
  /\ Roots' \subseteq Kept \cup Fresh
  /\ \A o \in alive' : ~IsDead(o)' => Contents(o)' \subseteq Kept \cup Fresh
OwnerStep ==
  \A x \in UpVal :
    /\ owner'[x] # Nil => x \in alive' /\ owner'[x] \in alive'
    /\ x \in alive \cap alive' => \/ owner'[x] = owner[x]
                                  \/ owner'[x] = Nil /\ colour'[x] = currentwhite
                                  \/ owner'[x] = Nil /\ colour'[x] = "black" /\ gcstate = "propagate"
ColourStep ==
  /\ \A o \in New : colour'[o] = currentwhite
  /\ \A o \in alive :
       \/ colour'[o] = colour[o]
       \/ gcstate # "propagate" /\ colour'[o] = currentwhite
       \/ o \in Table /\ colour[o] = "black" /\ colour'[o] = "gray" /\ o \in grayagain'
       \/ /\ gcstate = "propagate" /\ White(o) /\ colour'[o] = MarkColour(o)
          /\ o \in Gcable => o \in gray'
       \/ gcstate = "propagate" /\ o \in UpVal /\ colour[o] = "gray" /\ colour'[o] = "black"
ListStep ==
  /\ gray \subseteq gray' /\ grayagain \subseteq grayagain'
  /\ \A o \in gray' \ gray :
       gcstate = "propagate" /\ White(o) /\ o \in alive /\ colour'[o] = "gray"
  /\ \A o \in grayagain' \ grayagain :
       o \in alive \cap Table /\ colour[o] = "black" /\ colour'[o] = "gray"
BarrierStep ==
  gcstate = "propagate" =>
    \A o \in alive : o \notin tmudata /\ colour'[o] = "black" =>
      \A x \in Contents(o)' : colour'[x] \notin Whites
FinalStep ==
  \A u \in Userdata :
    \/ u \in alive /\ ran'[u] = ran[u] /\ (u \in finalized' <=> u \in finalized)
    \/ u \notin alive /\ u \notin finalized' /\ ran'[u] = 0
    \/ u \notin alive' /\ ran'[u] = ran[u]
Mutated ==
  Framed /\ HeapStep /\ OwnerStep /\ ColourStep /\ ListStep /\ BarrierStep /\ FinalStep

(* Kept objects, in the terms of each phase.                                 *)
LEMMA KeptFacts ==
  ASSUME Struct, Closed
  PROVE  /\ Kept \subseteq alive /\ running \in Kept /\ main \in Kept /\ registry \in Kept
         /\ mt \subseteq Kept /\ Accessible \subseteq Kept
         /\ \A o \in Kept : Contents(o) \subseteq Kept
         /\ currentwhite # OtherWhite /\ OtherWhite \in Whites /\ currentwhite \in Whites
         /\ alive \subseteq Obj /\ Kept \subseteq Obj
BY Kinds DEF Struct, Closed, Kept, Accessible, Roots, OtherWhite, TypeOK, Whites

(* What an operation that leaves colours alone has to show.                  *)
LEMMA QuietStep ==
  ASSUME Struct, Core, Framed, HeapStep,
         UNCHANGED <<alive, owner, colour, gray, grayagain, finalized, ran>>,
         \A o \in Userdata \cup UpVal \cup Table \cup Closure : Contents(o)' \subseteq Contents(o)
  PROVE  Mutated
<1>1. OwnerStep
  BY DEF OwnerStep, Core, Owners, Open
<1>2. ColourStep /\ ListStep /\ FinalStep
  BY DEF ColourStep, ListStep, FinalStep, New
<1>3. BarrierStep
  <2> SUFFICES ASSUME gcstate = "propagate", NEW o \in alive, o \notin tmudata, colour'[o] = "black",
                      NEW x \in Contents(o)'
               PROVE  colour'[x] \notin Whites
    BY DEF BarrierStep
  <2>1. colour[o] = "black" /\ o \in Obj
    BY DEF Struct, TypeOK
  <2>2. o \in Userdata \cup UpVal \cup Table \cup Closure
    BY <2>1, Kinds DEF Struct, Shades, Gcable
  <2>3. x \in Contents(o)
    BY <2>2
  <2>4. Shady(Contents(o))
    BY <2>1 DEF Core, MarkInv, Marking
  <2> QED
    BY <2>3, <2>4 DEF Shady, White
<1> QED
  BY <1>1, <1>2, <1>3 DEF Mutated

(* The operations that read, and those that give something up.               *)
LEMMA QuietAction ==
  ASSUME Struct, Program, ref' \in [Obj -> SUBSET Entry], NEW x \in Obj \ UpVal,
         \A o \in Obj : \A y \in Contents(o)' : y \in Contents(o) \/ (o \in Thread /\ y = x),
         running' \in Thread, mt' \subseteq Table,
         Core => x \in Kept /\ running' \in Kept /\ mt' \subseteq Kept,
         UNCHANGED <<alive, owner, colour, currentwhite, gcstate, lists, tosweep, finalization,
                     full, tainted>>
  PROVE  Struct' /\ (Core => Mutated)
<1>1. Struct'
  <2>1. TypeOK'
    BY BoundsAssumption DEF Struct, TypeOK, Program, lists, finalization
  <2>2. RefTyped'
    BY Kinds, Apart DEF RefTyped, Typed, Struct
  <2>3. Shades' /\ \A u \in (tosweep \cap UpVal)' : ~Open(u)'
    BY DEF Struct, Shades, Open, lists
  <2> QED
    BY <2>1, <2>2, <2>3 DEF Struct
<1>2. ASSUME Core PROVE Mutated
  <2>1. Framed
    BY DEF Framed, Program, lists, finalization
  <2>2. HeapStep
    BY <1>2, KeptFacts DEF HeapStep, Core, New, Roots, Kept, IsDead, OtherWhite
  <2>3. \A o \in Userdata \cup UpVal \cup Table \cup Closure : Contents(o)' \subseteq Contents(o)
    BY Kinds, Apart
  <2> QED
    BY <1>2, <2>1, <2>2, <2>3, QuietStep DEF lists, finalization
<1> QED
  BY <1>1, <1>2

LEMMA QuietActions ==
  ASSUME Struct, NEW p \in Obj, NEW x \in Obj, NEW v \in Obj,
         \/ GetTable(p, x) \/ GetUpval(p, x, v) \/ Pop(x) \/ Yield(x) \/ Resume(x)
         \/ p \in Table /\ SetBasicMetatable(p)
         \/ p \in Table /\ \E e \in ref[p] : Remove(p, e)
  PROVE  Struct' /\ (Core => Mutated)
<1> USE Kinds
<1>0. running \in Thread /\ mt \subseteq Table /\ ref \in [Obj -> SUBSET Entry] /\ TypeOK
      /\ RefTyped /\ main \notin UpVal /\ running \in Obj
  BY Apart DEF Struct, TypeOK
<1>1. ASSUME NEW q \in Thread, NEW y \in Obj, ref' = [ref EXCEPT ![q] = @ \cup {<<Field, y>>}]
      PROVE  /\ ref' \in [Obj -> SUBSET Entry]
             /\ \A o \in Obj : \A z \in Contents(o)' : z \in Contents(o) \/ (o \in Thread /\ z = y)
  <2>1. TypeOK /\ q \in Obj /\ Adds(q, Field, y)
    BY <1>0, <1>1 DEF Adds
  <2>2. Added(q, Field, y)
    BY <2>1, RefAdd
  <2>3. ASSUME NEW o \in Obj, NEW z \in Contents(o)' PROVE z \in Contents(o) \/ (o \in Thread /\ z = y)
    BY <2>2, <2>3, <1>1, Kinds DEF Added
  <2> QED
    BY <2>2, <2>3 DEF Added
<1>2. ASSUME ref' \in [Obj -> SUBSET Entry], \A o \in Obj : ref'[o] \subseteq ref[o]
      PROVE  \A o \in Obj : Contents(o)' \subseteq Contents(o)
  BY <1>2, EndsSub DEF Contents
<1>3. CASE GetTable(p, x)
  <2>1. Core => x \in Kept /\ running \in Kept /\ mt \subseteq Kept
    BY <1>3, KeptFacts DEF GetTable, Core
  <2>2. /\ ref' \in [Obj -> SUBSET Entry]
        /\ \A o \in Obj : \A z \in Contents(o)' : z \in Contents(o) \/ (o \in Thread /\ z = x)
    BY <1>3, <1>0, <1>1 DEF GetTable, Pushed
  <2> QED
    BY <1>3, <1>0, <2>1, <2>2, QuietAction DEF GetTable
<1>4. CASE GetUpval(p, x, v)
  <2>1. Core => v \in Kept /\ running \in Kept /\ mt \subseteq Kept
    BY <1>4, KeptFacts DEF GetUpval, Core
  <2>2. v \notin UpVal
    BY <1>4, <1>0, Apart DEF GetUpval, RefTyped, Typed
  <2> QED
    BY <1>4, <1>0, <1>1, <2>1, <2>2, QuietAction DEF GetUpval, Pushed
<1>5. CASE Pop(x)
  <2>1. \A o \in Obj : Contents(o)' \subseteq Contents(o)
    <3>1. ref' = [ref EXCEPT ![running] = @ \ {<<Field, x>>}]
      BY <1>5 DEF Pop
    <3>2. ref' \in [Obj -> SUBSET Entry] /\ \A o \in Obj : ref'[o] \subseteq ref[o]
      BY <1>0, <3>1
    <3> QED
      BY <3>2, <1>2
  <2>2. ref' \in [Obj -> SUBSET Entry]
    BY <1>5, <1>0 DEF Pop
  <2>3. Core => main \in Kept /\ running \in Kept /\ mt \subseteq Kept
    BY KeptFacts DEF Core
  <2> QED
    BY <1>5, <1>0, <2>1, <2>2, <2>3, QuietAction DEF Pop
<1>6. CASE Yield(x)
  <2>1. Core => x \in Kept /\ main \in Kept /\ mt \subseteq Kept
    BY <1>6, KeptFacts DEF Yield, Core
  <2>2. x \notin UpVal
    BY <1>6, <1>0, Apart DEF Yield, RefTyped, Typed
  <2> QED
    BY <1>6, <1>0, <1>1, <2>1, <2>2, QuietAction DEF Yield
<1>7. CASE Resume(x)
  <2>1. Core => x \in Kept /\ x \in Kept /\ mt \subseteq Kept
    BY <1>7, KeptFacts DEF Resume, Core
  <2>2. x \in Thread /\ x \notin UpVal /\ \A o \in Obj : Contents(o)' = Contents(o)
    BY <1>7, Apart DEF Resume, Thread, Contents
  <2> QED
    BY <1>7, <1>0, <2>1, <2>2, QuietAction DEF Resume
<1>8. CASE p \in Table /\ SetBasicMetatable(p)
  <2>1. Core => p \in Kept /\ running \in Kept
    BY <1>8, KeptFacts DEF SetBasicMetatable, Core
  <2>2. p \notin UpVal /\ \A o \in Obj : Contents(o)' = Contents(o)
    BY <1>8, Apart DEF SetBasicMetatable, Contents
  <2> QED
    BY <1>8, <1>0, <2>1, <2>2, QuietAction DEF SetBasicMetatable
<1>9. CASE p \in Table /\ \E e \in ref[p] : Remove(p, e)
  <2>1. PICK e \in ref[p] : Remove(p, e)
    BY <1>9
  <2>2. ref' \in [Obj -> SUBSET Entry] /\ \A o \in Obj : ref'[o] \subseteq ref[o]
    BY <1>0, <2>1 DEF Remove
  <2>3. Core => main \in Kept /\ running \in Kept /\ mt \subseteq Kept
    BY KeptFacts DEF Core
  <2> QED
    BY <1>0, <1>2, <2>1, <2>2, <2>3, QuietAction DEF Remove
<1> QED
  BY <1>3, <1>4, <1>5, <1>6, <1>7, <1>8, <1>9

(* The operations that allocate the objects of N, or find them again.        *)
LEMMA AllocAction ==
  ASSUME Struct, Program, NEW N \in SUBSET Obj,
         alive' = alive \cup N,
         ref' \in [Obj -> SUBSET Entry], colour' \in [Obj -> Whites \cup {"gray", "black"}],
         owner' \in [UpVal -> Thread \cup {Nil}],
         \A o \in Obj : IF o \in N THEN colour'[o] = IF o \in alive THEN Resurrected(o) ELSE currentwhite
                        ELSE colour'[o] = colour[o],
         \A o \in Obj : \A y \in Contents(o)' :
           /\ Typed(o, y)
           /\ \/ y \in Contents(o) /\ o \notin N
              \/ o \in N \cup Thread /\ (y \in N \/ (Core => y \in Kept)),
         \A x \in UpVal : owner'[x] = owner[x]
                          \/ (x \in N /\ owner'[x] = running /\ (x \in alive => Open(x) /\ owner[x] = running)),
         \A u \in Userdata : (ran'[u] = ran[u] /\ (u \in finalized' <=> u \in finalized) /\ u \notin N)
                             \/ (u \in N \ alive /\ ran'[u] = 0 /\ u \notin finalized'),
         N \cap alive \subseteq String \cup {x \in UpVal : Open(x)},
         finalized' \subseteq Userdata, ran' \in [Userdata -> Nat],
         UNCHANGED <<mt, running, currentwhite, gcstate, lists, tosweep, tmudata, full, tainted>>
  PROVE  Struct' /\ (Core => Mutated)
<1>1. Struct'
  <2>1. TypeOK'
    BY BoundsAssumption DEF Struct, TypeOK, Program, lists
  <2>2. RefTyped'
    BY DEF RefTyped
  <2>3. \A u \in (tosweep \cap UpVal)' : ~Open(u)'
    BY DEF Struct, TypeOK, Open
  <2>4. Shades'
    <3>1. \A o \in Obj : colour'[o] \in {"gray", "black"} => colour'[o] = colour[o] /\ o \notin N \ alive
      BY DEF Resurrected, Struct, TypeOK, Whites
    <3>2. \A x \in UpVal : colour'[x] = "black" => ~Open(x)'
      BY <3>1, Kinds DEF Struct, Shades, Open
    <3> QED
      BY <3>1, <3>2 DEF Struct, Shades, lists
  <2> QED
    BY <2>1, <2>2, <2>3, <2>4 DEF Struct
<1>2. ASSUME Core PROVE Mutated
  <2> USE <1>2
  <2>0. /\ Kept \subseteq alive /\ alive \subseteq Obj /\ running \in Kept /\ mt \subseteq Kept
        /\ main \in Kept /\ registry \in Kept
        /\ currentwhite # OtherWhite /\ New = N \ alive /\ \A o \in Kept : Contents(o) \subseteq Kept
    BY KeptFacts DEF Core, New
  <2>1. Framed /\ ListStep
    BY DEF Framed, Program, lists, ListStep
  <2>2. FinalStep
    BY DEF FinalStep
  <2>3. OwnerStep
    BY <2>0, Kinds DEF OwnerStep, Core, Owners, Open
  <2>4. ColourStep
    <3>1. gcstate = "propagate" => \A o \in alive : colour[o] # OtherWhite
      BY DEF Core, MarkInv, Marking
    <3> QED
      BY <2>0, <3>1 DEF ColourStep, Resurrected
  <2>5. \A o \in alive' : ~IsDead(o)' => o \in N \/ o \in Kept
    BY <2>0 DEF IsDead, Kept, OtherWhite
  <2>6. \A o \in N : \A y \in Contents(o)' : y \in N \/ y \in Kept
    OBVIOUS
  <2>7. N \subseteq Kept \cup Fresh
    BY <2>0 DEF Resurrected, Kept, IsDead, Fresh
  <2>8. HeapStep
    BY <2>0, <2>5, <2>6, <2>7 DEF HeapStep, Roots
  <2>9. BarrierStep
    <3> SUFFICES ASSUME gcstate = "propagate", NEW o \in alive, o \notin tmudata, colour'[o] = "black",
                        NEW x \in Contents(o)'
                 PROVE  colour'[x] \notin Whites
      BY DEF BarrierStep
    <3>1. colour[o] = "black" /\ o \in Obj
      BY <2>0 DEF Resurrected, Struct, TypeOK, Whites
    <3>2. o \notin N \cup Thread
      BY <3>1 DEF Struct, Shades
    <3>3. x \in Contents(o) /\ Shady(Contents(o))
      BY <3>1, <3>2, <2>0 DEF Core, MarkInv, Marking
    <3>4. colour[x] \notin Whites /\ x \in Kept
      BY <3>1, <3>3, <2>0 DEF Shady, White, Kept, Core, MarkInv, Marking, IsDead
    <3> QED
      BY <3>4, <2>0 DEF Resurrected, Whites, OtherWhite
  <2> QED
    BY <2>1, <2>2, <2>3, <2>4, <2>8, <2>9 DEF Mutated
<1> QED
  BY <1>1, <1>2

LEMMA LinkedRef ==
  ASSUME TypeOK, NEW o \in Obj, NEW F \in SUBSET Obj, Linked(o, F)
  PROVE  /\ ref' \in [Obj -> SUBSET Entry]
         /\ \A q \in Obj : Contents(q)' = IF q = o THEN F
                                          ELSE IF q = running THEN Contents(q) \cup {o} ELSE Contents(q)
<1> USE Kinds
<1> DEFINE E == {<<Field, x>> : x \in F}
           r == Pushed(o)
<1>1. running \in Obj /\ ref \in [Obj -> SUBSET Entry]
  BY DEF TypeOK
<1>2. r = [ref EXCEPT ![running] = @ \cup {<<Field, o>>}] /\ <<Field, o>> \in Entry /\ E \subseteq Entry
  BY DEF Pushed, Entry
<1>3. r \in [Obj -> SUBSET Entry] /\ r[running] = ref[running] \cup {<<Field, o>>}
      /\ \A q \in Obj \ {running} : r[q] = ref[q]
  BY <1>1, <1>2
<1>4. ref' = [r EXCEPT ![o] = E]
  BY DEF Linked
<1> HIDE DEF E, r
<1>5. ref' \in [Obj -> SUBSET Entry] /\ ref'[o] = E /\ \A q \in Obj \ {o} : ref'[q] = r[q]
  BY <1>3, <1>4, <1>2
<1>6. Contents(o)' = F
  <2>1. Ends(E) = F \ {Nil, Field}
    BY EndsFields DEF E
  <2> QED
    BY <2>1, <1>5 DEF Contents
<1>7. Ends(r[running]) = Contents(running) \cup {o}
  <2> DEFINE d == <<Field, o>>
  <2>1. Ends(ref[running] \cup {d}) = Ends(ref[running]) \cup ({d[1], d[2]} \ {Nil, Field})
    <3> HIDE DEF d
    <3> QED
      BY EndsAdd
  <2>2. d[1] = Field /\ d[2] = o
    OBVIOUS
  <2> QED
    BY <2>1, <2>2, <1>3 DEF Contents
<1>8. ASSUME NEW q \in Obj \ {o}
      PROVE  Contents(q)' = IF q = running THEN Contents(q) \cup {o} ELSE Contents(q)
  BY <1>5, <1>3, <1>7 DEF Contents
<1> QED
  BY <1>5, <1>6, <1>8

LEMMA LinkedAction ==
  ASSUME Struct, NEW o \in Obj, NEW F \in SUBSET {registry}, Linked(o, F), o \in Userdata \cup Gcable,
         finalized' = IF o \in Userdata THEN finalized \ {o} ELSE finalized,
         ran' = IF o \in Userdata THEN [ran EXCEPT ![o] = 0] ELSE ran
  PROVE  Struct' /\ (Core => Mutated)
<1> USE Kinds
<1> DEFINE N == {o}
<1>1. /\ ref' \in [Obj -> SUBSET Entry]
      /\ \A q \in Obj : Contents(q)' = IF q = o THEN F
                                       ELSE IF q = running THEN Contents(q) \cup {o} ELSE Contents(q)
  <2>1. F \in SUBSET Obj /\ TypeOK
    BY DEF Struct
  <2> QED
    BY <2>1, LinkedRef
<1>2. o \notin UpVal \cup String /\ registry \notin UpVal /\ o \notin alive
  BY Apart DEF Gcable, Linked
<1>3. \A q \in Obj : \A y \in Contents(q)' :
           /\ Typed(q, y)
           /\ \/ y \in Contents(q) /\ q \notin N
              \/ q \in N \cup Thread /\ (y \in N \/ (Core => y \in Kept))
  <2>1. running \in Thread /\ (Core => registry \in Kept)
    BY KeptFacts DEF Core, Struct, TypeOK
  <2> QED
    BY <1>1, <1>2, <2>1, Apart DEF Typed, Struct, RefTyped
<1>4. /\ colour' \in [Obj -> Whites \cup {"gray", "black"}]
      /\ \A q \in Obj : IF q \in N THEN colour'[q] = IF q \in alive THEN Resurrected(q) ELSE currentwhite
                        ELSE colour'[q] = colour[q]
  BY <1>2 DEF Linked, Struct, TypeOK
<1>5. alive' = alive \cup N /\ Program
      /\ UNCHANGED <<owner, mt, running, currentwhite, gcstate, lists, tosweep, tmudata, full, tainted>>
  BY DEF Linked
<1>6. /\ finalized' \subseteq Userdata /\ ran' \in [Userdata -> Nat]
      /\ \A u \in Userdata : (ran'[u] = ran[u] /\ (u \in finalized' <=> u \in finalized) /\ u \notin N)
                             \/ (u \in N \ alive /\ ran'[u] = 0 /\ u \notin finalized')
  BY <1>2 DEF Struct, TypeOK
<1>7. owner' \in [UpVal -> Thread \cup {Nil}]
  BY <1>5 DEF Struct, TypeOK
<1> HIDE DEF N
<1>8. N \subseteq Obj /\ N \cap alive = {}
  BY <1>2 DEF N
<1> QED
  BY <1>1, <1>3, <1>4, <1>5, <1>6, <1>7, <1>8, AllocAction

LEMMA AllocActions ==
  ASSUME Struct, NEW o \in Obj, NewTable(o) \/ NewFunction(o) \/ NewThread(o) \/ NewUserdata(o)
  PROVE  Struct' /\ (Core => Mutated)
<1> USE Kinds
<1>1. CASE NewTable(o)
  <2>1. o \in Gcable /\ o \notin Userdata /\ Linked(o, {}) /\ UNCHANGED <<finalized, ran>>
    BY <1>1, Apart DEF NewTable, Gcable
  <2> QED
    BY <2>1, LinkedAction
<1>2. CASE NewFunction(o)
  <2>1. o \in Gcable /\ o \notin Userdata /\ Linked(o, {registry}) /\ UNCHANGED <<finalized, ran>>
    BY <1>2, Apart DEF NewFunction, Gcable
  <2> QED
    BY <2>1, LinkedAction
<1>3. CASE NewThread(o)
  <2>1. o \in Gcable /\ o \notin Userdata /\ Linked(o, {registry}) /\ UNCHANGED <<finalized, ran>>
    BY <1>3, Apart DEF NewThread, Gcable, Thread
  <2> QED
    BY <2>1, LinkedAction
<1>4. CASE NewUserdata(o)
  <2>1. o \in Userdata /\ Linked(o, {registry}) /\ finalized' = finalized \ {o}
        /\ ran' = [ran EXCEPT ![o] = 0]
    BY <1>4 DEF NewUserdata
  <2> QED
    BY <2>1, LinkedAction
<1> QED
  BY <1>1, <1>2, <1>3, <1>4

LEMMA NewStringAction ==
  ASSUME Struct, NEW s \in Obj, NewString(s)
  PROVE  Struct' /\ (Core => Mutated)
<1> USE Kinds
<1> DEFINE N == {s}
<1>0. s \in String /\ s \notin UpVal /\ running \in Thread /\ running \in Obj /\ s \notin Userdata
  BY Apart DEF NewString, Struct, TypeOK
<1>1. /\ ref' \in [Obj -> SUBSET Entry]
      /\ \A q \in Obj : Contents(q)' = IF q = running THEN Contents(q) \cup ({Field, s} \ {Nil, Field})
                                       ELSE Contents(q)
  <2>1. Adds(running, Field, s) /\ TypeOK
    BY DEF NewString, Pushed, Struct, Adds
  <2>2. Added(running, Field, s)
    BY <1>0, <2>1, RefAdd
  <2> QED
    BY <2>2 DEF Added
<1>2. \A q \in Obj : \A y \in Contents(q)' :
           /\ Typed(q, y)
           /\ \/ y \in Contents(q) /\ q \notin N
              \/ q \in N \cup Thread /\ (y \in N \/ (Core => y \in Kept))
  BY <1>1, <1>0, Apart DEF Typed, Struct, RefTyped
<1>3. /\ colour' \in [Obj -> Whites \cup {"gray", "black"}]
      /\ \A q \in Obj : IF q \in N THEN colour'[q] = IF q \in alive THEN Resurrected(q) ELSE currentwhite
                        ELSE colour'[q] = colour[q]
  BY <1>0 DEF NewString, Struct, TypeOK, Resurrected
<1>4. alive' = alive \cup N /\ Program
      /\ UNCHANGED <<owner, mt, running, currentwhite, gcstate, lists, tosweep, finalized, ran, tmudata, full, tainted>>
  BY DEF NewString, finalization
<1>5. finalized' \subseteq Userdata /\ ran' \in [Userdata -> Nat] /\ owner' \in [UpVal -> Thread \cup {Nil}]
  BY <1>4 DEF Struct, TypeOK
<1>6. N \cap alive \subseteq String /\ N \cap Userdata = {} /\ N \subseteq Obj
  BY <1>0
<1> HIDE DEF N
<1> QED
  BY <1>1, <1>2, <1>3, <1>4, <1>5, <1>6, AllocAction

LEMMA NewClosureAction ==
  ASSUME Struct, NEW c \in Closure, NEW x \in UpVal, NEW v \in Obj, NewClosure(c, x, v)
  PROVE  Struct' /\ (Core => Mutated)
<1> USE Kinds
<1> DEFINE N == {c, x}
           r == Pushed(c)
<1>0. /\ c \in Obj /\ x \in Obj /\ c # x /\ c \notin alive /\ v \in Contents(running) /\ running \in Thread
      /\ running \in Obj /\ c \notin Userdata /\ x \notin Userdata /\ x # running
      /\ v \notin UpVal
  BY Apart DEF NewClosure, Struct, TypeOK, RefTyped, Typed
<1>1. /\ <<Field, c>> \in Entry /\ <<Field, registry>> \in Entry /\ <<Field, x>> \in Entry
      /\ <<Field, v>> \in Entry
  BY <1>0 DEF Entry
<1>2. /\ r \in [Obj -> SUBSET Entry] /\ r[running] = ref[running] \cup {<<Field, c>>}
      /\ \A q \in Obj \ {running} : r[q] = ref[q]
  BY <1>0, <1>1 DEF Pushed, Struct, TypeOK
<1>3. ref' = [r EXCEPT ![c] = {<<Field, registry>>, <<Field, x>>}, ![x] = {<<Field, v>>}]
  BY DEF NewClosure
<1> HIDE DEF r
<1>4. /\ ref' \in [Obj -> SUBSET Entry] /\ ref'[c] = {<<Field, registry>>, <<Field, x>>}
      /\ ref'[x] = {<<Field, v>>} /\ \A q \in Obj \ N : ref'[q] = r[q]
  BY <1>0, <1>1, <1>2, <1>3
<1>5. /\ Contents(c)' \subseteq {registry, x} /\ Contents(x)' \subseteq {v}
      /\ Ends(r[running]) \subseteq Contents(running) \cup {c}
  BY <1>4, <1>2, EndsDef DEF Contents
<1>6. \A q \in Obj : \A y \in Contents(q)' :
           /\ Typed(q, y)
           /\ \/ y \in Contents(q) /\ q \notin N
              \/ q \in N \cup Thread /\ (y \in N \/ (Core => y \in Kept))
  <2>1. Core => registry \in Kept /\ v \in Kept
    BY <1>0, KeptFacts DEF Core
  <2>2. ASSUME NEW q \in Obj, NEW y \in Contents(q)'
        PROVE  \/ q = c /\ y \in {registry, x}
               \/ q = x /\ y = v
               \/ q = running /\ q \notin N /\ y \in Contents(q) \cup {c}
               \/ q \notin N /\ y \in Contents(q)
    BY <1>2, <1>4, <1>5, <2>2 DEF Contents
  <2>3. registry \notin UpVal /\ c \notin UpVal
    BY Apart
  <2> QED
    BY <2>1, <2>2, <2>3, <1>0, Apart DEF Typed, Struct, RefTyped
<1>7. /\ colour' \in [Obj -> Whites \cup {"gray", "black"}]
      /\ \A q \in Obj : IF q \in N THEN colour'[q] = IF q \in alive THEN Resurrected(q) ELSE currentwhite
                        ELSE colour'[q] = colour[q]
  BY <1>0 DEF NewClosure, Struct, TypeOK, Resurrected
<1>8. alive' = alive \cup N /\ Program
      /\ UNCHANGED <<mt, running, currentwhite, gcstate, lists, tosweep, finalized, ran, tmudata, full, tainted>>
  BY DEF NewClosure, finalization
<1>9. finalized' \subseteq Userdata /\ ran' \in [Userdata -> Nat] /\ owner' \in [UpVal -> Thread \cup {Nil}]
  BY <1>8, <1>0 DEF Struct, TypeOK, NewClosure
<1>10. N \cap alive \subseteq {y \in UpVal : Open(y)} /\ N \cap Userdata = {} /\ N \subseteq Obj
       /\ \A y \in UpVal : owner'[y] = owner[y]
                          \/ (y \in N /\ owner'[y] = running /\ (y \in alive => Open(y) /\ owner[y] = running))
  <2>1. x \in alive => owner[x] = running /\ running # Nil
    BY <1>0 DEF NewClosure
  <2>2. owner' = [owner EXCEPT ![x] = running] /\ owner \in [UpVal -> Thread \cup {Nil}]
    BY DEF NewClosure, Struct, TypeOK
  <2> QED
    BY <2>1, <2>2, <1>0 DEF Open
<1> HIDE DEF N
<1> QED
  BY <1>6, <1>4, <1>7, <1>8, <1>9, <1>10, AllocAction

(* The operations with a forward barrier, between p and v.                   *)
LEMMA ForwardAction ==
  ASSUME Struct, Program, NEW p \in Obj, NEW v \in Obj, Forward(p, v),
         ref' \in [Obj -> SUBSET Entry], tainted' \in BOOLEAN,
         \A o \in Obj : \A y \in Contents(o)' :
           /\ Typed(o, y)
           /\ \/ y \in Contents(o)
              \/ y = v /\ (gcstate = "propagate" /\ colour'[o] = "black" /\ ~tainted'
                             => colour'[v] \notin Whites),
         Core => v \in Kept,
         UNCHANGED <<alive, owner, mt, running, currentwhite, gcstate, grayagain, weak, tosweep,
                     finalization, full>>
  PROVE  Struct' /\ (Core /\ ~tainted' => Mutated)
<1>0. /\ colour' \in [Obj -> Whites \cup {"gray", "black"}]
      /\ gray \subseteq gray' /\ gray' \subseteq Gcable
      /\ \A o \in Obj :
              \/ colour'[o] = colour[o]
              \/ o = p /\ colour[o] = "black" /\ gcstate # "propagate" /\ colour'[o] = currentwhite
              \/ /\ gcstate = "propagate" /\ White(o) /\ colour'[o] = MarkColour(o)
                 /\ o \in Gcable => o \in gray'
                 /\ o \in Userdata \cup UpVal => \A x \in Contents(o) : colour'[x] \notin Whites
      /\ \A o \in gray' \ gray :
              gcstate = "propagate" /\ White(o) /\ colour'[o] = "gray" /\ colour'[o] # colour[o]
      /\ v \in alive /\ (\A o \in alive : Contents(o) \subseteq alive) =>
              \A o \in Obj : gcstate = "propagate" /\ colour'[o] # colour[o] => o \in alive
  BY ForwardStep DEF Struct
<1>00. currentwhite \in Whites /\ Whites \cap {"gray", "black"} = {}
       /\ \A o \in Obj : MarkColour(o) \in {"gray", "black"}
  BY DEF Struct, TypeOK, Whites, MarkColour
<1>1. Struct'
  <2>1. TypeOK'
    BY <1>0, BoundsAssumption DEF Struct, TypeOK, Program, finalization, Gcable
  <2>2. RefTyped'
    BY DEF RefTyped
  <2>3. Shades'
    <3>1. \A o \in Obj : MarkColour(o) = "black" => o \notin Weak \cup Thread \cup String
                                 /\ (o \in UpVal => ~Open(o))
      BY Apart, Kinds DEF MarkColour
    <3>2. \A o \in Obj : MarkColour(o) = "gray" => o \notin Userdata
      BY DEF MarkColour
    <3> QED
      BY <1>0, <1>00, <3>1, <3>2 DEF Struct, Shades, Open
  <2>4. \A u \in (tosweep \cap UpVal)' : ~Open(u)'
    BY DEF Struct, Open
  <2> QED
    BY <2>1, <2>2, <2>3, <2>4 DEF Struct
<1>2. ASSUME Core, ~tainted' PROVE Mutated
  <2> USE <1>2
  <2>0. /\ Kept \subseteq alive /\ alive \subseteq Obj /\ running \in Kept /\ mt \subseteq Kept
        /\ main \in Kept /\ registry \in Kept
        /\ currentwhite # OtherWhite /\ \A o \in Kept : Contents(o) \subseteq Kept
    BY KeptFacts DEF Core
  <2>1. Framed /\ FinalStep
    BY DEF Framed, Program, finalization, FinalStep
  <2>2. OwnerStep
    BY DEF OwnerStep, Core, Owners, Open
  <2>3. gcstate = "propagate" => Kept = alive
    BY DEF Core, MarkInv, Marking, Kept, IsDead
  <2>4. ColourStep
    BY <1>0, <2>0 DEF ColourStep, New
  <2>5. ListStep
    <3>1. gcstate = "propagate" => \A o \in Obj : colour'[o] # colour[o] => o \in alive
      BY <1>0, <2>0, <2>3
    <3>2. \A o \in gray' \ gray : o \in Obj
      BY <1>0, Kinds
    <3> QED
      BY <1>0, <3>1, <3>2 DEF ListStep
  <2>6. HeapStep
    <3>1. \A o \in alive : ~IsDead(o)' => o \in Kept
      BY <1>0, <1>00, <2>0, <2>3 DEF IsDead, Kept, OtherWhite, Whites
    <3> QED
      BY <2>0, <3>1 DEF HeapStep, Roots
  <2>7. BarrierStep
    <3> SUFFICES ASSUME gcstate = "propagate", NEW o \in alive, o \notin tmudata, colour'[o] = "black",
                        NEW x \in Contents(o)'
                 PROVE  colour'[x] \notin Whites
      BY DEF BarrierStep
    <3>1. CASE x = v /\ x \notin Contents(o)
      BY <3>1, <2>0
    <3>2. CASE x \in Contents(o)
      <4>1. CASE colour[o] = "black"
        <5>1. ~White(x) /\ x \in Obj
          BY <4>1, <3>2, <2>0, <2>3 DEF Core, MarkInv, Marking, Shady
        <5> QED
          BY <5>1, <1>0, <1>00 DEF White
      <4>2. CASE colour[o] # "black"
        <5>1. MarkColour(o) = "black" /\ colour'[o] # colour[o]
          BY <4>2, <1>0, <2>0
        <5>2. o \in Userdata \cup UpVal
          BY <5>1 DEF MarkColour
        <5> QED
          BY <5>1, <5>2, <3>2, <1>0, <2>0
      <4> QED
        BY <4>1, <4>2
    <3> QED
      BY <3>1, <3>2, <2>0
  <2> QED
    BY <2>1, <2>2, <2>4, <2>5, <2>6, <2>7 DEF Mutated
<1> QED
  BY <1>1, <1>2

LEMMA AssignedRef ==
  ASSUME TypeOK, NEW x \in UpVal, NEW v \in Obj, ref' = Assigned(x, v)
  PROVE  /\ ref' \in [Obj -> SUBSET Entry]
         /\ \A o \in Obj : \A y \in Contents(o)' :
              IF o = x THEN y = v
              ELSE y \in Contents(o) \/ (y = v /\ o = owner[x] /\ o \in Thread)
<1> USE Kinds
<1>1. <<Field, v>> \in Entry /\ x \in Obj
  BY DEF Entry
<1>2. ref' = [o \in Obj |-> IF o = x THEN {<<Field, v>>}
                 ELSE IF o = owner[x] THEN ref[o] \cup {<<Field, v>>} ELSE ref[o]]
  BY DEF Assigned
<1>3. ref' \in [Obj -> SUBSET Entry]
  BY <1>1, <1>2 DEF TypeOK
<1>4. ASSUME NEW o \in Obj, NEW y \in Contents(o)'
      PROVE  IF o = x THEN y = v
             ELSE y \in Contents(o) \/ (y = v /\ o = owner[x] /\ o \in Thread)
  <2>1. y \in Ends(ref'[o]) /\ owner[x] \in Thread \cup {Nil} /\ o # Nil
    BY <1>4 DEF Contents, TypeOK
  <2>2. y # Nil /\ y # Field /\ \E e \in ref'[o] : y = e[1] \/ y = e[2]
    BY <2>1, EndsDef
  <2>3. PICK e \in ref'[o] : y = e[1] \/ y = e[2]
    BY <2>2
  <2>4. CASE e = <<Field, v>>
    <3>1. e[1] = Field /\ e[2] = v
      BY <2>4
    <3> QED
      BY <3>1, <2>1, <2>2, <2>3, <1>2, EndsDef DEF Contents
  <2>5. CASE e # <<Field, v>>
    <3>1. o # x /\ e \in ref[o]
      BY <2>5, <2>3, <1>2
    <3> QED
      BY <3>1, <2>2, <2>3, EndsDef DEF Contents
  <2> QED
    BY <2>4, <2>5
<1> QED
  BY <1>3, <1>4

LEMMA ForwardActions ==
  ASSUME Struct, NEW p \in Obj, NEW x \in Obj, SetFenv(p, x) \/ SetCUpvalue(p, x)
  PROVE  Struct' /\ (Core /\ ~tainted' => Mutated)
<1> USE Kinds
<1>1. /\ Program /\ Forward(p, x) /\ x \notin UpVal /\ p \in Userdata \cup Closure
      /\ p \in Userdata => x \in Table
      /\ x \in Accessible /\ ref' = [ref EXCEPT ![p] = @ \cup {<<Field, x>>}] /\ tainted' \in BOOLEAN
      /\ UNCHANGED <<alive, owner, mt, running, currentwhite, gcstate, grayagain, weak, tosweep,
                     finalization, full>>
  BY Apart DEF SetFenv, SetCUpvalue, Struct, TypeOK
<1>2. /\ ref' \in [Obj -> SUBSET Entry]
      /\ \A o \in Obj : Contents(o)' = IF o = p THEN Contents(o) \cup ({Field, x} \ {Nil, Field})
                                       ELSE Contents(o)
  <2>1. Adds(p, Field, x) /\ TypeOK
    BY <1>1 DEF Struct, Adds
  <2>2. Added(p, Field, x)
    BY <2>1, RefAdd
  <2> QED
    BY <2>2 DEF Added
<1>3. gcstate = "propagate" /\ colour'[p] = "black" => colour'[x] \notin Whites
  <2>1. gcstate = "propagate" /\ (colour[p] = "black" \/ \E o \in Obj : colour'[o] # colour[o])
              => colour'[x] \notin Whites
    BY <1>1, ForwardStep DEF Struct
  <2> QED
    BY <2>1
<1>4. Core => x \in Kept
  BY <1>1, KeptFacts DEF Core
<1>5. \A o \in Obj : \A y \in Contents(o)' :
           /\ Typed(o, y)
           /\ \/ y \in Contents(o)
              \/ y = x /\ (gcstate = "propagate" /\ colour'[o] = "black" /\ ~tainted'
                             => colour'[x] \notin Whites)
  BY <1>1, <1>2, <1>3, Apart DEF Struct, RefTyped, Typed
<1> QED
  BY <1>1, <1>2, <1>4, <1>5, ForwardAction

LEMMA UpvalActions ==
  ASSUME Struct, NEW f \in Closure, NEW x \in UpVal, NEW v \in Obj,
         SetUpval(f, x, v) \/ SetUpvalue(f, x, v)
  PROVE  Struct' /\ (Core /\ ~tainted' => Mutated)
<1> USE Kinds
<1>1. /\ Program /\ v \in Contents(running) /\ ref' = Assigned(x, v) /\ tainted' \in BOOLEAN
      /\ running \in Thread /\ running \in Obj /\ f \in Obj /\ x \in Obj
      /\ UNCHANGED <<alive, owner, mt, running, currentwhite, gcstate, grayagain, weak, tosweep,
                     finalization, full>>
  BY DEF SetUpval, SetUpvalue, Struct, TypeOK
<1>2. v \notin UpVal /\ (Core => v \in Kept)
  BY <1>1, Apart, KeptFacts DEF Struct, RefTyped, Typed, Core
<1>3. /\ ref' \in [Obj -> SUBSET Entry]
      /\ \A o \in Obj : \A y \in Contents(o)' :
           IF o = x THEN y = v
           ELSE y \in Contents(o) \/ (y = v /\ o = owner[x] /\ o \in Thread)
  BY <1>1, AssignedRef DEF Struct
<1>4. \A o \in Obj : \A y \in Contents(o)' : Typed(o, y)
  BY <1>2, <1>3, Apart DEF Struct, RefTyped, Typed
<1>5. ASSUME NEW p \in Obj, Forward(p, v), p = x \/ (p = f /\ (~tainted' => ~Missed(f, x, v)))
      PROVE  Struct' /\ (Core /\ ~tainted' => Mutated)
  <2>1. /\ \A o \in Obj : colour'[o] = colour[o]
              \/ gcstate # "propagate"
              \/ (gcstate = "propagate" /\ White(o) /\ colour'[o] = MarkColour(o))
        /\ gcstate = "propagate" /\ (colour[p] = "black" \/ \E o \in Obj : colour'[o] # colour[o])
              => colour'[v] \notin Whites
    BY <1>5, ForwardStep DEF Struct
  <2>2. \A o \in Thread : gcstate = "propagate" => colour'[o] # "black"
    BY <2>1, Apart DEF Struct, Shades, MarkColour
  <2>3. gcstate = "propagate" /\ colour'[x] = "black" /\ ~tainted' => colour'[v] \notin Whites
    BY <1>1, <1>5, <2>1 DEF Missed, White
  <2>4. \A o \in Obj : \A y \in Contents(o)' :
              \/ y \in Contents(o)
              \/ y = v /\ (gcstate = "propagate" /\ colour'[o] = "black" /\ ~tainted'
                             => colour'[v] \notin Whites)
    BY <1>3, <2>2, <2>3
  <2> QED
    BY <1>1, <1>2, <1>3, <1>4, <1>5, <2>4, ForwardAction
<1>6. CASE SetUpval(f, x, v)
  BY <1>1, <1>5, <1>6 DEF SetUpval
<1>7. CASE SetUpvalue(f, x, v)
  BY <1>1, <1>5, <1>7 DEF SetUpvalue
<1> QED
  BY <1>6, <1>7

(* The operations with a backward barrier.                                   *)
LEMMA BackActions ==
  ASSUME Struct, NEW t \in Table, NEW k \in Obj \cup {Nil, Field}, NEW v \in Obj,
         (k # Field /\ SetTable(t, k, v)) \/ (k = Field /\ v \in Table /\ SetMetatable(t, v))
  PROVE  Struct' /\ (Core => Mutated)
<1> USE Kinds
<1> DEFINE S == {k, v} \ {Nil, Field}
<1>1. /\ Program /\ t \in Accessible /\ S \subseteq Accessible \ UpVal /\ S \subseteq Obj /\ t \in Obj
      /\ ref' = [ref EXCEPT ![t] = @ \cup {<<k, v>>}] /\ Back(t, S)
      /\ UNCHANGED <<alive, owner, mt, running, currentwhite, gcstate, gray, weak, tosweep,
                     finalization, full, tainted>>
  <2>1. CASE k # Field /\ SetTable(t, k, v)
    <3>1. {k, v} \cap Obj = S
      BY <2>1
    <3> QED
      BY <2>1, <3>1 DEF SetTable
  <2>2. CASE k = Field /\ v \in Table /\ SetMetatable(t, v)
    <3>1. {v} = S
      BY <2>2
    <3> QED
      BY <2>2, <3>1, Apart DEF SetMetatable
  <2> QED
    BY <2>1, <2>2
<1>2. /\ ref' \in [Obj -> SUBSET Entry]
      /\ \A o \in Obj : Contents(o)' = IF o = t THEN Contents(o) \cup S ELSE Contents(o)
  <2>1. /\ TypeOK /\ v \in Obj \cup {Nil} /\ t \in Obj
        /\ Adds(t, k, v)
    BY <1>1 DEF Struct, Adds
  <2> HIDE DEF S
  <2>2. Added(t, k, v)
    BY <2>1, RefAdd
  <2> QED
    BY <2>2 DEF S, Added
<1> HIDE DEF S
<1>3. /\ colour' \in [Obj -> Whites \cup {"gray", "black"}]
      /\ grayagain \subseteq grayagain' /\ grayagain' \subseteq grayagain \cup {t}
      /\ \A o \in Obj : \/ colour'[o] = colour[o]
                        \/ /\ o = t /\ colour[o] = "black" /\ colour'[o] = "gray"
                           /\ o \in grayagain'
      /\ \A o \in grayagain' \ grayagain :
           o = t /\ colour[o] = "black" /\ colour'[o] = "gray"
      /\ colour'[t] = "black" => colour' = colour /\ Shady(S)
  BY <1>1, BackStep DEF Struct
<1>4. Struct'
  <2>1. TypeOK'
    BY <1>1, <1>2, <1>3, BoundsAssumption DEF Struct, TypeOK, Program, finalization
  <2>2. RefTyped'
    BY <1>1, <1>2, Apart DEF Struct, RefTyped, Typed
  <2>3. Shades'
    BY <1>1, <1>3, Apart DEF Struct, Shades, Open
  <2>4. \A u \in (tosweep \cap UpVal)' : ~Open(u)'
    BY <1>1 DEF Struct, Open
  <2> QED
    BY <2>1, <2>2, <2>3, <2>4 DEF Struct
<1>5. ASSUME Core PROVE Mutated
  <2> USE <1>5
  <2>0. /\ Kept \subseteq alive /\ alive \subseteq Obj /\ running \in Kept /\ mt \subseteq Kept
        /\ main \in Kept /\ registry \in Kept /\ S \subseteq Kept /\ t \in alive
        /\ currentwhite # OtherWhite /\ \A o \in Kept : Contents(o) \subseteq Kept
    BY <1>1, KeptFacts DEF Core
  <2>1. Framed /\ FinalStep
    BY <1>1 DEF Framed, Program, finalization, FinalStep
  <2>2. OwnerStep
    BY <1>1 DEF OwnerStep, Core, Owners, Open
  <2>3. ColourStep /\ ListStep
    BY <1>1, <1>3, <2>0 DEF ColourStep, ListStep, New
  <2>4. HeapStep
    <3>1. \A o \in alive : ~IsDead(o)' => o \in Kept
      BY <1>1, <1>3, <2>0 DEF IsDead, Kept, OtherWhite
    <3> QED
      BY <1>1, <1>2, <2>0, <3>1 DEF HeapStep, Roots
  <2>5. BarrierStep
    <3> SUFFICES ASSUME gcstate = "propagate", NEW o \in alive, o \notin tmudata, colour'[o] = "black",
                        NEW x \in Contents(o)'
                 PROVE  colour'[x] \notin Whites
      BY DEF BarrierStep
    <3>1. colour[o] = "black" /\ o \in Obj
      BY <2>0, <1>3
    <3>2. x \in Contents(o) => colour[x] \notin Whites
      BY <3>1 DEF Core, MarkInv, Marking, Shady, White
    <3>3. x \notin Contents(o) => colour[x] \notin Whites
      BY <1>2, <1>3, <3>1 DEF Shady, White
    <3>4. x \in Obj
      BY <3>1, <1>2, <1>1, <2>0, ContentsObj DEF Struct, TypeOK
    <3> QED
      BY <3>2, <3>3, <3>4, <1>3 DEF Whites
  <2> QED
    BY <2>1, <2>2, <2>3, <2>4, <2>5 DEF Mutated
<1> QED
  BY <1>4, <1>5

(* Closing an upvalue: a dead one is freed, a gray one becomes black or      *)
(* white.                                                                    *)
LEMMA CloseColours ==
  ASSUME Struct, NEW x \in UpVal, CloseUpval(x), ~IsDead(x)
  PROVE  /\ colour' \in [Obj -> Whites \cup {"gray", "black"}]
         /\ gray \subseteq gray' /\ gray' \subseteq Gcable
         /\ colour'[x] # "gray"
         /\ colour'[x] = colour[x] \/ (gcstate # "propagate" /\ colour'[x] = currentwhite)
              \/ (gcstate = "propagate" /\ colour[x] = "gray" /\ colour'[x] = "black"
                  /\ \A y \in Contents(x) : colour'[y] \notin Whites)
         /\ \A o \in Obj \ {x} :
              \/ colour'[o] = colour[o]
              \/ /\ gcstate = "propagate" /\ White(o) /\ colour'[o] = MarkColour(o)
                 /\ o \in Gcable => o \in gray'
                 /\ o \in Userdata \cup UpVal => \A y \in Contents(o) : colour'[y] \notin Whites
         /\ \A o \in gray' \ gray :
              gcstate = "propagate" /\ White(o) /\ colour'[o] = "gray" /\ colour'[o] # colour[o]
         /\ x \in alive /\ (\A o \in alive : Contents(o) \subseteq alive) =>
              \A o \in Obj : gcstate = "propagate" /\ colour'[o] # colour[o] => o \in alive
<1> USE Kinds
<1>0. x \in Obj /\ x \notin Weak /\ x \notin Gcable /\ TypeOK /\ RefTyped
  BY Apart DEF Gcable, Struct
<1>1. CASE colour[x] # "gray"
  BY <1>0, <1>1 DEF CloseUpval, TypeOK, Gcable
<1>2. CASE colour[x] = "gray" /\ gcstate # "propagate"
  <2>1. colour' = [colour EXCEPT ![x] = currentwhite] /\ gray' = gray
    BY <1>2 DEF CloseUpval
  <2>2. currentwhite \in Whites /\ "gray" \notin Whites
    BY <1>0 DEF TypeOK, Whites
  <2> QED
    BY <1>0, <1>2, <2>1, <2>2 DEF TypeOK, Gcable
<1>3. CASE colour[x] = "gray" /\ gcstate = "propagate"
  <2> DEFINE S == Strong(x)
             C == Colours(S)
  <2>1. colour' = [C EXCEPT ![x] = "black"] /\ gray' = gray \cup Listed(S)
    BY <1>3 DEF CloseUpval
  <2>2. S = Contents(x) /\ S \subseteq Obj /\ x \notin S /\ \A y \in S : y \notin UpVal
    <3>1. S = Contents(x) /\ S \subseteq Obj
      BY <1>0, StrongContents, ContentsObj DEF TypeOK
    <3>2. \A y \in S : y \notin UpVal
      BY <3>1, <1>0, Apart DEF RefTyped, Typed
    <3> QED
      BY <3>1, <3>2
  <2>3. /\ Shaded(C, S) /\ Listed(S) = {o \in Gcable : C[o] # colour[o]}
        /\ S \subseteq alive /\ (\A o \in alive : Contents(o) \subseteq alive) =>
              \A o \in Obj : C[o] # colour[o] => o \in alive
    BY <1>0, <2>2, Marks
  <2> HIDE DEF S, C
  <2>4. C[x] = colour[x] /\ colour'[x] = "black" /\ \A o \in Obj \ {x} : colour'[o] = C[o]
    BY <2>1, <2>3, <1>3, <1>0 DEF Shaded, White, Whites
  <2>5. \A o \in Gcable : MarkColour(o) = "gray"
    BY Apart DEF Gcable, MarkColour
  <2>6. "black" \notin Whites /\ colour' \in [Obj -> Whites \cup {"gray", "black"}]
    BY <2>1, <2>3 DEF Shaded, Whites
  <2>7. \A y \in Contents(x) : colour'[y] \notin Whites
    BY <2>2, <2>3, <2>4 DEF Shaded
  <2>8. ASSUME NEW o \in Obj \ {x}, colour'[o] # colour[o]
        PROVE  /\ White(o) /\ colour'[o] = MarkColour(o)
               /\ o \in Gcable => o \in gray'
               /\ o \in Userdata \cup UpVal => \A y \in Contents(o) : colour'[y] \notin Whites
    <3>1. C[o] # colour[o] /\ \A y \in Contents(o) : y \in Obj
      BY <2>8, <2>4, <1>0, ContentsObj DEF TypeOK
    <3>2. o \in Userdata \cup UpVal => \A y \in Contents(o) : C[y] \notin Whites
      BY <3>1, <2>3 DEF Shaded
    <3> QED
      BY <3>1, <3>2, <2>1, <2>3, <2>4, <2>6 DEF Shaded
  <2>9. \A o \in gray' \ gray : White(o) /\ colour'[o] = "gray" /\ colour'[o] # colour[o]
    BY <2>1, <2>3, <2>4, <2>5, <1>0 DEF Shaded
  <2>10. x \in alive /\ (\A o \in alive : Contents(o) \subseteq alive) =>
              \A o \in Obj : colour'[o] # colour[o] => o \in alive
    BY <2>2, <2>3, <2>4
  <2>11. gray' \subseteq Gcable /\ gray \subseteq gray'
    BY <2>1, <2>3, <1>0 DEF TypeOK, Gcable
  <2> QED
    BY <1>3, <2>4, <2>6, <2>7, <2>8, <2>9, <2>10, <2>11
<1> QED
  BY <1>1, <1>2, <1>3

LEMMA CloseUpvalAction ==
  ASSUME Struct, NEW x \in UpVal, CloseUpval(x)
  PROVE  Struct' /\ (Core => Mutated)
<1> USE Kinds
<1>0. /\ Program /\ x \in alive /\ owner[x] = running /\ running \in Thread /\ running # Nil
      /\ owner' = [owner EXCEPT ![x] = Nil] /\ Open(x) /\ x \notin tosweep /\ x \in Obj
      /\ owner' \in [UpVal -> Thread \cup {Nil}]
      /\ UNCHANGED <<mt, running, currentwhite, gcstate, grayagain, weak, tosweep, finalization,
                     full, tainted>>
  BY DEF CloseUpval, Struct, TypeOK, Open
<1>1. CASE IsDead(x)
  <2>1. alive' = alive \ {x} /\ ref' = [ref EXCEPT ![x] = {}] /\ UNCHANGED <<colour, gray>>
    BY <1>1 DEF CloseUpval
  <2>2. ref' \in [Obj -> SUBSET Entry] /\ \A o \in Obj : ref'[o] \subseteq ref[o]
    BY <2>1 DEF Struct, TypeOK
  <2>3. \A o \in Obj : Contents(o)' \subseteq Contents(o)
    BY <2>2, EndsSub DEF Contents
  <2>4. Struct'
    <3>1. TypeOK'
      BY <1>0, <2>1, <2>2, BoundsAssumption DEF Struct, TypeOK, Program, finalization
    <3>2. RefTyped'
      BY <2>3 DEF Struct, RefTyped
    <3>3. Shades' /\ \A u \in (tosweep \cap UpVal)' : ~Open(u)'
      BY <1>0, <2>1 DEF Struct, Shades, Open, TypeOK
    <3> QED
      BY <3>1, <3>2, <3>3 DEF Struct
  <2>5. ASSUME Core PROVE Mutated
    <3> USE <2>5
    <3>0. /\ Kept \subseteq alive /\ alive \subseteq Obj /\ running \in Kept /\ mt \subseteq Kept
          /\ main \in Kept /\ registry \in Kept /\ x \notin Kept /\ x \notin Userdata
          /\ currentwhite # OtherWhite /\ \A o \in Kept : Contents(o) \subseteq Kept
          /\ \A o \in alive : colour[o] # OtherWhite => o \in Kept
      BY <1>1, KeptFacts, Apart DEF Core, Kept, IsDead
    <3>1. gcstate # "propagate"
      BY <1>0, <1>1 DEF Core, MarkInv, Marking, IsDead
    <3>2. Framed /\ FinalStep
      BY <1>0, <2>1, <3>0 DEF Framed, Program, finalization, FinalStep
    <3>3. OwnerStep
      <4>1. \A t \in Thread : t # x
        BY Apart
      <4> QED
        BY <1>0, <2>1, <4>1 DEF OwnerStep, Core, Owners, Open, Struct, TypeOK
    <3>4. ColourStep /\ ListStep /\ BarrierStep
      BY <1>0, <2>1, <3>1 DEF ColourStep, ListStep, BarrierStep, New
    <3>5. HeapStep
      <4>1. \A o \in alive' : ~IsDead(o)' => o \in Kept
        BY <1>0, <2>1 DEF IsDead, Kept, OtherWhite
      <4> QED
        BY <1>0, <2>1, <2>3, <3>0, <4>1 DEF HeapStep, Roots
    <3> QED
      BY <3>2, <3>3, <3>4, <3>5 DEF Mutated
  <2> QED
    BY <2>4, <2>5
<1>2. CASE ~IsDead(x)
  <2>0. UNCHANGED <<alive, ref>>
    BY <1>2 DEF CloseUpval
  <2>1. /\ colour' \in [Obj -> Whites \cup {"gray", "black"}]
        /\ gray \subseteq gray' /\ gray' \subseteq Gcable
        /\ colour'[x] # "gray"
        /\ colour'[x] = colour[x] \/ (gcstate # "propagate" /\ colour'[x] = currentwhite)
              \/ (gcstate = "propagate" /\ colour[x] = "gray" /\ colour'[x] = "black"
                  /\ \A y \in Contents(x) : colour'[y] \notin Whites)
        /\ \A o \in Obj \ {x} :
              \/ colour'[o] = colour[o]
              \/ /\ gcstate = "propagate" /\ White(o) /\ colour'[o] = MarkColour(o)
                 /\ o \in Gcable => o \in gray'
                 /\ o \in Userdata \cup UpVal => \A y \in Contents(o) : colour'[y] \notin Whites
        /\ \A o \in gray' \ gray :
              gcstate = "propagate" /\ White(o) /\ colour'[o] = "gray" /\ colour'[o] # colour[o]
        /\ x \in alive /\ (\A o \in alive : Contents(o) \subseteq alive) =>
              \A o \in Obj : gcstate = "propagate" /\ colour'[o] # colour[o] => o \in alive
    BY <1>2, CloseColours
  <2>2. currentwhite \in Whites /\ Whites \cap {"gray", "black"} = {}
        /\ (\A o \in Obj : MarkColour(o) \in {"gray", "black"}) /\ colour[x] # "black"
    BY <1>0 DEF Struct, TypeOK, Whites, MarkColour, Shades
  <2>3. \A o \in Obj : Contents(o)' = Contents(o)
    BY <2>0 DEF Contents
  <2>4. Struct'
    <3>1. TypeOK'
      <4>1. gray' \subseteq Table \cup Closure \cup Thread
            /\ colour' \in [Obj -> Whites \cup {"gray", "black"}]
        BY <2>1 DEF Gcable
      <4>2. ops' \in 0..MaxOps
        BY <1>0, BoundsAssumption DEF Program, Struct, TypeOK
      <4> QED
        BY <1>0, <2>0, <4>1, <4>2 DEF Struct, TypeOK, finalization
    <3>2. RefTyped'
      BY <2>3 DEF Struct, RefTyped
    <3>3. Shades'
      <4>1. \A o \in Obj : MarkColour(o) = "black" => o \notin Weak \cup Thread \cup String
                                                     /\ (o \in UpVal => ~Open(o))
        BY Apart DEF MarkColour
      <4>2. \A o \in Obj : MarkColour(o) = "gray" => o \notin Userdata
        BY DEF MarkColour
      <4>3. \A o \in UpVal : ~Open(o) => ~Open(o)'
        BY <1>0 DEF Open, Struct, TypeOK
      <4>4. x \notin Weak \cup Thread \cup String \cup Userdata /\ ~Open(x)'
        BY <1>0, Apart DEF Open, Struct, TypeOK
      <4> QED
        BY <1>0, <2>1, <2>2, <4>1, <4>2, <4>3, <4>4 DEF Struct, Shades
    <3>4. \A u \in (tosweep \cap UpVal)' : ~Open(u)'
      BY <1>0 DEF Struct, Open, TypeOK
    <3> QED
      BY <3>1, <3>2, <3>3, <3>4 DEF Struct
  <2>5. ASSUME Core PROVE Mutated
    <3> USE <2>5
    <3>0. /\ Kept \subseteq alive /\ alive \subseteq Obj /\ running \in Kept /\ mt \subseteq Kept
          /\ main \in Kept /\ registry \in Kept
          /\ currentwhite # OtherWhite /\ \A o \in Kept : Contents(o) \subseteq Kept
      BY KeptFacts DEF Core
    <3>1. gcstate = "propagate" => Kept = alive
      BY DEF Core, MarkInv, Marking, Kept, IsDead
    <3>2. Framed /\ FinalStep
      BY <1>0, <2>0 DEF Framed, Program, finalization, FinalStep
    <3>3. OwnerStep
      <4>1. colour'[x] = currentwhite \/ (colour'[x] = "black" /\ gcstate = "propagate")
        <5>1. CASE colour'[x] = colour[x]
          <6>1. colour[x] # "gray" /\ colour[x] # OtherWhite
            BY <5>1, <2>1, <1>2, <1>0, Apart DEF IsDead
          <6> QED
            BY <5>1, <6>1, <2>2, <1>0 DEF Struct, TypeOK, Whites, OtherWhite
        <5> QED
          BY <5>1, <2>1
      <4> QED
        BY <1>0, <2>0, <4>1 DEF OwnerStep, Core, Owners, Open, Struct, TypeOK
    <3>4. ColourStep
      BY <1>0, <2>0, <2>1, <3>0 DEF ColourStep, New
    <3>5. ListStep
      <4>1. gcstate = "propagate" => \A o \in Obj : colour'[o] # colour[o] => o \in alive
        BY <1>0, <2>1, <3>0, <3>1
      <4>2. \A o \in gray' \ gray : o \in Obj
        BY <2>1
      <4> QED
        BY <1>0, <2>1, <4>1, <4>2 DEF ListStep
    <3>6. HeapStep
      <4>1. \A o \in alive : ~IsDead(o)' => o \in Kept
        BY <1>0, <1>2, <2>1, <2>2, <3>0, <3>1 DEF IsDead, Kept, OtherWhite, Whites
      <4> QED
        BY <1>0, <2>0, <2>3, <3>0, <4>1 DEF HeapStep, Roots
    <3>7. BarrierStep
      <4> SUFFICES ASSUME gcstate = "propagate", NEW o \in alive, o \notin tmudata,
                          colour'[o] = "black", NEW y \in Contents(o)'
                   PROVE  colour'[y] \notin Whites
        BY DEF BarrierStep
      <4>1. y \in Contents(o) /\ o \in Obj /\ y \in Kept
        BY <2>3, <3>0, <3>1
      <4>2. CASE colour[o] = "black"
        <5>1. ~White(y) /\ y \in Obj
          BY <4>1, <4>2, <3>0 DEF Core, MarkInv, Marking, Shady
        <5> QED
          BY <5>1, <2>1, <2>2 DEF White
      <4>3. CASE colour[o] # "black"
        <5>1. o = x \/ (MarkColour(o) = "black" /\ colour'[o] # colour[o])
          BY <4>1, <4>3, <2>1
        <5>2. o \in Userdata \cup UpVal
          BY <5>1 DEF MarkColour
        <5> QED
          BY <5>1, <5>2, <4>1, <4>3, <2>1
      <4> QED
        BY <4>2, <4>3
    <3> QED
      BY <3>2, <3>3, <3>4, <3>5, <3>6, <3>7 DEF Mutated
  <2> QED
    BY <2>4, <2>5
<1> QED
  BY <1>1, <1>2

(* luaC_mark, where it does no harm: the userdata is white already, or the   *)
(* sweep would have whitened it.                                             *)
LEMMA MarkAction ==
  ASSUME Struct, NEW u \in Userdata, luaC_mark(u)
  PROVE  Struct' /\ (Core /\ ~tainted' => Mutated)
<1> USE Kinds
<1>1. /\ Program /\ u \in Contents(registry) /\ colour' = [colour EXCEPT ![u] = currentwhite]
      /\ finalized' = finalized \ {u}
      /\ tainted' = (tainted \/ u \in finalized \/ (gcstate = "propagate" /\ ~White(u)))
      /\ UNCHANGED <<alive, ref, owner, mt, running, currentwhite, gcstate, gray, grayagain, weak,
                     tosweep, tmudata, ran, full>>
  BY DEF luaC_mark, heap, lists
<1>2. Struct'
  <2>1. TypeOK'
    BY <1>1, BoundsAssumption DEF Struct, TypeOK, Program
  <2>2. RefTyped'
    BY <1>1 DEF Struct, RefTyped, Contents
  <2>3. Shades' /\ \A x \in (tosweep \cap UpVal)' : ~Open(x)'
    BY <1>1 DEF Struct, Shades, Open, TypeOK, Whites
  <2> QED
    BY <2>1, <2>2, <2>3 DEF Struct
<1>3. ASSUME Core, ~tainted' PROVE Mutated
  <2> USE <1>3
  <2>0. /\ Kept \subseteq alive /\ alive \subseteq Obj /\ running \in Kept /\ mt \subseteq Kept
        /\ main \in Kept /\ registry \in Kept /\ u \in Kept
        /\ currentwhite # OtherWhite /\ \A o \in Kept : Contents(o) \subseteq Kept
    BY <1>1, KeptFacts DEF Core
  <2>1. u \notin finalized /\ (gcstate = "propagate" => White(u))
    BY <1>1
  <2>2. gcstate = "propagate" => colour' = colour
    <3>1. gcstate = "propagate" => colour[u] # OtherWhite
      BY <2>0 DEF Core, MarkInv, Marking
    <3> QED
      BY <1>1, <2>1, <3>1 DEF White, Whites, OtherWhite, Struct, TypeOK
  <2>3. Framed /\ FinalStep
    BY <1>1, <2>0, <2>1 DEF Framed, Program, FinalStep
  <2>4. OwnerStep /\ ColourStep /\ ListStep
    BY <1>1, <2>2 DEF OwnerStep, ColourStep, ListStep, New, Core, Owners, Open, Struct, TypeOK
  <2>5. \A o \in Obj : Contents(o)' = Contents(o)
    BY <1>1 DEF Contents
  <2>6. HeapStep
    <3>1. \A o \in alive : ~IsDead(o)' => o \in Kept
      BY <1>1, <2>0 DEF IsDead, Kept, OtherWhite, Struct, TypeOK
    <3> QED
      BY <1>1, <2>0, <2>5, <3>1 DEF HeapStep, Roots
  <2>7. BarrierStep
    BY <2>0, <2>2, <2>5 DEF BarrierStep, Core, MarkInv, Marking, Shady, White
  <2> QED
    BY <2>3, <2>4, <2>6, <2>7 DEF Mutated
<1> QED
  BY <1>2, <1>3

-----------------------------------------------------------------------------
(* Such an operation keeps the invariant.                                    *)
LEMMA MutatedCore ==
  ASSUME Struct, Struct', ~tainted, Core, Mutated
  PROVE  Core'
<1> USE Kinds DEF Mutated
<1>0. /\ Kept \subseteq alive /\ alive \subseteq Obj /\ alive' \subseteq Obj
      /\ running \in Kept /\ mt \subseteq Kept /\ main \in Kept /\ registry \in Kept
      /\ currentwhite # OtherWhite /\ \A o \in Kept : Contents(o) \subseteq Kept
      /\ OtherWhite' = OtherWhite /\ Kept \subseteq alive' /\ currentwhite' = currentwhite
      /\ currentwhite \in Whites /\ OtherWhite \in Whites
      /\ gcstate' = gcstate /\ tmudata' = tmudata /\ tosweep' = tosweep /\ weak' = weak
  BY KeptFacts DEF Core, HeapStep, Framed, OtherWhite, Struct, TypeOK
<1>1. \A o \in Kept : ~IsDead(o)'
  <2>1. \A o \in Obj : MarkColour(o) \notin Whites
    BY DEF MarkColour, Whites
  <2> QED
    BY <1>0, <2>1 DEF ColourStep, IsDead, Kept, Whites
<1>2. Kept \cup Fresh \subseteq Kept'
  BY <1>0, <1>1 DEF Fresh, Kept, IsDead
<1>3. Closed'
  BY <1>0, <1>2 DEF Closed, HeapStep, Kept
<1>4. Owners'
  BY DEF Owners, OwnerStep, Open
<1>5. Finals'
  <2>1. tmudata \subseteq Userdata /\ finalized \subseteq Userdata
    BY DEF Struct, TypeOK
  <2>2. \A u \in tmudata : u \in alive /\ u \in alive' /\ u \in Kept' /\ u \in finalized
    BY <1>0, <1>2 DEF Core, Finals
  <2>3. \A u \in alive' \cap Userdata : IsDead(u)' => u \in alive /\ IsDead(u)
    BY <1>0, <1>1 DEF ColourStep, New, IsDead, Kept
  <2>4. \A u \in Userdata : ran'[u] <= 1
    BY DEF FinalStep, Core, Finals
  <2>5. \A u \in tmudata : ran'[u] = 0 /\ u \in finalized'
    BY <2>1, <2>2 DEF FinalStep, Core, Finals
  <2>6. \A u \in alive' \cap Userdata : /\ u \notin finalized' => ran'[u] = 0
                                        /\ u \in finalized' => u \in finalized /\ u \in alive
                                                               /\ ran'[u] = ran[u]
    BY DEF FinalStep, Core, Finals
  <2>7. \A u \in alive' \cap finalized' \cap Finalizable : u \in tmudata \/ ran'[u] = 1
    BY <2>6 DEF Core, Finals
  <2>8. \A u \in alive' \cap Userdata : IsDead(u)' => u \in finalized'
    BY <2>3 DEF FinalStep, Core, Finals
  <2>9. gcstate # "closing"
    BY DEF Framed
  <2> QED
    BY <1>0, <2>2, <2>4, <2>5, <2>6, <2>7, <2>8, <2>9 DEF Finals
<1>6. gcstate # "propagate" => gray' = {} /\ gray = {}
  BY DEF ListStep, Core, IdleInv, SweepInv, Idle, Sweeping, Framed
<1>7. gcstate = "propagate" =>
        /\ \A o \in gray \cup grayagain \cup weak : o \in alive /\ colour[o] = "gray" /\ o \in Gcable
        /\ \A o \in alive : colour[o] # OtherWhite /\ o \in Kept /\ o \in alive'
  BY <1>0 DEF Core, MarkInv, Marking, Struct, TypeOK, Gcable, Weak, Kept, IsDead
<1>8. weak \subseteq Weak /\ (grayagain' \cap Weak = {}) /\ "gray" \notin Whites /\ "black" \notin Whites
      /\ \A o \in Gcable : o \notin UpVal
  BY <1>0, Apart DEF Struct, TypeOK, Shades, Whites, Gcable
<1>9. OneList'
  <2>1. ASSUME NEW o \in gray' PROVE o \notin grayagain' /\ o \notin weak
    <3>1. gcstate = "propagate"
      BY <2>1, <1>6
    <3>2. CASE o \in gray
      <4>1. colour[o] = "gray" /\ o \notin weak /\ o \notin grayagain
        BY <3>1, <3>2, <1>7, <1>8 DEF Core, OneList
      <4> QED
        BY <4>1, <3>2, <1>8 DEF ListStep
    <3>3. CASE o \notin gray
      <4>1. White(o)
        BY <2>1, <3>3 DEF ListStep
      <4>2. colour[o] # "gray" /\ colour[o] # "black"
        BY <4>1, <1>8 DEF White
      <4> QED
        BY <4>2, <3>1, <1>7 DEF ListStep
    <3> QED
      BY <3>2, <3>3
  <2> QED
    BY <2>1, <1>0, <1>8 DEF OneList
<1>10. IdleInv'
  BY <1>0, <1>6, <1>8 DEF IdleInv, Idle, Core, ColourStep, New
<1>11. SweepInv'
  <2> SUFFICES ASSUME Sweeping
               PROVE  /\ gray' = {} /\ tosweep \cap tmudata = {}
                      /\ \A o \in alive' \ tmudata : colour'[o] # currentwhite =>
                           o \in tosweep \/ (o \in UpVal /\ Open(o)' /\ owner'[o] \in tosweep)
    BY <1>0 DEF SweepInv, Sweeping
  <2>1. ASSUME NEW o \in alive' \ tmudata, colour'[o] # currentwhite
        PROVE  o \in tosweep \/ (o \in UpVal /\ Open(o)' /\ owner'[o] \in tosweep)
    <3>1. o \in alive /\ colour[o] # currentwhite
      BY <2>1, <1>0, <1>8 DEF ColourStep, New, Sweeping
    <3>2. o \in tosweep \/ (o \in UpVal /\ Open(o) /\ owner[o] \in tosweep)
      BY <2>1, <3>1 DEF Core, SweepInv
    <3> QED
      BY <2>1, <3>1, <3>2 DEF OwnerStep, Sweeping, Open
  <2> QED
    BY <2>1, <1>6 DEF Core, SweepInv, Sweeping
<1>12. MarkInv'
  <2> SUFFICES ASSUME gcstate = "propagate"
               PROVE  MarkInv'
    BY <1>0 DEF MarkInv, Marking, Framed
  <2> USE <1>0, <1>7, <1>8
  <2>1. \A o \in alive' : colour'[o] # OtherWhite
    <3>1. \A o \in Obj : MarkColour(o) \notin Whites
      BY DEF MarkColour, Whites
    <3> QED
      BY <3>1 DEF ColourStep, New
  <2>2. \A o \in gray' \cup grayagain' \cup weak' : o \in alive' /\ colour'[o] = "gray"
    BY DEF ListStep, ColourStep, White
  <2>3. \A o \in alive' \cap Gcable : colour'[o] = "gray" => o \in gray' \cup grayagain' \cup weak'
    <3>1. \A o \in alive \cap Gcable : colour[o] = "gray" => o \in gray \cup grayagain \cup weak
      BY DEF Core, MarkInv, Marking
    <3> QED
      BY <3>1 DEF ColourStep, ListStep, New
  <2>4. \A o \in alive' : colour'[o] = "black" /\ o \notin tmudata => Shady(Contents(o))'
    <3>1. ASSUME NEW o \in alive', colour'[o] = "black", o \notin tmudata,
                 NEW x \in Contents(o)'
          PROVE  colour'[x] \notin Whites
      BY <3>1 DEF BarrierStep, ColourStep, New
    <3> QED
      BY <3>1 DEF Shady, White
  <2>5. \A x \in alive' \cap UpVal : colour'[x] = "gray" => Open(x)'
    <3>1. ASSUME NEW x \in alive' \cap UpVal, colour'[x] = "gray"
          PROVE  x \in alive /\ Open(x)
      <4>1. x \in alive /\ (colour[x] = "gray" \/ MarkColour(x) = "gray")
        BY <3>1, Apart DEF ColourStep, New
      <4>2. MarkColour(x) = "gray" => Open(x)
        BY <3>1, Apart DEF MarkColour
      <4> QED
        BY <4>1, <4>2, <3>1 DEF Core, MarkInv, Marking
    <3> QED
      BY <3>1 DEF OwnerStep, Open
  <2>6. Shady({main, registry})'
    <3>1. \A o \in Obj : MarkColour(o) \notin Whites
      BY DEF MarkColour, Whites
    <3>2. ~White(main) /\ ~White(registry) /\ main \in alive /\ registry \in alive
      BY DEF Core, MarkInv, Marking, Shady
    <3> QED
      BY <3>1, <3>2 DEF Shady, White, ColourStep
  <2> QED
    BY <2>1, <2>2, <2>3, <2>4, <2>5, <2>6 DEF MarkInv
<1>13. AtomicInv'
  BY <1>0 DEF AtomicInv, Framed
<1> QED
  BY <1>3, <1>4, <1>5, <1>9, <1>10, <1>11, <1>12, <1>13 DEF Core

-----------------------------------------------------------------------------
(* collectgarbage and lua_close.                                             *)
LEMMA SweepListFacts ==
  ASSUME Struct
  PROVE  /\ SweepList \subseteq alive /\ SweepList \cap tmudata = {}
         /\ \A x \in SweepList \cap UpVal : ~Open(x)
         /\ Owners => \A o \in alive \ tmudata :
              o \in SweepList \/ (o \in UpVal /\ Open(o) /\ owner[o] \in SweepList)
<1>1. Owners => \A x \in UpVal : Open(x) => owner[x] \in alive /\ owner[x] \notin tmudata \cup UpVal
  BY Kinds, Apart DEF Owners, Open, Struct, TypeOK
<1> QED
  BY <1>1 DEF SweepList

LEMMA FullGCAction ==
  ASSUME Struct, FullGC
  PROVE  Struct' /\ (~tainted /\ Core => Core')
<1>1. CASE gcstate \in {"pause", "propagate"}
  <2>1. /\ Program /\ full' = TRUE /\ gray' = {} /\ grayagain' = {} /\ weak' = {}
        /\ tosweep' = SweepList /\ gcstate' = "sweepstring"
        /\ UNCHANGED <<alive, ref, owner, mt, running, colour, currentwhite, finalized, tmudata, ran,
                       tainted>>
    BY <1>1 DEF FullGC, heap, finalization
  <2>2. Struct'
    <3>1. TypeOK'
      BY <2>1, SweepListFacts, BoundsAssumption DEF Struct, TypeOK, Program
    <3>2. RefTyped' /\ Shades' /\ \A x \in (tosweep \cap UpVal)' : ~Open(x)'
      BY <2>1, SweepListFacts DEF Struct, RefTyped, Contents, Shades, Open
    <3> QED
      BY <3>1, <3>2 DEF Struct
  <2>3. ASSUME Core, ~tainted PROVE Core'
    <3> USE <2>3
    <3>1. Closed' /\ Owners'
      BY <2>1 DEF Core, Closed, Owners, Kept, IsDead, OtherWhite, Roots, Contents, Open
    <3>2. Finals' /\ OneList'
      BY <2>1 DEF Core, Finals, OneList, Kept, IsDead, OtherWhite
    <3>3. IdleInv' /\ MarkInv' /\ AtomicInv'
      BY <2>1 DEF IdleInv, Idle, MarkInv, Marking, AtomicInv
    <3>4. SweepInv'
      BY <2>1, SweepListFacts DEF SweepInv, Core, Open
    <3> QED
      BY <3>1, <3>2, <3>3, <3>4 DEF Core
  <2> QED
    BY <2>2, <2>3
<1>2. CASE gcstate \notin {"pause", "propagate"}
  <2>1. /\ Program /\ full' = TRUE
        /\ UNCHANGED <<alive, ref, owner, mt, running, colour, currentwhite, finalized, tmudata, ran,
                       tainted, gray, grayagain, weak, tosweep, gcstate>>
    BY <1>2 DEF FullGC, heap, finalization, lists
  <2>2. Struct'
    <3>1. TypeOK'
      BY <2>1, BoundsAssumption DEF Struct, TypeOK, Program
    <3>2. RefTyped' /\ Shades' /\ \A x \in (tosweep \cap UpVal)' : ~Open(x)'
      BY <2>1 DEF Struct, RefTyped, Contents, Shades, Open
    <3> QED
      BY <3>1, <3>2 DEF Struct
  <2>3. ASSUME Core PROVE Core'
    <3> USE <2>3
    <3>1. Closed' /\ Owners'
      BY <2>1 DEF Core, Closed, Owners, Kept, IsDead, OtherWhite, Roots, Contents, Open
    <3>2. Finals' /\ OneList'
      BY <2>1 DEF Core, Finals, OneList, Kept, IsDead, OtherWhite
    <3>3. IdleInv' /\ SweepInv'
      BY <2>1 DEF Core, IdleInv, Idle, SweepInv, Sweeping, Open
    <3>4. MarkInv' /\ AtomicInv'
      BY <1>2, <2>1 DEF MarkInv, Marking, AtomicInv, Program
    <3> QED
      BY <3>1, <3>2, <3>3, <3>4 DEF Core
  <2> QED
    BY <2>2, <2>3
<1> QED
  BY <1>1, <1>2

LEMMA CloseAction ==
  ASSUME Struct, Close
  PROVE  Struct' /\ (~tainted /\ Core => Core')
<1> USE Kinds
<1> DEFINE open == {x \in alive \cap UpVal : owner[x] = main}
           dead == {x \in open : IsDead(x)}
           all == (alive \cap Userdata) \ (finalized \cup tmudata)
<1>1. /\ Program /\ gcstate' = "closing" /\ alive' = alive \ dead
      /\ ref' = [o \in Obj |-> IF o \in dead THEN {} ELSE ref[o]]
      /\ owner' = [x \in UpVal |-> IF x \in open THEN Nil ELSE owner[x]]
      /\ finalized' = finalized \cup all /\ tmudata' = tmudata \cup (all \cap Finalizable)
      /\ UNCHANGED <<mt, running, colour, currentwhite, gray, grayagain, weak, tosweep, ran, full,
                     tainted>>
  BY DEF Close, lists
<1>2. dead \subseteq UpVal /\ open \subseteq UpVal /\ all \subseteq alive \cap Userdata
      /\ (\A x \in open : Open(x) /\ owner[x] = main) /\ (\A x \in dead : IsDead(x))
      /\ (\A x \in alive \cap UpVal : owner[x] = main => x \in open)
      /\ \A u \in alive \cap Userdata : u \in all \/ u \in finalized \cup tmudata
  BY DEF Open
<1>3. \A u \in all : u \notin finalized /\ u \notin tmudata
  OBVIOUS
<1> HIDE DEF open, dead, all
<1>4. \A o \in Obj : Contents(o)' = IF o \in dead THEN Ends({}) ELSE Contents(o)
  BY <1>1 DEF Contents
<1>5. \A o \in Obj : Contents(o)' \subseteq Contents(o)
  BY <1>4, EndsSub DEF Contents
<1>6. Struct'
  <2>1. TypeOK'
    <3>1. \A x \in dead : x \notin tosweep
      BY <1>2 DEF Struct, dead
    <3>2. alive' \subseteq Obj /\ tosweep' \subseteq alive' /\ ops' \in 0..MaxOps
      BY <1>1, <3>1, BoundsAssumption DEF Struct, TypeOK, Program
    <3>3. /\ ref' \in [Obj -> SUBSET Entry] /\ owner' \in [UpVal -> Thread \cup {Nil}]
          /\ finalized' \subseteq Userdata /\ tmudata' \subseteq Finalizable
      BY <1>1, <1>2 DEF Struct, TypeOK
    <3> QED
      BY <1>1, <3>2, <3>3 DEF Struct, TypeOK
  <2>2. RefTyped'
    BY <1>5 DEF Struct, RefTyped
  <2>3. \A x \in UpVal : ~Open(x) => ~Open(x)'
    BY <1>1 DEF Open
  <2>4. Shades' /\ \A x \in (tosweep \cap UpVal)' : ~Open(x)'
    BY <1>1, <2>3 DEF Struct, Shades
  <2> QED
    BY <2>1, <2>2, <2>4 DEF Struct
<1>7. ASSUME ~tainted, Core PROVE Core'
  <2> USE <1>7
  <2>0. /\ Kept \subseteq alive /\ alive \subseteq Obj /\ running \in Kept /\ mt \subseteq Kept
        /\ main \in Kept /\ registry \in Kept /\ \A o \in Kept : Contents(o) \subseteq Kept
    BY KeptFacts DEF Core
  <2>1. Kept' = Kept
    BY <1>1, <1>2, <2>0 DEF Kept, IsDead, OtherWhite
  <2>2. Closed'
    BY <1>1, <1>5, <2>0, <2>1 DEF Closed, Roots
  <2>3. Owners'
    <3>1. ASSUME NEW x \in UpVal, Open(x)' PROVE x \in alive' /\ owner'[x] \in alive'
      <4>1. owner'[x] = owner[x] /\ x \notin open /\ Open(x)
        BY <1>1, <3>1 DEF Open
      <4>2. x \in alive /\ owner[x] \in alive /\ owner[x] \in Thread
        BY <4>1 DEF Core, Owners, Open, Struct, TypeOK
      <4>3. x \notin dead /\ owner[x] \notin dead
        BY <4>1, <4>2, <1>2, Apart DEF open, dead
      <4> QED
        BY <1>1, <4>1, <4>2, <4>3
    <3> QED
      BY <3>1 DEF Owners
  <2>4. Finals'
    <3>1. \A u \in all : u \in Kept /\ ran[u] = 0
      BY <1>2, <1>3 DEF Core, Finals, Kept
    <3>2. \A u \in alive' : u \in alive
      BY <1>1
    <3>3. tmudata' \subseteq Kept \cap finalized'
      BY <1>1, <3>1 DEF Core, Finals
    <3>4. \A u \in alive' \cap Userdata : u \in finalized'
      BY <1>1, <1>2, <3>2 DEF Core, Finals
    <3>5. \A u \in tmudata' : ran'[u] = 0
      BY <1>1, <3>1 DEF Core, Finals
    <3>6. \A u \in alive' \cap finalized' \cap Finalizable : u \in tmudata' \/ ran'[u] = 1
      BY <1>1, <3>1, <3>2 DEF Core, Finals
    <3>7. \A u \in Userdata : ran'[u] <= 1
      BY <1>1 DEF Core, Finals
    <3> QED
      BY <2>1, <3>3, <3>4, <3>5, <3>6, <3>7 DEF Finals
  <2>5. OneList'
    BY <1>1 DEF Core, OneList
  <2>6. IdleInv' /\ SweepInv' /\ MarkInv' /\ AtomicInv'
    BY <1>1 DEF IdleInv, Idle, SweepInv, Sweeping, MarkInv, Marking, AtomicInv
  <2> QED
    BY <2>2, <2>3, <2>4, <2>5, <2>6 DEF Core
<1> QED
  BY <1>6, <1>7

-----------------------------------------------------------------------------
(* The collector.  Freeing and whitening.                                    *)
LEMMA SweptHeap ==
  ASSUME Struct, NEW S \in SUBSET tosweep, Swept(S)
  PROVE  /\ TypeOK' <=> gcstate' \in {"pause", "propagate", "remark", "reweak", "again", "preserve",
                                      "sweepstring", "sweep", "finalize", "closing", "closed"}
         /\ RefTyped' /\ Shades' /\ \A x \in (tosweep \cap UpVal)' : ~Open(x)'
         /\ tosweep' = tosweep \ S
         /\ ~tainted /\ Core /\ Sweeping =>
              /\ Closed' /\ Owners'
              /\ Kept' = Kept /\ alive' \subseteq alive /\ alive \ alive' \subseteq alive \ Kept
              /\ \A o \in alive' \ tmudata : colour'[o] # currentwhite =>
                   o \in tosweep' \/ (o \in UpVal /\ Open(o)' /\ owner'[o] \in tosweep')
<1> USE Kinds
<1> DEFINE visited == S \cup OpenIn(S)
           dead == {o \in visited : IsDead(o)}
<1>1. /\ alive' = alive \ dead
      /\ ref' = [o \in Obj |-> IF o \in dead THEN {} ELSE ref[o]]
      /\ owner' = [x \in UpVal |-> IF x \in dead \/ owner[x] \in dead THEN Nil ELSE owner[x]]
      /\ colour' = [o \in Obj |-> IF o \in visited \ dead THEN currentwhite ELSE colour[o]]
      /\ tosweep' = tosweep \ S
      /\ UNCHANGED <<mt, running, currentwhite, gray, grayagain, weak, finalized, tmudata, ran, full,
                     tainted, ops>>
  BY DEF Swept, Ahead, lists, finalization
<1>2. /\ \A o \in visited : o \in S \/ (o \in alive \cap UpVal /\ Open(o) /\ owner[o] \in S)
      /\ \A o \in dead : o \in visited /\ IsDead(o)
      /\ \A o \in visited : IsDead(o) => o \in dead
      /\ \A x \in alive \cap UpVal : Open(x) /\ owner[x] \in S => x \in visited
      /\ S \subseteq visited
  BY DEF OpenIn
<1> HIDE DEF visited, dead
<1>3. \A o \in Obj : Contents(o)' = IF o \in dead THEN Ends({}) ELSE Contents(o)
  BY <1>1 DEF Contents
<1>4. \A o \in Obj : Contents(o)' \subseteq Contents(o)
  BY <1>3, EndsSub DEF Contents
<1>5. \A x \in UpVal : ~Open(x) => ~Open(x)'
  BY <1>1 DEF Open
<1>6. tosweep' \cap dead = {} /\ currentwhite \in Whites /\ "gray" \notin Whites /\ "black" \notin Whites
  BY <1>1, <1>2 DEF Struct, TypeOK, Whites
<1>7. TypeOK' <=> gcstate' \in {"pause", "propagate", "remark", "reweak", "again", "preserve",
                                "sweepstring", "sweep", "finalize", "closing", "closed"}
  <2>1. /\ ref' \in [Obj -> SUBSET Entry] /\ owner' \in [UpVal -> Thread \cup {Nil}]
        /\ colour' \in [Obj -> Whites \cup {"gray", "black"}]
        /\ alive' \subseteq Obj /\ tosweep' \subseteq alive'
    BY <1>1, <1>6 DEF Struct, TypeOK
  <2> QED
    BY <1>1, <2>1 DEF Struct, TypeOK
<1>8. RefTyped' /\ Shades' /\ \A x \in (tosweep \cap UpVal)' : ~Open(x)'
  <2>1. RefTyped'
    BY <1>4 DEF Struct, RefTyped
  <2>2. Shades'
    BY <1>1, <1>5, <1>6 DEF Struct, Shades
  <2> QED
    BY <1>1, <1>5, <2>1, <2>2 DEF Struct
<1>9. ASSUME ~tainted, Core, Sweeping
      PROVE  /\ Closed' /\ Owners'
             /\ Kept' = Kept /\ alive' \subseteq alive /\ alive \ alive' \subseteq alive \ Kept
             /\ \A o \in alive' \ tmudata : colour'[o] # currentwhite =>
                  o \in tosweep' \/ (o \in UpVal /\ Open(o)' /\ owner'[o] \in tosweep')
  <2> USE <1>9
  <2>0. /\ Kept \subseteq alive /\ alive \subseteq Obj /\ running \in Kept /\ mt \subseteq Kept
        /\ main \in Kept /\ registry \in Kept /\ \A o \in Kept : Contents(o) \subseteq Kept
        /\ currentwhite # OtherWhite /\ OtherWhite' = OtherWhite
    BY <1>1, KeptFacts DEF Core, OtherWhite
  <2>1. dead \cap Kept = {} /\ Kept \subseteq alive'
    BY <1>1, <1>2, <2>0 DEF Kept
  <2>2. Kept' = Kept
    <3>1. \A o \in Kept : ~IsDead(o)'
      BY <1>1, <2>0 DEF Kept, IsDead
    <3>2. \A o \in alive' : ~IsDead(o)' => ~IsDead(o)
      BY <1>1, <1>2, <2>0 DEF IsDead
    <3> QED
      BY <3>1, <3>2, <2>0, <2>1, <1>1 DEF Kept
  <2>3. Closed'
    BY <1>1, <1>4, <2>0, <2>2 DEF Closed, Roots
  <2>4. \A x \in UpVal : Open(x)' => x \in alive' /\ owner'[x] = owner[x] /\ owner[x] \in alive' /\ Open(x)
    BY <1>1 DEF Core, Owners, Open
  <2>5. ASSUME NEW o \in alive' \ tmudata, colour'[o] # currentwhite
        PROVE  o \in tosweep' \/ (o \in UpVal /\ Open(o)' /\ owner'[o] \in tosweep')
    <3>1. o \notin visited /\ colour[o] # currentwhite /\ o \in alive /\ o \in Obj /\ o \notin dead
      BY <1>1, <1>2, <2>0, <2>5
    <3>2. CASE o \in tosweep
      BY <1>1, <1>2, <3>1, <3>2
    <3>3. CASE o \in UpVal /\ Open(o) /\ owner[o] \in tosweep
      <4>1. owner[o] \notin S
        BY <1>2, <3>1, <3>3
      <4>2. owner[o] \in tosweep' /\ owner[o] \notin dead
        BY <1>1, <1>6, <3>3, <4>1
      <4> QED
        BY <1>1, <3>1, <3>3, <4>2 DEF Open
    <3> QED
      BY <3>1, <3>2, <3>3, <2>5 DEF Core, SweepInv
  <2> QED
    BY <1>1, <2>0, <2>1, <2>2, <2>3, <2>4, <2>5 DEF Owners
<1> QED
  BY <1>1, <1>7, <1>8, <1>9

LEMMA SweepActions ==
  ASSUME Struct, NEW S \in SUBSET tosweep, SweepString(S) \/ Sweep(S)
  PROVE  Struct' /\ (~tainted /\ Core => Core' /\ \A u \in Finalizable : u \in alive \ alive' => ran[u] = 1)
<1> USE Kinds
<1>1. /\ Swept(S) /\ Sweeping /\ gcstate' \in {"sweepstring", "sweep", "finalize"}
      /\ gcstate' = "finalize" => tosweep \ S = {}
      /\ UNCHANGED <<currentwhite, gray, grayagain, weak, finalized, tmudata, ran, tainted>>
  BY DEF SweepString, Sweep, Swept, Sweeping, lists, finalization
<1>2. Struct'
  BY <1>1, SweptHeap DEF Struct
<1>3. ASSUME ~tainted, Core
      PROVE  Core' /\ \A u \in Finalizable : u \in alive \ alive' => ran[u] = 1
  <2> USE <1>3
  <2>1. /\ Closed' /\ Owners' /\ tosweep' = tosweep \ S
        /\ Kept' = Kept /\ alive' \subseteq alive /\ alive \ alive' \subseteq alive \ Kept
        /\ \A o \in alive' \ tmudata : colour'[o] # currentwhite =>
             o \in tosweep' \/ (o \in UpVal /\ Open(o)' /\ owner'[o] \in tosweep')
    BY <1>1, SweptHeap
  <2>2. Finals'
    <3>1. \A u \in alive' : IsDead(u)' => u \notin Kept
      BY <2>1 DEF Kept
    <3>2. \A u \in alive' \cap Userdata : IsDead(u)' => u \in finalized
      BY <2>1, <3>1 DEF Core, Finals, Kept
    <3>3. gcstate' # "closing"
      BY <1>1
    <3>4. tmudata \subseteq Kept \cap finalized /\ (\A u \in Userdata : ran[u] <= 1)
          /\ (\A u \in tmudata : ran[u] = 0)
          /\ (\A u \in alive \cap Userdata : u \notin finalized => ran[u] = 0)
          /\ (\A u \in alive \cap finalized \cap Finalizable : u \in tmudata \/ ran[u] = 1)
      BY DEF Core, Finals
    <3> QED
      BY <1>1, <2>1, <3>2, <3>3, <3>4 DEF Finals
  <2>3. OneList'
    BY <1>1 DEF Core, OneList
  <2>4. gray = {} /\ tosweep \cap tmudata = {}
    BY <1>1 DEF Core, SweepInv
  <2>5. IdleInv' /\ SweepInv'
    BY <1>1, <2>1, <2>4 DEF IdleInv, Idle, SweepInv, Sweeping
  <2>6. MarkInv' /\ AtomicInv'
    BY <1>1 DEF MarkInv, Marking, AtomicInv
  <2>7. ASSUME NEW u \in Finalizable, u \in alive \ alive' PROVE ran[u] = 1
    <3>1. u \in Userdata /\ u \notin Kept /\ u \in alive
      BY <2>1, <2>7
    <3>2. IsDead(u) /\ u \in finalized /\ u \notin tmudata
      BY <3>1 DEF Kept, Core, Finals
    <3> QED
      BY <3>1, <3>2 DEF Core, Finals
  <2> QED
    BY <2>1, <2>2, <2>3, <2>5, <2>6, <2>7 DEF Core
<1> QED
  BY <1>2, <1>3

LEMMA GCTMAction ==
  ASSUME Struct, NEW u \in tmudata, GCTM(u)
  PROVE  Struct' /\ (~tainted /\ Core => Core')
<1> USE Kinds
<1>1. /\ gcstate \in {"finalize", "closing"} /\ tmudata' = tmudata \ {u}
      /\ colour' = [colour EXCEPT ![u] = currentwhite] /\ ran' = [ran EXCEPT ![u] = @ + 1]
      /\ ref' = [ref EXCEPT ![running] = @ \cup {<<Field, u>>}]
      /\ UNCHANGED <<alive, owner, mt, running, currentwhite, gcstate, gray, grayagain, weak, tosweep,
                     finalized, full, tainted, ops>>
  BY DEF GCTM, Called, Pushed, lists
<1>2. u \in Userdata /\ u \in Obj /\ u \notin UpVal /\ running \in Thread /\ running \in Obj
      /\ u \in Finalizable
  BY Apart DEF Struct, TypeOK
<1>3. /\ ref' \in [Obj -> SUBSET Entry]
      /\ \A o \in Obj : Contents(o)' = IF o = running THEN Contents(o) \cup ({Field, u} \ {Nil, Field})
                                       ELSE Contents(o)
  <2>1. Adds(running, Field, u) /\ TypeOK
    BY <1>1 DEF Struct, Adds
  <2>2. Added(running, Field, u)
    BY <1>2, <2>1, RefAdd
  <2> QED
    BY <2>2 DEF Added
<1>4. Struct'
  <2>1. TypeOK'
    BY <1>1, <1>2, <1>3 DEF Struct, TypeOK
  <2>2. RefTyped'
    BY <1>2, <1>3, Apart DEF Struct, RefTyped, Typed
  <2>3. Shades' /\ \A x \in (tosweep \cap UpVal)' : ~Open(x)'
    BY <1>1 DEF Struct, Shades, Open, TypeOK, Whites
  <2> QED
    BY <2>1, <2>2, <2>3 DEF Struct
<1>5. ASSUME ~tainted, Core PROVE Core'
  <2> USE <1>5
  <2>0. /\ Kept \subseteq alive /\ alive \subseteq Obj /\ running \in Kept /\ mt \subseteq Kept
        /\ main \in Kept /\ registry \in Kept /\ \A o \in Kept : Contents(o) \subseteq Kept
        /\ currentwhite # OtherWhite /\ OtherWhite' = OtherWhite /\ u \in Kept /\ u \in finalized
    BY <1>1, KeptFacts DEF Core, OtherWhite, Finals
  <2>1. Kept' = Kept
    BY <1>1, <2>0 DEF Kept, IsDead, Struct, TypeOK
  <2>2. Closed' /\ Owners'
    BY <1>1, <1>3, <2>0, <2>1 DEF Closed, Roots, Core, Owners, Open
  <2>3. Finals'
    <3>1. ran[u] = 0 /\ ran'[u] = 1 /\ \A w \in Userdata : w # u => ran'[w] = ran[w]
      BY <1>1, <1>2 DEF Core, Finals, Struct, TypeOK
    <3>2. \A w \in alive : IsDead(w)' => IsDead(w)
      BY <1>1, <2>0 DEF IsDead, Struct, TypeOK
    <3>3. tmudata \subseteq Userdata
      BY DEF Struct, TypeOK
    <3> QED
      BY <1>1, <1>2, <2>0, <2>1, <3>1, <3>2, <3>3 DEF Core, Finals
  <2>4. OneList'
    BY <1>1 DEF Core, OneList
  <2>5. IdleInv'
    BY <1>1, <2>0 DEF IdleInv, Idle, Core, Struct, TypeOK
  <2>6. SweepInv' /\ MarkInv' /\ AtomicInv'
    BY <1>1 DEF SweepInv, Sweeping, MarkInv, Marking, AtomicInv
  <2> QED
    BY <2>2, <2>3, <2>4, <2>5, <2>6 DEF Core
<1> QED
  BY <1>4, <1>5

LEMMA EndCycleAction ==
  ASSUME Struct, EndCycle
  PROVE  Struct' /\ (~tainted /\ Core => Core')
<1>1. /\ gcstate = "finalize" /\ gcstate' = "pause"
      /\ UNCHANGED <<alive, ref, owner, mt, running, colour, currentwhite, gray, grayagain, weak,
                     tosweep, finalized, tmudata, ran, full, tainted, ops>>
  BY DEF EndCycle, heap, lists, finalization
<1>2. Struct'
  BY <1>1 DEF Struct, TypeOK, RefTyped, Contents, Shades, Open
<1>3. ASSUME Core PROVE Core'
  <2>1. Closed' /\ Owners'
    BY <1>1, <1>3 DEF Core, Closed, Owners, Kept, IsDead, OtherWhite, Roots, Contents, Open
  <2>2. Finals' /\ OneList'
    BY <1>1, <1>3 DEF Core, Finals, OneList, Kept, IsDead, OtherWhite
  <2>3. IdleInv' /\ SweepInv' /\ MarkInv' /\ AtomicInv'
    BY <1>1, <1>3 DEF Core, IdleInv, Idle, SweepInv, Sweeping, MarkInv, Marking, AtomicInv
  <2> QED
    BY <2>1, <2>2, <2>3 DEF Core
<1> QED
  BY <1>2, <1>3

LEMMA FreeAllAction ==
  ASSUME Struct, FreeAll
  PROVE  /\ Struct' /\ gcstate' = "closed" /\ UNCHANGED <<lists, ran, tainted>>
         /\ ~tainted /\ Core => \A u \in Finalizable : u \in alive \ alive' => ran[u] = 1
<1> USE Kinds
<1>1. /\ gcstate = "closing" /\ tmudata = {} /\ gcstate' = "closed" /\ alive' = {}
      /\ ref' = [o \in Obj |-> {}] /\ owner' = [x \in UpVal |-> Nil] /\ tosweep' = {}
      /\ UNCHANGED <<mt, running, colour, currentwhite, gray, grayagain, weak, finalized, tmudata, ran,
                     full, tainted, ops>>
  BY DEF FreeAll, lists, finalization
<1>2. TypeOK'
  BY <1>1 DEF Struct, TypeOK
<1>3. RefTyped'
  BY <1>1, EndsDef DEF RefTyped, Contents
<1>4. Shades' /\ \A x \in (tosweep \cap UpVal)' : ~Open(x)'
  BY <1>1 DEF Struct, Shades, Open
<1>5. Core => \A u \in Finalizable : u \in alive => ran[u] = 1
  BY <1>1 DEF Core, Finals
<1> QED
  BY <1>1, <1>2, <1>3, <1>4, <1>5 DEF Struct, lists

-----------------------------------------------------------------------------
(* The marking steps: what is in S is marked, and B becomes black.           *)
Blackened(S, B) == [o \in Obj |-> IF o \in B THEN "black" ELSE Colours(S)[o]]
Dark(o) == \A x \in Contents(o) : colour'[x] \notin Whites
Painted(B) ==
  \A o \in Obj :
    \/ o \notin B /\ colour'[o] = colour[o]
    \/ /\ o \notin B /\ White(o) /\ o \in alive /\ colour'[o] = MarkColour(o)
       /\ o \in Gcable => o \in gray'
       /\ o \in Userdata \cup UpVal => Dark(o)
    \/ o \in B /\ colour'[o] = "black" /\ Dark(o)

LEMMA BelowObj ==
  ASSUME TypeOK, NEW T \in SUBSET Obj
  PROVE  Below(T) \subseteq Obj
BY StrongContents, ContentsObj DEF Below, TypeOK

LEMMA BlackenedStruct ==
  ASSUME Struct, NEW S \in SUBSET Obj, NEW B \in SUBSET Obj, colour' = Blackened(S, B),
         \A o \in B : o \notin Weak \cup Thread \cup String /\ (o \in UpVal => ~Open(o)),
         UNCHANGED <<owner, ref, tosweep>>, grayagain' \cap Weak = {}
  PROVE  /\ colour' \in [Obj -> Whites \cup {"gray", "black"}]
         /\ Listed(S) \subseteq Gcable
         /\ RefTyped' /\ Shades' /\ \A x \in (tosweep \cap UpVal)' : ~Open(x)'
<1> USE Kinds
<1>1. Shaded(Colours(S), S) /\ Listed(S) = {o \in Gcable : Colours(S)[o] # colour[o]}
  BY Marks DEF Struct
<1>2. /\ colour' \in [Obj -> Whites \cup {"gray", "black"}]
      /\ \A o \in Obj : colour'[o] = IF o \in B THEN "black" ELSE Colours(S)[o]
  BY <1>1 DEF Blackened, Shaded
<1>3. \A o \in Obj : /\ MarkColour(o) = "black" => o \notin Weak \cup Thread \cup String
                                                   /\ (o \in UpVal => ~Open(o))
                     /\ MarkColour(o) = "gray" => o \notin Userdata
  BY Apart DEF MarkColour
<1>4. RefTyped'
  BY DEF Struct, RefTyped, Contents
<1>5. Shades' /\ \A x \in (tosweep \cap UpVal)' : ~Open(x)'
  <2>1. \A o \in Obj : Open(o)' <=> Open(o)
    BY DEF Open
  <2> QED
    BY <1>1, <1>2, <1>3, <2>1 DEF Struct, Shades, Shaded
<1> QED
  BY <1>1, <1>2, <1>4, <1>5

LEMMA BlackenedPainted ==
  ASSUME Struct, \A o \in alive : Contents(o) \subseteq alive,
         NEW S \in SUBSET alive, NEW B \in SUBSET alive, colour' = Blackened(S, B),
         \A o \in B : Contents(o) \subseteq S /\ (o \in Gcable => ~White(o)),
         Listed(S) \subseteq gray'
  PROVE  /\ Painted(B)
         /\ \A x \in S : colour'[x] \notin Whites
         /\ \A o \in Listed(S) : o \in alive \cap Gcable /\ White(o) /\ colour'[o] = "gray"
<1> USE Kinds
<1>0. S \subseteq Obj /\ B \subseteq Obj /\ TypeOK
  BY DEF Struct, TypeOK
<1>1. /\ Shaded(Colours(S), S) /\ Listed(S) = {o \in Gcable : Colours(S)[o] # colour[o]}
      /\ \A o \in Obj : Colours(S)[o] # colour[o] => o \in alive
  BY <1>0, Marks DEF Struct
<1>2. \A o \in Obj : colour'[o] = IF o \in B THEN "black" ELSE Colours(S)[o]
  BY DEF Blackened
<1>3. "black" \notin Whites /\ \A o \in Gcable : MarkColour(o) = "gray"
  BY Apart DEF Gcable, MarkColour, Whites
<1>4. \A x \in S : colour'[x] \notin Whites
  BY <1>0, <1>1, <1>2, <1>3 DEF Shaded
<1>5. ASSUME NEW o \in Obj, o \in Userdata \cup UpVal, Colours(S)[o] # colour[o]
      PROVE  Dark(o)
  <2>1. \A x \in Contents(o) : Colours(S)[x] \notin Whites /\ x \in Obj
    BY <1>0, <1>1, <1>5, ContentsObj DEF Shaded, TypeOK
  <2> QED
    BY <2>1, <1>2, <1>3 DEF Dark
<1>6. \A o \in B : Dark(o)
  BY <1>4 DEF Dark
<1>7. Painted(B)
  <2> SUFFICES ASSUME NEW o \in Obj
               PROVE  \/ o \notin B /\ colour'[o] = colour[o]
                      \/ /\ o \notin B /\ White(o) /\ o \in alive /\ colour'[o] = MarkColour(o)
                         /\ o \in Gcable => o \in gray'
                         /\ o \in Userdata \cup UpVal => Dark(o)
                      \/ o \in B /\ colour'[o] = "black" /\ Dark(o)
    BY DEF Painted
  <2> QED
    BY <1>1, <1>2, <1>5, <1>6 DEF Shaded
<1>8. \A o \in Listed(S) : o \in alive \cap Gcable /\ White(o) /\ colour'[o] = "gray"
  BY <1>1, <1>2, <1>3 DEF Shaded
<1> QED
  BY <1>4, <1>7, <1>8

(* What is not white stays so, and nothing becomes dead.                     *)
LEMMA PaintedKeeps ==
  ASSUME Struct, NEW B, Painted(B), UNCHANGED <<heap, currentwhite>>,
         Closed, \A o \in alive : colour[o] # OtherWhite
  PROVE  /\ \A o \in Obj : ~White(o) => colour'[o] \notin Whites
         /\ \A o \in alive : colour'[o] # OtherWhite
         /\ Kept = alive /\ Kept' = alive /\ Closed' /\ (Owners => Owners')
         /\ \A o \in Obj : Contents(o)' = Contents(o) /\ Strong(o)' = Strong(o)
         /\ OtherWhite' = OtherWhite /\ alive \subseteq Obj
<1> USE DEF heap
<1>1. \A o \in Obj : MarkColour(o) \notin Whites
  BY DEF MarkColour, Whites
<1>2. \A o \in Obj : ~White(o) => colour'[o] \notin Whites
  BY <1>1 DEF Painted, White, Whites
<1>3. OtherWhite' = OtherWhite /\ alive \subseteq Obj /\ OtherWhite \in Whites
  BY DEF OtherWhite, Struct, TypeOK, Whites
<1>4. \A o \in alive : colour'[o] # OtherWhite
  BY <1>1, <1>3 DEF Painted, Whites
<1>5. Kept = alive /\ Kept' = alive
  BY <1>3, <1>4 DEF Kept, IsDead
<1>6. \A o \in Obj : Contents(o)' = Contents(o) /\ Strong(o)' = Strong(o)
  BY DEF Contents, Strong, StrongPart
<1>7. Closed' /\ (Owners => Owners')
  BY <1>3, <1>5, <1>6 DEF Closed, Roots, Owners, Open
<1> QED
  BY <1>2, <1>3, <1>4, <1>5, <1>6, <1>7

LEMMA PaintedMarkInv ==
  ASSUME Struct, NEW B, Painted(B), UNCHANGED <<heap, currentwhite>>, Marking',
         Closed, \A o \in alive : colour[o] # OtherWhite,
         \A o \in gray' \cup grayagain' \cup weak' : o \in alive /\ colour'[o] = "gray",
         \A o \in alive \cap Gcable : colour[o] = "gray" /\ o \notin B =>
           o \in gray' \cup grayagain' \cup weak',
         \A o \in alive : colour[o] = "black" /\ o \notin B
                          /\ (o \notin tmudata' \/ gcstate' = "preserve") => Shady(Contents(o)),
         \A x \in alive \cap UpVal : colour[x] = "gray" => Open(x),
         colour'[main] \notin Whites /\ colour'[registry] \notin Whites
  PROVE  MarkInv'
<1> USE Kinds DEF heap
<1>1. /\ \A o \in Obj : ~White(o) => colour'[o] \notin Whites
      /\ \A o \in alive : colour'[o] # OtherWhite
      /\ \A o \in Obj : Contents(o)' = Contents(o) /\ Contents(o) \subseteq Obj
      /\ OtherWhite' = OtherWhite /\ alive \subseteq Obj
  BY PaintedKeeps, ContentsObj DEF Struct, TypeOK
<1>2. "gray" \notin Whites /\ "black" \notin Whites
  BY DEF Whites
<1>3. \A o \in alive' \cap Gcable : colour'[o] = "gray" => o \in gray' \cup grayagain' \cup weak'
  BY <1>1 DEF Painted
<1>4. \A o \in alive' : colour'[o] = "black" /\ (o \notin tmudata' \/ gcstate' = "preserve") =>
        Shady(Contents(o))'
  <2> SUFFICES ASSUME NEW o \in alive, colour'[o] = "black",
                      o \notin tmudata' \/ gcstate' = "preserve"
               PROVE  Dark(o)
    BY <1>1 DEF Dark, Shady, White
  <2>1. CASE o \notin B /\ colour'[o] = colour[o]
    BY <1>1, <2>1 DEF Dark, Shady
  <2>2. CASE White(o) /\ colour'[o] = MarkColour(o) /\ (o \in Userdata \cup UpVal => Dark(o))
    BY <2>2 DEF MarkColour
  <2> QED
    BY <1>1, <2>1, <2>2 DEF Painted
<1>5. \A x \in alive' \cap UpVal : colour'[x] = "gray" => Open(x)'
  <2>1. \A x \in UpVal : MarkColour(x) = "gray" => Open(x)
    BY Apart DEF MarkColour
  <2> QED
    BY <1>1, <2>1 DEF Painted, Open
<1>6. Shady({main, registry})'
  BY DEF Shady, White
<1> QED
  BY <1>1, <1>3, <1>4, <1>5, <1>6 DEF MarkInv

LEMMA NoneBlackened ==
  ASSUME NEW S
  PROVE  Colours(S) = Blackened(S, {})
BY DEF Colours, Blackened

LEMMA PaintedAtomic ==
  ASSUME Struct, NEW B, Painted(B), UNCHANGED <<heap, currentwhite>>, B \cap UpVal = {},
         Closed, \A o \in alive : colour[o] # OtherWhite,
         gcstate' \in {"remark", "reweak", "again", "preserve"} =>
           \A x \in alive \cap UpVal : colour[x] = "gray" => \A y \in Contents(x) : colour'[y] \notin Whites,
         gcstate' \in {"reweak", "again", "preserve"} =>
           /\ \A x \in {running} \cup mt : colour'[x] \notin Whites
           /\ \A t \in weak' : \A y \in Strong(t) : colour'[y] \notin Whites,
         gcstate' \in {"again", "preserve"} =>
           \A o \in grayagain' : \A y \in Strong(o) : colour'[y] \notin Whites,
         gcstate' = "preserve" =>
           /\ \A u \in tmudata' : colour'[u] \notin Whites
           /\ \A u \in alive \cap Userdata : colour'[u] \in Whites => u \in finalized',
         weak' \subseteq Obj, grayagain' \subseteq Obj
  PROVE  AtomicInv'
<1> USE Kinds DEF heap
<1>1. /\ \A o \in Obj : Contents(o)' = Contents(o) /\ Strong(o)' = Strong(o)
      /\ alive \subseteq Obj
  BY PaintedKeeps
<1>2. ASSUME gcstate' \in {"remark", "reweak", "again", "preserve"},
             NEW x \in alive \cap UpVal, colour'[x] = "gray"
      PROVE  Shady(Contents(x))'
  <2>1. \A y \in Contents(x) : colour'[y] \notin Whites
    BY <1>1, <1>2 DEF Painted, Dark
  <2> QED
    BY <1>1, <2>1 DEF Shady, White
<1>3. gcstate' \in {"reweak", "again", "preserve"} =>
        Shady({running} \cup mt)' /\ \A t \in weak' : Shady(Strong(t))'
  BY <1>1 DEF Shady, White
<1>4. gcstate' \in {"again", "preserve"} => \A o \in grayagain' : Shady(Strong(o))'
  BY <1>1 DEF Shady, White
<1>5. gcstate' = "preserve" =>
        Shady(tmudata)' /\ \A u \in alive' \cap Userdata : White(u)' => u \in finalized'
  BY DEF Shady, White
<1> QED
  BY <1>2, <1>3, <1>4, <1>5 DEF AtomicInv

LEMMA MarkRootAction ==
  ASSUME Struct, MarkRoot
  PROVE  Struct' /\ (~tainted /\ Core => Core')
<1> USE Kinds
<1> DEFINE S == {main, registry} \cup mt
<1>1. /\ Idle /\ colour' = Blackened(S, {}) /\ gray' = Listed(S) /\ grayagain' = {} /\ weak' = {}
      /\ gcstate' = "propagate" /\ full' = FALSE
      /\ UNCHANGED <<heap, currentwhite, tosweep, finalized, tmudata, ran, tainted, ops>>
  BY NoneBlackened DEF MarkRoot, Rooted, Idle, finalization
<1>2. S \subseteq Obj
  BY DEF Struct, TypeOK
<1>3. /\ colour' \in [Obj -> Whites \cup {"gray", "black"}] /\ Listed(S) \subseteq Gcable
      /\ RefTyped' /\ Shades' /\ \A x \in (tosweep \cap UpVal)' : ~Open(x)'
  <2>1. UNCHANGED <<owner, ref, tosweep>> /\ grayagain' \cap Weak = {}
    BY <1>1 DEF heap
  <2> QED
    BY <1>1, <1>2, <2>1, BlackenedStruct
<1>4. Struct'
  <2>1. TypeOK'
    BY <1>1, <1>3 DEF Struct, TypeOK, heap, Gcable
  <2> QED
    BY <1>3, <2>1 DEF Struct
<1>5. ASSUME ~tainted, Core PROVE Core'
  <2> USE <1>5
  <2>0. /\ main \in Kept /\ registry \in Kept /\ mt \subseteq Kept /\ Kept \subseteq alive
        /\ \A o \in Kept : Contents(o) \subseteq Kept
        /\ currentwhite # OtherWhite /\ currentwhite \in Whites
    BY KeptFacts DEF Core
  <2>1. \A o \in alive : colour[o] # OtherWhite /\ (o \notin tmudata => colour[o] = currentwhite)
    <3>1. \A u \in tmudata : colour[u] # OtherWhite
      <4>1. \A u \in tmudata : u \notin Fixed /\ u \in Kept
        BY Apart DEF Core, Finals, Struct, TypeOK
      <4> QED
        BY <4>1 DEF Kept, IsDead
    <3> QED
      BY <1>1, <2>0, <3>1 DEF Core, IdleInv
  <2>2. Kept = alive /\ S \subseteq alive /\ \A o \in alive : Contents(o) \subseteq alive
    BY <2>0, <2>1 DEF Kept, IsDead
  <2> HIDE DEF S
  <2>3. /\ Painted({})
        /\ \A x \in S : colour'[x] \notin Whites
        /\ \A o \in Listed(S) : o \in alive \cap Gcable /\ White(o) /\ colour'[o] = "gray"
    BY <1>1, <2>2, BlackenedPainted
  <2>4. \A o \in alive \cap Gcable : colour[o] # "gray"
    <3>1. tmudata \cap Gcable = {}
      BY Apart DEF Struct, TypeOK, Gcable
    <3> QED
      BY <2>0, <2>1, <3>1 DEF Whites
  <2>5. MarkInv'
    <3>1. \A x \in alive \cap UpVal : colour[x] # "gray"
      BY <2>0, <2>1, Apart DEF Whites, Struct, TypeOK
    <3>2. \A o \in alive : colour[o] = "black" => o \in tmudata
      BY <2>0, <2>1 DEF Whites
    <3>3. UNCHANGED <<heap, currentwhite>> /\ Marking' /\ Closed /\ gcstate' # "preserve"
          /\ colour'[main] \notin Whites /\ colour'[registry] \notin Whites /\ tmudata' = tmudata
      BY <1>1, <2>3 DEF Marking, Core, S
    <3>4. \A o \in gray' \cup grayagain' \cup weak' : o \in alive /\ colour'[o] = "gray"
      BY <1>1, <2>3
    <3> QED
      BY <2>1, <2>3, <2>4, <3>1, <3>2, <3>3, <3>4, PaintedMarkInv
  <2>6. Closed' /\ Owners' /\ Kept' = alive
    <3>1. UNCHANGED <<heap, currentwhite>> /\ Closed /\ Owners
      BY <1>1 DEF Core
    <3> QED
      BY <2>1, <2>3, <3>1, PaintedKeeps
  <2>7. Finals'
    <3>1. \A o \in alive : ~IsDead(o)'
      BY <2>6 DEF Kept
    <3> QED
      BY <1>1, <2>2, <2>6, <3>1 DEF Core, Finals, heap
  <2>8. OneList' /\ IdleInv' /\ SweepInv' /\ AtomicInv'
    BY <1>1 DEF OneList, IdleInv, Idle, SweepInv, Sweeping, AtomicInv
  <2> QED
    BY <2>5, <2>6, <2>7, <2>8 DEF Core
<1> QED
  BY <1>4, <1>5

(* What is known while the collector marks.                                  *)
LEMMA MarkingFacts ==
  ASSUME Struct, Core, Marking
  PROVE  /\ Closed /\ Owners /\ Kept = alive /\ alive \subseteq Obj
         /\ \A o \in alive : colour[o] # OtherWhite /\ Contents(o) \subseteq alive
                             /\ Strong(o) \subseteq alive
         /\ \A o \in gray \cup grayagain \cup weak : o \in alive \cap Gcable /\ colour[o] = "gray"
         /\ \A o \in alive \cap Gcable : colour[o] = "gray" => o \in gray \cup grayagain \cup weak
         /\ \A o \in alive : colour[o] = "black" /\ (o \notin tmudata \/ gcstate = "preserve") =>
              Shady(Contents(o))
         /\ \A x \in alive \cap UpVal : colour[x] = "gray" => Open(x)
         /\ ~White(main) /\ ~White(registry) /\ {main, registry, running} \cup mt \subseteq alive
         /\ "gray" \notin Whites /\ "black" \notin Whites
<1>1. \A o \in alive : colour[o] # OtherWhite
  BY DEF Core, MarkInv
<1>2. Kept = alive /\ alive \subseteq Obj /\ {main, registry, running} \cup mt \subseteq alive
  BY <1>1 DEF Kept, IsDead, Struct, TypeOK, Core, Closed, Roots
<1>3. \A o \in alive : Contents(o) \subseteq alive /\ Strong(o) \subseteq alive
  BY <1>2, StrongContents DEF Core, Closed
<1>4. gray \cup grayagain \cup weak \subseteq Gcable
  BY Kinds DEF Struct, TypeOK, Gcable
<1> QED
  BY <1>1, <1>2, <1>3, <1>4 DEF Core, MarkInv, Shady, Whites

(* A marking step under way: what is left to show.                           *)
LEMMA MarkedCore ==
  ASSUME Struct, Struct', ~tainted, Core, Marking, Marking', NEW B, Painted(B),
         B \cap UpVal = {}, UNCHANGED <<heap, currentwhite>>,
         \A o \in gray' \cup grayagain' \cup weak' : o \in alive /\ colour'[o] = "gray",
         (gray \cup grayagain \cup weak) \ B \subseteq gray' \cup grayagain' \cup weak',
         tmudata \subseteq tmudata',
         gcstate' = "preserve" /\ gcstate # "preserve" => tmudata' \subseteq B,
         Finals', OneList', AtomicInv'
  PROVE  Core'
<1> USE Kinds
<1>1. /\ \A o \in Obj : ~White(o) => colour'[o] \notin Whites
      /\ Closed' /\ Owners'
  BY PaintedKeeps, MarkingFacts
<1>2. MarkInv'
  <2>1. \A o \in alive \cap Gcable : colour[o] = "gray" /\ o \notin B =>
           o \in gray' \cup grayagain' \cup weak'
    BY MarkingFacts
  <2>2. \A o \in alive : colour[o] = "black" /\ o \notin B
                          /\ (o \notin tmudata' \/ gcstate' = "preserve") => Shady(Contents(o))
    BY MarkingFacts
  <2>3. colour'[main] \notin Whites /\ colour'[registry] \notin Whites
    BY <1>1, MarkingFacts
  <2> QED
    BY <2>1, <2>2, <2>3, MarkingFacts, PaintedMarkInv
<1>3. IdleInv' /\ SweepInv'
  BY DEF IdleInv, Idle, SweepInv, Sweeping, Marking
<1> QED
  BY <1>1, <1>2, <1>3 DEF Core

(* Steps that leave the finalizers alone.                                    *)
LEMMA SameFinals ==
  ASSUME Struct, Core, NEW B, Painted(B), Marking, Marking',
         UNCHANGED <<heap, currentwhite, finalized, tmudata, ran>>
  PROVE  Finals'
<1>1. Kept = alive /\ Kept' = alive
  BY PaintedKeeps, MarkingFacts
<1>2. \A o \in alive : ~IsDead(o)'
  BY <1>1 DEF Kept
<1> QED
  BY <1>1, <1>2 DEF Core, Finals, heap, Marking

LEMMA RemarkUpvalsAction ==
  ASSUME Struct, RemarkUpvals
  PROVE  Struct' /\ (~tainted /\ Core => Core')
<1> USE Kinds
<1> DEFINE S == Below(GrayUpvals)
<1>1. /\ gcstate = "propagate" /\ gray = {} /\ colour' = Blackened(S, {}) /\ gray' = Listed(S)
      /\ gcstate' = "remark" /\ Marking /\ Marking'
      /\ UNCHANGED <<heap, currentwhite, grayagain, weak, tosweep, finalized, tmudata, ran, full,
                     tainted, ops>>
  BY NoneBlackened DEF RemarkUpvals, finalization, Marking
<1>2. S \subseteq Obj /\ GrayUpvals \subseteq Obj
  BY BelowObj DEF GrayUpvals, Struct
<1>3. /\ colour' \in [Obj -> Whites \cup {"gray", "black"}] /\ Listed(S) \subseteq Gcable
      /\ RefTyped' /\ Shades' /\ \A x \in (tosweep \cap UpVal)' : ~Open(x)'
  <2>1. UNCHANGED <<owner, ref, tosweep>> /\ grayagain' \cap Weak = {}
    BY <1>1 DEF heap, Struct, Shades
  <2> QED
    BY <1>1, <1>2, <2>1, BlackenedStruct
<1>4. Struct'
  <2>1. TypeOK'
    BY <1>1, <1>3 DEF Struct, TypeOK, heap, Gcable
  <2> QED
    BY <1>3, <2>1 DEF Struct
<1>5. ASSUME ~tainted, Core PROVE Core'
  <2> USE <1>5
  <2>1. S \subseteq alive /\ \A x \in GrayUpvals : Contents(x) \subseteq S
    <3>1. \A x \in GrayUpvals : x \in alive /\ Strong(x) = Contents(x)
      BY StrongContents, Apart DEF GrayUpvals
    <3> QED
      BY <1>1, <3>1, MarkingFacts DEF Below
  <2> HIDE DEF S
  <2>2. /\ Painted({})
        /\ \A x \in S : colour'[x] \notin Whites
        /\ \A o \in Listed(S) : o \in alive \cap Gcable /\ White(o) /\ colour'[o] = "gray"
    BY <1>1, <2>1, MarkingFacts, BlackenedPainted
  <2>3. \A o \in Obj : colour[o] = "gray" => colour'[o] = "gray"
    BY <2>2, <1>1, MarkingFacts DEF Painted, White
  <2>4. AtomicInv'
    <3>1. \A x \in alive \cap UpVal : colour[x] = "gray" => \A y \in Contents(x) : colour'[y] \notin Whites
      BY <1>1, <2>1, <2>2, MarkingFacts DEF GrayUpvals
    <3>2. weak' \subseteq Obj /\ grayagain' \subseteq Obj
      BY <1>4 DEF Struct, TypeOK
    <3> QED
      BY <1>1, <2>2, <3>1, <3>2, MarkingFacts, PaintedAtomic
  <2>5. \A o \in gray' \cup grayagain' \cup weak' : o \in alive /\ colour'[o] = "gray"
    BY <1>1, <2>2, <2>3, MarkingFacts
  <2>6. OneList'
    BY <1>1, <2>2, MarkingFacts DEF OneList, Core, White
  <2>7. Finals'
    BY <1>1, <2>2, SameFinals
  <2> QED
    BY <1>1, <1>4, <2>2, <2>4, <2>5, <2>6, <2>7, MarkedCore
<1> QED
  BY <1>4, <1>5

LEMMA RemarkWeakAction ==
  ASSUME Struct, RemarkWeak
  PROVE  Struct' /\ (~tainted /\ Core => Core')
<1> USE Kinds
<1> DEFINE S == {running} \cup mt
<1>1. /\ gcstate = "remark" /\ gray = {} /\ colour' = Blackened(S, {}) /\ gray' = weak \cup Listed(S)
      /\ weak' = {} /\ gcstate' = "reweak" /\ Marking /\ Marking'
      /\ UNCHANGED <<heap, currentwhite, grayagain, tosweep, finalized, tmudata, ran, full,
                     tainted, ops>>
  BY NoneBlackened DEF RemarkWeak, Remark, finalization, Marking
<1>2. S \subseteq Obj
  BY DEF Struct, TypeOK
<1>3. /\ colour' \in [Obj -> Whites \cup {"gray", "black"}] /\ Listed(S) \subseteq Gcable
      /\ RefTyped' /\ Shades' /\ \A x \in (tosweep \cap UpVal)' : ~Open(x)'
  <2>1. UNCHANGED <<owner, ref, tosweep>> /\ grayagain' \cap Weak = {}
    BY <1>1 DEF heap, Struct, Shades
  <2> QED
    BY <1>1, <1>2, <2>1, BlackenedStruct
<1>4. Struct'
  <2>1. TypeOK'
    BY <1>1, <1>3 DEF Struct, TypeOK, heap, Gcable
  <2> QED
    BY <1>3, <2>1 DEF Struct
<1>5. ASSUME ~tainted, Core PROVE Core'
  <2> USE <1>5
  <2>1. S \subseteq alive
    BY <1>1, MarkingFacts
  <2> HIDE DEF S
  <2>2. /\ Painted({})
        /\ \A x \in S : colour'[x] \notin Whites
        /\ \A o \in Listed(S) : o \in alive \cap Gcable /\ White(o) /\ colour'[o] = "gray"
    BY <1>1, <2>1, MarkingFacts, BlackenedPainted
  <2>3. \A o \in Obj : /\ colour[o] = "gray" => colour'[o] = "gray"
                       /\ ~White(o) => colour'[o] \notin Whites
    BY <2>2, <1>1, MarkingFacts, PaintedKeeps DEF Painted, White
  <2>4. AtomicInv'
    <3>1. \A x \in alive \cap UpVal : colour[x] = "gray" => \A y \in Contents(x) : colour'[y] \notin Whites
      BY <1>1, <2>3, MarkingFacts DEF Core, AtomicInv, Shady
    <3>2. \A x \in {running} \cup mt : colour'[x] \notin Whites
      BY <2>2 DEF S
    <3>3. weak' \subseteq Obj /\ grayagain' \subseteq Obj
      BY <1>4 DEF Struct, TypeOK
    <3> QED
      BY <1>1, <2>2, <3>1, <3>2, <3>3, MarkingFacts, PaintedAtomic
  <2>5. \A o \in gray' \cup grayagain' \cup weak' : o \in alive /\ colour'[o] = "gray"
    BY <1>1, <2>2, <2>3, MarkingFacts
  <2>6. OneList'
    BY <1>1, <2>2, MarkingFacts DEF OneList, Core, White
  <2>7. Finals'
    BY <1>1, <2>2, SameFinals
  <2> QED
    BY <1>1, <1>4, <2>2, <2>4, <2>5, <2>6, <2>7, MarkedCore
<1> QED
  BY <1>4, <1>5

LEMMA RemarkGrayAction ==
  ASSUME Struct, RemarkGray
  PROVE  Struct' /\ (~tainted /\ Core => Core')
<1> USE Kinds
<1>1. /\ gcstate = "reweak" /\ gray = {} /\ gray' = grayagain /\ grayagain' = {}
      /\ gcstate' = "again" /\ Marking /\ Marking'
      /\ UNCHANGED <<heap, colour, currentwhite, weak, tosweep, finalized, tmudata, ran, full,
                     tainted, ops>>
  BY DEF RemarkGray, finalization, Marking
<1>2. Struct'
  BY <1>1 DEF Struct, TypeOK, heap, RefTyped, Contents, Shades, Open
<1>3. ASSUME ~tainted, Core PROVE Core'
  <2> USE <1>3
  <2>1. Painted({})
    BY <1>1 DEF Painted
  <2>2. AtomicInv'
    <3>1. \A x \in alive \cap UpVal : colour[x] = "gray" => \A y \in Contents(x) : colour'[y] \notin Whites
      BY <1>1 DEF Core, AtomicInv, Shady, White
    <3>2. /\ \A x \in {running} \cup mt : colour'[x] \notin Whites
          /\ \A t \in weak' : \A y \in Strong(t) : colour'[y] \notin Whites
      BY <1>1 DEF Core, AtomicInv, Shady, White
    <3>3. weak' \subseteq Obj /\ grayagain' = {}
      BY <1>1, <1>2 DEF Struct, TypeOK
    <3> QED
      BY <1>1, <2>1, <3>1, <3>2, <3>3, MarkingFacts, PaintedAtomic
  <2>3. \A o \in gray' \cup grayagain' \cup weak' : o \in alive /\ colour'[o] = "gray"
    BY <1>1, MarkingFacts
  <2>4. OneList'
    BY <1>1 DEF OneList, Core
  <2>5. Finals'
    BY <1>1, <2>1, SameFinals
  <2> QED
    BY <1>1, <1>2, <2>1, <2>2, <2>3, <2>4, <2>5, MarkedCore
<1> QED
  BY <1>2, <1>3

LEMMA SeparateAction ==
  ASSUME Struct, Separate
  PROVE  Struct' /\ (~tainted /\ Core => Core')
<1> USE Kinds
<1> DEFINE B == tmudata'
           S == Below(B)
<1>1. /\ gcstate = "again" /\ gray = {} /\ colour' = Blackened(S, B) /\ gray' = Listed(S)
      /\ finalized' = finalized \cup Dying /\ tmudata' = tmudata \cup (Dying \cap Finalizable)
      /\ gcstate' = "preserve" /\ Marking /\ Marking'
      /\ UNCHANGED <<heap, currentwhite, grayagain, weak, tosweep, ran, full, tainted, ops>>
  BY DEF Separate, Preserved, Blackened, Marking
<1>2. /\ Dying \subseteq alive \cap Userdata /\ \A u \in Dying : White(u) /\ u \notin finalized
      /\ \A u \in alive \cap Userdata : White(u) => u \in Dying \cup finalized \cup tmudata
  BY DEF Dying
<1>3. B \subseteq Userdata /\ S \subseteq Obj
  BY <1>1, <1>2, BelowObj DEF Struct, TypeOK
<1>4. /\ colour' \in [Obj -> Whites \cup {"gray", "black"}] /\ Listed(S) \subseteq Gcable
      /\ RefTyped' /\ Shades' /\ \A x \in (tosweep \cap UpVal)' : ~Open(x)'
  <2>1. UNCHANGED <<owner, ref, tosweep>> /\ grayagain' \cap Weak = {}
    BY <1>1 DEF heap, Struct, Shades
  <2>2. B \subseteq Obj /\ \A o \in B : o \notin Weak \cup Thread \cup String /\ (o \in UpVal => ~Open(o))
    BY <1>3, Apart
  <2> HIDE DEF S, B
  <2> QED
    BY <1>1, <1>3, <2>1, <2>2, BlackenedStruct
<1>5. Struct'
  <2>1. TypeOK'
    BY <1>1, <1>2, <1>4 DEF Struct, TypeOK, heap, Gcable
  <2> QED
    BY <1>4, <2>1 DEF Struct
<1>6. ASSUME ~tainted, Core PROVE Core'
  <2> USE <1>6
  <2>1. B \subseteq alive
    BY <1>1, <1>2 DEF Core, Finals, Kept
  <2>2. \A o \in B : Contents(o) \subseteq S /\ o \notin Gcable
    BY <1>3, StrongContents, Apart DEF Below, Gcable
  <2>3. S \subseteq alive
    BY <1>1, <2>1, MarkingFacts DEF Below
  <2> HIDE DEF S
  <2>4. /\ Painted(B)
        /\ \A o \in Listed(S) : o \in alive \cap Gcable /\ White(o) /\ colour'[o] = "gray"
    <3> HIDE DEF B
    <3> QED
      BY <1>1, <2>1, <2>2, <2>3, MarkingFacts, BlackenedPainted
  <2>5. \A o \in Obj : /\ colour[o] = "gray" /\ o \notin B => colour'[o] = "gray"
                       /\ ~White(o) => colour'[o] \notin Whites
    <3> HIDE DEF B
    <3>1. \A o \in Obj : ~White(o) => colour'[o] \notin Whites
      BY <2>4, <1>1, MarkingFacts, PaintedKeeps
    <3> QED
      BY <3>1, <2>4, <1>1, MarkingFacts DEF Painted, White
  <2>6. \A u \in B : colour'[u] = "black"
    BY <1>1, <1>3 DEF Blackened
  <2>7. AtomicInv'
    <3>1. \A x \in alive \cap UpVal : colour[x] = "gray" => \A y \in Contents(x) : colour'[y] \notin Whites
      BY <1>1, <2>5, MarkingFacts DEF Core, AtomicInv, Shady
    <3>2. \A x \in {running} \cup mt : colour'[x] \notin Whites
      BY <1>1, <2>5, MarkingFacts DEF Core, AtomicInv, Shady
    <3>3. /\ \A t \in weak : \A y \in Strong(t) : colour'[y] \notin Whites
          /\ \A t \in grayagain : \A y \in Strong(t) : colour'[y] \notin Whites
      BY <1>1, <2>5, MarkingFacts DEF Core, AtomicInv, Shady
    <3>4. /\ \A u \in tmudata' : colour'[u] \notin Whites
          /\ \A u \in alive \cap Userdata : colour'[u] \in Whites => u \in finalized'
      BY <1>1, <1>2, <2>5, <2>6, MarkingFacts DEF Core, Finals
    <3>5. weak' \subseteq Obj /\ grayagain' \subseteq Obj /\ B \cap UpVal = {}
      BY <1>3, <1>5, Apart DEF Struct, TypeOK
    <3> HIDE DEF B
    <3> QED
      BY <1>1, <2>4, <3>1, <3>2, <3>3, <3>4, <3>5, MarkingFacts, PaintedAtomic
  <2>8. \A o \in gray \cup grayagain \cup weak : o \notin B
    BY <1>1, <2>2, MarkingFacts
  <2>9. \A o \in gray' \cup grayagain' \cup weak' : o \in alive /\ colour'[o] = "gray"
    BY <1>1, <2>4, <2>5, <2>8, MarkingFacts
  <2>10. OneList'
    BY <1>1, <2>4, MarkingFacts DEF OneList, Core, White
  <2>11. Finals'
    <3>1. Kept = alive /\ Kept' = alive
      <4> HIDE DEF B
      <4> QED
        BY <1>1, <2>4, PaintedKeeps, MarkingFacts
    <3>2. \A o \in alive : ~IsDead(o)'
      BY <3>1 DEF Kept
    <3>3. \A u \in Dying : ran[u] = 0
      BY <1>2 DEF Core, Finals
    <3>4. tmudata' \subseteq alive \cap finalized'
      BY <1>1, <1>2, <2>1 DEF Core, Finals
    <3>5. /\ (\A u \in Userdata : ran[u] <= 1) /\ (\A u \in tmudata : ran[u] = 0)
          /\ (\A u \in alive \cap Userdata : u \notin finalized => ran[u] = 0)
          /\ (\A u \in alive \cap finalized \cap Finalizable : u \in tmudata \/ ran[u] = 1)
      BY DEF Core, Finals
    <3>6. alive' = alive /\ ran' = ran /\ gcstate' # "closing"
      BY <1>1 DEF heap
    <3> QED
      BY <1>1, <3>1, <3>2, <3>3, <3>4, <3>5, <3>6 DEF Finals
  <2>12. tmudata \subseteq tmudata' /\ B \cap UpVal = {}
    BY <1>1, <1>3, Apart
  <2>13. (gray \cup grayagain \cup weak) \ B \subseteq gray' \cup grayagain' \cup weak'
    BY <1>1
  <2>14. tmudata' \subseteq B
    OBVIOUS
  <2> HIDE DEF B
  <2> QED
    BY <1>1, <1>5, <2>4, <2>7, <2>9, <2>10, <2>11, <2>12, <2>13, <2>14, MarkedCore
<1> QED
  BY <1>5, <1>6

LEMMA VisitAction ==
  ASSUME Struct, NEW o \in gray, PropagateMark(o)
  PROVE  Struct' /\ (~tainted /\ Core => Core')
<1> USE Kinds
<1> DEFINE S == Strong(o)
           stays == o \in Weak \cup Thread
           B == IF stays THEN {} ELSE {o}
<1>1. /\ Marking /\ Marking' /\ gcstate' = gcstate
      /\ colour' = [Colours(S) EXCEPT ![o] = IF stays THEN "gray" ELSE "black"]
      /\ gray' = (gray \ {o}) \cup Listed(S)
      /\ grayagain' = (IF o \in Thread THEN grayagain \cup {o} ELSE grayagain)
      /\ weak' = (IF o \in Weak THEN weak \cup {o} ELSE weak)
      /\ UNCHANGED <<heap, currentwhite, tosweep, finalized, tmudata, ran, full, tainted, ops>>
  BY DEF PropagateMark, Visit, Atomic, Marking, finalization
<1>2. /\ o \in Gcable /\ o \in Obj /\ S \subseteq Obj /\ TypeOK /\ RefTyped
      /\ o \notin Userdata \cup UpVal \cup String /\ (o \in Thread => o \notin Weak)
  BY StrongContents, ContentsObj, Apart DEF Struct, TypeOK, Gcable
<1>3. Shaded(Colours(S), S) /\ Listed(S) = {q \in Gcable : Colours(S)[q] # colour[q]}
  BY <1>2, Marks
<1>4. /\ colour' \in [Obj -> Whites \cup {"gray", "black"}]
      /\ \A q \in Obj \ {o} : colour'[q] = Colours(S)[q]
      /\ colour'[o] = IF stays THEN "gray" ELSE "black"
  BY <1>1, <1>2, <1>3 DEF Shaded
<1>5. Struct'
  <2>1. TypeOK'
    BY <1>1, <1>2, <1>3, <1>4 DEF Struct, TypeOK, heap, Gcable
  <2>2. RefTyped' /\ \A x \in (tosweep \cap UpVal)' : ~Open(x)'
    BY <1>1 DEF Struct, RefTyped, Contents, heap, Open
  <2>3. Shades'
    <3>1. \A q \in Obj : /\ MarkColour(q) = "black" => q \notin Weak \cup Thread \cup String
                                                       /\ (q \in UpVal => ~Open(q))
                         /\ MarkColour(q) = "gray" => q \notin Userdata
      BY Apart DEF MarkColour
    <3>2. grayagain' \cap Weak = {} /\ owner' = owner
      BY <1>1, <1>2 DEF Struct, Shades, heap
    <3> QED
      BY <1>2, <1>3, <1>4, <3>1, <3>2 DEF Struct, Shades, Shaded, Open
  <2> QED
    BY <2>1, <2>2, <2>3 DEF Struct
<1>6. ASSUME ~tainted, Core PROVE Core'
  <2> USE <1>6
  <2>1. o \in alive /\ colour[o] = "gray" /\ ~White(o) /\ S \subseteq alive /\ B \subseteq alive
    BY <1>1, MarkingFacts DEF White
  <2>2. colour' = Blackened(S, B)
    <3>1. Colours(S)[o] = "gray"
      BY <1>2, <1>3, <2>1 DEF Shaded
    <3>2. \A q \in Obj : colour'[q] = Blackened(S, B)[q]
      BY <1>4, <3>1, <1>2 DEF Blackened
    <3>3. Blackened(S, B) = [q \in Obj |-> Blackened(S, B)[q]] /\ colour' = [q \in Obj |-> colour'[q]]
      BY <1>4 DEF Blackened
    <3> QED
      BY <3>2, <3>3
  <2>3. \A q \in B : Contents(q) \subseteq S /\ (q \in Gcable => ~White(q))
    BY <2>1, StrongContents
  <2>4. B \cap UpVal = {} /\ (\A q \in B : q = o /\ ~stays) /\ (~stays => o \in B)
    BY <1>2
  <2> HIDE DEF S, B
  <2>5. /\ Painted(B)
        /\ \A x \in S : colour'[x] \notin Whites
        /\ \A q \in Listed(S) : q \in alive \cap Gcable /\ White(q) /\ colour'[q] = "gray"
    BY <1>1, <2>1, <2>2, <2>3, MarkingFacts, BlackenedPainted
  <2>6. \A q \in Obj : /\ colour[q] = "gray" /\ q \notin B => colour'[q] = "gray"
                       /\ ~White(q) => colour'[q] \notin Whites
    <3>1. \A q \in Obj : ~White(q) => colour'[q] \notin Whites
      BY <2>5, <1>1, MarkingFacts, PaintedKeeps
    <3> QED
      BY <3>1, <2>5, <1>1, MarkingFacts DEF Painted, White
  <2>7. AtomicInv'
    <3>1. gcstate' \in {"remark", "reweak", "again", "preserve"} =>
            \A x \in alive \cap UpVal : colour[x] = "gray" => \A y \in Contents(x) : colour'[y] \notin Whites
      BY <1>1, <2>6, MarkingFacts DEF Core, AtomicInv, Shady
    <3>2. gcstate' \in {"reweak", "again", "preserve"} =>
            /\ \A x \in {running} \cup mt : colour'[x] \notin Whites
            /\ \A t \in weak' : \A y \in Strong(t) : colour'[y] \notin Whites
      <4>1. gcstate \in {"reweak", "again", "preserve"} =>
              /\ \A x \in {running} \cup mt : colour'[x] \notin Whites
              /\ \A t \in weak : \A y \in Strong(t) : colour'[y] \notin Whites
        BY <1>1, <2>6, MarkingFacts DEF Core, AtomicInv, Shady
      <4>2. \A t \in weak' : t \in weak \/ t = o
        BY <1>1
      <4> QED
        BY <1>1, <4>1, <4>2, <2>5 DEF S
    <3>3. gcstate' \in {"again", "preserve"} =>
            \A q \in grayagain' : \A y \in Strong(q) : colour'[y] \notin Whites
      <4>1. gcstate \in {"again", "preserve"} =>
              \A q \in grayagain : \A y \in Strong(q) : colour'[y] \notin Whites
        BY <1>1, <2>6, MarkingFacts DEF Core, AtomicInv, Shady
      <4>2. \A q \in grayagain' : q \in grayagain \/ q = o
        BY <1>1
      <4> QED
        BY <1>1, <4>1, <4>2, <2>5 DEF S
    <3>4. gcstate' = "preserve" =>
            /\ \A u \in tmudata' : colour'[u] \notin Whites
            /\ \A u \in alive \cap Userdata : colour'[u] \in Whites => u \in finalized'
      <4>1. tmudata \subseteq Obj
        BY DEF Struct, TypeOK
      <4> QED
        BY <1>1, <2>6, <4>1, MarkingFacts DEF Core, AtomicInv, Shady
    <3>5. weak' \subseteq Obj /\ grayagain' \subseteq Obj
      BY <1>5 DEF Struct, TypeOK
    <3> QED
      BY <1>1, <2>4, <2>5, <3>1, <3>2, <3>3, <3>4, <3>5, MarkingFacts, PaintedAtomic
  <2>8. \A q \in (gray \ {o}) \cup grayagain \cup weak : q \notin B
    <3>1. o \notin grayagain /\ o \notin weak
      BY DEF Core, OneList
    <3> QED
      BY <2>4, <3>1
  <2>9. \A q \in gray' \cup grayagain' \cup weak' : q \in alive /\ colour'[q] = "gray"
    BY <1>1, <2>1, <2>4, <2>5, <2>6, <2>8, MarkingFacts
  <2>10. (gray \cup grayagain \cup weak) \ B \subseteq gray' \cup grayagain' \cup weak'
    BY <1>1, <2>4
  <2>11. OneList'
    <3>1. \A q \in Listed(S) : q \notin grayagain' /\ q \notin weak'
      BY <1>1, <2>1, <2>5, MarkingFacts DEF White
    <3> QED
      BY <1>1, <1>2, <3>1 DEF OneList, Core
  <2>12. Finals'
    BY <1>1, <2>5, SameFinals
  <2>13. tmudata' = tmudata
    BY <1>1
  <2> QED
    BY <1>1, <1>5, <2>4, <2>5, <2>7, <2>9, <2>10, <2>11, <2>12, <2>13, MarkedCore
<1> QED
  BY <1>5, <1>6


(* The flip: what is still white is dead from now on, and nothing refers to  *)
(* it that is not: a weak table has lost such entries, or its strings have   *)
(* been marked.                                                              *)
LEMMA FlipWhiteRefs ==
  ASSUME Struct, Core, FlipWhite, NEW o \in alive, ~White(o), NEW x \in Contents(o)'
  PROVE  x \in alive /\ colour'[x] \notin Whites
<1> USE Kinds
<1>1. /\ gcstate = "preserve" /\ gray = {} /\ Marking
      /\ ref' = [p \in Obj |-> IF p \in weak THEN {e \in ref[p] : ~Cleared(e)} ELSE ref[p]]
      /\ colour' = [p \in Obj |-> IF p \in KeptStrings /\ White(p) THEN "gray" ELSE colour[p]]
  BY DEF FlipWhite, Marking
<1>2. o \in Obj /\ alive \subseteq Obj /\ colour[o] \in {"gray", "black"}
  BY DEF Struct, TypeOK, White
<1>3. x \in Contents(o) /\ x \in alive /\ x \in Obj
  <2>1. ref'[o] \subseteq ref[o]
    BY <1>1, <1>2
  <2>2. x \in Contents(o)
    BY <2>1, EndsSub DEF Contents
  <2> QED
    BY <2>2, <1>1, <1>2, MarkingFacts
<1>4. ASSUME ~White(x) PROVE colour'[x] \notin Whites
  BY <1>1, <1>3, <1>4 DEF White
<1>5. CASE colour[o] = "black"
  <2>1. Shady(Contents(o))
    BY <1>1, <1>5, MarkingFacts
  <2> QED
    BY <2>1, <1>3, <1>4 DEF Shady
<1>6. CASE colour[o] = "gray" /\ o \in Gcable \ weak
  <2>1. o \in grayagain
    BY <1>1, <1>6, MarkingFacts
  <2>2. o \notin Weak /\ Shady(Strong(o))
    BY <1>1, <2>1 DEF Struct, Shades, Core, AtomicInv
  <2> QED
    BY <2>2, <1>3, <1>4, StrongContents DEF Shady
<1>7. CASE colour[o] = "gray" /\ o \in weak
  <2>1. Shady(Strong(o)) /\ ref'[o] = {e \in ref[o] : ~Cleared(e)}
    BY <1>1, <1>2, <1>7 DEF Core, AtomicInv
  <2>2. /\ x # Nil /\ x # Field
        /\ \E e \in ref'[o] : x = e[1] \/ x = e[2]
    BY EndsDef DEF Contents
  <2>3. PICK e \in ref[o] : ~Cleared(e) /\ (x = e[1] \/ x = e[2])
    BY <2>1, <2>2
  <2>4. CASE e[1] = Field
    <3>1. x \in Strong(o)
      BY <2>2, <2>3, <2>4, StrongDef DEF StrongPart
    <3> QED
      BY <3>1, <2>1, <1>3, <1>4 DEF Shady
  <2>5. CASE e[1] # Field
    <3>1. ~Collected(e[1]) /\ ~Collected(e[2])
      BY <2>3, <2>5 DEF Cleared
    <3>2. CASE x \notin String
      BY <3>1, <3>2, <2>3, <1>3, <1>4 DEF Collected
    <3>3. CASE x \in String
      <4>1. x \in KeptStrings
        BY <3>1, <3>3, <2>3, <1>7 DEF KeptStrings
      <4>2. "gray" \notin Whites
        BY DEF Whites
      <4> QED
        BY <4>1, <4>2, <1>1, <1>3 DEF White
    <3> QED
      BY <3>2, <3>3
  <2> QED
    BY <2>4, <2>5
<1>8. CASE colour[o] = "gray" /\ o \in UpVal
  <2>1. Shady(Contents(o))
    BY <1>1, <1>8 DEF Core, AtomicInv
  <2> QED
    BY <2>1, <1>3, <1>4 DEF Shady
<1>9. o \notin String
  BY <1>2, <1>3 DEF Struct, RefTyped, Typed
<1>10. colour[o] = "gray" => o \notin Userdata
  BY <1>2 DEF Struct, Shades
<1> QED
  BY <1>2, <1>3, <1>5, <1>6, <1>7, <1>8, <1>9, <1>10

LEMMA FlipWhiteAction ==
  ASSUME Struct, FlipWhite
  PROVE  Struct' /\ (~tainted /\ Core => Core')
<1> USE Kinds
<1>1. /\ gcstate = "preserve" /\ gray = {} /\ Marking /\ gcstate' = "sweepstring"
      /\ ref' = [p \in Obj |-> IF p \in weak THEN {e \in ref[p] : ~Cleared(e)} ELSE ref[p]]
      /\ colour' = [p \in Obj |-> IF p \in KeptStrings /\ White(p) THEN "gray" ELSE colour[p]]
      /\ currentwhite' = OtherWhite /\ tosweep' = SweepList
      /\ UNCHANGED <<alive, owner, mt, running, gray, grayagain, weak, finalized, tmudata, ran,
                     full, tainted, ops>>
  BY DEF FlipWhite, Marking, lists, finalization
<1>2. KeptStrings \subseteq String /\ "gray" \notin Whites /\ OtherWhite \in Whites
  BY DEF KeptStrings, Whites, OtherWhite
<1>3. /\ colour' \in [Obj -> Whites \cup {"gray", "black"}]
      /\ \A o \in Obj : /\ ~White(o) => colour'[o] = colour[o]
                        /\ colour'[o] = colour[o] \/ (o \in String /\ colour'[o] = "gray")
  BY <1>1, <1>2 DEF Struct, TypeOK, White
<1>4. ref' \in [Obj -> SUBSET Entry] /\ \A o \in Obj : ref'[o] \subseteq ref[o]
  BY <1>1 DEF Struct, TypeOK
<1>5. \A o \in Obj : Contents(o)' \subseteq Contents(o)
  BY <1>4, EndsSub DEF Contents
<1>6. Struct'
  <2>1. TypeOK'
    BY <1>1, <1>2, <1>3, <1>4, SweepListFacts DEF Struct, TypeOK
  <2>2. RefTyped'
    BY <1>5 DEF Struct, RefTyped, Typed
  <2>3. Shades'
    BY <1>1, <1>3, Apart DEF Struct, Shades, Open
  <2>4. \A x \in (tosweep \cap UpVal)' : ~Open(x)'
    BY <1>1, SweepListFacts DEF Open
  <2> QED
    BY <2>1, <2>2, <2>3, <2>4 DEF Struct
<1>7. ASSUME ~tainted, Core PROVE Core'
  <2> USE <1>7
  <2>1. OtherWhite' = currentwhite /\ currentwhite \in Whites
    BY <1>1 DEF Struct, TypeOK, OtherWhite, Whites
  <2>2. \A o \in alive : White(o) => colour[o] = currentwhite
    <3>1. \A o \in alive : colour[o] # OtherWhite
      BY <1>1, MarkingFacts
    <3> QED
      BY <3>1, <2>1 DEF White, Whites, OtherWhite
  <2>3. \A o \in alive : IsDead(o)' <=> colour'[o] \in Whites /\ o \notin Fixed
    <3>1. \A o \in alive : colour'[o] \in Whites => colour'[o] = currentwhite
      <4>1. alive \subseteq Obj
        BY <1>1, MarkingFacts
      <4> QED
        BY <4>1, <1>2, <1>3, <2>2 DEF White
    <3> QED
      BY <3>1, <2>1 DEF IsDead
  <2>4. Kept' = {o \in alive : colour'[o] \notin Whites \/ o \in Fixed}
    BY <1>1, <2>3 DEF Kept
  <2>5. \A o \in alive : ~White(o) => colour'[o] \notin Whites
    BY <1>1, <1>3, MarkingFacts DEF White
  <2>6. Closed'
    <3>1. Roots' \subseteq Kept'
      <4>1. Roots' = {main, registry, running} \cup mt
        BY <1>1 DEF Roots
      <4>2. \A x \in {main, registry, running} \cup mt : x \in alive /\ ~White(x)
        BY <1>1, MarkingFacts DEF Core, AtomicInv, Shady
      <4> QED
        BY <4>1, <4>2, <2>4, <2>5
    <3>2. ASSUME NEW o \in Kept', NEW x \in Contents(o)' PROVE x \in Kept'
      <4>1. o \in alive /\ o \in Obj /\ o \notin String
        BY <3>2, <2>4, <1>1, <1>5, MarkingFacts DEF Struct, RefTyped, Typed
      <4>2. ~White(o)
        <5>1. CASE o \in Fixed
          <6>1. o = main
            BY <5>1, <4>1, SubkindsAssumption DEF Fixed
          <6> QED
            BY <6>1, <1>1, MarkingFacts
        <5>2. CASE colour'[o] \notin Whites
          BY <5>2, <4>1, <1>3 DEF White
        <5> QED
          BY <5>1, <5>2, <2>4
      <4> QED
        BY <4>1, <4>2, <2>4, FlipWhiteRefs
    <3> QED
      BY <3>1, <3>2 DEF Closed
  <2>7. Owners'
    BY <1>1 DEF Core, Owners, Open
  <2>8. Finals'
    <3>1. tmudata \subseteq alive \cap finalized /\ Shady(tmudata)
      BY <1>1 DEF Core, Finals, Kept, AtomicInv
    <3>2. tmudata' \subseteq Kept' \cap finalized'
      BY <3>1, <1>1, <2>4, <2>5 DEF Shady
    <3>3. \A u \in alive' \cap Userdata : IsDead(u)' => u \in finalized'
      BY <1>1, <2>3, <2>5, MarkingFacts DEF Core, AtomicInv
    <3>4. /\ (\A u \in Userdata : ran[u] <= 1) /\ (\A u \in tmudata : ran[u] = 0)
          /\ (\A u \in alive \cap Userdata : u \notin finalized => ran[u] = 0)
          /\ (\A u \in alive \cap finalized \cap Finalizable : u \in tmudata \/ ran[u] = 1)
      BY DEF Core, Finals
    <3> QED
      BY <1>1, <3>2, <3>3, <3>4 DEF Finals
  <2>9. OneList' /\ IdleInv' /\ MarkInv' /\ AtomicInv'
    BY <1>1 DEF Core, OneList, IdleInv, Idle, MarkInv, Marking, AtomicInv
  <2>10. SweepInv'
    <3>1. \A o \in alive \ tmudata : o \in SweepList \/ (o \in UpVal /\ Open(o) /\ owner[o] \in SweepList)
      BY SweepListFacts DEF Core
    <3>2. SweepList \cap tmudata = {}
      BY SweepListFacts
    <3> QED
      BY <1>1, <3>1, <3>2 DEF SweepInv, Open
  <2> QED
    BY <2>6, <2>7, <2>8, <2>9, <2>10 DEF Core
<1> QED
  BY <1>6, <1>7


-----------------------------------------------------------------------------
(* Every step of the program, and every step of the collector.               *)
Freed == \A u \in Finalizable : u \in alive \ alive' => ran[u] = 1

LEMMA MutateFrame ==
  ASSUME Mutate
  PROVE  /\ gcstate \in {"pause", "propagate", "sweepstring", "sweep", "finalize"}
         /\ gcstate' # "closed" /\ (tainted => tainted')
         /\ tainted' = tainted \/ alive' = alive
<1>1. ASSUME NEW o \in Obj, NewTable(o) \/ NewFunction(o) \/ NewThread(o) \/ NewUserdata(o)
      PROVE  Program /\ gcstate' = gcstate /\ tainted' = tainted
  BY <1>1 DEF NewTable, NewFunction, NewThread, NewUserdata, Linked
<1>2. ASSUME NEW o \in Obj, NewString(o) \/ Resume(o) \/ CloseUpval(o) \/ Pop(o) \/ Yield(o)
      PROVE  Program /\ gcstate' = gcstate /\ tainted' = tainted
  BY <1>2 DEF NewString, Resume, CloseUpval, Pop, Yield
<1>3. ASSUME NEW f \in Closure, NEW x \in UpVal, NEW v \in Obj,
             NewClosure(f, x, v) \/ GetUpval(f, x, v) \/ SetUpval(f, x, v) \/ SetUpvalue(f, x, v)
      PROVE  /\ Program /\ gcstate' = gcstate /\ (tainted => tainted')
             /\ tainted' = tainted \/ alive' = alive
  <2>1. CASE NewClosure(f, x, v)
    BY <2>1 DEF NewClosure
  <2>2. CASE GetUpval(f, x, v)
    BY <2>2 DEF GetUpval
  <2>3. CASE SetUpval(f, x, v)
    BY <2>3 DEF SetUpval
  <2>4. CASE SetUpvalue(f, x, v)
    BY <2>4 DEF SetUpvalue
  <2> QED
    BY <1>3, <2>1, <2>2, <2>3, <2>4
<1>4. ASSUME NEW p \in Obj, NEW x \in Obj, GetTable(p, x) \/ SetFenv(p, x) \/ SetCUpvalue(p, x)
      PROVE  Program /\ gcstate' = gcstate /\ tainted' = tainted
  BY <1>4 DEF GetTable, SetFenv, SetCUpvalue
<1>5. ASSUME NEW t \in Table, NEW k \in Obj \cup {Nil}, NEW v \in Obj, SetTable(t, k, v)
      PROVE  Program /\ gcstate' = gcstate /\ tainted' = tainted
  BY <1>5 DEF SetTable
<1>6. ASSUME NEW t \in Table, \/ SetBasicMetatable(t) \/ \E m \in Table : SetMetatable(t, m)
                              \/ \E e \in ref[t] : Remove(t, e)
      PROVE  Program /\ gcstate' = gcstate /\ tainted' = tainted
  BY <1>6 DEF SetBasicMetatable, SetMetatable, Remove
<1>7. ASSUME NEW u \in Userdata, luaC_mark(u)
      PROVE  Program /\ gcstate' = gcstate /\ (tainted => tainted') /\ alive' = alive
  BY <1>7 DEF luaC_mark, heap
<1>8. FullGC => Program /\ gcstate' \in {gcstate, "sweepstring"} /\ tainted' = tainted
  BY DEF FullGC
<1>9. Close => Program /\ gcstate' = "closing" /\ tainted' = tainted
  BY DEF Close
<1>10. Program => gcstate \in {"pause", "propagate", "sweepstring", "sweep", "finalize"}
  BY DEF Program
<1> QED
  BY <1>1, <1>2, <1>3, <1>4, <1>5, <1>6, <1>7, <1>8, <1>9, <1>10 DEF Mutate

LEMMA MutateStep ==
  ASSUME Struct, Mutate
  PROVE  Struct' /\ (~tainted /\ Core => (tainted' \/ Core') /\ Freed)
<1> USE Kinds
<1>1. SUFFICES Struct' /\ (~tainted' /\ Core => Mutated \/ (Core' /\ Freed))
  <2>1. Mutated => Freed
    BY Apart DEF Mutated, HeapStep, Freed
  <2>2. alive' = alive => Freed
    BY DEF Freed
  <2> QED
    BY <1>1, <2>1, <2>2, MutateFrame, MutatedCore
<1>2. ASSUME NEW o \in Obj, NewTable(o) \/ NewFunction(o) \/ NewThread(o) \/ NewUserdata(o)
      PROVE  Struct' /\ (Core => Mutated)
  BY <1>2, AllocActions
<1>3. ASSUME NEW o \in Obj, NewString(o) \/ Resume(o) \/ CloseUpval(o) \/ Pop(o) \/ Yield(o)
      PROVE  Struct' /\ (Core => Mutated)
  <2>1. CASE NewString(o)
    BY <2>1, NewStringAction
  <2>2. CASE CloseUpval(o)
    <3>1. o \in UpVal
      BY <2>2 DEF CloseUpval
    <3> QED
      BY <2>2, <3>1, CloseUpvalAction
  <2>3. CASE Resume(o) \/ Pop(o) \/ Yield(o)
    BY <2>3, QuietActions
  <2> QED
    BY <1>3, <2>1, <2>2, <2>3
<1>4. ASSUME NEW f \in Closure, NEW x \in UpVal, NEW v \in Obj,
             NewClosure(f, x, v) \/ GetUpval(f, x, v) \/ SetUpval(f, x, v) \/ SetUpvalue(f, x, v)
      PROVE  Struct' /\ (Core /\ ~tainted' => Mutated)
  <2>1. CASE NewClosure(f, x, v)
    BY <2>1, NewClosureAction
  <2>2. CASE GetUpval(f, x, v)
    BY <2>2, QuietActions
  <2>3. CASE SetUpval(f, x, v) \/ SetUpvalue(f, x, v)
    BY <2>3, UpvalActions
  <2> QED
    BY <1>4, <2>1, <2>2, <2>3
<1>5. ASSUME NEW p \in Obj, NEW x \in Obj, GetTable(p, x) \/ SetFenv(p, x) \/ SetCUpvalue(p, x)
      PROVE  Struct' /\ (Core /\ ~tainted' => Mutated)
  <2>1. CASE GetTable(p, x)
    BY <2>1, QuietActions
  <2>2. CASE SetFenv(p, x) \/ SetCUpvalue(p, x)
    BY <2>2, ForwardActions
  <2> QED
    BY <1>5, <2>1, <2>2
<1>6. ASSUME NEW t \in Table, NEW k \in Obj \cup {Nil}, NEW v \in Obj, SetTable(t, k, v)
      PROVE  Struct' /\ (Core => Mutated)
  <2>1. k # Field
    BY <1>6
  <2> QED
    BY <1>6, <2>1, BackActions
<1>7. ASSUME NEW t \in Table, \/ SetBasicMetatable(t) \/ \E m \in Table : SetMetatable(t, m)
                              \/ \E e \in ref[t] : Remove(t, e)
      PROVE  Struct' /\ (Core => Mutated)
  <2>1. ASSUME NEW m \in Table, SetMetatable(t, m) PROVE Struct' /\ (Core => Mutated)
    BY <2>1, BackActions
  <2>2. CASE SetBasicMetatable(t) \/ \E e \in ref[t] : Remove(t, e)
    BY <2>2, QuietActions
  <2> QED
    BY <1>7, <2>1, <2>2
<1>8. ASSUME NEW u \in Userdata, luaC_mark(u) PROVE Struct' /\ (Core /\ ~tainted' => Mutated)
  BY <1>8, MarkAction
<1>9. FullGC => Struct' /\ (~tainted' /\ Core => Core' /\ Freed)
  <2>1. FullGC => tainted' = tainted /\ alive' = alive
    BY DEF FullGC, heap
  <2> QED
    BY <2>1, FullGCAction DEF Freed
<1>10. Close => Struct' /\ (~tainted' /\ Core => Core' /\ Freed)
  <2>1. Close => tainted' = tainted /\ alive \ alive' \subseteq UpVal
    BY DEF Close
  <2> QED
    BY <2>1, CloseAction, Apart DEF Freed
<1> QED
  BY <1>2, <1>3, <1>4, <1>5, <1>6, <1>7, <1>8, <1>9, <1>10 DEF Mutate

LEMMA CollectStep ==
  ASSUME Struct, Collect
  PROVE  /\ Struct' /\ tainted' = tainted /\ gcstate # "closed"
         /\ gcstate' = "closed" => UNCHANGED <<lists, ran>>
         /\ ~tainted /\ Core => (gcstate' = "closed" \/ Core') /\ Freed
<1> USE Kinds
<1>1. ASSUME \/ MarkRoot \/ RemarkUpvals \/ RemarkWeak \/ RemarkGray \/ Separate \/ FlipWhite
             \/ EndCycle \/ \E o \in gray : PropagateMark(o)
      PROVE  /\ alive' = alive /\ tainted' = tainted /\ gcstate' # "closed"
             /\ Struct' /\ (~tainted /\ Core => Core')
  <2>1. /\ alive' = alive /\ tainted' = tainted
        /\ gcstate' \in {"propagate", "remark", "reweak", "again", "preserve", "sweepstring", "pause"}
    BY <1>1 DEF MarkRoot, Rooted, RemarkUpvals, RemarkWeak, RemarkGray, Separate, FlipWhite, EndCycle,
                PropagateMark, Visit, Atomic, heap
  <2>2. CASE MarkRoot
    BY <2>1, <2>2, MarkRootAction
  <2>3. CASE RemarkUpvals
    BY <2>1, <2>3, RemarkUpvalsAction
  <2>4. CASE RemarkWeak
    BY <2>1, <2>4, RemarkWeakAction
  <2>5. CASE RemarkGray
    BY <2>1, <2>5, RemarkGrayAction
  <2>6. CASE Separate
    BY <2>1, <2>6, SeparateAction
  <2>7. CASE FlipWhite
    BY <2>1, <2>7, FlipWhiteAction
  <2>8. CASE EndCycle
    BY <2>1, <2>8, EndCycleAction
  <2>9. CASE \E o \in gray : PropagateMark(o)
    BY <2>1, <2>9, VisitAction
  <2> QED
    BY <1>1, <2>2, <2>3, <2>4, <2>5, <2>6, <2>7, <2>8, <2>9
<1>2. ASSUME NEW S \in SUBSET tosweep, SweepString(S) \/ Sweep(S)
      PROVE  /\ Struct' /\ tainted' = tainted /\ gcstate' # "closed"
             /\ ~tainted /\ Core => Core' /\ Freed
  <2>1. tainted' = tainted /\ gcstate' \in {"sweepstring", "sweep", "finalize"}
    BY <1>2 DEF SweepString, Sweep, Swept
  <2> QED
    BY <1>2, <2>1, SweepActions DEF Freed
<1>3. ASSUME NEW u \in tmudata, GCTM(u)
      PROVE  /\ Struct' /\ tainted' = tainted /\ gcstate' # "closed" /\ alive' = alive
             /\ ~tainted /\ Core => Core'
  <2>1. tainted' = tainted /\ gcstate' \in {"finalize", "closing"} /\ alive' = alive
    BY <1>3 DEF GCTM
  <2> QED
    BY <1>3, <2>1, GCTMAction
<1>4. FreeAll => /\ Struct' /\ tainted' = tainted /\ gcstate' = "closed" /\ UNCHANGED <<lists, ran>>
                 /\ ~tainted /\ Core => Freed
  BY FreeAllAction DEF Freed
<1>5. alive' = alive => Freed
  BY DEF Freed
<1>6. gcstate # "closed"
  BY DEF Collect, MarkRoot, RemarkUpvals, RemarkWeak, RemarkGray, Separate, FlipWhite, EndCycle,
         FreeAll, PropagateMark, Atomic, SweepString, Sweep, GCTM
<1>7. CASE \/ MarkRoot \/ RemarkUpvals \/ RemarkWeak \/ RemarkGray \/ Separate \/ FlipWhite
           \/ EndCycle \/ \E o \in gray : PropagateMark(o)
  BY <1>1, <1>5, <1>7, <1>6
<1>8. CASE FreeAll
  BY <1>4, <1>8, <1>6
<1>9. CASE \E S \in SUBSET tosweep : SweepString(S) \/ Sweep(S)
  BY <1>2, <1>9, <1>6
<1>10. CASE \E u \in tmudata : GCTM(u)
  BY <1>3, <1>5, <1>10, <1>6
<1> QED
  BY <1>7, <1>8, <1>9, <1>10 DEF Collect


LEMMA InitIInv ==
  ASSUME Init
  PROVE  IInv
<1> USE Kinds
<1>1. PICK h \in Heaps : WellFormed(h) /\ alive = h.alive /\ ref = h.ref /\ owner = h.owner
  BY DEF Init
<1>2. /\ mt = {} /\ running = main /\ colour = [o \in Obj |-> "white0"]
      /\ currentwhite = "white0" /\ gcstate = "pause"
      /\ gray = {} /\ grayagain = {} /\ weak = {} /\ tosweep = {}
      /\ finalized = {} /\ tmudata = {} /\ ran = [u \in Userdata |-> 0]
      /\ full = FALSE /\ tainted = FALSE /\ ops = 0
  BY DEF Init
<1>3. /\ alive \subseteq Obj /\ {main, registry} \cup Fixed \subseteq alive
      /\ ref \in [Obj -> SUBSET Entry] /\ owner \in [UpVal -> Thread \cup {Nil}]
      /\ \A o \in Obj : \A e \in ref[o] : \A x \in {e[1], e[2]} \cap Obj :
           /\ o \in alive /\ x \in alive
           /\ o \in Userdata => x \in Table
           /\ x \in UpVal => o \in Closure
           /\ o \notin String
      /\ \A x \in UpVal : owner[x] # Nil => x \in alive /\ owner[x] \in alive
  BY <1>1 DEF WellFormed
<1>4. \A o \in Obj : colour[o] = "white0"
  BY <1>2
<1>5. \A o \in Obj : \A x \in Contents(o) : x \in alive /\ Typed(o, x)
  <2>1. ASSUME NEW o \in Obj, NEW x \in Contents(o) PROVE x \in alive /\ Typed(o, x)
    <3>1. PICK e \in ref[o] : x = e[1] \/ x = e[2]
      BY <2>1, EndsDef DEF Contents
    <3>2. x \in Obj
      BY <1>3, ContentsObj
    <3>3. x \in {e[1], e[2]} \cap Obj
      BY <3>1, <3>2
    <3> QED
      BY <1>3, <3>1, <3>3 DEF Typed
  <2> QED
    BY <2>1
<1>6. Struct
  <2>1. TypeOK
    <3>1. colour \in [Obj -> Whites \cup {"gray", "black"}] /\ currentwhite \in Whites
      BY <1>2 DEF Whites
    <3>2. ran \in [Userdata -> Nat] /\ ops \in 0..MaxOps
      <4>1. ran = [u \in Userdata |-> 0] /\ ops = 0 /\ MaxOps \in Nat
        BY <1>2, BoundsAssumption
      <4> QED
        BY <4>1
    <3>3. full \in BOOLEAN /\ tainted \in BOOLEAN
      BY <1>2
    <3>4. /\ mt \subseteq Table /\ running \in Thread
          /\ gray \subseteq Table \cup Closure \cup Thread /\ grayagain \subseteq Table \cup Thread
          /\ weak \subseteq Weak /\ tosweep \subseteq alive /\ tmudata \subseteq Finalizable
          /\ finalized \subseteq Userdata
      BY <1>2
    <3> QED
      BY <1>2, <1>3, <3>1, <3>2, <3>3, <3>4 DEF TypeOK
  <2>2. RefTyped /\ Shades
    BY <1>2, <1>4, <1>5 DEF RefTyped, Shades
  <2> QED
    BY <2>1, <2>2, <1>2 DEF Struct
<1>7. Core
  <2>1. \A o \in alive : ~IsDead(o)
    BY <1>2, <1>3, <1>4 DEF IsDead, OtherWhite
  <2>2. Kept = alive
    BY <2>1 DEF Kept
  <2>3. Closed
    BY <2>2, <1>2, <1>3, <1>5 DEF Closed, Roots
  <2>4. Owners
    BY <1>3 DEF Owners, Open
  <2>5. Finals
    BY <1>2, <2>1 DEF Finals
  <2>6. OneList /\ MarkInv /\ AtomicInv /\ SweepInv
    BY <1>2 DEF OneList, MarkInv, Marking, AtomicInv, SweepInv, Sweeping
  <2>7. IdleInv
    BY <1>2, <1>3, <1>4 DEF IdleInv
  <2> QED
    BY <2>3, <2>4, <2>5, <2>6, <2>7 DEF Core
<1>8. FinalizedOnce
  BY <1>2 DEF FinalizedOnce
<1> QED
  BY <1>6, <1>7, <1>8 DEF IInv, Core

LEMMA StutterIInv ==
  ASSUME IInv, UNCHANGED vars
  PROVE  IInv'
<1>1. /\ UNCHANGED <<alive, ref, owner, mt, running, colour, currentwhite, gcstate>>
      /\ UNCHANGED <<gray, grayagain, weak, tosweep, finalized, tmudata, ran>>
      /\ UNCHANGED <<full, tainted, ops>>
  BY DEF vars, heap, lists, finalization
<1>2. Struct <=> Struct'
  BY <1>1 DEF Struct, TypeOK, RefTyped, Contents, Shades, Open
<1>3. \A o : IsDead(o)' <=> IsDead(o)
  BY <1>1 DEF IsDead, OtherWhite
<1>4. Closed <=> Closed'
  BY <1>1, <1>3 DEF Closed, Kept, Roots, Contents
<1>5. Finals <=> Finals'
  BY <1>1, <1>3 DEF Finals, Kept
<1>6. (Owners <=> Owners') /\ (OneList <=> OneList') /\ (FinalizedOnce <=> FinalizedOnce')
  BY <1>1 DEF Owners, OneList, FinalizedOnce, Open
<1>7. (IdleInv <=> IdleInv') /\ (SweepInv <=> SweepInv')
  BY <1>1 DEF IdleInv, Idle, SweepInv, Sweeping, Open
<1>8. (MarkInv <=> MarkInv') /\ (AtomicInv <=> AtomicInv')
  <2>1. OtherWhite' = OtherWhite
    BY <1>1 DEF OtherWhite
  <2> QED
    BY <1>1, <2>1 DEF MarkInv, Marking, AtomicInv, Open, Shady, White, Contents, Strong, StrongPart
<1> QED
  BY <1>1, <1>2, <1>4, <1>5, <1>6, <1>7, <1>8 DEF IInv, Core

LEMMA NextIInv ==
  ASSUME IInv, Next
  PROVE  IInv' /\ (~tainted => Freed)
<1>1. Struct /\ (~tainted /\ gcstate # "closed" => Core) /\ OneList /\ FinalizedOnce
  BY DEF IInv
<1>2. CASE Mutate
  <2>1. Struct' /\ (~tainted /\ Core => (tainted' \/ Core') /\ Freed)
    BY <1>1, <1>2, MutateStep
  <2>2. gcstate # "closed" /\ (tainted => tainted')
    BY <1>2, MutateFrame
  <2>3. Core' => OneList' /\ FinalizedOnce'
    BY DEF Core, Finals, FinalizedOnce
  <2>4. tainted' => OneList' /\ FinalizedOnce'
    BY DEF OneList, FinalizedOnce
  <2> QED
    BY <1>1, <2>1, <2>2, <2>3, <2>4 DEF IInv
<1>3. CASE Collect
  <2>1. /\ Struct' /\ tainted' = tainted /\ gcstate # "closed"
        /\ gcstate' = "closed" => UNCHANGED <<lists, ran>>
        /\ ~tainted /\ Core => (gcstate' = "closed" \/ Core') /\ Freed
    BY <1>1, <1>3, CollectStep
  <2>2. Core' => OneList' /\ FinalizedOnce'
    BY DEF Core, Finals, FinalizedOnce
  <2>3. gcstate' = "closed" => OneList' /\ FinalizedOnce'
    BY <1>1, <2>1 DEF OneList, FinalizedOnce, lists
  <2>4. tainted' => OneList' /\ FinalizedOnce'
    BY DEF OneList, FinalizedOnce
  <2> QED
    BY <1>1, <2>1, <2>2, <2>3, <2>4 DEF IInv
<1> QED
  BY <1>2, <1>3 DEF Next

-----------------------------------------------------------------------------
(* The invariant, of every behaviour.                                        *)
THEOREM Invariant == Spec => []IInv
<1>1. Init => IInv
  BY InitIInv
<1>2. IInv /\ [Next]_vars => IInv'
  BY NextIInv, StutterIInv
<1> QED
  BY <1>1, <1>2, PTL DEF Spec

(* Types, of lists, colours, phases and references (lgc.h, lobject.h).       *)
THEOREM TypeCorrect == Spec => []TypeOK
<1>1. IInv => TypeOK
  BY DEF IInv, Struct
<1> QED
  BY <1>1, Invariant, PTL

(* Nothing the program can get at is freed or dead, whatever operations come *)
(* between whatever steps of the collector (luaC_step, and the barriers).    *)
THEOREM NothingDangles == Spec => []NoDangling
<1>1. IInv => NoDangling
  <2>1. ASSUME IInv, ~tainted, gcstate # "closed"
        PROVE  /\ \A o \in Roots : o \in alive /\ ~IsDead(o)
               /\ \A o \in alive : ~IsDead(o) => \A x \in Contents(o) : x \in alive /\ ~IsDead(x)
    BY <2>1 DEF IInv, Core, Closed, Kept
  <2> QED
    BY <2>1 DEF NoDangling
<1> QED
  BY <1>1, Invariant, PTL

(* gray, grayagain and weak share no object, and so no gclist field.         *)
THEOREM ListsApart == Spec => []OneList
<1>1. IInv => OneList
  BY DEF IInv
<1> QED
  BY <1>1, Invariant, PTL

(* A finalizer is called at most once (luaC_separateudata, GCTM).            *)
THEOREM CalledOnce == Spec => []FinalizedOnce
<1>1. IInv => FinalizedOnce
  BY DEF IInv
<1> QED
  BY <1>1, Invariant, PTL

(* And before the userdata is freed (sweeplist, lua_close).                  *)
THEOREM CalledFirst == Spec => FinalizedFirst
<1>1. IInv /\ [Next]_vars =>
        [~tainted => \A u \in Finalizable : u \in alive \ alive' => ran[u] = 1]_vars
  BY NextIInv DEF Freed
<1> QED
  BY <1>1, Invariant, PTL DEF Spec, FinalizedFirst


(* What the flip removes from a weak table (cleartable, iscleared).          *)
LEMMA ClearedEntries ==
  ASSUME Struct, Core, gcstate = "preserve", gcstate' = "sweepstring", Next,
         NEW t \in Table, NEW e \in ref[t] \ ref'[t]
  PROVE  \/ \E x \in {e[1], e[2]} \cap (Obj \ String) : OutOfReach(x)
         \/ e[2] \in finalized
<1> USE Kinds
<1>1. FlipWhite
  <2>1. ~Mutate
    BY MutateFrame
  <2>2. Collect
    BY <2>1 DEF Next
  <2> QED
    BY <2>2 DEF Collect, MarkRoot, Rooted, RemarkUpvals, RemarkWeak, RemarkGray, Separate, EndCycle,
            FreeAll, PropagateMark, Visit, SweepString, Sweep, GCTM
<1>2. /\ gray = {} /\ Marking /\ t \in weak /\ Cleared(e)
  <2>1. ref' = [o \in Obj |-> IF o \in weak THEN {d \in ref[o] : ~Cleared(d)} ELSE ref[o]]
    BY <1>1 DEF FlipWhite
  <2> QED
    BY <1>1, <2>1 DEF FlipWhite, Marking
<1>3. CASE e[2] \in finalized
  BY <1>3
<1>4. CASE e[2] \notin finalized
  <2>1. PICK x \in {e[1], e[2]} : x \in Obj \ String /\ White(x)
    BY <1>2, <1>4 DEF Cleared, Collected
  <2> DEFINE S == {o \in alive : ~White(o)}
  <2>2. Roots \subseteq S /\ x \notin S /\ S \subseteq Obj
    BY <1>2, <2>1, MarkingFacts DEF Roots, Core, AtomicInv, Shady
  <2>3. Below(S) \subseteq S
    <3>1. ASSUME NEW o \in S, NEW y \in Strong(o) PROVE y \in S
      <4>1. o \in alive /\ ~White(o) /\ colour[o] \in {"gray", "black"} /\ o \in Obj
        BY <2>2 DEF Struct, TypeOK, White
      <4>2. y \in Contents(o) /\ y \in alive
        BY <4>1, <1>2, StrongContents, MarkingFacts
      <4>3. CASE colour[o] = "black"
        BY <4>1, <4>2, <4>3, <1>2, MarkingFacts DEF Shady
      <4>4. CASE colour[o] = "gray" /\ o \in Gcable
        <5>1. o \in grayagain \cup weak
          BY <4>1, <4>4, <1>2, MarkingFacts
        <5>2. \A p \in grayagain \cup weak : Shady(Strong(p))
          BY DEF Core, AtomicInv
        <5> QED
          BY <5>1, <5>2, <4>2 DEF Shady
      <4>5. CASE colour[o] = "gray" /\ o \in UpVal
        <5>1. \A p \in alive \cap UpVal : colour[p] = "gray" => Shady(Contents(p))
          BY DEF Core, AtomicInv
        <5> QED
          BY <5>1, <4>1, <4>2, <4>5 DEF Shady
      <4>6. o \notin String
        BY <4>1, <4>2 DEF Struct, RefTyped, Typed
      <4>7. colour[o] = "gray" => o \notin Userdata
        BY <4>1 DEF Struct, Shades
      <4> QED
        BY <4>1, <4>3, <4>4, <4>5, <4>6, <4>7
    <3> HIDE DEF S
    <3> QED
      BY <3>1 DEF Below
  <2>4. OutOfReach(x)
    <3> DEFINE T == S \ Roots
    <3> HIDE DEF S
    <3>1. Roots \cup T = S /\ T \in SUBSET (Obj \ (Roots \cup {x})) /\ x \notin Roots
      BY <2>2
    <3> HIDE DEF T
    <3>2. Below(Roots \cup T) \subseteq Roots \cup T
      BY <3>1, <2>3
    <3> QED
      BY <3>1, <3>2 DEF OutOfReach
  <2> QED
    BY <2>1, <2>4
<1> QED
  BY <1>3, <1>4

(* A weak table loses no entry to a collection that the program could still  *)
(* get at (cleartable).                                                      *)
THEOREM EntriesKept == Spec => WeakEntryKept
<1>1. IInv /\ [Next]_vars =>
        [gcstate = "preserve" /\ gcstate' = "sweepstring" /\ ~tainted =>
           \A t \in Table : \A e \in ref[t] \ ref'[t] :
             \/ \E x \in {e[1], e[2]} \cap (Obj \ String) : OutOfReach(x)
             \/ e[2] \in finalized]_vars
  <2>1. IInv /\ gcstate = "preserve" /\ ~tainted => Struct /\ Core
    BY DEF IInv
  <2> QED
    BY <2>1, ClearedEntries
<1> QED
  BY <1>1, Invariant, PTL DEF Spec, WeakEntryKept

=============================================================================
