------------------------------ MODULE Collector ------------------------------
(* The incremental collector of the embedded Lua (lgc.c), with the program   *)
(* that runs between its steps: allocation, assignments with their write     *)
(* barriers, upvalues, coroutines, weak tables, finalizers, and luaC_mark,   *)
(* the macro this repository adds for the bridge.  Sizes and the pace of the *)
(* collector are left out: a step may come between any two operations.  The  *)
(* order of the collector's lists is left open, so they are sets.            *)
EXTENDS Naturals, FiniteSets

CONSTANTS
  Table, Userdata, String, Closure, UpVal, Coroutine,  \* objects, by type
  main, registry,      \* the main thread; the registry, with the globals in it
  WeakKeys, WeakValues,\* tables whose metatable has 'k', 'v' in __mode
  Finalizable,         \* userdata whose metatable has a __gc field
  FixedString,         \* strings luaS_fix protects
  Nil,                 \* no object
  Field,               \* in place of a key: a field of the object's structure
  Heaps,               \* heaps a behaviour may begin with
  GCSWEEPMAX,          \* objects swept in one step
  MaxOps               \* bound: operations of the program

Thread == Coroutine \cup {main}
Obj == Table \cup Userdata \cup String \cup Closure \cup UpVal \cup Thread
Weak == WeakKeys \cup WeakValues
Fixed == FixedString \cup {main}
Entry == (Obj \cup {Nil, Field}) \X (Obj \cup {Nil})

ASSUME KindsAssumption ==
  /\ Table \cap Userdata = {} /\ Table \cap String = {} /\ Table \cap Closure = {}
  /\ Table \cap UpVal = {} /\ Table \cap Thread = {} /\ Userdata \cap String = {}
  /\ Userdata \cap Closure = {} /\ Userdata \cap UpVal = {} /\ Userdata \cap Thread = {}
  /\ String \cap Closure = {} /\ String \cap UpVal = {} /\ String \cap Thread = {}
  /\ Closure \cap UpVal = {} /\ Closure \cap Thread = {} /\ UpVal \cap Thread = {}
  /\ main \notin Coroutine
ASSUME SubkindsAssumption ==
  /\ registry \in Table \ Weak /\ Weak \subseteq Table
  /\ Finalizable \subseteq Userdata /\ FixedString \subseteq String
  /\ Nil \notin Obj /\ Field \notin Obj /\ Nil # Field
ASSUME BoundsAssumption == GCSWEEPMAX \in Nat \ {0} /\ MaxOps \in Nat

VARIABLES
  alive,         \* objects allocated and not freed
  ref,           \* of each object: what it refers to, as pairs of key and value
  owner,         \* of an open upvalue: the thread whose stack holds its value
  mt,            \* metatables of the basic types, light userdata among them
  running,       \* the thread that runs
  colour,        \* of each object: one of two whites, gray (no bit set), black
  currentwhite, gcstate,
  gray, grayagain, weak,    \* g->gray, g->grayagain, g->weak
  tosweep,       \* objects ahead of sweepgc and sweepstrgc
  finalized,     \* userdata with FINALIZEDBIT
  tmudata,       \* userdata separated, whose finalizers have not run
  full,          \* luaC_fullgc has yet to start its own cycle
  ran,           \* history: times a userdata's finalizer was called
  tainted,       \* history: luaC_mark undid a mark or a FINALIZEDBIT, or lua_setupvalue
                 \* put a white value in a black upvalue
  ops            \* history: operations of the program, bounded

heap == <<alive, ref, owner, mt, running>>
lists == <<gray, grayagain, weak>>
finalization == <<finalized, tmudata, ran>>
vars == <<heap, colour, currentwhite, gcstate, lists, tosweep, finalization, full,
          tainted, ops>>

Whites == {"white0", "white1"}
OtherWhite == IF currentwhite = "white0" THEN "white1" ELSE "white0"
White(o) == colour[o] \in Whites
IsDead(o) == colour[o] = OtherWhite /\ o \notin Fixed
Open(x) == owner[x] # Nil

(* What an object refers to, and what it keeps alive: a weak table, not its  *)
(* weak keys or values.                                                      *)
Ends(E) == (UNION {{e[1], e[2]} : e \in E}) \ {Nil, Field}
Contents(o) == Ends(ref[o])
StrongPart(o, e) ==
  (IF e[1] = Field \/ o \notin WeakKeys THEN {e[1]} ELSE {})
  \cup (IF e[1] = Field \/ o \notin WeakValues THEN {e[2]} ELSE {})
Strong(o) == (UNION {StrongPart(o, e) : e \in ref[o]}) \ {Nil, Field}
Roots == {main, registry, running} \cup mt

(* A heap the program may be in between two cycles. *)
WellFormed(h) ==
  /\ h.alive \subseteq Obj /\ {main, registry} \cup Fixed \subseteq h.alive
  /\ h.ref \in [Obj -> SUBSET Entry]
  /\ h.owner \in [UpVal -> Thread \cup {Nil}]
  /\ \A o \in Obj : \A e \in h.ref[o] : \A x \in {e[1], e[2]} \cap Obj :
       /\ o \in h.alive /\ x \in h.alive
       /\ o \in Userdata => x \in Table
       /\ x \in UpVal => o \in Closure
       /\ o \notin String
  /\ \A x \in UpVal : h.owner[x] # Nil => x \in h.alive /\ h.owner[x] \in h.alive

Init ==
  /\ \E h \in Heaps : WellFormed(h) /\ alive = h.alive /\ ref = h.ref /\ owner = h.owner
  /\ mt = {} /\ running = main
  /\ colour = [o \in Obj |-> "white0"] /\ currentwhite = "white0" /\ gcstate = "pause"
  /\ gray = {} /\ grayagain = {} /\ weak = {} /\ tosweep = {}
  /\ finalized = {} /\ tmudata = {} /\ ran = [u \in Userdata |-> 0]
  /\ full = FALSE /\ tainted = FALSE /\ ops = 0

-----------------------------------------------------------------------------
(* reallymarkobject on the white ones of S: userdata and closed upvalues     *)
(* become black at once, and what they refer to is marked; strings and open  *)
(* upvalues stay gray; the others go to the gray list.                       *)
WhiteOf(S) == {o \in S : White(o)}
Below(S) == UNION {Strong(o) : o \in S}
Marked(S) ==
  LET a == WhiteOf(S)
      b == a \cup WhiteOf(Below(a \cap UpVal))
  IN b \cup WhiteOf(Below(b \cap Userdata))
MarkColour(o) == IF o \in Userdata \/ (o \in UpVal /\ ~Open(o)) THEN "black" ELSE "gray"
Colours(S) == [o \in Obj |-> IF o \in Marked(S) THEN MarkColour(o) ELSE colour[o]]
Listed(S) == Marked(S) \cap (Table \cup Closure \cup Thread)

-----------------------------------------------------------------------------
(* The program.  It gets at what is on the stack of the thread that runs,    *)
(* and at the registry.  The collector is not in its atomic phase.           *)
Program ==
  /\ gcstate \in {"pause", "propagate", "sweepstring", "sweep", "finalize"}
  /\ ~full /\ ops < MaxOps /\ ops' = ops + 1
Accessible == Contents(running) \cup {registry}
Pushed(x) == [ref EXCEPT ![running] = @ \cup {<<Field, x>>}]

(* luaC_link: a new object is of the white that is current, and on the stack *)
(* at once; fields refers to what its structure begins with.                 *)
Linked(o, fields) ==
  /\ Program /\ o \notin alive
  /\ alive' = alive \cup {o}
  /\ ref' = [Pushed(o) EXCEPT ![o] = {<<Field, x>> : x \in fields}]
  /\ colour' = [colour EXCEPT ![o] = currentwhite]
  /\ UNCHANGED <<owner, mt, running, currentwhite, gcstate, lists, tosweep, tmudata, full,
                 tainted>>

NewTable(t) == t \in Table /\ Linked(t, {}) /\ UNCHANGED <<finalized, ran>>
NewFunction(f) == f \in Closure /\ Linked(f, {registry}) /\ UNCHANGED <<finalized, ran>>
NewThread(c) == c \in Coroutine /\ Linked(c, {registry}) /\ UNCHANGED <<finalized, ran>>
NewUserdata(u) ==
  /\ u \in Userdata /\ Linked(u, {registry})
  /\ finalized' = finalized \ {u} /\ ran' = [ran EXCEPT ![u] = 0]

(* luaS_newlstr: a string found in the table may be dead, and is revived. *)
Resurrected(o) == IF colour[o] = OtherWhite THEN currentwhite ELSE colour[o]
NewString(s) ==
  /\ Program /\ s \in String
  /\ alive' = alive \cup {s} /\ ref' = Pushed(s)
  /\ colour' = [colour EXCEPT ![s] = IF s \in alive THEN Resurrected(s) ELSE currentwhite]
  /\ UNCHANGED <<owner, mt, running, currentwhite, gcstate, lists, tosweep, finalization,
                 full, tainted>>

(* OP_CLOSURE: a new function with the value v of a stack slot as upvalue x, *)
(* which luaF_findupval finds among those open, maybe dead, or makes.        *)
NewClosure(c, x, v) ==
  /\ Program /\ c \in Closure \ alive /\ v \in Contents(running)
  /\ IF x \in alive THEN owner[x] = running /\ ref[x] = {<<Field, v>>} ELSE TRUE
  /\ alive' = alive \cup {c, x}
  /\ ref' = [Pushed(c) EXCEPT ![c] = {<<Field, registry>>, <<Field, x>>},
                               ![x] = {<<Field, v>>}]
  /\ owner' = [owner EXCEPT ![x] = running]
  /\ colour' = [colour EXCEPT
       ![c] = currentwhite,
       ![x] = IF x \in alive THEN Resurrected(x) ELSE currentwhite]
  /\ UNCHANGED <<mt, running, currentwhite, gcstate, lists, tosweep, finalization, full,
                 tainted>>

(* A value is read out of an object; through an upvalue of a function. *)
GetTable(p, x) ==
  /\ Program /\ p \in Accessible \ Thread /\ x \in Contents(p) \ UpVal
  /\ ref' = Pushed(x)
  /\ UNCHANGED <<alive, owner, mt, running, colour, currentwhite, gcstate, lists, tosweep,
                 finalization, full, tainted>>

GetUpval(f, x, v) ==
  /\ Program /\ f \in Accessible /\ x \in Contents(f) \cap UpVal /\ v \in Contents(x)
  /\ ref' = Pushed(v)
  /\ UNCHANGED <<alive, owner, mt, running, colour, currentwhite, gcstate, lists, tosweep,
                 finalization, full, tainted>>

(* A stack slot is given up; its upvalues were closed before. *)
Pop(x) ==
  /\ Program /\ <<Field, x>> \in ref[running]
  /\ \A u \in alive \cap UpVal : owner[u] = running => x \notin Contents(u)
  /\ ref' = [ref EXCEPT ![running] = @ \ {<<Field, x>>}]
  /\ UNCHANGED <<alive, owner, mt, running, colour, currentwhite, gcstate, lists, tosweep,
                 finalization, full, tainted>>

(* Faulty variant for OneList: the table is taken for black without a look.  *)
BackAlways(t, S) ==
  IF WhiteOf(S) # {}
    THEN colour' = [colour EXCEPT ![t] = "gray"] /\ grayagain' = grayagain \cup {t}
    ELSE UNCHANGED <<colour, grayagain>>

(* luaC_barriert: a black table that gets a white object is visited again. *)
Back(t, S) ==
  IF colour[t] = "black" /\ WhiteOf(S) # {}
    THEN colour' = [colour EXCEPT ![t] = "gray"] /\ grayagain' = grayagain \cup {t}
    ELSE UNCHANGED <<colour, grayagain>>

(* luaC_barrier: the white object is marked; in later phases the black one   *)
(* is made white instead, for it has been swept or will be.                  *)
Forward(p, v) ==
  IF colour[p] = "black" /\ White(v)
    THEN IF gcstate = "propagate"
           THEN colour' = Colours({v}) /\ gray' = gray \cup Listed({v})
           ELSE colour' = [colour EXCEPT ![p] = currentwhite] /\ UNCHANGED gray
    ELSE UNCHANGED <<colour, gray>>

(* t[k] = v; setmetatable of a table. *)
SetTable(t, k, v) ==
  /\ Program /\ t \in Accessible \cap Table
  /\ k \in (Accessible \ UpVal) \cup {Nil} /\ v \in Accessible \ UpVal
  /\ ref' = [ref EXCEPT ![t] = @ \cup {<<k, v>>}]
  /\ Back(t, {k, v} \cap Obj)
  /\ UNCHANGED <<alive, owner, mt, running, currentwhite, gcstate, gray, weak, tosweep,
                 finalization, full, tainted>>

SetMetatable(t, m) ==
  /\ Program /\ t \in Accessible \cap Table /\ m \in Accessible \cap Table
  /\ ref' = [ref EXCEPT ![t] = @ \cup {<<Field, m>>}]
  /\ Back(t, {m})
  /\ UNCHANGED <<alive, owner, mt, running, currentwhite, gcstate, gray, weak, tosweep,
                 finalization, full, tainted>>

(* lua_setfenv, and lua_setmetatable of a userdata. *)
SetFenv(p, e) ==
  /\ Program /\ p \in Accessible \cap (Userdata \cup Closure) /\ e \in Accessible \cap Table
  /\ ref' = [ref EXCEPT ![p] = @ \cup {<<Field, e>>}]
  /\ Forward(p, e)
  /\ UNCHANGED <<alive, owner, mt, running, currentwhite, gcstate, grayagain, weak, tosweep,
                 finalization, full, tainted>>

(* lua_setupvalue, as debug.setupvalue: of a C function, whose upvalues are  *)
(* fields, and of a Lua function.  The barrier looks at the function in both *)
(* cases, though it is the upvalue that gets the value.                      *)
SetCUpvalue(f, v) ==
  /\ Program /\ f \in Accessible \cap Closure /\ v \in Accessible \ UpVal
  /\ ref' = [ref EXCEPT ![f] = @ \cup {<<Field, v>>}]
  /\ Forward(f, v)
  /\ UNCHANGED <<alive, owner, mt, running, currentwhite, gcstate, grayagain, weak, tosweep,
                 finalization, full, tainted>>

Assigned(x, v) ==
  [o \in Obj |-> IF o = x THEN {<<Field, v>>}
                 ELSE IF o = owner[x] THEN ref[o] \cup {<<Field, v>>} ELSE ref[o]]
Missed(f, x, v) ==
  gcstate = "propagate" /\ colour[x] = "black" /\ colour[f] # "black" /\ White(v)
SetUpvalue(f, x, v) ==
  /\ Program /\ f \in Accessible \cap Closure /\ x \in Contents(f) \cap UpVal
  /\ v \in Contents(running)
  /\ ref' = Assigned(x, v)
  /\ Forward(f, v)
  /\ tainted' = (tainted \/ Missed(f, x, v))
  /\ UNCHANGED <<alive, owner, mt, running, currentwhite, gcstate, grayagain, weak, tosweep,
                 finalization, full>>

(* OP_SETUPVAL.  An open upvalue is a slot of its owner's stack, maybe of    *)
(* another thread than the one that runs.                                    *)
SetUpval(c, x, v) ==
  /\ Program /\ c \in Accessible \cap Closure /\ x \in Contents(c) \cap UpVal
  /\ v \in Contents(running)
  /\ ref' = Assigned(x, v)
  /\ Forward(x, v)
  /\ UNCHANGED <<alive, owner, mt, running, currentwhite, gcstate, grayagain, weak, tosweep,
                 finalization, full, tainted>>

(* An entry is set to nil. *)
Remove(p, e) ==
  /\ Program /\ p \in Accessible \cap Table /\ e \in ref[p]
  /\ ref' = [ref EXCEPT ![p] = @ \ {e}]
  /\ UNCHANGED <<alive, owner, mt, running, colour, currentwhite, gcstate, lists, tosweep,
                 finalization, full, tainted>>

(* lua_setmetatable of a light userdata: one table for all, and no barrier. *)
SetBasicMetatable(t) ==
  /\ Program /\ t \in Accessible \cap Table
  /\ mt' = {t}
  /\ UNCHANGED <<alive, ref, owner, running, colour, currentwhite, gcstate, lists, tosweep,
                 finalization, full, tainted>>

(* luaF_close, luaC_linkupval: an open upvalue whose slot goes away gets its *)
(* own copy of the value and joins the collector's list.  Gray, it must be   *)
(* black or white from now on.                                               *)
CloseUpval(x) ==
  /\ Program /\ x \in alive \cap UpVal /\ owner[x] = running
  /\ owner' = [owner EXCEPT ![x] = Nil]
  /\ IF IsDead(x)
       THEN /\ alive' = alive \ {x} /\ ref' = [ref EXCEPT ![x] = {}]
            /\ UNCHANGED <<colour, gray>>
       ELSE /\ UNCHANGED <<alive, ref>>
            /\ IF colour[x] # "gray" THEN UNCHANGED <<colour, gray>>
               ELSE IF gcstate = "propagate"
                 THEN /\ colour' = [Colours(Strong(x)) EXCEPT ![x] = "black"]
                      /\ gray' = gray \cup Listed(Strong(x))
                 ELSE /\ colour' = [colour EXCEPT ![x] = currentwhite]
                      /\ UNCHANGED gray
  /\ UNCHANGED <<mt, running, currentwhite, gcstate, grayagain, weak, tosweep, finalization,
                 full, tainted>>

(* lua_resume from the main thread; lua_yield, with a value for it. *)
Resume(c) ==
  /\ Program /\ running = main /\ c \in Contents(main) \cap Coroutine
  /\ running' = c
  /\ UNCHANGED <<alive, ref, owner, mt, colour, currentwhite, gcstate, lists, tosweep,
                 finalization, full, tainted>>

Yield(x) ==
  /\ Program /\ running # main /\ x \in Contents(running)
  /\ running' = main
  /\ ref' = [ref EXCEPT ![main] = @ \cup {<<Field, x>>}]
  /\ UNCHANGED <<alive, owner, mt, colour, currentwhite, gcstate, lists, tosweep,
                 finalization, full, tainted>>

(* The bridge's handler "marks" a userdata of the registry: all its mark     *)
(* bits are replaced by the current white.                                   *)
luaC_mark(u) ==
  /\ Program /\ u \in Contents(registry) \cap Userdata
  /\ colour' = [colour EXCEPT ![u] = currentwhite]
  /\ finalized' = finalized \ {u}
  /\ tainted' = (tainted \/ u \in finalized \/ (gcstate = "propagate" /\ ~White(u)))
  /\ UNCHANGED <<heap, currentwhite, gcstate, lists, tosweep, tmudata, ran, full>>

-----------------------------------------------------------------------------
(* The collector. *)
Rooted(S) ==
  /\ colour' = Colours(S) /\ gray' = Listed(S)
  /\ grayagain' = {} /\ weak' = {} /\ gcstate' = "propagate"

MarkRoot ==
  /\ gcstate = "pause" \/ (full /\ gcstate = "finalize")
  /\ Rooted({main, registry} \cup mt)
  /\ full' = FALSE
  /\ UNCHANGED <<heap, currentwhite, tosweep, finalization, tainted, ops>>

(* propagatemark: a gray object becomes black and what it keeps is marked; a *)
(* weak table and a thread stay gray, to be looked at again.                 *)
Visit(o) ==
  /\ o \in gray
  /\ LET stays == o \in Weak \cup Thread IN
     colour' = [Colours(Strong(o)) EXCEPT ![o] = IF stays THEN "gray" ELSE "black"]
  /\ gray' = (gray \ {o}) \cup Listed(Strong(o))
  /\ grayagain' = IF o \in Thread THEN grayagain \cup {o} ELSE grayagain
  /\ weak' = IF o \in Weak THEN weak \cup {o} ELSE weak
  /\ UNCHANGED <<heap, currentwhite, gcstate, tosweep, finalization, full, tainted, ops>>

Atomic == gcstate \in {"remark", "reweak", "again", "preserve"}
PropagateMark(o) == (gcstate = "propagate" \/ Atomic) /\ Visit(o)

(* atomic(), in four stages with propagateall after each: values of open     *)
(* upvalues; weak tables, the running thread and the basic metatables; what  *)
(* the barriers and the threads left; the userdata to be finalized.          *)
(* Faulty variant for NoDangling: values of open upvalues are forgotten.     *)
NoUpvals == {}
GrayUpvals == {x \in alive \cap UpVal : Open(x) /\ colour[x] = "gray"}
RemarkUpvals ==
  /\ gcstate = "propagate" /\ gray = {}
  /\ colour' = Colours(Below(GrayUpvals)) /\ gray' = Listed(Below(GrayUpvals))
  /\ gcstate' = "remark"
  /\ UNCHANGED <<heap, currentwhite, grayagain, weak, tosweep, finalization, full, tainted,
                 ops>>

Remark(S) == colour' = Colours(S) /\ gray' = weak \cup Listed(S)
RemarkWeak ==
  /\ gcstate = "remark" /\ gray = {}
  /\ Remark({running} \cup mt) /\ weak' = {}
  /\ gcstate' = "reweak"
  /\ UNCHANGED <<heap, currentwhite, grayagain, tosweep, finalization, full, tainted, ops>>

RemarkGray ==
  /\ gcstate = "reweak" /\ gray = {}
  /\ gray' = grayagain /\ grayagain' = {}
  /\ gcstate' = "again"
  /\ UNCHANGED <<heap, colour, currentwhite, weak, tosweep, finalization, full, tainted, ops>>

(* luaC_separateudata, marktmu. *)
(* Faulty variants: those finalized before are separated again               *)
(* (FinalizedOnce), or nothing is (FinalizedFirst).                          *)
DyingAgain == {u \in (alive \cap Userdata) \ tmudata : White(u)}
NoneDying == {}
Dying == {u \in (alive \cap Userdata) \ (finalized \cup tmudata) : White(u)}
Preserved(S) ==
  LET T == Below(S) IN
  /\ colour' = [o \in Obj |-> IF o \in S THEN "black" ELSE Colours(T)[o]]
  /\ gray' = Listed(T)
Separate ==
  /\ gcstate = "again" /\ gray = {}
  /\ finalized' = finalized \cup Dying
  /\ tmudata' = tmudata \cup (Dying \cap Finalizable)
  /\ Preserved(tmudata')
  /\ gcstate' = "preserve"
  /\ UNCHANGED <<heap, currentwhite, grayagain, weak, tosweep, ran, full, tainted, ops>>

(* iscleared, cleartable: an entry of a weak table goes when its key or its  *)
(* value was not marked, or its value is a userdata being finalized.         *)
(* Strings count as values and are marked here.                              *)
(* Faulty variant for WeakEntryKept: what stays gray counts as unmarked.     *)
CollectedUnlessBlack(x) == x \in Obj \ String /\ colour[x] # "black"
Collected(x) == x \in Obj \ String /\ White(x)
Cleared(e) ==
  /\ e[1] # Field
  /\ Collected(e[1]) \/ Collected(e[2]) \/ e[2] \in finalized
KeptStrings ==
  {s \in String : \E t \in weak : \E e \in ref[t] :
     s = e[1] \/ (s = e[2] /\ ~Collected(e[1]))}
SweepList == {o \in alive \ tmudata : o \in UpVal => ~Open(o)}

FlipWhite ==
  /\ gcstate = "preserve" /\ gray = {}
  /\ ref' = [o \in Obj |-> IF o \in weak THEN {e \in ref[o] : ~Cleared(e)} ELSE ref[o]]
  /\ colour' = [o \in Obj |-> IF o \in KeptStrings /\ White(o) THEN "gray" ELSE colour[o]]
  /\ currentwhite' = OtherWhite
  /\ tosweep' = SweepList
  /\ gcstate' = "sweepstring"
  /\ UNCHANGED <<alive, owner, mt, running, lists, finalization, full, tainted, ops>>

(* sweeplist over the objects of S: dead ones are freed, the others become   *)
(* white for the next cycle; with a thread go its open upvalues, which are   *)
(* closed when it is freed.                                                  *)
(* Faulty variant for GarbageFreed: a thread's upvalues are passed over.     *)
OpenInNone(S) == {}
Ahead(S) == tosweep \ S
OpenIn(S) == {x \in alive \cap UpVal : Open(x) /\ owner[x] \in S}
Swept(S) ==
  LET visited == S \cup OpenIn(S)
      dead == {o \in visited : IsDead(o)} IN
  /\ alive' = alive \ dead
  /\ ref' = [o \in Obj |-> IF o \in dead THEN {} ELSE ref[o]]
  /\ owner' = [x \in UpVal |-> IF x \in dead \/ owner[x] \in dead THEN Nil ELSE owner[x]]
  /\ colour' = [o \in Obj |-> IF o \in visited \ dead THEN currentwhite ELSE colour[o]]
  /\ tosweep' = Ahead(S)
  /\ UNCHANGED <<mt, running, currentwhite, lists, finalization, full, tainted, ops>>

(* One chain of the string table; then the other objects, some at a time. *)
SweepString(S) ==
  /\ gcstate = "sweepstring" /\ S \subseteq tosweep \cap String
  /\ Swept(S)
  /\ gcstate' = IF tosweep \cap String \subseteq S THEN "sweep" ELSE gcstate

Sweep(S) ==
  /\ gcstate = "sweep" /\ S \subseteq tosweep
  /\ S = tosweep \/ Cardinality(S) = GCSWEEPMAX
  /\ Swept(S)
  /\ gcstate' = IF S = tosweep THEN "finalize" ELSE gcstate

(* GCTM: the userdata returns to the list and its finalizer gets it. *)
Called(u) == [ran EXCEPT ![u] = @ + 1]
GCTM(u) ==
  /\ gcstate \in {"finalize", "closing"} /\ ~full /\ u \in tmudata
  /\ tmudata' = tmudata \ {u}
  /\ colour' = [colour EXCEPT ![u] = currentwhite]
  /\ ran' = Called(u)
  /\ ref' = Pushed(u)
  /\ UNCHANGED <<alive, owner, mt, running, currentwhite, gcstate, lists, tosweep, finalized,
                 full, tainted, ops>>

EndCycle ==
  /\ gcstate = "finalize" /\ tmudata = {} /\ ~full
  /\ gcstate' = "pause"
  /\ UNCHANGED <<heap, colour, currentwhite, lists, tosweep, finalization, full, tainted, ops>>

(* luaC_fullgc (collectgarbage): what was marked is forgotten and swept      *)
(* white, without a flip; a whole cycle follows, whether or not finalizers   *)
(* of an earlier one are still to be called.                                 *)
FullGC ==
  /\ Program
  /\ full' = TRUE
  /\ IF gcstate \in {"pause", "propagate"}
       THEN /\ gray' = {} /\ grayagain' = {} /\ weak' = {}
            /\ tosweep' = SweepList /\ gcstate' = "sweepstring"
       ELSE UNCHANGED <<lists, tosweep, gcstate>>
  /\ UNCHANGED <<heap, colour, currentwhite, finalization, tainted>>

(* lua_close: upvalues of the main thread are closed, all userdata that have *)
(* a finalizer have it called, and everything is freed.                      *)
Close ==
  /\ Program /\ running = main
  /\ gcstate' = "closing"
  /\ LET open == {x \in alive \cap UpVal : owner[x] = main}
         dead == {x \in open : IsDead(x)}
         all == (alive \cap Userdata) \ (finalized \cup tmudata) IN
     /\ alive' = alive \ dead
     /\ ref' = [o \in Obj |-> IF o \in dead THEN {} ELSE ref[o]]
     /\ owner' = [x \in UpVal |-> IF x \in open THEN Nil ELSE owner[x]]
     /\ finalized' = finalized \cup all
     /\ tmudata' = tmudata \cup (all \cap Finalizable)
  /\ UNCHANGED <<mt, running, colour, currentwhite, lists, tosweep, ran, full, tainted>>

FreeAll ==
  /\ gcstate = "closing" /\ tmudata = {}
  /\ gcstate' = "closed"
  /\ alive' = {} /\ ref' = [o \in Obj |-> {}] /\ owner' = [x \in UpVal |-> Nil]
  /\ tosweep' = {}
  /\ UNCHANGED <<mt, running, colour, currentwhite, lists, finalization, full, tainted, ops>>

Collect ==
  \/ MarkRoot \/ RemarkUpvals \/ RemarkWeak \/ RemarkGray \/ Separate \/ FlipWhite
  \/ EndCycle \/ FreeAll
  \/ \E o \in gray : PropagateMark(o)
  \/ \E S \in SUBSET (tosweep \cap String) : SweepString(S)
  \/ \E S \in SUBSET tosweep : Sweep(S)
  \/ \E u \in tmudata : GCTM(u)

Mutate ==
  \/ \E o \in Obj : NewTable(o) \/ NewFunction(o) \/ NewThread(o) \/ NewUserdata(o)
  \/ \E o \in Obj : NewString(o) \/ Resume(o) \/ CloseUpval(o) \/ Pop(o) \/ Yield(o)
  \/ \E f \in Closure, x \in UpVal, v \in Obj :
       NewClosure(f, x, v) \/ GetUpval(f, x, v) \/ SetUpval(f, x, v) \/ SetUpvalue(f, x, v)
  \/ \E p, x \in Obj : GetTable(p, x) \/ SetFenv(p, x) \/ SetCUpvalue(p, x)
  \/ \E t \in Table, k \in Obj \cup {Nil}, v \in Obj : SetTable(t, k, v)
  \/ \E t \in Table :
       \/ SetBasicMetatable(t)
       \/ \E m \in Table : SetMetatable(t, m)
       \/ \E e \in ref[t] : Remove(t, e)
  \/ \E u \in Userdata : luaC_mark(u)
  \/ FullGC \/ Close

Next == Collect \/ Mutate
Spec == Init /\ [][Next]_vars
(* Cycles go on: the program allocates, and each allocation pays for steps. *)
FairSpec == Spec /\ WF_vars(Collect)

-----------------------------------------------------------------------------
(* Types: the collector's lists hold objects that are allocated, colours and *)
(* phases are those of lgc.h, and references are typed as the structures are.*)
TypeOK ==
  /\ alive \subseteq Obj /\ ref \in [Obj -> SUBSET Entry]
  /\ owner \in [UpVal -> Thread \cup {Nil}] /\ mt \subseteq Table /\ running \in Thread
  /\ colour \in [Obj -> Whites \cup {"gray", "black"}] /\ currentwhite \in Whites
  /\ gcstate \in {"pause", "propagate", "remark", "reweak", "again", "preserve",
                   "sweepstring", "sweep", "finalize", "closing", "closed"}
  /\ gray \subseteq Table \cup Closure \cup Thread
  /\ grayagain \subseteq Table \cup Thread /\ weak \subseteq Weak
  /\ tosweep \subseteq alive /\ tmudata \subseteq Finalizable
  /\ finalized \subseteq Userdata
  /\ ran \in [Userdata -> Nat] /\ ops \in 0..MaxOps
  /\ full \in BOOLEAN /\ tainted \in BOOLEAN

(* What the program can get at is allocated: no root is freed, and nothing   *)
(* an object that is not dead refers to, strongly or weakly, is freed or     *)
(* dead, whatever the program does between two steps, unless luaC_mark took  *)
(* back a mark or lua_setupvalue went past the barrier.                      *)
NoDangling ==
  ~tainted /\ gcstate # "closed" =>
    /\ \A o \in Roots : o \in alive /\ ~IsDead(o)
    /\ \A o \in alive : ~IsDead(o) => \A x \in Contents(o) : x \in alive /\ ~IsDead(x)

(* An object is in one list at a time, for all three are linked through its  *)
(* field gclist, unless something was freed that is still used.              *)
OneList ==
  ~tainted => gray \cap grayagain = {} /\ gray \cap weak = {} /\ grayagain \cap weak = {}

(* A finalizer is called at most once for a userdata, and it is called       *)
(* before the userdata is freed, by a cycle or by lua_close.                 *)
FinalizedOnce == ~tainted => \A u \in Userdata : ran[u] <= 1
FinalizedFirst ==
  [][~tainted => \A u \in Finalizable : u \in alive \ alive' => ran[u] = 1]_vars

(* Strong reachability: x is out of reach if the roots and what they keep    *)
(* alive can be had without it.                                              *)
OutOfReach(x) ==
  /\ x \notin Roots
  /\ \E T \in SUBSET (Obj \ (Roots \cup {x})) : Below(Roots \cup T) \subseteq Roots \cup T

(* A weak table loses an entry to a collection only if its key or its value  *)
(* is out of the program's reach, strings apart, or its value was finalized. *)
WeakEntryKept ==
  [][gcstate = "preserve" /\ gcstate' = "sweepstring" /\ ~tainted =>
       \A t \in Table : \A e \in ref[t] \ ref'[t] :
         \/ \E x \in {e[1], e[2]} \cap (Obj \ String) : OutOfReach(x)
         \/ e[2] \in finalized]_vars

(* The same, computed. *)
Reachable ==
  LET reach[T \in SUBSET Obj] ==
        LET further == T \cup Below(T) IN IF further = T THEN T ELSE reach[further]
  IN reach[Roots]

(* Cycles going on, what is out of reach is freed, or found again: by an     *)
(* entry of a weak table, as an equal string, or by a finalizer.             *)
GarbageFreed ==
  \A o \in Userdata \cup UpVal : (o \in alive \ (Reachable \cup Fixed)) ~>
                     (o \notin alive \/ o \in Reachable \/ gcstate = "closing")
=============================================================================
