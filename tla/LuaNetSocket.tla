---------------------------- MODULE LuaNetSocket ----------------------------
(* The bridge that gives Lua scripts sockets and events, with the three      *)
(* mechanisms it is built on: the handler table of NetSocket (every event    *)
(* registers the same C++ function, so the map from function to userdata has *)
(* one entry), the registry's references, and the collector, which finalises *)
(* userdata.  The script steps the listener on its own thread (StepListener);*)
(* handlers may call everything the script may.                              *)
EXTENDS Registry, Sequences, SequencesExt, FiniteSets

CONSTANTS
  Socket,          \* NetSocket userdata; s also stands for the light userdata of s
  Event,           \* EventUserdata
  Function,        \* Lua functions passed to Connect
  CaptureSocket,   \* is the socket an upvalue of the functions connected to it?
  Once,            \* does the script disconnect an event at most once?
  MaxConnected,    \* bound: events connected to one socket at a time
  MaxDepth,        \* bound: nested StepListener calls
  MaxDatagrams     \* bound: datagrams received in a behaviour

ASSUME LuaNetSocketAssumption ==
  /\ Value = Socket \cup Event \cup Function
  /\ Socket \cap Event = {} /\ Socket \cap Function = {} /\ Event \cap Function = {}
  /\ CaptureSocket \in BOOLEAN /\ Once \in BOOLEAN
  /\ MaxConnected \in Nat /\ MaxDepth \in Nat /\ MaxDatagrams \in Nat

VARIABLES
  registry,    \* integer part of LUA_REGISTRYINDEX
  sock,        \* of each socket: its state and handler table
  ev,          \* of each event: the EventUserdata structure and its state
  rooted,      \* userdata the script's variables hold
  lightMt,     \* the socket captured by the metatable all light userdata share
  frames,      \* Listener() calls under way, innermost last
  gc,          \* collector: pause, gray, black, again, finalize
  whitened,    \* events luaC_mark turned white behind the collector's back
  doomed,      \* userdata separated for finalisation (tmudata)
  fault,       \* undefined behaviour took the process down
  closed,      \* lua_close ran
  datagrams    \* history: datagrams received, bounded

heap == <<rooted, lightMt>>
collector == <<gc, whitened, doomed>>
vars == <<registry, sock, ev, heap, frames, collector, fault, closed, datagrams>>

Init ==
  /\ registry = EmptyTable
  /\ sock = [s \in Socket |-> [state |-> "unborn", handlers |-> <<>>, userdata |-> Nil]]
  /\ ev = [e \in Event |-> [state |-> "unborn", sock |-> Nil, fn |-> Nil,
                            funcRef |-> 0, socketRef |-> 0, eventRef |-> 0, idx |-> 0]]
  /\ rooted = {} /\ lightMt = Nil
  /\ frames = <<>>
  /\ gc = "pause" /\ whitened = {} /\ doomed = {}
  /\ fault = FALSE /\ closed = FALSE /\ datagrams = 0

Depth == Len(frames)
Top == frames[Depth]

(* Lua code runs outside Listener() and in the functions it calls. *)
LuaRuns == ~fault /\ ~closed /\ (frames # <<>> => Top.running # Nil)

Connected(s) == {e \in Event : ev[e].state = "connected" /\ ev[e].sock = s}

-----------------------------------------------------------------------------
(* NetSocket.New *)
New(s) ==
  /\ LuaRuns /\ sock[s].state = "unborn"
  /\ sock' = [sock EXCEPT ![s].state = "live"]
  /\ rooted' = rooted \cup {s}
  /\ UNCHANGED <<registry, ev, lightMt, frames, collector, fault, closed, datagrams>>

(* The script forgets a variable. *)
Drop(o) ==
  /\ LuaRuns /\ o \in rooted
  /\ rooted' = rooted \ {o}
  /\ UNCHANGED <<registry, sock, ev, lightMt, frames, collector, fault, closed, datagrams>>

(* s.OnRecieve installs a new metatable for light userdata, all light        *)
(* userdata, whose __index holds s.                                          *)
OnRecieve(s) ==
  /\ LuaRuns /\ s \in rooted
  /\ lightMt' = s
  /\ UNCHANGED <<registry, sock, ev, rooted, frames, collector, fault, closed, datagrams>>

(* s.OnRecieve:Connect(fn), right after OnRecieve, for the script does not   *)
(* keep the light userdata: three references, to fn, to the LIGHT userdata   *)
(* (Connect's upvalue) and to the event, and a handler.  Storing the event   *)
(* in a registry the collector had done with makes it traverse it again.     *)
Connect(s, e, fn) ==
  /\ LuaRuns /\ s \in rooted /\ lightMt = s /\ ev[e].state = "unborn"
  /\ Cardinality(Connected(s)) < MaxConnected
  /\ \E f \in NewRef(registry) : LET t1 == Stored(registry, f, fn) IN
     \E l \in NewRef(t1) : LET t2 == Stored(t1, l, s) IN
     \E x \in NewRef(t2) :
       /\ registry' = Stored(t2, x, e)
       /\ ev' = [ev EXCEPT ![e] =
            [state |-> "connected", sock |-> s, fn |-> fn, funcRef |-> f,
             socketRef |-> l, eventRef |-> x, idx |-> Len(sock[s].handlers)]]
  /\ sock' = [sock EXCEPT ![s].handlers = Append(@, e), ![s].userdata = e]
  /\ rooted' = rooted \cup {e} /\ UNCHANGED lightMt
  /\ gc' = IF gc = "black" THEN "again" ELSE gc
  /\ whitened' = IF gc = "black" THEN {} ELSE whitened
  /\ UNCHANGED <<frames, doomed, fault, closed, datagrams>>

(* Faulty variant for RegistryExact: the event keeps its own reference. *)
ReleasedTwo(t, e) == Unreferenced(Unreferenced(t, ev[e].funcRef), ev[e].socketRef)
Released(t, e) ==
  Unreferenced(Unreferenced(Unreferenced(t, ev[e].funcRef), ev[e].socketRef), ev[e].eventRef)

(* NetSocket::RemoveHandler(i).  Faulty variant for OwnHandlerCalled: the    *)
(* map keeps its entry.                                                      *)
EntryKept(h, i) == [h EXCEPT !.handlers = RemoveAt(@, i)]
Removed(h, i) == [h EXCEPT !.handlers = RemoveAt(@, i), !.userdata = Nil]

(* e:Disconnect(): release the three references, remove the handler at the   *)
(* index Connect was given, and delete memory that belongs to Lua, which the *)
(* C run-time may survive.  Nothing marks the event as disconnected.         *)
Disconnect(e) ==
  /\ LuaRuns /\ e \in rooted
  /\ ev[e].state \in IF Once THEN {"connected"} ELSE {"connected", "disconnected"}
  /\ registry' = Released(registry, e)
  /\ LET s == ev[e].sock
         i == ev[e].idx + 1 IN
     IF sock[s].state = "live" /\ i <= Len(sock[s].handlers)
       THEN /\ sock' = [sock EXCEPT ![s] = Removed(@, i)]
            /\ fault' \in BOOLEAN
       ELSE fault' = TRUE /\ UNCHANGED sock
  /\ ev' = [ev EXCEPT ![e].state = "disconnected"]
  /\ UNCHANGED <<heap, frames, collector, closed, datagrams>>

-----------------------------------------------------------------------------
(* s:StepListener(): a datagram arrives and Listener walks the handlers.     *)
StepListener(s) ==
  /\ LuaRuns /\ s \in rooted
  /\ Depth < MaxDepth /\ datagrams < MaxDatagrams
  /\ frames' = Append(frames, [sock |-> s, i |-> 0, running |-> Nil, event |-> Nil])
  /\ datagrams' = datagrams + 1
  /\ UNCHANGED <<registry, sock, ev, heap, collector, fault, closed>>

Dispatching == ~fault /\ frames # <<>> /\ Top.running = Nil
AtHandler == Dispatching /\ Top.i < Len(sock[Top.sock].handlers)

(* luaC_mark writes the mark byte of what it takes for an object.  In a light *)
(* userdata that byte lies past the block of one pointer that the address    *)
(* leads to, in the allocator's padding or not; a slot without a value has   *)
(* no object to write to.                                                    *)
MarkHarm(values) ==
  IF values \ Value # {} THEN {TRUE} ELSE IF values \cap Socket # {} THEN BOOLEAN ELSE {FALSE}

(* LuaNetSocket_EventHandler with the userdata the map has for the function: *)
(* null does nothing; an event has its userdata "marked", that is, turned    *)
(* white, which the collector does not repair once it left the registry, and *)
(* its function is called if the reference still leads to one.               *)
EventHandler ==
  /\ AtHandler
  /\ LET ud == sock[Top.sock].userdata IN
     \/ /\ ud = Nil
        /\ frames' = [frames EXCEPT ![Depth].i = @ + 1]
        /\ UNCHANGED <<whitened, fault>>
     \/ /\ ud # Nil
        /\ LET fn == registry[ev[ud].funcRef]
               marked == registry[ev[ud].eventRef] IN
           /\ frames' = IF fn \in Function
                          THEN [frames EXCEPT ![Depth].running = fn, ![Depth].event = ud]
                          ELSE [frames EXCEPT ![Depth].i = @ + 1]
           /\ whitened' = IF gc = "black" /\ marked \in Event
                            THEN whitened \cup {marked} ELSE whitened
           /\ fault' \in MarkHarm({marked, registry[ev[ud].socketRef]})
  /\ UNCHANGED <<registry, sock, ev, heap, gc, doomed, closed, datagrams>>

(* The Lua function returns, or fails: lua_pcall contains the error. *)
HandlerReturn ==
  /\ ~fault /\ frames # <<>> /\ Top.running # Nil
  /\ frames' = [frames EXCEPT ![Depth].running = Nil, ![Depth].event = Nil,
                              ![Depth].i = @ + 1]
  /\ UNCHANGED <<registry, sock, ev, heap, collector, fault, closed, datagrams>>

ListenerReturn ==
  /\ Dispatching /\ ~AtHandler
  /\ frames' = Front(frames)
  /\ UNCHANGED <<registry, sock, ev, heap, collector, fault, closed, datagrams>>

-----------------------------------------------------------------------------
(* What the collector can reach: variables, the stack (the sockets being     *)
(* stepped and the functions running), the registry, the light metatable.    *)
InRegistry == {registry[k] : k \in Ref}
Stepped == {frames[k].sock : k \in DOMAIN frames}
Closures ==
  {e \in Event : \/ ev[e].state = "connected" /\ registry[ev[e].funcRef] = ev[e].fn
                 \/ \E k \in DOMAIN frames : frames[k].event = e}

(* Faulty variants: functions do not keep their upvalues                     *)
(* (ConnectedSocketKept), the registry is weak (LostOnlyByMark).             *)
NoneCaptured == {}
ReachableWeakly == rooted \cup Stepped \cup {lightMt}

Captured == IF CaptureSocket THEN {ev[e].sock : e \in Closures} ELSE {}
Reachable == rooted \cup (InRegistry \cap Event) \cup Stepped \cup {lightMt} \cup Captured

Userdata == {s \in Socket : sock[s].state = "live"}
            \cup {e \in Event : ev[e].state \in {"connected", "disconnected"}}

(* A cycle starts; the registry is traversed; the atomic step separates the  *)
(* userdata that is white: what became unreachable, as far as the cycle has  *)
(* noticed, and what luaC_mark whitened, unless the traversal of a variable  *)
(* finds it once more.                                                       *)
Mark ==
  /\ ~fault /\ ~closed
  /\ \/ gc = "pause" /\ gc' = "gray"
     \/ gc = "gray" /\ gc' = "black"
  /\ UNCHANGED <<registry, sock, ev, heap, frames, whitened, doomed, fault, closed,
                 datagrams>>

Atomic ==
  /\ ~fault /\ ~closed /\ gc \in {"black", "again"}
  /\ \E dead \in SUBSET (Userdata \ Reachable), again \in SUBSET (whitened \cap rooted) :
       doomed' = dead \cup (whitened \ again)
  /\ gc' = "finalize" /\ whitened' = {}
  /\ UNCHANGED <<registry, sock, ev, heap, frames, fault, closed, datagrams>>

(* GCTM calls __gc: NetSocket_GC empties the handler table and deletes the   *)
(* socket; EventConnection_GC takes the event's first field, a NetSocket *,  *)
(* for a pointer to an event and follows it into unrelated memory.           *)
Finalize(o) ==
  /\ ~fault /\ ~closed /\ gc = "finalize" /\ o \in doomed
  /\ doomed' = doomed \ {o}
  /\ \/ /\ o \in Socket
        /\ sock' = [sock EXCEPT ![o] =
                      [state |-> "deleted", handlers |-> <<>>, userdata |-> Nil]]
        /\ UNCHANGED <<ev, fault>>
     \/ /\ o \in Event
        /\ ev' = [ev EXCEPT ![o].state = "finalized"]
        /\ fault' = TRUE
        /\ UNCHANGED sock
  /\ UNCHANGED <<registry, heap, frames, gc, whitened, closed, datagrams>>

EndCycle ==
  /\ ~fault /\ ~closed /\ gc = "finalize" /\ doomed = {}
  /\ gc' = "pause"
  /\ UNCHANGED <<registry, sock, ev, heap, frames, whitened, doomed, fault, closed,
                 datagrams>>

(* lua_close finalises every userdata, events (created after their socket)   *)
(* first.                                                                    *)
Close ==
  /\ LuaRuns /\ frames = <<>>
  /\ closed' = TRUE
  /\ fault' = (Userdata \cap Event # {})
  /\ sock' = IF fault' THEN sock
             ELSE [s \in Socket |->
                     IF sock[s].state = "live"
                       THEN [state |-> "deleted", handlers |-> <<>>, userdata |-> Nil]
                       ELSE sock[s]]
  /\ UNCHANGED <<registry, ev, heap, frames, collector, datagrams>>

Next ==
  \/ \E s \in Socket : New(s) \/ OnRecieve(s) \/ StepListener(s)
  \/ \E o \in Socket \cup Event : Drop(o) \/ Finalize(o)
  \/ \E s \in Socket, e \in Event, fn \in Function : Connect(s, e, fn)
  \/ \E e \in Event : Disconnect(e)
  \/ EventHandler \/ HandlerReturn \/ ListenerReturn
  \/ Mark \/ Atomic \/ EndCycle \/ Close

Spec == Init /\ [][Next]_vars

-----------------------------------------------------------------------------
Handle == {"state", "sock", "fn", "funcRef", "socketRef", "eventRef", "idx"}

(* Types: the registry's slots hold objects, nothing, or the next slot of    *)
(* the free list (luaL_unref), sockets and events are in one of their states.*)
TypeOK ==
  /\ registry \in [0..MaxRef -> Value \cup {Nil} \cup Ref]
  /\ \A s \in Socket :
       /\ sock[s].state \in {"unborn", "live", "deleted"}
       /\ sock[s].handlers \in Seq(Event)
       /\ sock[s].userdata \in Event \cup {Nil}
  /\ \A e \in Event :
       /\ DOMAIN ev[e] = Handle
       /\ ev[e].state \in {"unborn", "connected", "disconnected", "finalized"}
  /\ rooted \subseteq Socket \cup Event
  /\ doomed \subseteq Socket \cup Event /\ whitened \subseteq Event
  /\ \A k \in DOMAIN frames : frames[k].running \in Function \cup {Nil}

Refs(e) == {ev[e].funcRef, ev[e].socketRef, ev[e].eventRef}
ConnectedEvents == {e \in Event : ev[e].state = "connected"}

(* The registry holds exactly what connected events need: each reference     *)
(* leads to its object, no two events share one, and no slot is leaked or    *)
(* lost by any order of Connect and Disconnect, re-entrant ones included.    *)
RegistryExact ==
  ~fault =>
    /\ \A e \in ConnectedEvents :
         /\ registry[ev[e].funcRef] = ev[e].fn
         /\ registry[ev[e].socketRef] = ev[e].sock
         /\ registry[ev[e].eventRef] = e
    /\ \A d, e \in ConnectedEvents : d # e => Refs(d) \cap Refs(e) = {}
    /\ {r \in Ref : registry[r] \in Value} = UNION {Refs(e) : e \in ConnectedEvents}

CallsBegun ==
  frames # <<>> /\ Len(frames') = Depth /\ Top.running = Nil /\ frames'[Depth].running # Nil

(* Whatever events connect to and disconnect from a socket, from inside       *)
(* handlers as well: Listener begins a function only for an event that is    *)
(* connected to the socket it steps, it is the function that was connected,  *)
(* the event's handlerIndex still leads to the event's own handler, and the  *)
(* walk is as long as there are connected events.  So an event whose index   *)
(* went stale, since one before it was removed, is never called.             *)
OwnHandlerCalled ==
  [][CallsBegun =>
       LET h == sock[Top.sock].handlers
           e == frames'[Depth].event IN
       /\ e \in Connected(Top.sock) /\ frames'[Depth].running = ev[e].fn
       /\ ev[e].idx < Len(h) /\ h[ev[e].idx + 1] = e
       /\ Len(h) = Cardinality(Connected(Top.sock))]_vars

(* A socket is not deleted while one of its events is connected: the event's *)
(* raw pointer to it (EventUserdata::socket) does not dangle.                *)
ConnectedSocketKept ==
  ~closed => \A e \in ConnectedEvents : sock[ev[e].sock].state = "live"

(* The registry anchors every connected event: the collector separates one   *)
(* only if luaC_mark made it white after the registry was traversed.         *)
LostOnlyByMark == [][(doomed' \ doomed) \cap ConnectedEvents \subseteq whitened]_vars
=============================================================================
