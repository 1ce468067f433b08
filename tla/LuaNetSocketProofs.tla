------------------------- MODULE LuaNetSocketProofs -------------------------
(* The registry, the handler tables and the collector keep the promises the  *)
(* bridge makes, for any sockets, events and functions, any number of nested *)
(* listeners and any point at which the collector runs.                      *)
EXTENDS LuaNetSocket, FiniteSetTheorems, SequenceTheorems, TLAPS

(* The free slots form one chain without repetition from slot 0, and with    *)
(* the slots in use they are exactly 1..top.                                 *)
IsChain(t, top, n, fl) ==
  /\ \A i, j \in 1..n : fl[i] = fl[j] => i = j
  /\ t[0] = IF n = 0 THEN Nil ELSE fl[n]
  /\ \A i \in 1..n : t[fl[i]] = IF i = 1 THEN Nil ELSE fl[i - 1]
  /\ \A i \in 1..n : fl[i] <= top
  /\ \A r \in 1..top : t[r] \in Value \/ \E i \in 1..n : fl[i] = r
  /\ \A r \in Ref : r > top => t[r] = Nil

Threaded(t) ==
  /\ t \in [0..MaxRef -> Value \cup {Nil} \cup Ref]
  /\ \E top, n \in 0..MaxRef : \E fl \in [1..n -> Ref] : IsChain(t, top, n, fl)

(* Each reference of a connected event leads to its object, and only they    *)
(* lead to objects.                                                          *)
Exact ==
  /\ \A e \in ConnectedEvents :
       /\ registry[ev[e].funcRef] = ev[e].fn
       /\ registry[ev[e].socketRef] = ev[e].sock
       /\ registry[ev[e].eventRef] = e
  /\ \A d, e \in ConnectedEvents : d # e => Refs(d) \cap Refs(e) = {}
  /\ {r \in Ref : registry[r] \in Value} = UNION {Refs(e) : e \in ConnectedEvents}

(* The userdata map leads to connected events of the socket. *)
MapConnected ==
  \A s \in Socket : LET e == sock[s].userdata IN
    e # Nil => e \in ConnectedEvents /\ ev[e].sock = s

(* What the collector can reach is live, and not about to be finalised. *)
SocketsKept ==
  /\ \A s \in Socket \cap Reachable : sock[s].state = "live" /\ s \notin doomed
  /\ \A s \in Socket \cap doomed : sock[s].state = "live"

(* The handler table has one handler for each connected event (which one may *)
(* be wrong, once an index went stale), and the event the map holds is that  *)
(* of the last: a Disconnect, which makes indexes stale, empties the map.    *)
HandlersCounted(s) ==
  LET h == sock[s].handlers
      e == sock[s].userdata IN
  /\ IsFiniteSet(Connected(s)) /\ Len(h) = Cardinality(Connected(s))
  /\ e # Nil => ev[e].idx + 1 = Len(h) /\ h[Len(h)] = e

State ==
  [state : {"unborn", "live", "deleted"}, handlers : Seq(Event), userdata : Event \cup {Nil}]
Stage == {"unborn", "connected", "disconnected", "finalized"}
EventState ==
  [state : Stage, sock : Socket \cup {Nil}, fn : Function \cup {Nil},
   funcRef : 0..MaxRef, socketRef : 0..MaxRef, eventRef : 0..MaxRef, idx : Nat]
Frame ==
  [sock : Socket, i : Nat, running : Function \cup {Nil}, event : Event \cup {Nil}]

Shape ==
  /\ sock \in [Socket -> State]
  /\ ev \in [Event -> EventState]
  /\ \A e \in ConnectedEvents : ev[e].sock \in Socket /\ ev[e].fn \in Function
                                /\ Refs(e) \subseteq Ref
  /\ frames \in Seq(Frame)
  /\ rooted \subseteq Socket \cup Event /\ lightMt \in Socket \cup {Nil}
  /\ doomed \subseteq Socket \cup Event /\ whitened \subseteq Event
  /\ closed \in BOOLEAN /\ fault \in BOOLEAN
  /\ closed => frames = <<>>

IInv ==
  /\ Shape
  /\ ~fault => Threaded(registry) /\ Exact /\ MapConnected
  /\ CaptureSocket => ConnectedSocketKept
  /\ ~fault /\ ~closed => /\ SocketsKept
                          /\ \A s \in Socket : sock[s].state # "deleted" => HandlersCounted(s)

-----------------------------------------------------------------------------
(* What luaL_ref and luaL_unref do to a table: one slot changes, and the     *)
(* chain of free slots stays whole.                                          *)
Took(t, u, r, v) ==
  /\ r \in Ref /\ t[r] \notin Value /\ u[r] = v
  /\ \A s \in Ref : s # r => u[s] = t[s]
Gave(t, u, r) ==
  /\ u[r] \notin Value
  /\ \A s \in Ref : s # r => u[s] = t[s]

LEMMA NoChain ==
  ASSUME NEW t \in [0..MaxRef -> Value \cup {Nil} \cup Ref], NEW top \in 0..MaxRef,
         NEW fl \in [1..0 -> Ref], IsChain(t, top, 0, fl), NEW r \in NewRef(t)
  PROVE  r = top + 1 /\ r \in Ref /\ FreeHead(t) = 0
<1>1. t[0] = Nil /\ FreeHead(t) = 0
  BY RegistryAssumption DEF FreeHead, IsChain
<1>2. \A s \in 1..top : t[s] # Nil
  BY RegistryAssumption DEF IsChain
<1>3. PICK n \in Border(t) : r = n + 1
  BY <1>1 DEF NewRef
<1>4. n \in 0..MaxRef - 1 /\ t[n + 1] = Nil /\ (n # 0 => t[n] # Nil)
  BY <1>3 DEF Border
<1>5. \A s \in Ref : s > top => t[s] = Nil
  BY DEF IsChain
<1>6. n = top
  BY <1>2, <1>4, <1>5, RegistryAssumption DEF Ref
<1> QED
  BY <1>1, <1>3, <1>4, <1>6, RegistryAssumption DEF Ref

(* luaL_ref takes a slot that was not in use. *)
LEMMA StoredTakes ==
  ASSUME NEW t, Threaded(t), NEW v \in Value, NEW r \in NewRef(t)
  PROVE  Threaded(Stored(t, r, v)) /\ Took(t, Stored(t, r, v), r, v)
<1> DEFINE u == Stored(t, r, v)
<1>1. t \in [0..MaxRef -> Value \cup {Nil} \cup Ref]
  BY DEF Threaded
<1>2. PICK top \in 0..MaxRef, n \in 0..MaxRef :
             \E fl \in [1..n -> Ref] : IsChain(t, top, n, fl)
  BY DEF Threaded
<1>3. PICK fl \in [1..n -> Ref] : IsChain(t, top, n, fl)
  BY <1>2
<1>4. CASE n = 0
  <2>1. fl \in [1..0 -> Ref] /\ IsChain(t, top, 0, fl)
    BY <1>3, <1>4
  <2>2. r = top + 1 /\ r \in Ref /\ FreeHead(t) = 0
    BY <1>1, <2>1, NoChain
  <2>3. u = [t EXCEPT ![r] = v]
    BY <2>2 DEF Stored
  <2>4. t[r] = Nil
    BY <2>1, <2>2, RegistryAssumption DEF IsChain, Ref
  <2> HIDE DEF u
  <2>5. u \in [0..MaxRef -> Value \cup {Nil} \cup Ref]
    BY <1>1, <2>2, <2>3 DEF Ref
  <2>6. u[r] = v /\ \A s \in Ref : s # r => u[s] = t[s]
    BY <1>1, <2>2, <2>3, RegistryAssumption DEF Ref
  <2>7. u[0] = t[0]
    BY <1>1, <2>2, <2>3, RegistryAssumption DEF Ref
  <2>8. IsChain(u, r, 0, fl)
    <3>1. u[0] = Nil
      BY <2>1, <2>7 DEF IsChain
    <3>2. \A s \in 1..r : u[s] \in Value
      BY <2>1, <2>2, <2>6, RegistryAssumption DEF IsChain, Ref
    <3>3. \A s \in Ref : s > r => u[s] = Nil
      BY <2>1, <2>2, <2>6, RegistryAssumption DEF IsChain, Ref
    <3> QED
      BY <3>1, <3>2, <3>3 DEF IsChain
  <2>9. r \in 0..MaxRef /\ 0 \in 0..MaxRef
    BY <2>2, RegistryAssumption DEF Ref
  <2>10. Threaded(u)
    BY <2>1, <2>5, <2>8, <2>9 DEF Threaded
  <2>11. Took(t, u, r, v)
    BY <2>2, <2>4, <2>6, RegistryAssumption DEF Took
  <2> QED
    BY <2>10, <2>11 DEF u
<1>5. CASE n # 0
  <2>1. n \in 1..MaxRef /\ n \in 1..n
    BY <1>5
  <2>2. t[0] = fl[n] /\ fl[n] \in Ref
    BY <1>3, <2>1 DEF IsChain
  <2>3. FreeHead(t) = fl[n] /\ fl[n] # 0
    BY <2>2, RegistryAssumption DEF FreeHead, Ref
  <2>4. r = fl[n] /\ r \in Ref /\ r # 0
    BY <2>2, <2>3 DEF NewRef
  <2>5. u = [t EXCEPT ![0] = t[r], ![r] = v]
    BY <2>3 DEF Stored
  <2>6. t[r] = IF n = 1 THEN Nil ELSE fl[n - 1]
    BY <1>3, <2>1, <2>4 DEF IsChain
  <2>7. t[r] \in {Nil} \cup Ref
    BY <2>1, <2>6
  <2>8. 0 \in 0..MaxRef /\ r \in 0..MaxRef
    BY <2>4, RegistryAssumption DEF Ref
  <2>9. u \in [0..MaxRef -> Value \cup {Nil} \cup Ref]
    BY <1>1, <2>5, <2>7, <2>8
  <2>10. u[r] = v /\ u[0] = t[r]
    BY <1>1, <2>4, <2>5, <2>8
  <2>11. \A s \in Ref : s # r => u[s] = t[s]
    BY <1>1, <2>5, RegistryAssumption DEF Ref
  <2> DEFINE m == n - 1
             gl == [i \in 1..m |-> fl[i]]
  <2>12. m \in 0..MaxRef /\ gl \in [1..m -> Ref]
    BY <2>1, RegistryAssumption
  <2> HIDE DEF u
  <2>13. IsChain(u, top, m, gl)
    <3>1. \A i, j \in 1..m : gl[i] = gl[j] => i = j
      BY <1>3, <2>1 DEF IsChain
    <3>2. \A i \in 1..m : gl[i] = fl[i] /\ gl[i] # r /\ gl[i] \in Ref /\ i \in 1..n
      BY <1>3, <2>1, <2>4, <2>12 DEF IsChain
    <3>3. u[0] = IF m = 0 THEN Nil ELSE gl[m]
      BY <2>1, <2>6, <2>10
    <3>4. \A i \in 1..m : u[gl[i]] = t[fl[i]]
      BY <2>11, <3>2
    <3>5. \A i \in 1..m : u[gl[i]] = IF i = 1 THEN Nil ELSE gl[i - 1]
      BY <1>3, <2>1, <3>2, <3>4 DEF IsChain
    <3>6. \A i \in 1..m : gl[i] <= top
      BY <1>3, <3>2 DEF IsChain
    <3>7. \A s \in 1..top : u[s] \in Value \/ \E i \in 1..m : gl[i] = s
      <4> SUFFICES ASSUME NEW s \in 1..top, u[s] \notin Value
                   PROVE  \E i \in 1..m : gl[i] = s
        OBVIOUS
      <4>1. s \in Ref /\ s # r /\ t[s] \notin Value
        BY <2>10, <2>11, RegistryAssumption DEF Ref
      <4>2. PICK i \in 1..n : fl[i] = s
        BY <1>3, <4>1 DEF IsChain
      <4>3. i # n
        BY <2>4, <4>1, <4>2
      <4> QED
        BY <2>1, <4>2, <4>3
    <3>8. \A s \in Ref : s > top => u[s] = Nil
      <4>1. r <= top
        BY <1>3, <2>1, <2>4 DEF IsChain
      <4> QED
        BY <1>3, <2>11, <4>1, RegistryAssumption DEF IsChain, Ref
    <3> QED
      BY <3>1, <3>3, <3>5, <3>6, <3>7, <3>8 DEF IsChain
  <2> HIDE DEF m, gl
  <2>14. Threaded(u)
    BY <2>9, <2>12, <2>13 DEF Threaded
  <2>15. Took(t, u, r, v)
    BY <2>4, <2>7, <2>10, <2>11, RegistryAssumption DEF Took, Ref
  <2> QED
    BY <2>14, <2>15 DEF u
<1> QED
  BY <1>4, <1>5

(* luaL_unref of a slot in use frees that slot and no other. *)
LEMMA UnreferencedGives ==
  ASSUME NEW t, Threaded(t), NEW r \in Ref, t[r] \in Value
  PROVE  Threaded(Unreferenced(t, r)) /\ Gave(t, Unreferenced(t, r), r)
<1> DEFINE u == Unreferenced(t, r)
<1>1. t \in [0..MaxRef -> Value \cup {Nil} \cup Ref]
  BY DEF Threaded
<1>2. PICK top \in 0..MaxRef, n \in 0..MaxRef :
             \E fl \in [1..n -> Ref] : IsChain(t, top, n, fl)
  BY DEF Threaded
<1>3. PICK fl \in [1..n -> Ref] : IsChain(t, top, n, fl)
  BY <1>2
<1>4. r # 0 /\ r \in 0..MaxRef /\ 0 \in 0..MaxRef /\ r >= 0 /\ r \in Nat
  BY RegistryAssumption DEF Ref
<1>5. u = [t EXCEPT ![r] = t[0], ![0] = r]
  BY <1>4 DEF Unreferenced
<1>6. t[0] \in {Nil} \cup Ref
  BY <1>3 DEF IsChain
<1>7. u \in [0..MaxRef -> Value \cup {Nil} \cup Ref]
  BY <1>1, <1>4, <1>5, <1>6
<1>8. u[0] = r /\ u[r] = t[0]
  BY <1>1, <1>4, <1>5
<1>9. \A s \in Ref : s # r => u[s] = t[s]
  BY <1>1, <1>5, RegistryAssumption DEF Ref
<1> HIDE DEF u
<1>10. \A i \in 1..n : fl[i] # r /\ fl[i] \in Ref
  BY <1>3, RegistryAssumption DEF IsChain, Ref
<1>11. r <= top
  <2>1. \A s \in Ref : s > top => t[s] \notin Value
    BY <1>3, RegistryAssumption DEF IsChain
  <2> QED
    BY <1>4, <2>1
<1> DEFINE m == n + 1
           gl == [i \in 1..m |-> IF i = m THEN r ELSE fl[i]]
<1>12. m \in 0..MaxRef
  (* n distinct slots differ from r, so n < MaxRef. *)
  <2>1. n # MaxRef
    <3> SUFFICES ASSUME n = MaxRef PROVE FALSE
      OBVIOUS
    <3>1. fl \in Injection(Ref, Ref)
      BY <1>3 DEF IsChain, Injection, IsInjective, Ref
    <3>2. IsFiniteSet(Ref)
      BY FS_Interval, RegistryAssumption DEF Ref
    <3>3. fl \in Surjection(Ref, Ref)
      BY <3>1, <3>2, FS_Injection
    <3> QED
      BY <1>10, <3>3 DEF Surjection, Ref
  <2> QED
    BY <2>1, RegistryAssumption
<1>13. gl \in [1..m -> Ref]
  BY <1>10, RegistryAssumption DEF Ref
<1>14. IsChain(u, top, m, gl)
  <2>1. \A i \in 1..n : gl[i] = fl[i]
    OBVIOUS
  <2>2. gl[m] = r
    OBVIOUS
  <2>3. \A i, j \in 1..m : gl[i] = gl[j] => i = j
    BY <1>3, <1>10, <2>1, <2>2 DEF IsChain
  <2>4. u[0] = IF m = 0 THEN Nil ELSE gl[m]
    BY <1>8, <2>2
  <2>5. \A i \in 1..m : u[gl[i]] = IF i = 1 THEN Nil ELSE gl[i - 1]
    <3>1. u[gl[m]] = IF m = 1 THEN Nil ELSE gl[m - 1]
      BY <1>3, <1>8, <2>1, <2>2 DEF IsChain
    <3>2. \A i \in 1..n : u[gl[i]] = IF i = 1 THEN Nil ELSE gl[i - 1]
      BY <1>3, <1>9, <1>10, <2>1 DEF IsChain
    <3>3. \A i \in 1..m : i = m \/ i \in 1..n
      BY RegistryAssumption
    <3> QED
      BY <3>1, <3>2, <3>3
  <2>6. \A i \in 1..m : gl[i] <= top
    BY <1>3, <1>11, <2>1, <2>2 DEF IsChain
  <2>7. \A s \in 1..top : u[s] \in Value \/ \E i \in 1..m : gl[i] = s
    <3> SUFFICES ASSUME NEW s \in 1..top, u[s] \notin Value
                 PROVE  \E i \in 1..m : gl[i] = s
      OBVIOUS
    <3>1. CASE s = r
      BY <2>2, <3>1
    <3>2. CASE s # r
      <4>1. s \in Ref /\ t[s] \notin Value
        BY <1>9, <3>2, RegistryAssumption DEF Ref
      <4>2. PICK i \in 1..n : fl[i] = s
        BY <1>3, <4>1 DEF IsChain
      <4> QED
        BY <2>1, <4>2
    <3> QED
      BY <3>1, <3>2
  <2>8. \A s \in Ref : s > top => u[s] = Nil
    BY <1>3, <1>9, <1>11, RegistryAssumption DEF IsChain, Ref
  <2> HIDE DEF m, gl
  <2> QED
    BY <2>3, <2>4, <2>5, <2>6, <2>7, <2>8 DEF IsChain
<1> HIDE DEF m, gl
<1>15. Threaded(u)
  BY <1>7, <1>12, <1>13, <1>14 DEF Threaded
<1>16. u[r] \notin Value
  BY <1>6, <1>8, RegistryAssumption DEF Ref
<1>17. Gave(t, u, r)
  BY <1>9, <1>16 DEF Gave
<1> QED
  BY <1>15, <1>17 DEF u

LEMMA ThreadedKept ==
  ASSUME registry' = registry, Threaded(registry)
  PROVE  Threaded(registry)'
<1>1. registry' \in [0..MaxRef -> Value \cup {Nil} \cup Ref]
  BY DEF Threaded
<1>2. PICK top \in 0..MaxRef, n \in 0..MaxRef :
             \E fl \in [1..n -> Ref] : IsChain(registry, top, n, fl)
  BY DEF Threaded
<1>3. PICK fl \in [1..n -> Ref] : IsChain(registry, top, n, fl)
  BY <1>2
<1>4. IsChain(registry', top, n, fl)
  BY <1>3
<1> QED
  BY <1>1, <1>4 DEF Threaded

LEMMA EventMoved ==
  ASSUME NEW e \in Event, NEW q \in Stage, ev \in [Event -> EventState]
  PROVE  [ev EXCEPT ![e].state = q] \in [Event -> EventState]
<1>1. [ev[e] EXCEPT !.state = q] \in EventState
  BY DEF EventState
<1> QED
  BY <1>1

LEMMA EmptyThreaded == Threaded(EmptyTable)
<1>1. EmptyTable \in [0..MaxRef -> Value \cup {Nil} \cup Ref]
  BY DEF EmptyTable
<1>2. [i \in 1..0 |-> 1] \in [1..0 -> Ref]
  BY RegistryAssumption DEF Ref
<1>3. IsChain(EmptyTable, 0, 0, [i \in 1..0 |-> 1])
  BY RegistryAssumption DEF IsChain, EmptyTable, Ref
<1>4. 0 \in 0..MaxRef
  BY RegistryAssumption
<1> QED
  BY <1>1, <1>2, <1>3, <1>4 DEF Threaded

-----------------------------------------------------------------------------
(* The steps of listeners, of the collector and of variables leave the       *)
(* registry, the handler tables and the events alone.                        *)
Quiet == ~fault /\ UNCHANGED <<registry, sock, ev, closed>>

(* What the collector can reach that is a socket. *)
LEMMA Anchors ==
  \A s \in Socket : s \in Reachable <=>
     \/ s \in rooted \/ s = lightMt
     \/ \E k \in DOMAIN frames : frames[k].sock = s
     \/ CaptureSocket /\ \E e \in Closures : ev[e].sock = s
  BY LuaNetSocketAssumption DEF Reachable, Stepped, Captured

LEMMA QuietIInv ==
  ASSUME IInv, Quiet, Shape', ~closed => SocketsKept'
  PROVE  IInv'
<1>1. ConnectedEvents' = ConnectedEvents /\ \A e \in Event : Refs(e)' = Refs(e)
  BY DEF Quiet, ConnectedEvents, Refs
<1>2. Threaded(registry)' /\ Exact' /\ MapConnected'
  <2>1. Threaded(registry) /\ Exact /\ MapConnected
    BY DEF IInv, Quiet
  <2>2. Threaded(registry)'
    BY <2>1, ThreadedKept DEF Quiet
  <2>3. Exact'
    BY <1>1, <2>1 DEF Exact, Quiet, ConnectedEvents, Refs
  <2>4. MapConnected'
    BY <1>1, <2>1 DEF MapConnected, Quiet
  <2> QED
    BY <2>2, <2>3, <2>4
<1>3. ConnectedSocketKept => ConnectedSocketKept'
  BY <1>1 DEF ConnectedSocketKept, Quiet
<1>4. \A s \in Socket : HandlersCounted(s) => HandlersCounted(s)'
  BY DEF HandlersCounted, Quiet, Connected
<1>5. closed' = closed /\ ~fault
  BY DEF Quiet
<1>6. sock' = sock
  BY DEF Quiet
<1> QED
  BY <1>2, <1>3, <1>4, <1>5, <1>6 DEF IInv

(* A step after which the collector reaches no other socket, and is about to *)
(* finalise no other one.                                                    *)
LEMMA QuietKept ==
  ASSUME SocketsKept, Quiet, Socket \cap Reachable' \subseteq Reachable,
         Socket \cap doomed' \subseteq doomed
  PROVE  SocketsKept'
  BY DEF SocketsKept, Quiet

LEMMA FrameTop ==
  ASSUME frames \in Seq(Frame), frames # <<>>
  PROVE  Depth \in 1..Len(frames) /\ Top \in Frame
  BY ElementOfSeq DEF Depth, Top

(* Replacing the innermost frame. *)
LEMMA FrameChanged ==
  ASSUME frames \in Seq(Frame), frames # <<>>, NEW g \in Frame,
         frames' = [frames EXCEPT ![Depth] = g]
  PROVE  /\ frames' \in Seq(Frame) /\ Len(frames') = Len(frames)
         /\ DOMAIN frames' = DOMAIN frames /\ Depth \in DOMAIN frames
         /\ \A k \in DOMAIN frames : k # Depth => frames'[k] = frames[k]
         /\ frames'[Depth] = g
<1>1. Depth \in 1..Len(frames)
  BY FrameTop
<1>2. /\ frames' \in Seq(Frame) /\ Len(frames') = Len(frames)
      /\ \A k \in 1..Len(frames) : frames'[k] = IF k = Depth THEN g ELSE frames[k]
  BY <1>1, ExceptSeq
<1> QED
  BY <1>1, <1>2

LEMMA DropIInv ==
  ASSUME IInv, NEW o \in Socket \cup Event, Drop(o)
  PROVE  IInv'
<1>1. Quiet
  BY DEF Drop, LuaRuns, heap, collector, Quiet
<1>2. Shape'
  BY DEF Drop, IInv, Shape, heap, collector, ConnectedEvents, Refs
<1>3. SocketsKept => SocketsKept'
  <2>1. rooted' \subseteq rooted /\ UNCHANGED <<frames, lightMt, ev, registry, doomed>>
    BY DEF Drop, heap, collector
  <2>2. Closures' = Closures
    BY <2>1 DEF Closures
  <2>3. Socket \cap Reachable' \subseteq Reachable
    BY <2>1, <2>2 DEF Reachable, Stepped, Captured, InRegistry
  <2> QED
    BY <1>1, <2>1, <2>3, QuietKept
<1> QED
  BY <1>1, <1>2, <1>3, QuietIInv DEF IInv, Quiet

LEMMA OnRecieveIInv ==
  ASSUME IInv, NEW s \in Socket, OnRecieve(s)
  PROVE  IInv'
<1>1. Quiet
  BY DEF OnRecieve, LuaRuns, heap, collector, Quiet
<1>2. Shape'
  BY DEF OnRecieve, IInv, Shape, heap, collector, ConnectedEvents, Refs
<1>3. SocketsKept => SocketsKept'
  <2>1. /\ lightMt' = s /\ s \in rooted
        /\ UNCHANGED <<frames, rooted, ev, registry, doomed>>
    BY DEF OnRecieve, heap, collector
  <2>2. Closures' = Closures
    BY <2>1 DEF Closures
  <2>3. Socket \cap Reachable' \subseteq Reachable
    BY <2>1, <2>2 DEF Reachable, Stepped, Captured, InRegistry
  <2> QED
    BY <1>1, <2>1, <2>3, QuietKept
<1> QED
  BY <1>1, <1>2, <1>3, QuietIInv DEF IInv, Quiet

LEMMA StepListenerIInv ==
  ASSUME IInv, NEW s \in Socket, StepListener(s)
  PROVE  IInv'
<1> DEFINE g == [sock |-> s, i |-> 0, running |-> Nil, event |-> Nil]
<1>1. Quiet
  BY DEF StepListener, LuaRuns, heap, collector, Quiet
<1>2. /\ frames' = Append(frames, g) /\ s \in rooted /\ ~closed
      /\ UNCHANGED <<rooted, lightMt, ev, registry, doomed, whitened>>
  BY DEF StepListener, LuaRuns, heap, collector
<1>3. frames \in Seq(Frame) /\ g \in Frame
  BY DEF IInv, Shape, Frame
<1>4. /\ frames' \in Seq(Frame) /\ frames' # <<>>
      /\ DOMAIN frames' = 1..Len(frames) + 1 /\ DOMAIN frames = 1..Len(frames)
      /\ \A k \in DOMAIN frames' : frames'[k] = IF k \in DOMAIN frames THEN frames[k] ELSE g
  BY <1>2, <1>3
<1>5. Shape'
  BY <1>1, <1>2, <1>4 DEF IInv, Shape, ConnectedEvents, Refs, Quiet, StepListener
<1>6. SocketsKept => SocketsKept'
  <2>1. \A k \in DOMAIN frames' :
          frames'[k].event \in Event =>
            k \in DOMAIN frames /\ frames'[k] = frames[k]
    BY <1>4, RegistryAssumption, LuaNetSocketAssumption
  <2>2. Closures' \subseteq Closures
    BY <1>2, <2>1 DEF Closures
  <2>3. Stepped' \subseteq Stepped \cup {s}
    BY <1>4 DEF Stepped
  <2>4. Socket \cap Reachable' \subseteq Reachable
    BY <1>2, <2>2, <2>3 DEF Reachable, Captured, InRegistry
  <2> QED
    BY <1>1, <1>2, <2>4, QuietKept
<1> QED
  BY <1>1, <1>5, <1>6, QuietIInv DEF IInv, Quiet

LEMMA EventHandlerIInv ==
  ASSUME IInv, EventHandler
  PROVE  IInv'
<1> DEFINE ud == sock[Top.sock].userdata
           fn == registry[ev[ud].funcRef]
           marked == registry[ev[ud].eventRef]
<1>1. Quiet
  BY DEF EventHandler, AtHandler, Dispatching, Quiet
<1>2. /\ UNCHANGED <<rooted, lightMt, doomed>> /\ frames # <<>>
      /\ whitened' \subseteq Event /\ fault' \in BOOLEAN
  BY DEF EventHandler, AtHandler, Dispatching, MarkHarm, heap, IInv, Shape
<1>3. frames \in Seq(Frame) /\ Top \in Frame /\ ~fault /\ MapConnected /\ ~closed
  BY <1>1, <1>2, FrameTop DEF IInv, Shape, Quiet
<1>4. PICK g \in Frame : /\ frames' = [frames EXCEPT ![Depth] = g] /\ g.sock = Top.sock
                         /\ g.event \in {Top.event, ud} /\ (g.event = ud => ud # Nil \/ ud = Top.event)
  <2>1. CASE frames' = [frames EXCEPT ![Depth].i = @ + 1]
    <3> DEFINE g == [Top EXCEPT !.i = @ + 1]
    <3>1. g \in Frame /\ g.sock = Top.sock /\ g.event = Top.event
      <4>1. Top.i + 1 \in Nat
        BY <1>3 DEF Frame
      <4>2. \A n \in Nat : LET h == [Top EXCEPT !.i = n] IN
              h \in Frame /\ h.sock = Top.sock /\ h.event = Top.event
        BY <1>3 DEF Frame
      <4> QED
        BY <4>1, <4>2
    <3>2. frames' = [frames EXCEPT ![Depth] = g]
      BY <2>1 DEF Top
    <3> QED
      BY <3>1, <3>2
  <2>2. CASE /\ ud # Nil /\ fn \in Function
             /\ frames' = [frames EXCEPT ![Depth].running = fn, ![Depth].event = ud]
    <3> DEFINE g == [Top EXCEPT !.running = fn, !.event = ud]
    <3>1. ud \in Event
      BY <1>3, <2>2 DEF Frame, IInv, Shape, State
    <3>2. g \in Frame /\ g.sock = Top.sock /\ g.event = ud
      BY <1>3, <2>2, <3>1 DEF Frame
    <3>3. frames' = [frames EXCEPT ![Depth] = g]
      BY <1>3, <2>2, FrameTop DEF Top
    <3> QED
      BY <2>2, <3>2, <3>3
  <2> QED
    BY <2>1, <2>2 DEF EventHandler
<1>5. /\ frames' \in Seq(Frame) /\ DOMAIN frames' = DOMAIN frames /\ Depth \in DOMAIN frames
      /\ \A k \in DOMAIN frames : k # Depth => frames'[k] = frames[k]
      /\ frames'[Depth] = g
  BY <1>2, <1>3, <1>4, FrameChanged
<1>6. Shape'
  BY <1>1, <1>2, <1>3, <1>5 DEF IInv, Shape, ConnectedEvents, Refs, Quiet
<1>7. SocketsKept => SocketsKept'
  <2>1. Exact
    BY <1>3 DEF IInv
  <2>2. Closures' \subseteq Closures
    <3> SUFFICES ASSUME NEW k \in DOMAIN frames', NEW e \in Event, frames'[k].event = e
                 PROVE  e \in Closures
      BY <1>1 DEF Closures, Quiet
    <3>1. CASE k # Depth
      BY <1>5, <3>1 DEF Closures
    <3>2. CASE k = Depth /\ e = Top.event
      BY <1>5, <3>2 DEF Closures, Top
    <3>3. CASE k = Depth /\ e # Top.event
      <4>1. e = ud /\ ud # Nil
        BY <1>4, <1>5, <3>3, RegistryAssumption, LuaNetSocketAssumption
      <4>2. Top.sock \in Socket
        BY <1>3 DEF Frame
      <4>3. ud \in ConnectedEvents
        BY <1>3, <4>1, <4>2 DEF MapConnected
      <4> QED
        BY <2>1, <4>1, <4>3 DEF Exact, Closures, ConnectedEvents
    <3> QED
      BY <3>1, <3>2, <3>3
  <2>3. Stepped' \subseteq Stepped
    <3>1. \A k \in DOMAIN frames : frames'[k].sock = frames[k].sock
      BY <1>4, <1>5 DEF Top
    <3> QED
      BY <1>5, <3>1 DEF Stepped
  <2>4. Socket \cap Reachable' \subseteq Reachable
    BY <1>1, <1>2, <2>2, <2>3 DEF Reachable, Captured, InRegistry, Quiet
  <2> QED
    BY <1>1, <1>2, <2>4, QuietKept
<1> QED
  BY <1>1, <1>3, <1>6, <1>7, QuietIInv DEF IInv, Quiet

LEMMA HandlerReturnIInv ==
  ASSUME IInv, HandlerReturn
  PROVE  IInv'
<1> DEFINE g == [Top EXCEPT !.running = Nil, !.event = Nil, !.i = @ + 1]
<1>1. Quiet
  BY DEF HandlerReturn, Quiet
<1>2. /\ UNCHANGED <<rooted, lightMt, ev, registry, doomed, whitened, fault>> /\ frames # <<>>
      /\ ~fault
  BY DEF HandlerReturn, heap, collector
<1>3. frames \in Seq(Frame) /\ Top \in Frame /\ ~closed
  BY <1>2, FrameTop DEF IInv, Shape
<1>4. g \in Frame /\ g.sock = Top.sock /\ g.event = Nil
  <2>1. Top.i + 1 \in Nat
    BY <1>3 DEF Frame
  <2>2. \A n \in Nat : LET h == [Top EXCEPT !.running = Nil, !.event = Nil, !.i = n] IN
          h \in Frame /\ h.sock = Top.sock /\ h.event = Nil
    BY <1>3 DEF Frame
  <2> QED
    BY <2>1, <2>2
<1>5. frames' = [frames EXCEPT ![Depth] = g]
  BY <1>2, <1>3, FrameTop DEF HandlerReturn, Top
<1> HIDE DEF g
<1>6. /\ frames' \in Seq(Frame) /\ DOMAIN frames' = DOMAIN frames /\ Depth \in DOMAIN frames
      /\ \A k \in DOMAIN frames : k # Depth => frames'[k] = frames[k]
      /\ frames'[Depth] = g
  BY <1>2, <1>3, <1>4, <1>5, FrameChanged
<1>7. Shape'
  BY <1>1, <1>2, <1>3, <1>6 DEF IInv, Shape, ConnectedEvents, Refs, Quiet
<1>8. SocketsKept => SocketsKept'
  <2>1. \A k \in DOMAIN frames' : frames'[k].event \in Event => frames'[k] = frames[k]
    BY <1>4, <1>6, RegistryAssumption, LuaNetSocketAssumption
  <2>2. Closures' \subseteq Closures
    BY <1>2, <1>6, <2>1 DEF Closures
  <2>3. Stepped' \subseteq Stepped
    <3>1. \A k \in DOMAIN frames : frames'[k].sock = frames[k].sock
      BY <1>4, <1>6 DEF Top
    <3> QED
      BY <1>6, <3>1 DEF Stepped
  <2>4. Socket \cap Reachable' \subseteq Reachable
    BY <1>2, <2>2, <2>3 DEF Reachable, Captured, InRegistry
  <2> QED
    BY <1>1, <1>2, <2>4, QuietKept
<1> QED
  BY <1>1, <1>2, <1>3, <1>7, <1>8, QuietIInv DEF IInv

LEMMA ListenerReturnIInv ==
  ASSUME IInv, ListenerReturn
  PROVE  IInv'
<1>1. Quiet
  BY DEF ListenerReturn, Dispatching, Quiet
<1>2. /\ UNCHANGED <<rooted, lightMt, ev, registry, doomed, whitened, fault>> /\ frames # <<>>
      /\ ~fault /\ frames' = Front(frames)
  BY DEF ListenerReturn, Dispatching, heap, collector
<1>3. frames \in Seq(Frame) /\ Len(frames) \in Nat \ {0} /\ ~closed
  BY <1>2, EmptySeq DEF IInv, Shape
<1>4. /\ frames' \in Seq(Frame) /\ DOMAIN frames' \subseteq DOMAIN frames
      /\ \A k \in DOMAIN frames' : frames'[k] = frames[k]
  <2> DEFINE n == Len(frames) - 1
  <2>1. frames' = SubSeq(frames, 1, n) /\ n \in Nat /\ n \in Int /\ 1 \in Int
    BY <1>2, <1>3 DEF Front
  <2>2. \A k \in 1..n : frames[k] \in Frame
    BY <1>3, ElementOfSeq
  <2> HIDE DEF n
  <2>3. /\ frames' \in Seq(Frame) /\ Len(frames') = IF 1 <= n THEN n - 1 + 1 ELSE 0
        /\ \A k \in 1..n - 1 + 1 : frames'[k] = frames[1 + k - 1]
    BY <2>1, <2>2, SubSeqProperties
  <2>4. Len(frames') = n /\ DOMAIN frames' = 1..n
    BY <2>1, <2>3
  <2>5. \A k \in 1..n : frames'[k] = frames[k]
    BY <2>1, <2>3
  <2>6. 1..n \subseteq DOMAIN frames
    BY <1>3, <2>1 DEF n
  <2> QED
    BY <2>3, <2>4, <2>5, <2>6
<1>5. Shape'
  BY <1>1, <1>2, <1>3, <1>4 DEF IInv, Shape, ConnectedEvents, Refs, Quiet
<1>6. SocketsKept => SocketsKept'
  <2>1. Closures' \subseteq Closures
    BY <1>2, <1>4 DEF Closures
  <2>2. Stepped' \subseteq Stepped
    BY <1>4 DEF Stepped
  <2>3. Socket \cap Reachable' \subseteq Reachable
    BY <1>2, <2>1, <2>2 DEF Reachable, Captured, InRegistry
  <2> QED
    BY <1>1, <1>2, <2>3, QuietKept
<1> QED
  BY <1>1, <1>2, <1>3, <1>5, <1>6, QuietIInv DEF IInv

LEMMA MarkIInv ==
  ASSUME IInv, Mark \/ EndCycle
  PROVE  IInv'
<1>1. Quiet
  BY DEF Mark, EndCycle, Quiet
<1>2. UNCHANGED <<rooted, lightMt, ev, registry, doomed, whitened, fault, frames, closed>>
  BY DEF Mark, EndCycle, heap
<1>3. Shape'
  BY <1>1, <1>2 DEF IInv, Shape, ConnectedEvents, Refs, Quiet
<1>4. SocketsKept => SocketsKept'
  <2>1. Reachable' = Reachable
    BY <1>2 DEF Reachable, Captured, Closures, InRegistry, Stepped
  <2> QED
    BY <1>1, <1>2, <2>1, QuietKept
<1> QED
  BY <1>1, <1>2, <1>3, <1>4, QuietIInv DEF IInv, Quiet

(* The collector separates no socket it can reach, and no deleted one. *)
LEMMA AtomicIInv ==
  ASSUME IInv, Atomic
  PROVE  IInv'
<1>1. Quiet
  BY DEF Atomic, Quiet
<1>2. /\ UNCHANGED <<rooted, lightMt, ev, registry, fault, frames, closed>>
      /\ whitened' = {} /\ doomed' \subseteq (Userdata \ Reachable) \cup whitened
  BY DEF Atomic, heap
<1>3. /\ doomed' \subseteq Socket \cup Event
      /\ \A s \in Socket \cap doomed' : s \notin Reachable /\ sock[s].state = "live"
  BY <1>2, LuaNetSocketAssumption DEF IInv, Shape, Userdata
<1>4. Shape'
  BY <1>1, <1>2, <1>3 DEF IInv, Shape, ConnectedEvents, Refs, Quiet
<1>5. SocketsKept => SocketsKept'
  <2>1. Reachable' = Reachable
    BY <1>2 DEF Reachable, Captured, Closures, InRegistry, Stepped
  <2> QED
    BY <1>1, <1>3, <2>1 DEF SocketsKept, Quiet
<1> QED
  BY <1>1, <1>4, <1>5, QuietIInv DEF IInv, Quiet

-----------------------------------------------------------------------------
(* The three references Connect takes. *)
LEMMA ThreeTaken ==
  ASSUME NEW t, Threaded(t), NEW a \in Value, NEW b \in Value, NEW c \in Value,
         NEW f \in NewRef(t), NEW l \in NewRef(Stored(t, f, a)),
         NEW x \in NewRef(Stored(Stored(t, f, a), l, b)),
         NEW u, u = Stored(Stored(Stored(t, f, a), l, b), x, c)
  PROVE  /\ Threaded(u)
         /\ {f, l, x} \subseteq Ref /\ f # l /\ f # x /\ l # x
         /\ t[f] \notin Value /\ t[l] \notin Value /\ t[x] \notin Value
         /\ u[f] = a /\ u[l] = b /\ u[x] = c
         /\ \A r \in Ref : r \notin {f, l, x} => u[r] = t[r]
<1> DEFINE t1 == Stored(t, f, a)
           t2 == Stored(t1, l, b)
           t3 == Stored(t2, x, c)
<1>1. Threaded(t1) /\ Took(t, t1, f, a)
  BY StoredTakes
<1>2. u = t3 /\ l \in NewRef(t1) /\ x \in NewRef(t2)
  OBVIOUS
<1> HIDE DEF t1
<1>3. Threaded(t2) /\ Took(t1, t2, l, b)
  BY <1>1, <1>2, StoredTakes
<1> HIDE DEF t2
<1>4. Threaded(t3) /\ Took(t2, t3, x, c)
  BY <1>2, <1>3, StoredTakes
<1> HIDE DEF t3
<1> QED
  BY <1>1, <1>2, <1>3, <1>4 DEF Took

(* The three references Disconnect gives back. *)
LEMMA ThreeGiven ==
  ASSUME NEW t, Threaded(t), NEW f \in Ref, NEW l \in Ref, NEW x \in Ref,
         f # l, f # x, l # x, t[f] \in Value, t[l] \in Value, t[x] \in Value,
         NEW u, u = Unreferenced(Unreferenced(Unreferenced(t, f), l), x)
  PROVE  /\ Threaded(u)
         /\ \A r \in {f, l, x} : u[r] \notin Value
         /\ \A r \in Ref : r \notin {f, l, x} => u[r] = t[r]
<1> DEFINE t1 == Unreferenced(t, f)
           t2 == Unreferenced(t1, l)
           t3 == Unreferenced(t2, x)
<1>1. Threaded(t1) /\ Gave(t, t1, f)
  BY UnreferencedGives
<1>2. u = t3
  OBVIOUS
<1> HIDE DEF t1
<1>3. t1[l] \in Value
  BY <1>1 DEF Gave
<1>4. Threaded(t2) /\ Gave(t1, t2, l)
  BY <1>1, <1>3, UnreferencedGives
<1> HIDE DEF t2
<1>5. t2[x] \in Value
  BY <1>1, <1>4 DEF Gave
<1>6. Threaded(t3) /\ Gave(t2, t3, x)
  BY <1>4, <1>5, UnreferencedGives
<1> HIDE DEF t3
<1> QED
  BY <1>1, <1>2, <1>4, <1>6 DEF Gave

LEMMA NewIInv ==
  ASSUME IInv, NEW s \in Socket, New(s)
  PROVE  IInv'
<1>1. /\ ~fault /\ ~closed /\ sock[s].state = "unborn" /\ rooted' = rooted \cup {s}
      /\ sock' = [sock EXCEPT ![s].state = "live"]
      /\ UNCHANGED <<registry, ev, lightMt, frames, doomed, whitened, fault, closed>>
  BY DEF New, LuaRuns, collector
<1>2. sock \in [Socket -> State]
  BY DEF IInv, Shape
<1>3. sock' \in [Socket -> State]
  BY <1>1, <1>2 DEF State
<1>4. /\ \A x \in Socket : sock'[x].handlers = sock[x].handlers /\ sock'[x].userdata = sock[x].userdata
      /\ \A x \in Socket : x # s => sock'[x].state = sock[x].state
      /\ sock'[s].state = "live"
  BY <1>1, <1>2 DEF State
<1>5. Shape'
  BY <1>1, <1>3 DEF IInv, Shape, ConnectedEvents, Refs
<1>6. ConnectedEvents' = ConnectedEvents /\ \A e \in Event : Refs(e)' = Refs(e)
  BY <1>1 DEF ConnectedEvents, Refs
<1>7. Threaded(registry) /\ Exact /\ MapConnected
  BY <1>1 DEF IInv
<1>8. Threaded(registry)'
  BY <1>1, <1>7, ThreadedKept
<1>9. Exact'
  BY <1>1, <1>6, <1>7 DEF Exact, ConnectedEvents, Refs
<1>10. MapConnected'
  BY <1>1, <1>4, <1>6, <1>7 DEF MapConnected
<1>11. ConnectedSocketKept => ConnectedSocketKept'
  <2>1. \A e \in ConnectedEvents : ev[e].sock \in Socket
    BY DEF IInv, Shape
  <2> QED
    BY <1>1, <1>4, <1>6, <2>1 DEF ConnectedSocketKept
<1>12. SocketsKept => SocketsKept'
  <2>1. Closures' = Closures
    BY <1>1 DEF Closures
  <2>2. Socket \cap Reachable' \subseteq Reachable \cup {s}
    BY <1>1, <2>1 DEF Reachable, Captured, InRegistry, Stepped
  <2>3. SocketsKept => s \notin doomed
    BY <1>1 DEF SocketsKept
  <2> QED
    BY <1>1, <1>4, <2>2, <2>3 DEF SocketsKept
<1>13. \A x \in Socket : HandlersCounted(x) => HandlersCounted(x)'
  <2>1. \A x \in Socket : Connected(x)' = Connected(x)
    BY <1>1 DEF Connected
  <2> QED
    BY <1>1, <1>4, <2>1 DEF HandlersCounted
<1>14. \A x \in Socket : sock'[x].state # "deleted" => sock[x].state # "deleted"
  BY <1>1, <1>4
<1> QED
  BY <1>1, <1>5, <1>8, <1>9, <1>10, <1>11, <1>12, <1>13, <1>14 DEF IInv

LEMMA ConnectIInv ==
  ASSUME IInv, NEW s \in Socket, NEW e \in Event, NEW fn \in Function, Connect(s, e, fn)
  PROVE  IInv'
<1>1. /\ ~fault /\ ~closed /\ s \in rooted /\ ev[e].state = "unborn"
      /\ Cardinality(Connected(s)) < MaxConnected
      /\ sock' = [sock EXCEPT ![s].handlers = Append(@, e), ![s].userdata = e]
      /\ rooted' = rooted \cup {e} /\ whitened' \subseteq whitened
      /\ UNCHANGED <<lightMt, frames, doomed, fault, closed>>
  BY DEF Connect, LuaRuns
<1>2. PICK f, l, x :
        /\ f \in NewRef(registry) /\ l \in NewRef(Stored(registry, f, fn))
        /\ x \in NewRef(Stored(Stored(registry, f, fn), l, s))
        /\ registry' = Stored(Stored(Stored(registry, f, fn), l, s), x, e)
        /\ ev' = [ev EXCEPT ![e] =
             [state |-> "connected", sock |-> s, fn |-> fn, funcRef |-> f,
              socketRef |-> l, eventRef |-> x, idx |-> Len(sock[s].handlers)]]
  BY DEF Connect
<1>3. Shape /\ Threaded(registry) /\ Exact /\ MapConnected
  BY <1>1 DEF IInv
<1>4. /\ Threaded(registry')
      /\ {f, l, x} \subseteq Ref /\ f # l /\ f # x /\ l # x
      /\ registry[f] \notin Value /\ registry[l] \notin Value /\ registry[x] \notin Value
      /\ registry'[f] = fn /\ registry'[l] = s /\ registry'[x] = e
      /\ \A r \in Ref : r \notin {f, l, x} => registry'[r] = registry[r]
  <2>1. fn \in Value /\ s \in Value /\ e \in Value
    BY LuaNetSocketAssumption
  <2> QED
    BY <1>2, <1>3, <2>1, ThreeTaken
<1>5. /\ ev'[e].state = "connected" /\ ev'[e].sock = s /\ ev'[e].fn = fn
      /\ ev'[e].funcRef = f /\ ev'[e].socketRef = l /\ ev'[e].eventRef = x
      /\ ev'[e].idx = Len(sock[s].handlers)
      /\ \A d \in Event : d # e => ev'[d] = ev[d]
  BY <1>2, <1>3 DEF Shape
<1>6. /\ ConnectedEvents' = ConnectedEvents \cup {e} /\ e \notin ConnectedEvents
      /\ Refs(e)' = {f, l, x}
      /\ \A d \in ConnectedEvents : d # e /\ ev'[d] = ev[d] /\ Refs(d)' = Refs(d)
  BY <1>1, <1>5 DEF ConnectedEvents, Refs
<1>7. /\ \A d \in ConnectedEvents : ev[d].sock \in Socket /\ ev[d].fn \in Function
                                    /\ Refs(d) \subseteq Ref
      /\ sock \in [Socket -> State]
  BY <1>3 DEF Shape
<1>8. /\ sock'[s].handlers = Append(sock[s].handlers, e) /\ sock'[s].userdata = e
      /\ \A y \in Socket : sock'[y].state = sock[y].state
      /\ \A y \in Socket : y # s => sock'[y] = sock[y]
  BY <1>1, <1>7 DEF State
<1>9. Shape'
  <2>1. sock[s].handlers \in Seq(Event)
    BY <1>7 DEF State
  <2>2. Append(sock[s].handlers, e) \in Seq(Event) /\ Len(sock[s].handlers) \in Nat
    BY <2>1
  <2>3. sock' \in [Socket -> State]
    BY <1>1, <1>7, <2>2 DEF State
  <2>4. f \in 0..MaxRef /\ l \in 0..MaxRef /\ x \in 0..MaxRef
    BY <1>4, RegistryAssumption DEF Ref
  <2>5. ev' \in [Event -> EventState]
    <3> DEFINE g == [state |-> "connected", sock |-> s, fn |-> fn, funcRef |-> f,
                     socketRef |-> l, eventRef |-> x, idx |-> Len(sock[s].handlers)]
    <3>1. g \in EventState
      BY <2>2, <2>4 DEF EventState, Stage
    <3> QED
      BY <1>2, <1>3, <3>1 DEF Shape
  <2>6. (\A d \in ConnectedEvents : ev[d].sock \in Socket /\ ev[d].fn \in Function
                                    /\ Refs(d) \subseteq Ref)'
    BY <1>4, <1>5, <1>6, <1>7
  <2> QED
    BY <1>1, <1>3, <2>3, <2>5, <2>6 DEF Shape
<1>10. \A d \in ConnectedEvents : \A r \in Refs(d) :
         r \in Ref /\ r \notin {f, l, x} /\ registry[r] \in Value /\ registry'[r] = registry[r]
  <2>1. \A d \in ConnectedEvents : \A r \in Refs(d) : r \in Ref /\ registry[r] \in Value
    BY <1>3 DEF Exact
  <2> QED
    BY <1>4, <2>1
<1>11. Exact'
  <2>1. \A d \in ConnectedEvents' :
          /\ registry'[ev'[d].funcRef] = ev'[d].fn
          /\ registry'[ev'[d].socketRef] = ev'[d].sock
          /\ registry'[ev'[d].eventRef] = d
    BY <1>3, <1>4, <1>5, <1>6, <1>10 DEF Exact, Refs
  <2>2. \A d, c \in ConnectedEvents' : d # c => Refs(d)' \cap Refs(c)' = {}
    BY <1>3, <1>6, <1>10 DEF Exact
  <2>3. {r \in Ref : registry'[r] \in Value} = UNION {Refs(d)' : d \in ConnectedEvents'}
    <3>1. \A r \in Ref : registry'[r] \in Value <=> registry[r] \in Value \/ r \in {f, l, x}
      BY <1>4, LuaNetSocketAssumption
    <3>2. \A r \in Ref : registry[r] \in Value <=> \E d \in ConnectedEvents : r \in Refs(d)
      BY <1>3 DEF Exact
    <3>3. \A r : (\E d \in ConnectedEvents' : r \in Refs(d)') <=>
                 (\E d \in ConnectedEvents : r \in Refs(d)) \/ r \in {f, l, x}
      BY <1>6
    <3> QED
      BY <1>4, <1>10, <3>1, <3>2, <3>3
  <2> QED
    BY <2>1, <2>2, <2>3 DEF Exact
<1>12. MapConnected'
  BY <1>3, <1>5, <1>6, <1>8 DEF MapConnected
<1>13. SocketsKept => SocketsKept' /\ (CaptureSocket => ConnectedSocketKept')
  <2> SUFFICES ASSUME SocketsKept PROVE SocketsKept' /\ (CaptureSocket => ConnectedSocketKept')
    OBVIOUS
  <2>1. Closures' \subseteq Closures \cup {e}
    <3>1. \A d \in Event : d # e /\ ev'[d].state = "connected" =>
            d \in ConnectedEvents /\ registry[ev[d].funcRef] = ev[d].fn
      BY <1>3, <1>5 DEF Exact, ConnectedEvents
    <3> QED
      BY <1>1, <3>1 DEF Closures, ConnectedEvents
  <2>2. s \in Reachable
    BY <1>1 DEF Reachable
  <2>3. Socket \cap Reachable' \subseteq Reachable
    <3>1. Captured' \subseteq Captured \cup {s}
      BY <1>5, <2>1 DEF Captured, Closures
    <3> QED
      BY <1>1, <2>2, <3>1, LuaNetSocketAssumption DEF Reachable, Stepped
  <2>4. SocketsKept'
    BY <1>1, <1>8, <2>3 DEF SocketsKept
  <2>5. CaptureSocket => ConnectedSocketKept
    BY DEF IInv
  <2>6. CaptureSocket => ConnectedSocketKept'
    BY <1>1, <1>5, <1>6, <1>7, <1>8, <2>2, <2>5 DEF ConnectedSocketKept, SocketsKept
  <2> QED
    BY <2>4, <2>6
<1>14. \A y \in Socket : sock'[y].state # "deleted" => HandlersCounted(y)'
  <2> SUFFICES ASSUME NEW y \in Socket, sock'[y].state # "deleted" PROVE HandlersCounted(y)'
    OBVIOUS
  <2>1. HandlersCounted(y)
    BY <1>1, <1>8 DEF IInv
  <2>2. CASE y = s
    <3>1. Connected(s)' = Connected(s) \cup {e} /\ e \notin Connected(s)
      BY <1>1, <1>5 DEF Connected
    <3>2. /\ IsFiniteSet(Connected(s)')
          /\ Cardinality(Connected(s)') = Cardinality(Connected(s)) + 1
      BY <2>1, <2>2, <3>1, FS_AddElement DEF HandlersCounted
    <3> DEFINE h == sock[s].handlers
    <3>3. h \in Seq(Event) /\ Len(h) = Cardinality(Connected(s))
      BY <1>7, <2>1, <2>2 DEF State, HandlersCounted
    <3>4. ev'[e].idx = Len(h) /\ sock'[s].handlers = Append(h, e) /\ sock'[s].userdata = e
      BY <1>5, <1>8
    <3> HIDE DEF h
    <3>5. Len(h) \in Nat /\ Len(Append(h, e)) = Len(h) + 1 /\ Append(h, e)[Len(h) + 1] = e
      BY <3>3, AppendProperties
    <3> QED
      BY <2>2, <3>2, <3>3, <3>4, <3>5 DEF HandlersCounted
  <2>3. CASE y # s
    <3>1. Connected(y)' = Connected(y) /\ e \notin Connected(y)
      BY <1>1, <1>5, <2>3 DEF Connected
    <3>2. sock'[y] = sock[y]
      BY <1>8, <2>3
    <3>3. sock[y].userdata # Nil => ev'[sock[y].userdata] = ev[sock[y].userdata]
      BY <1>3, <1>5, <1>6 DEF MapConnected, ConnectedEvents
    <3> QED
      BY <2>1, <3>1, <3>2, <3>3 DEF HandlersCounted
  <2> QED
    BY <2>2, <2>3
<1>15. Threaded(registry)'
  BY <1>4 DEF Threaded, IsChain
<1> QED
  BY <1>1, <1>9, <1>11, <1>12, <1>13, <1>14, <1>15 DEF IInv

(* Removing a handler leaves a handler table of events. *)
LEMMA RemovedHandlers ==
  ASSUME NEW h \in State, NEW i \in 1..Len(h.handlers)
  PROVE  /\ Removed(h, i) \in State /\ Removed(h, i).userdata = Nil
         /\ Removed(h, i).state = h.state
         /\ Removed(h, i).handlers = RemoveAt(h.handlers, i)
         /\ Len(Removed(h, i).handlers) = Len(h.handlers) - 1
<1> DEFINE q == h.handlers
<1>1. q \in Seq(Event) /\ Len(q) \in Nat /\ i \in Int /\ 1 \in Int
  BY DEF State
<1>2. \A k \in 1..Len(q) : q[k] \in Event
  BY <1>1, ElementOfSeq
<1> HIDE DEF q
<1>3. SubSeq(q, 1, i - 1) \in Seq(Event) /\ Len(SubSeq(q, 1, i - 1)) = i - 1
  <2>1. i - 1 \in Int /\ \A k \in 1..i - 1 : q[k] \in Event
    BY <1>1, <1>2 DEF q
  <2>2. /\ SubSeq(q, 1, i - 1) \in Seq(Event)
        /\ Len(SubSeq(q, 1, i - 1)) = IF 1 <= i - 1 THEN i - 1 - 1 + 1 ELSE 0
    BY <1>1, <2>1, SubSeqProperties
  <2> QED
    BY <1>1, <2>2
<1>4. /\ SubSeq(q, i + 1, Len(q)) \in Seq(Event)
      /\ Len(SubSeq(q, i + 1, Len(q))) = Len(q) - i
  <2>1. i + 1 \in Int /\ Len(q) \in Int /\ \A k \in i + 1..Len(q) : q[k] \in Event
    BY <1>1, <1>2 DEF q
  <2>2. /\ SubSeq(q, i + 1, Len(q)) \in Seq(Event)
        /\ Len(SubSeq(q, i + 1, Len(q))) =
             IF i + 1 <= Len(q) THEN Len(q) - (i + 1) + 1 ELSE 0
    BY <2>1, SubSeqProperties
  <2>3. i <= Len(q)
    BY DEF q
  <2> QED
    BY <1>1, <2>2, <2>3
<1>5. RemoveAt(q, i) \in Seq(Event) /\ Len(RemoveAt(q, i)) = Len(q) - 1
  <2> DEFINE a == SubSeq(q, 1, i - 1)
             b == SubSeq(q, i + 1, Len(q))
  <2>1. RemoveAt(q, i) = a \o b
    BY DEF RemoveAt
  <2>2. a \in Seq(Event) /\ b \in Seq(Event) /\ Len(a) = i - 1 /\ Len(b) = Len(q) - i
    BY <1>3, <1>4
  <2> HIDE DEF a, b
  <2>3. a \o b \in Seq(Event) /\ Len(a \o b) = Len(a) + Len(b)
    BY <2>2, ConcatProperties
  <2>4. i - 1 + (Len(q) - i) = Len(q) - 1
    BY <1>1
  <2> QED
    BY <2>1, <2>2, <2>3, <2>4
<1> QED
  BY <1>5 DEF State, Removed, q

(* What an event that disconnects leaves behind is released exactly: its     *)
(* three references were its own.                                            *)
LEMMA DisconnectRegistry ==
  ASSUME IInv, ~fault, NEW e \in ConnectedEvents, registry' = Released(registry, e),
         ev' = [ev EXCEPT ![e].state = "disconnected"]
  PROVE  Threaded(registry)' /\ Exact'
<1> DEFINE f == ev[e].funcRef
           l == ev[e].socketRef
           x == ev[e].eventRef
<1>1. Shape /\ Threaded(registry) /\ Exact
  BY DEF IInv
<1>2. e \in Event /\ Refs(e) = {f, l, x}
  BY DEF ConnectedEvents, Refs
<1>3. \A d \in ConnectedEvents : ev[d].sock \in Socket /\ ev[d].fn \in Function
                                 /\ Refs(d) \subseteq Ref
  BY <1>1 DEF Shape
<1>4. /\ f \in Ref /\ l \in Ref /\ x \in Ref
      /\ registry[f] \in Function /\ registry[l] \in Socket /\ registry[x] = e
  BY <1>1, <1>2, <1>3 DEF Exact
<1>5. f # l /\ f # x /\ l # x
  BY <1>2, <1>4, LuaNetSocketAssumption
<1>6. registry[f] \in Value /\ registry[l] \in Value /\ registry[x] \in Value
  BY <1>2, <1>4, LuaNetSocketAssumption
<1>7. registry' = Unreferenced(Unreferenced(Unreferenced(registry, f), l), x)
  BY DEF Released
<1>8. \A d \in Event : d # e => ev'[d] = ev[d]
  BY <1>1 DEF Shape
<1>9. ev'[e].state = "disconnected"
  BY <1>1, <1>2 DEF Shape
<1> HIDE DEF f, l, x
<1>10. /\ Threaded(registry')
       /\ \A r \in {f, l, x} : registry'[r] \notin Value
       /\ \A r \in Ref : r \notin {f, l, x} => registry'[r] = registry[r]
  BY <1>1, <1>4, <1>5, <1>6, <1>7, ThreeGiven
<1>11. /\ ConnectedEvents' = ConnectedEvents \ {e}
       /\ \A d \in ConnectedEvents \ {e} : ev'[d] = ev[d] /\ Refs(d)' = Refs(d)
  BY <1>8, <1>9 DEF ConnectedEvents, Refs
<1>12. \A d \in ConnectedEvents \ {e} : \A r \in Refs(d) :
         r \in Ref /\ r \notin {f, l, x} /\ registry'[r] = registry[r]
  BY <1>1, <1>2, <1>3, <1>10 DEF Exact
<1>13. \A d \in ConnectedEvents' :
         /\ registry'[ev'[d].funcRef] = ev'[d].fn
         /\ registry'[ev'[d].socketRef] = ev'[d].sock
         /\ registry'[ev'[d].eventRef] = d
  BY <1>1, <1>11, <1>12 DEF Exact, Refs
<1>14. \A d, c \in ConnectedEvents' : d # c => Refs(d)' \cap Refs(c)' = {}
  BY <1>1, <1>11 DEF Exact
<1>15. {r \in Ref : registry'[r] \in Value} = UNION {Refs(d)' : d \in ConnectedEvents'}
  <2>1. \A r \in Ref : registry[r] \in Value <=> \E d \in ConnectedEvents : r \in Refs(d)
    BY <1>1 DEF Exact
  <2>2. \A r : (\E d \in ConnectedEvents' : r \in Refs(d)') <=>
               \E d \in ConnectedEvents \ {e} : r \in Refs(d)
    BY <1>11
  <2>3. \A r \in Ref : registry'[r] \in Value <=> registry[r] \in Value /\ r \notin {f, l, x}
    BY <1>10
  <2> QED
    BY <1>2, <1>12, <2>1, <2>2, <2>3
<1>16. Threaded(registry)'
  BY <1>10 DEF Threaded, IsChain
<1>17. Exact'
  BY <1>13, <1>14, <1>15 DEF Exact
<1> QED
  BY <1>16, <1>17

LEMMA DisconnectIInv ==
  ASSUME Once, IInv, NEW e \in Event, Disconnect(e)
  PROVE  IInv'
<1> DEFINE s == ev[e].sock
           i == ev[e].idx + 1
<1>1. /\ ~fault /\ ~closed /\ ev[e].state = "connected"
      /\ registry' = Released(registry, e)
      /\ ev' = [ev EXCEPT ![e].state = "disconnected"]
      /\ UNCHANGED <<rooted, lightMt, frames, doomed, whitened, closed>>
  BY DEF Disconnect, LuaRuns, heap, collector
<1>2. \/ /\ sock[s].state = "live" /\ i <= Len(sock[s].handlers)
         /\ sock' = [sock EXCEPT ![s] = Removed(@, i)] /\ fault' \in BOOLEAN
      \/ fault' = TRUE /\ UNCHANGED sock
  BY DEF Disconnect
<1>3. Shape /\ Exact /\ MapConnected /\ e \in ConnectedEvents
  BY <1>1 DEF IInv, ConnectedEvents
<1>4. /\ s \in Socket /\ i \in Nat \ {0} /\ sock \in [Socket -> State]
      /\ \A d \in ConnectedEvents : ev[d].sock \in Socket /\ ev[d].fn \in Function
                                    /\ Refs(d) \subseteq Ref
  <2>1. ev[e] \in EventState
    BY <1>3 DEF Shape
  <2>2. ev[e].idx \in Nat
    BY <2>1 DEF EventState
  <2> QED
    BY <1>3, <2>2 DEF Shape
<1>5. /\ \A d \in Event : d # e => ev'[d] = ev[d]
      /\ ev'[e].state = "disconnected" /\ ev'[e].sock = ev[e].sock
  BY <1>1, <1>3 DEF Shape
<1>6. /\ ConnectedEvents' = ConnectedEvents \ {e}
      /\ \A d \in ConnectedEvents \ {e} : ev'[d] = ev[d] /\ Refs(d)' = Refs(d)
  BY <1>5 DEF ConnectedEvents, Refs
<1>7. Threaded(registry)' /\ Exact'
  BY <1>1, <1>3, DisconnectRegistry
<1> HIDE DEF s, i
<1>8. \/ /\ i <= Len(sock[s].handlers)
         /\ sock' = [sock EXCEPT ![s] = Removed(@, i)]
         /\ Removed(sock[s], i) \in State /\ Removed(sock[s], i).userdata = Nil
         /\ Removed(sock[s], i).state = sock[s].state
         /\ Len(Removed(sock[s], i).handlers) = Len(sock[s].handlers) - 1
      \/ fault' = TRUE /\ UNCHANGED sock
  <2>1. CASE /\ i <= Len(sock[s].handlers)
             /\ sock' = [sock EXCEPT ![s] = Removed(@, i)]
    <3>1. sock[s] \in State
      BY <1>4
    <3>2. i \in 1..Len(sock[s].handlers)
      BY <1>4, <2>1, <3>1 DEF State
    <3> QED
      BY <2>1, <3>1, <3>2, RemovedHandlers
  <2> QED
    BY <1>2, <2>1
<1>9. /\ sock' \in [Socket -> State] /\ fault' \in BOOLEAN
      /\ \A y \in Socket : sock'[y].state = sock[y].state
      /\ \A y \in Socket : y # s => sock'[y] = sock[y]
      /\ ~fault' => sock'[s].userdata = Nil
                    /\ Len(sock'[s].handlers) = Len(sock[s].handlers) - 1
  BY <1>2, <1>4, <1>8
<1>10. Shape'
  <2>1. ev' \in [Event -> EventState]
    BY <1>1, <1>3, EventMoved DEF Shape, Stage
  <2>2. (\A d \in ConnectedEvents : ev[d].sock \in Socket /\ ev[d].fn \in Function
                                    /\ Refs(d) \subseteq Ref)'
    BY <1>4, <1>6
  <2> QED
    BY <1>1, <1>3, <1>9, <2>1, <2>2 DEF Shape
<1>11. ~fault' => MapConnected'
  <2> SUFFICES ASSUME ~fault', NEW y \in Socket, sock'[y].userdata # Nil
               PROVE  sock'[y].userdata \in ConnectedEvents' /\ ev'[sock'[y].userdata].sock = y
    BY DEF MapConnected
  <2>1. y # s /\ sock'[y] = sock[y]
    BY <1>9
  <2>2. sock[y].userdata \in ConnectedEvents /\ ev[sock[y].userdata].sock = y
    BY <1>3, <2>1 DEF MapConnected
  <2>3. sock[y].userdata # e
    BY <2>1, <2>2 DEF s
  <2> QED
    BY <1>6, <2>1, <2>2, <2>3
<1>12. ConnectedSocketKept => ConnectedSocketKept'
  BY <1>1, <1>4, <1>6, <1>9 DEF ConnectedSocketKept
<1>13. SocketsKept => SocketsKept'
  <2>1. Closures' \subseteq Closures
    <3>1. \A d \in Event : ev'[d].state = "connected" =>
            ev[d].state = "connected" /\ registry[ev[d].funcRef] = ev[d].fn
      BY <1>3, <1>5 DEF Exact, ConnectedEvents
    <3> QED
      BY <1>1, <3>1 DEF Closures
  <2>2. \A d \in Event : ev'[d].sock = ev[d].sock
    BY <1>5
  <2>3. Socket \cap Reachable' \subseteq Reachable
    <3>1. Captured' \subseteq Captured
      BY <2>1, <2>2 DEF Captured, Closures
    <3> QED
      BY <1>1, <3>1, LuaNetSocketAssumption DEF Reachable, Stepped
  <2> QED
    BY <1>1, <1>9, <2>3 DEF SocketsKept
<1>14. ~fault' => \A y \in Socket : sock'[y].state # "deleted" => HandlersCounted(y)'
  <2> SUFFICES ASSUME ~fault', NEW y \in Socket, sock'[y].state # "deleted"
               PROVE  HandlersCounted(y)'
    OBVIOUS
  <2>1. HandlersCounted(y)
    BY <1>1, <1>9 DEF IInv
  <2>2. CASE y = s
    <3>1. Connected(y)' = Connected(y) \ {e} /\ e \in Connected(y)
      BY <1>1, <1>5, <2>2 DEF Connected, s
    <3>2. /\ IsFiniteSet(Connected(y)')
          /\ Cardinality(Connected(y)') = Cardinality(Connected(y)) - 1
      BY <2>1, <2>2, <3>1, FS_RemoveElement DEF HandlersCounted
    <3> QED
      BY <1>9, <2>1, <2>2, <3>2 DEF HandlersCounted
  <2>3. CASE y # s
    <3>1. Connected(y)' = Connected(y) /\ e \notin Connected(y)
      BY <1>5, <2>3 DEF Connected, s
    <3>2. sock'[y] = sock[y]
      BY <1>9, <2>3
    <3>3. sock[y].userdata # Nil => ev'[sock[y].userdata] = ev[sock[y].userdata]
      BY <1>3, <1>5, <2>3 DEF MapConnected, ConnectedEvents, s
    <3> QED
      BY <2>1, <3>1, <3>2, <3>3 DEF HandlersCounted
  <2> QED
    BY <2>2, <2>3
<1> QED
  BY <1>1, <1>7, <1>10, <1>11, <1>12, <1>13, <1>14 DEF IInv

(* The collector deletes a socket no connected event belongs to. *)
LEMMA FinalizeIInv ==
  ASSUME IInv, NEW o \in Socket \cup Event, Finalize(o)
  PROVE  IInv'
<1>1. /\ ~fault /\ ~closed /\ o \in doomed /\ doomed' = doomed \ {o}
      /\ UNCHANGED <<registry, rooted, lightMt, frames, whitened, closed>>
  BY DEF Finalize, heap
<1>2. Shape /\ Exact /\ MapConnected /\ Threaded(registry)
  BY <1>1 DEF IInv
<1>3. CASE /\ o \in Socket /\ UNCHANGED <<ev, fault>>
           /\ sock' = [sock EXCEPT ![o] = [state |-> "deleted", handlers |-> <<>>, userdata |-> Nil]]
  <2>1. sock \in [Socket -> State]
    BY <1>2 DEF Shape
  <2>2. /\ sock'[o].state = "deleted" /\ sock'[o].handlers = <<>> /\ sock'[o].userdata = Nil
        /\ \A y \in Socket : y # o => sock'[y] = sock[y]
    BY <1>3, <2>1
  <2>3. Shape'
    <3>1. sock' \in [Socket -> State]
      BY <1>3, <2>1 DEF State
    <3> QED
      BY <1>1, <1>2, <1>3, <3>1 DEF Shape, ConnectedEvents, Refs
  <2>4. ConnectedEvents' = ConnectedEvents /\ \A d \in Event : Refs(d)' = Refs(d)
    BY <1>3 DEF ConnectedEvents, Refs
  <2>5. Threaded(registry)' /\ Exact'
    <3>1. Threaded(registry)'
      BY <1>1, <1>2, ThreadedKept
    <3>2. Exact'
      BY <1>1, <1>2, <1>3, <2>4 DEF Exact, ConnectedEvents, Refs
    <3> QED
      BY <3>1, <3>2
  <2>6. MapConnected'
    BY <1>2, <1>3, <2>2, <2>4 DEF MapConnected
  <2>7. SocketsKept /\ \A y \in Socket : sock[y].state # "deleted" => HandlersCounted(y)
    BY <1>1 DEF IInv
  <2>8. CaptureSocket => \A d \in ConnectedEvents : ev[d].sock # o
    <3> SUFFICES ASSUME CaptureSocket, NEW d \in ConnectedEvents, ev[d].sock = o PROVE FALSE
      OBVIOUS
    <3>1. d \in Closures
      BY <1>2 DEF Exact, Closures, ConnectedEvents
    <3>2. o \in Reachable
      BY <3>1 DEF Captured, Reachable
    <3> QED
      BY <1>1, <1>3, <2>7, <3>2 DEF SocketsKept
  <2>9. CaptureSocket => ConnectedSocketKept'
    <3>1. \A d \in ConnectedEvents : ev[d].sock \in Socket
      BY <1>2 DEF Shape
    <3>2. CaptureSocket => ConnectedSocketKept
      BY DEF IInv
    <3> QED
      BY <1>1, <1>3, <2>2, <2>4, <2>8, <3>1, <3>2 DEF ConnectedSocketKept
  <2>10. SocketsKept => SocketsKept'
    <3>1. Reachable' = Reachable
      BY <1>1, <1>3 DEF Reachable, Captured, Closures, InRegistry, Stepped
    <3> QED
      BY <1>1, <2>2, <3>1 DEF SocketsKept
  <2>11. \A y \in Socket : sock'[y].state # "deleted" => HandlersCounted(y)'
    <3> SUFFICES ASSUME NEW y \in Socket, y # o PROVE sock'[y].state # "deleted" => HandlersCounted(y)'
      BY <2>2
    <3>1. Connected(y)' = Connected(y) /\ sock'[y] = sock[y]
      BY <1>3, <2>2 DEF Connected
    <3> QED
      BY <1>3, <2>7, <3>1 DEF HandlersCounted
  <2> QED
    BY <1>1, <1>3, <2>3, <2>5, <2>6, <2>7, <2>9, <2>10, <2>11 DEF IInv
<1>4. CASE /\ o \in Event /\ fault' = TRUE /\ UNCHANGED sock
           /\ ev' = [ev EXCEPT ![o].state = "finalized"]
  <2>1. /\ \A d \in Event : d # o => ev'[d] = ev[d]
        /\ ev'[o].state = "finalized"
    BY <1>2, <1>4 DEF Shape
  <2>2. /\ ConnectedEvents' = ConnectedEvents \ {o}
        /\ \A d \in ConnectedEvents' : ev'[d] = ev[d] /\ Refs(d)' = Refs(d)
    BY <2>1 DEF ConnectedEvents, Refs
  <2>3. Shape'
    <3>1. ev' \in [Event -> EventState]
      BY <1>2, <1>4, EventMoved DEF Shape, Stage
    <3>2. (\A d \in ConnectedEvents : ev[d].sock \in Socket /\ ev[d].fn \in Function
                                    /\ Refs(d) \subseteq Ref)'
      BY <1>2, <2>2 DEF Shape
    <3> QED
      BY <1>1, <1>2, <1>4, <3>1, <3>2 DEF Shape
  <2>4. ConnectedSocketKept => ConnectedSocketKept'
    BY <1>1, <1>4, <2>2 DEF ConnectedSocketKept
  <2> QED
    BY <1>4, <2>3, <2>4 DEF IInv
<1> QED
  BY <1>3, <1>4 DEF Finalize

LEMMA CloseIInv ==
  ASSUME IInv, Close
  PROVE  IInv'
<1>1. /\ ~fault /\ closed' = TRUE /\ fault' \in BOOLEAN /\ frames = <<>>
      /\ UNCHANGED <<registry, ev, rooted, lightMt, frames, doomed, whitened>>
  BY DEF Close, LuaRuns, heap, collector
<1>2. Shape /\ Exact /\ MapConnected /\ Threaded(registry)
  BY <1>1 DEF IInv
<1>3. sock \in [Socket -> State]
  BY <1>2 DEF Shape
<1>4. /\ sock' \in [Socket -> State]
      /\ \A s \in Socket : sock'[s].userdata \in {Nil, sock[s].userdata}
  <2> DEFINE deleted == [state |-> "deleted", handlers |-> <<>>, userdata |-> Nil]
  <2>1. deleted \in State
    BY DEF State
  <2>2. \/ sock' = sock
        \/ sock' = [s \in Socket |-> IF sock[s].state = "live" THEN deleted ELSE sock[s]]
    BY DEF Close
  <2> QED
    BY <1>3, <2>1, <2>2
<1>5. Shape'
  BY <1>1, <1>2, <1>4 DEF Shape, ConnectedEvents, Refs
<1>6. ConnectedEvents' = ConnectedEvents /\ \A d \in Event : Refs(d)' = Refs(d)
  BY <1>1 DEF ConnectedEvents, Refs
<1>7. Threaded(registry)'
  BY <1>1, <1>2, ThreadedKept
<1>8. Exact'
  BY <1>1, <1>2, <1>6 DEF Exact, ConnectedEvents, Refs
<1>9. MapConnected'
  BY <1>1, <1>2, <1>4, <1>6 DEF MapConnected
<1>10. ConnectedSocketKept'
  BY <1>1 DEF ConnectedSocketKept
<1> QED
  BY <1>1, <1>5, <1>7, <1>8, <1>9, <1>10 DEF IInv

-----------------------------------------------------------------------------
LEMMA InitIInv == Init => IInv
<1> SUFFICES ASSUME Init PROVE IInv
  OBVIOUS
<1>1. ConnectedEvents = {}
  BY DEF Init, ConnectedEvents
<1>2. Shape
  <2>1. sock \in [Socket -> State]
    BY DEF Init, State
  <2>2. ev \in [Event -> EventState]
    <3>1. 0 \in 0..MaxRef /\ 0 \in Nat
      BY RegistryAssumption
    <3> QED
      BY <3>1 DEF Init, EventState, Stage
  <2>3. frames \in Seq(Frame)
    BY DEF Init
  <2> QED
    BY <1>1, <2>1, <2>2, <2>3 DEF Init, Shape
<1>3. Threaded(registry)
  BY EmptyThreaded DEF Init
<1>4. Exact
  BY <1>1, RegistryAssumption DEF Init, Exact, EmptyTable, Ref
<1>5. MapConnected /\ ConnectedSocketKept
  BY <1>1 DEF Init, MapConnected, ConnectedSocketKept
<1>6. SocketsKept
  <2>1. Closures = {}
    BY DEF Init, Closures
  <2> QED
    BY <2>1, LuaNetSocketAssumption, RegistryAssumption
       DEF Init, SocketsKept, Reachable, Stepped, Captured
<1>7. \A s \in Socket : HandlersCounted(s)
  <2>1. \A s \in Socket : Connected(s) = {}
    BY DEF Init, Connected
  <2> QED
    BY <2>1, FS_EmptySet DEF Init, HandlersCounted
<1> QED
  BY <1>2, <1>3, <1>4, <1>5, <1>6, <1>7 DEF IInv

LEMMA StutterIInv ==
  ASSUME IInv, UNCHANGED vars
  PROVE  IInv'
<1>1. UNCHANGED <<registry, sock, ev, rooted, lightMt, frames, whitened, doomed, fault, closed>>
  BY DEF vars, heap, collector
<1>2. Shape'
  BY <1>1 DEF IInv, Shape, ConnectedEvents, Refs
<1>3. ConnectedSocketKept => ConnectedSocketKept'
  BY <1>1 DEF ConnectedSocketKept, ConnectedEvents
<1>4. CASE fault
  BY <1>1, <1>2, <1>3, <1>4 DEF IInv
<1>5. CASE ~fault
  <2>1. SocketsKept => SocketsKept'
    BY <1>1 DEF SocketsKept, Reachable, Captured, Closures, InRegistry, Stepped
  <2> QED
    BY <1>1, <1>2, <1>5, <2>1, QuietIInv DEF Quiet, IInv
<1> QED
  BY <1>4, <1>5

LEMMA NextIInv == Once /\ IInv /\ [Next]_vars => IInv'
<1> SUFFICES ASSUME Once, IInv, [Next]_vars PROVE IInv'
  OBVIOUS
<1>1. ASSUME NEW s \in Socket, New(s) \/ OnRecieve(s) \/ StepListener(s) PROVE IInv'
  BY <1>1, NewIInv, OnRecieveIInv, StepListenerIInv
<1>2. ASSUME NEW o \in Socket \cup Event, Drop(o) \/ Finalize(o) PROVE IInv'
  BY <1>2, DropIInv, FinalizeIInv
<1>3. ASSUME NEW s \in Socket, NEW e \in Event, NEW fn \in Function, Connect(s, e, fn)
      PROVE  IInv'
  BY <1>3, ConnectIInv
<1>4. ASSUME NEW e \in Event, Disconnect(e) PROVE IInv'
  BY <1>4, DisconnectIInv
<1>5. CASE EventHandler \/ HandlerReturn \/ ListenerReturn
  BY <1>5, EventHandlerIInv, HandlerReturnIInv, ListenerReturnIInv
<1>6. CASE Mark \/ Atomic \/ EndCycle \/ Close
  BY <1>6, MarkIInv, AtomicIInv, CloseIInv
<1>7. CASE UNCHANGED vars
  BY <1>7, StutterIInv
<1> QED
  BY <1>1, <1>2, <1>3, <1>4, <1>5, <1>6, <1>7 DEF Next

(* The invariant behind the theorems below, of scripts that disconnect an    *)
(* event at most once.                                                       *)
THEOREM Invariant == Once => (Spec => []IInv)
<1> SUFFICES ASSUME Once PROVE Spec => []IInv
  OBVIOUS
<1>1. IInv /\ [Next]_vars => IInv'
  BY NextIInv
<1> QED
  BY <1>1, InitIInv, PTL DEF Spec

(* Connect and Disconnect (LuaNetSocket.cpp) take and release exactly three  *)
(* references per event, in whatever order handlers and the script call      *)
(* them: each leads to its object, no two are shared, none is leaked.        *)
THEOREM RegistryKept == Once => (Spec => []RegistryExact)
<1> SUFFICES ASSUME Once PROVE Spec => []RegistryExact
  OBVIOUS
<1>1. Spec => []IInv
  BY Invariant
<1>2. IInv => RegistryExact
  BY DEF IInv, Exact, RegistryExact
<1> QED
  BY <1>1, <1>2, PTL

(* A script whose handlers capture their socket never has an event whose     *)
(* EventUserdata::socket dangles, wherever the collector interrupts it.      *)
THEOREM SocketsOutliveEvents == Once /\ CaptureSocket => (Spec => []ConnectedSocketKept)
<1> SUFFICES ASSUME Once, CaptureSocket PROVE Spec => []ConnectedSocketKept
  OBVIOUS
<1>1. Spec => []IInv
  BY Invariant
<1>2. IInv => ConnectedSocketKept
  BY DEF IInv
<1> QED
  BY <1>1, <1>2, PTL

(* The collector separates a connected event only when a call of its handler *)
(* whitened it after the registry was traversed.                             *)
THEOREM OnlyMarkLoses == Once => (Spec => LostOnlyByMark)
<1> SUFFICES ASSUME Once PROVE Spec => LostOnlyByMark
  OBVIOUS
<1>1. Spec => []IInv
  BY Invariant
<1>2. ASSUME IInv, Next PROVE (doomed' \ doomed) \cap ConnectedEvents \subseteq whitened
  <2>1. CASE Atomic
    <3>1. ~fault /\ doomed' \subseteq (Userdata \ Reachable) \cup whitened
      BY <2>1 DEF Atomic
    <3>2. \A e \in ConnectedEvents : e \in Reachable
      <4> SUFFICES ASSUME NEW e \in ConnectedEvents PROVE e \in Reachable
        OBVIOUS
      <4>1. registry[ev[e].eventRef] = e /\ ev[e].eventRef \in Ref /\ e \in Event
        BY <1>2, <3>1 DEF IInv, Shape, Exact, Refs, ConnectedEvents
      <4> QED
        BY <4>1 DEF Reachable, InRegistry
    <3> QED
      BY <3>1, <3>2
  <2>2. CASE ~Atomic
    <3>1. doomed' \subseteq doomed
      BY <1>2, <2>2 DEF Next, New, OnRecieve, StepListener, Drop, Finalize, Connect, Disconnect,
         EventHandler, HandlerReturn, ListenerReturn, Mark, EndCycle, Close, collector
    <3> QED
      BY <3>1
  <2> QED
    BY <2>1, <2>2
<1>3. IInv /\ [Next]_vars => [(doomed' \ doomed) \cap ConnectedEvents \subseteq whitened]_vars
  BY <1>2
<1> QED
  BY <1>1, <1>3, PTL DEF Spec, LostOnlyByMark

(* Only Listener, when it comes to a handler, begins a call. *)
LEMMA OnlyEventHandlerBegins ==
  ASSUME IInv, Next, CallsBegun
  PROVE  EventHandler
<1>1. frames \in Seq(Frame) /\ frames # <<>> /\ Depth \in Nat
  BY DEF IInv, Shape, CallsBegun, Depth
<1>2. ASSUME NEW s \in Socket, StepListener(s) PROVE FALSE
  <2>1. Len(frames') = Depth + 1
    BY <1>1, <1>2 DEF StepListener, Depth
  <2> QED
    BY <1>1, <2>1 DEF CallsBegun
<1>3. CASE ListenerReturn
  <2> DEFINE n == Len(frames) - 1
  <2>1. n \in Nat /\ n + 1 = Depth
    BY <1>1, EmptySeq DEF Depth
  <2>2. frames' = SubSeq(frames, 1, n)
    BY <1>3 DEF ListenerReturn, Front
  <2> HIDE DEF n
  <2>3. Len(frames') = n
    <3>1. \A k \in 1..n : frames[k] \in Frame
      BY <1>1, <2>1, ElementOfSeq DEF Depth
    <3>2. Len(frames') = IF 1 <= n THEN n - 1 + 1 ELSE 0
      BY <2>1, <2>2, <3>1, SubSeqProperties
    <3> QED
      BY <2>1, <3>2
  <2> QED
    BY <2>1, <2>3 DEF CallsBegun
<1>4. ~HandlerReturn
  BY DEF HandlerReturn, CallsBegun
<1>5. CASE frames' = frames
  BY <1>5 DEF CallsBegun, Top
<1> QED
  BY <1>2, <1>3, <1>4, <1>5 DEF Next, New, OnRecieve, Drop, Finalize, Connect, Disconnect,
     Mark, Atomic, EndCycle, Close

(* However many events share a socket, and in whatever order they disconnect *)
(* (which makes handlerIndex of the others stale: only the size of the       *)
(* vector is kept right): Listener begins a function only for a connected    *)
(* event of the socket, whose index is its own, and the vector has as many   *)
(* handlers as there are connected events.  The scripts are those that       *)
(* disconnect an event at most once.                                         *)
THEOREM HandlersMatch == Once => (Spec => OwnHandlerCalled)
<1> SUFFICES ASSUME Once PROVE Spec => OwnHandlerCalled
  OBVIOUS
<1>1. Spec => []IInv
  BY Invariant
<1> DEFINE h == sock[Top.sock].handlers
           e == frames'[Depth].event
           Own == CallsBegun =>
                    /\ e \in Connected(Top.sock) /\ frames'[Depth].running = ev[e].fn
                    /\ ev[e].idx < Len(h) /\ h[ev[e].idx + 1] = e
                    /\ Len(h) = Cardinality(Connected(Top.sock))
<1>2. ASSUME IInv, Next PROVE Own
  <2> SUFFICES ASSUME CallsBegun
               PROVE  /\ e \in Connected(Top.sock) /\ frames'[Depth].running = ev[e].fn
                      /\ ev[e].idx < Len(h) /\ h[ev[e].idx + 1] = e
                      /\ Len(h) = Cardinality(Connected(Top.sock))
    OBVIOUS
  <2>1. EventHandler
    BY <1>2, OnlyEventHandlerBegins
  <2>2. frames \in Seq(Frame) /\ Top \in Frame /\ frames # <<>> /\ ~fault /\ ~closed
    BY <1>2, <2>1, FrameTop DEF EventHandler, AtHandler, Dispatching, IInv, Shape
  <2>3. Top.sock \in Socket /\ sock[Top.sock] \in State
    BY <1>2, <2>2 DEF Frame, IInv, Shape
  <2>4. HandlersCounted(Top.sock)
    <3>1. Depth \in DOMAIN frames
      BY <2>2, FrameTop
    <3>2. Top.sock \in Reachable
      BY <3>1 DEF Reachable, Stepped, Top
    <3> QED
      BY <1>2, <2>2, <2>3, <3>2 DEF IInv, SocketsKept
  <2> DEFINE ud == sock[Top.sock].userdata
             fn == registry[ev[ud].funcRef]
  <2>5. frames'[Depth].running # Nil /\ Top.running = Nil
    BY DEF CallsBegun
  <2>6. ~(frames' = [frames EXCEPT ![Depth].i = @ + 1])
    <3> SUFFICES ASSUME frames' = [frames EXCEPT ![Depth].i = @ + 1] PROVE FALSE
      OBVIOUS
    <3>1. frames'[Depth].running = Top.running
      BY <2>2, FrameTop DEF Top, Frame
    <3> QED
      BY <2>5, <3>1
  <2>7. ud # Nil /\ frames' = [frames EXCEPT ![Depth].running = fn, ![Depth].event = ud]
    BY <2>1, <2>6 DEF EventHandler
  <2>8. frames'[Depth].event = ud /\ frames'[Depth].running = fn
    <3> DEFINE g == [Top EXCEPT !.running = fn, !.event = ud]
    <3>0. Depth \in DOMAIN frames
      BY <2>2, FrameTop
    <3>1. frames'[Depth] = g
      BY <2>7, <3>0 DEF Top
    <3>2. g.event = ud /\ g.running = fn
      BY <2>2 DEF Frame
    <3> QED
      BY <3>1, <3>2
  <2>9. ud \in ConnectedEvents /\ ev[ud].sock = Top.sock
    BY <1>2, <2>2, <2>3, <2>7 DEF IInv, MapConnected
  <2>10. fn = ev[ud].fn /\ ud \in Connected(Top.sock)
    BY <1>2, <2>2, <2>9 DEF IInv, Exact, Connected, ConnectedEvents
  <2>11. ev[ud].idx + 1 = Len(h) /\ h[Len(h)] = ud /\ Len(h) = Cardinality(Connected(Top.sock))
    BY <2>4, <2>7 DEF HandlersCounted
  <2>12. ev[ud].idx \in Nat /\ Len(h) \in Nat
    <3>1. ev[ud] \in EventState
      BY <1>2, <2>9 DEF IInv, Shape, ConnectedEvents
    <3> QED
      BY <2>3, <3>1 DEF EventState, State
  <2>13. ev[ud].idx < Len(h) /\ h[ev[ud].idx + 1] = ud
    BY <2>11, <2>12
  <2> QED
    BY <2>8, <2>10, <2>11, <2>13
<1>3. IInv /\ [Next]_vars => [Own]_vars
  <2> HIDE DEF Own
  <2> QED
    BY <1>2
<1>4. OwnHandlerCalled <=> [][Own]_vars
  BY DEF OwnHandlerCalled
<1> QED
  BY <1>1, <1>3, <1>4, PTL DEF Spec
=============================================================================
