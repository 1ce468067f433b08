------------------------------ MODULE NetSocket ------------------------------
(* The NetSocket class: a UDP socket with a vector of handlers, a listener   *)
(* that hands every datagram to each of them, and control of the listening   *)
(* thread.  Nothing in the class synchronises: user code runs on the main    *)
(* thread and, inside handlers, on the listening threads, and every step     *)
(* below may come between any two others.                                    *)
EXTENDS Integers, Sequences, SequencesExt, FiniteSets

CONSTANTS
  Function,      \* the handler functions user code registers
  Main,          \* the thread that owns the socket
  Listener,      \* the threads CreateThread can still make
  None,          \* no thread; also "no handle" and "no pending half"
  Pseudo,        \* the value of GetCurrentThread(): whoever uses the handle
  Garbage,       \* the handle the constructors leave uninitialised
  Reuse,         \* may one function be registered again while it is?
  MaxReg,        \* bound: registrations made in a behaviour
  MaxOps,        \* bound: calls user code makes in a behaviour
  MaxArrivals,   \* bound: results recvfrom delivers in a behaviour
  MaxDepth       \* bound: Listener() frames nested on one thread

Thread == {Main} \cup Listener

(* What is left of a call that changes two things, once the first is done. *)
SecondHalf ==
  [op : {"set"}, fn : Function, id : 1..MaxReg] \cup [op : {"erase"}, fn : Function]
  \cup [op : {"eraseAt"}, i : 0..MaxReg] \cup [op : {"clear", "delete"}]

ASSUME NetSocketAssumption ==
  /\ MaxReg \in Nat /\ MaxOps \in Nat /\ MaxArrivals \in Nat /\ MaxDepth \in Nat
  /\ Reuse \in BOOLEAN
  /\ Main \notin Listener
  /\ {None, Pseudo, Garbage} \cap Thread = {}
  /\ None \notin SecondHalf

VARIABLES
  initialized, bufferSize,     \* what the constructor established
  socketHandlers,              \* vector: [fn, id], id (a ghost) numbers registrations
  socketUserdata,              \* map: the registration whose userdata fn gets, 0 for null
  listenThread,                \* the last handle stored
  live,                        \* the object has not been deleted
  life, suspended,             \* of each thread: existence, suspend count
  frames,                      \* of each thread: its Listener() calls, innermost last
  pending,                     \* of each thread: second half of the call it is in
  heap,                        \* the thread inside malloc or free, which lock the heap
  inbox,                       \* results recvfrom will deliver: TRUE when it has bytes
  fault,                       \* undefined behaviour took the process down
  regs, ops, arrivals          \* history: counters, bounded

object == <<socketHandlers, socketUserdata, regs>>
threads == <<listenThread, life, suspended>>
config == <<initialized, bufferSize>>
vars == <<config, object, threads, live, frames, pending, heap, inbox, fault,
          ops, arrivals>>

(* One Listener() call.  due, calls and cut are history: the registrations   *)
(* present when the datagram came, those called since, and whether one was   *)
(* removed meanwhile.                                                        *)
NewFrame(loop) ==
  [pc |-> "malloc", i |-> 0, loop |-> loop, due |-> {}, calls |-> <<>>, cut |-> FALSE]

Registered == {socketHandlers[k].id : k \in DOMAIN socketHandlers}

Init ==
  /\ initialized \in BOOLEAN /\ bufferSize \in {0, 1}
  /\ socketHandlers = <<>> /\ socketUserdata = [fn \in Function |-> 0]
  /\ listenThread = Garbage
  /\ live = TRUE
  /\ life = [t \in Thread |-> IF t = Main THEN "alive" ELSE "unborn"]
  /\ suspended = [t \in Thread |-> 0]
  /\ frames = [t \in Thread |-> <<>>]
  /\ pending = [t \in Thread |-> None]
  /\ heap = None /\ inbox = <<>> /\ fault = FALSE
  /\ regs = 0 /\ ops = 0 /\ arrivals = 0

-----------------------------------------------------------------------------
Running(t) == life[t] = "alive" /\ suspended[t] = 0 /\ ~fault

Depth(t) == Len(frames[t])
At(t, pc) == Running(t) /\ frames[t] # <<>> /\ frames[t][Depth(t)].pc = pc
Top(t) == frames[t][Depth(t)]
SetTop(t, f) == frames' = [frames EXCEPT ![t][Depth(t)] = f]
Goto(t, pc) == SetTop(t, [Top(t) EXCEPT !.pc = pc])

(* Reading or writing the containers while another thread is half way        *)
(* through changing them is a data race: it may work and may crash.          *)
Racing(t) == \E s \in Thread \ {t} : pending[s] # None
MayCrash(t) == fault' \in {FALSE, Racing(t)}

(* User code runs on the main thread outside the library and in handlers.    *)
UserCode(t) ==
  /\ Running(t) /\ live /\ pending[t] = None
  /\ ops < MaxOps /\ ops' = ops + 1
  /\ IF frames[t] = <<>> THEN t = Main ELSE Top(t).pc = "handler"

(* History: every dispatch under way notices that a registration went away. *)
Cut == frames' = [t \in Thread |->
         [k \in DOMAIN frames[t] |-> [frames[t][k] EXCEPT !.cut = TRUE]]]

-----------------------------------------------------------------------------
(* The edits of the handler table take two steps, one per container, in the  *)
(* order of the code; the first allocates or frees and waits for the heap.   *)
Edit(t, half) ==
  /\ UserCode(t) /\ heap = None
  /\ pending' = [pending EXCEPT ![t] = half]
  /\ UNCHANGED <<config, threads, live, heap, inbox, arrivals>>

(* Faulty variant for CalledInOrder: the newest handler goes first. *)
PushedFront(fn, id) == <<[fn |-> fn, id |-> id]>> \o socketHandlers
PushedBack(fn, id) == Append(socketHandlers, [fn |-> fn, id |-> id])

AddHandler(t, fn) ==
  /\ regs < MaxReg
  /\ Reuse \/ \A k \in DOMAIN socketHandlers : socketHandlers[k].fn # fn
  /\ Edit(t, [op |-> "set", fn |-> fn, id |-> regs + 1]) /\ MayCrash(t)
  /\ socketHandlers' = PushedBack(fn, regs + 1)
  /\ regs' = regs + 1
  /\ UNCHANGED <<socketUserdata, frames>>

RemoveHandler(t, fn) ==
  \E i \in DOMAIN socketHandlers :
    /\ socketHandlers[i].fn = fn
    /\ \A k \in 1..i - 1 : socketHandlers[k].fn # fn
    /\ Edit(t, [op |-> "erase", fn |-> fn]) /\ MayCrash(t)
    /\ socketHandlers' = RemoveAt(socketHandlers, i)
    /\ Cut
    /\ UNCHANGED <<socketUserdata, regs>>

(* Faulty variant for UserdataOfRegistration: the vector is edited first, so *)
(* the map loses the entry of the handler that moved up.                     *)
ForgottenAfterErase(i) ==
  [socketUserdata EXCEPT ![RemoveAt(Append(socketHandlers, socketHandlers[i]), i)[i].fn] = 0]
Forgotten(i) == [socketUserdata EXCEPT ![socketHandlers[i].fn] = 0]

(* The index is whatever the caller gives.  What is read outside the vector  *)
(* (an index past its end stands for a negative one as well) may be out of   *)
(* reach, a function, or nothing the map has an entry for.                   *)
RemoveHandlerAt(t, i) ==
  /\ Edit(t, [op |-> "eraseAt", i |-> i])
  /\ \/ i < Len(socketHandlers) /\ MayCrash(t) /\ socketUserdata' = Forgotten(i + 1)
     \/ /\ i >= Len(socketHandlers) /\ fault' \in BOOLEAN
        /\ \/ UNCHANGED socketUserdata
           \/ \E fn \in Function : socketUserdata' = [socketUserdata EXCEPT ![fn] = 0]
  /\ UNCHANGED <<socketHandlers, regs, frames>>

RemoveHandlers(t) ==
  /\ Edit(t, [op |-> "clear"]) /\ MayCrash(t)
  /\ socketHandlers' = <<>>
  /\ Cut
  /\ UNCHANGED <<socketUserdata, regs>>

(* Thread t erases a position that the vector does not have. *)
Astray(t) ==
  pending[t] # None /\ pending[t].op = "eraseAt" /\ pending[t].i >= Len(socketHandlers)

(* The second half: of an edit, the other container; of the destructor, the  *)
(* release of the object's memory.  An erase outside the vector moves memory *)
(* of a negative length, and does not return.                                *)
Finish(t) ==
  /\ Running(t) /\ pending[t] # None /\ heap = None
  /\ pending' = IF Astray(t) THEN pending ELSE [pending EXCEPT ![t] = None]
  /\ LET half == pending[t] IN
     \/ /\ half.op \in {"set", "erase", "clear"}
        /\ MayCrash(t)
        /\ socketUserdata' =
             CASE half.op = "set" -> [socketUserdata EXCEPT ![half.fn] = half.id]
               [] half.op = "erase" -> [socketUserdata EXCEPT ![half.fn] = 0]
               [] half.op = "clear" -> [fn \in Function |-> 0]
        /\ UNCHANGED <<socketHandlers, frames, live>>
     \/ /\ half.op = "eraseAt" /\ ~Astray(t)
        /\ MayCrash(t)
        /\ socketHandlers' = RemoveAt(socketHandlers, half.i + 1)
        /\ Cut
        /\ UNCHANGED <<socketUserdata, live>>
     \/ /\ Astray(t)
        /\ fault' = TRUE
        /\ UNCHANGED <<socketHandlers, socketUserdata, frames, live>>
     \/ /\ half.op = "delete"
        /\ live' = FALSE /\ fault' = fault
        /\ UNCHANGED <<socketHandlers, socketUserdata, frames>>
  /\ UNCHANGED <<config, threads, heap, inbox, regs, ops, arrivals>>

-----------------------------------------------------------------------------
(* Listener(): malloc a buffer, receive into it, call the handlers in vector *)
(* order, free it.                                                           *)
Dispatch(t) == UNCHANGED <<config, object, threads, live, pending, ops, arrivals>>

TakeHeap(t) ==
  /\ heap = None /\ heap' = t
  /\ \/ At(t, "malloc") /\ Goto(t, "alloc") /\ fault' = ~live
     \/ At(t, "free") /\ Goto(t, "freeing") /\ fault' = fault
  /\ UNCHANGED inbox /\ Dispatch(t)

(* What follows a Listener() call: the next one when it is in a loop, and    *)
(* nothing else.  Faulty variant for ListenerKeepsUp: no loop.               *)
Once(f) == <<>>
Again(f) == IF f.loop THEN <<NewFrame(TRUE)>> ELSE <<>>

(* Faulty variant for CallsReturn: a lock is held while recvfrom waits. *)
HeldInReceive(t) == IF Top(t).pc = "alloc" THEN t ELSE None
Released(t) == None

DropHeap(t) ==
  /\ heap = t /\ heap' = Released(t)
  /\ \/ At(t, "alloc") /\ Goto(t, "recv")
     \/ /\ At(t, "freeing")
        /\ frames' = [frames EXCEPT ![t] = Front(@) \o Again(Last(@))]
  /\ UNCHANGED <<inbox, fault>> /\ Dispatch(t)

(* closesocket makes a recvfrom that waits fail. *)
Open ==
  initialized /\ live /\ ~\E s \in Thread : pending[s] # None /\ pending[s].op = "delete"

Receive(t) ==
  /\ At(t, "recv")
  /\ IF Open
       THEN /\ inbox # <<>> /\ inbox' = Tail(inbox)
            /\ IF Head(inbox) /\ bufferSize > 0
                 THEN SetTop(t, [Top(t) EXCEPT !.pc = "check", !.due = Registered])
                 ELSE Goto(t, "free")
       ELSE Goto(t, "free") /\ UNCHANGED inbox
  /\ fault' = ~live
  /\ UNCHANGED heap /\ Dispatch(t)

(* Faulty variant for AloneSafe: the test is off by one. *)
InRangeOrEnd(i) == i <= Len(socketHandlers)
InRange(i) == i < Len(socketHandlers)

Check(t) ==
  /\ At(t, "check")
  /\ Goto(t, IF InRange(Top(t).i) THEN "fetch" ELSE "free")
  /\ fault' \in {~live, ~live \/ Racing(t)}
  /\ UNCHANGED <<heap, inbox>> /\ Dispatch(t)

(* socketHandlers[i] and its userdata, read after the check and without its  *)
(* protection: past the end there is the function erased last, or nothing.   *)
Fetch(t) ==
  /\ At(t, "fetch")
  /\ LET f == Top(t) IN
     \/ /\ f.i < Len(socketHandlers)
        /\ SetTop(t, [f EXCEPT !.pc = "handler",
                               !.calls = Append(@, socketHandlers[f.i + 1].id)])
        /\ fault' \in {~live, ~live \/ Racing(t)}
     \/ /\ f.i >= Len(socketHandlers)
        /\ Goto(t, "handler")
        /\ fault' \in {~live, TRUE}
  /\ UNCHANGED <<heap, inbox>> /\ Dispatch(t)

(* The handler returns to the loop.  Faulty variant for                      *)
(* MissedOnlyAfterRemoval: the loop skips a handler.                         *)
SkipOne(f) == [f EXCEPT !.pc = "check", !.i = @ + 2]
Advance(f) == [f EXCEPT !.pc = "check", !.i = @ + 1]

Return(t) ==
  /\ At(t, "handler") /\ pending[t] = None
  /\ SetTop(t, Advance(Top(t)))
  /\ UNCHANGED <<heap, inbox, fault>> /\ Dispatch(t)

-----------------------------------------------------------------------------
Control == UNCHANGED <<config, object, live, pending, heap, inbox, fault, arrivals>>

(* Listener() called by user code: one step of listening on its own thread.  *)
StepListener(t) ==
  /\ UserCode(t) /\ Depth(t) < MaxDepth
  /\ frames' = [frames EXCEPT ![t] = Append(@, NewFrame(FALSE))]
  /\ UNCHANGED threads /\ Control

(* Listen(): the calling thread never returns.  The handle it stores names   *)
(* whichever thread uses it later.                                           *)
Listen(t) ==
  /\ initialized /\ bufferSize > 0
  /\ UserCode(t) /\ Depth(t) < MaxDepth
  /\ listenThread' = Pseudo
  /\ frames' = [frames EXCEPT ![t] = Append(@, NewFrame(TRUE))]
  /\ UNCHANGED <<life, suspended>> /\ Control

(* ListenAsync(): a further call forgets the handle of the thread before;    *)
(* CreateThread may fail.                                                    *)
ListenAsync(t) ==
  /\ initialized /\ bufferSize > 0
  /\ UserCode(t)
  /\ \/ \E l \in Listener :
          /\ life[l] = "unborn"
          /\ listenThread' = l
          /\ life' = [life EXCEPT ![l] = "alive"]
          /\ frames' = [frames EXCEPT ![l] = <<NewFrame(TRUE)>>]
     \/ listenThread' = None /\ UNCHANGED <<life, frames>>
  /\ UNCHANGED suspended /\ Control

(* The threads a handle may name when t uses it. *)
Named(t) ==
  CASE listenThread = Pseudo -> {t}
    [] listenThread = Garbage -> {None} \cup {s \in Thread : life[s] = "alive"}
    [] OTHER -> {listenThread}

StopListener(t) ==
  /\ UserCode(t)
  /\ \E s \in Named(t) :
       suspended' = IF s # None /\ life[s] = "alive"
                      THEN [suspended EXCEPT ![s] = @ + 1] ELSE suspended
  /\ UNCHANGED <<listenThread, life, frames>> /\ Control

(* ResumeThread lowers a suspend count that is not 0.  Faulty variant for    *)
(* TypeOK: any.                                                              *)
ResumedBelowZero(s) == [suspended EXCEPT ![s] = @ - 1]
Resumed(s) == [suspended EXCEPT ![s] = IF @ > 0 THEN @ - 1 ELSE 0]

StartListener(t) ==
  /\ UserCode(t)
  /\ \E s \in Named(t) : suspended' = IF s # None THEN Resumed(s) ELSE suspended
  /\ UNCHANGED <<listenThread, life, frames>> /\ Control

(* ~NetSocket(): terminate the listening thread wherever it is, then release *)
(* the containers.  A thread that terminates itself gets no further.         *)
Destroy(t) ==
  /\ UserCode(t)
  /\ \E s \in IF initialized THEN Named(t) ELSE {None} :
       /\ life' = IF s # None /\ life[s] = "alive" THEN [life EXCEPT ![s] = "killed"]
                                                   ELSE life
       /\ pending' = IF s = t THEN pending
                     ELSE [pending EXCEPT ![t] = [op |-> "delete"]]
  /\ UNCHANGED <<config, object, listenThread, suspended, live, frames, heap, inbox,
                 fault, arrivals>>

(* The network delivers a datagram, or an error or empty datagram. *)
Arrive ==
  /\ live /\ initialized /\ ~fault
  /\ arrivals < MaxArrivals /\ arrivals' = arrivals + 1
  /\ \E bytes \in BOOLEAN : inbox' = Append(inbox, bytes)
  /\ UNCHANGED <<config, object, threads, live, frames, pending, heap, fault, ops>>

Call(t) ==
  \/ \E fn \in Function : AddHandler(t, fn) \/ RemoveHandler(t, fn)
  \/ \E i \in 0..MaxReg : RemoveHandlerAt(t, i)
  \/ RemoveHandlers(t)
  \/ StepListener(t) \/ Listen(t) \/ ListenAsync(t)
  \/ StopListener(t) \/ StartListener(t) \/ Destroy(t)

Step(t) ==
  Finish(t) \/ TakeHeap(t) \/ DropHeap(t) \/ Receive(t) \/ Check(t) \/ Fetch(t) \/ Return(t)

Next == Arrive \/ \E t \in Thread : Call(t) \/ Step(t)

Spec == Init /\ [][Next]_vars

(* The operating system runs every thread that is neither suspended nor      *)
(* blocked, and handlers return; a thread that waits for the heap gets it if *)
(* it is free again and again, for a closed socket makes its listener spin   *)
(* over malloc and free.  Nothing makes user code call anything.             *)
NeedsHeap(t) == Finish(t) \/ TakeHeap(t)
FairSpec == Spec /\ \A t \in Thread : WF_vars(Step(t)) /\ SF_vars(NeedsHeap(t))

-----------------------------------------------------------------------------
(* Types and bounds: suspend counts never fall below zero (ResumeThread),    *)
(* and loop indexes stay within the registrations ever made.                 *)
TypeOK ==
  /\ socketHandlers \in Seq([fn : Function, id : 1..MaxReg])
  /\ socketUserdata \in [Function -> 0..MaxReg]
  /\ listenThread \in Listener \cup {None, Pseudo, Garbage}
  /\ life \in [Thread -> {"unborn", "alive", "killed"}]
  /\ suspended \in [Thread -> 0..MaxOps]
  /\ heap \in Thread \cup {None}
  /\ live \in BOOLEAN /\ fault \in BOOLEAN
  /\ inbox \in Seq(BOOLEAN)
  /\ \A t \in Thread : \A k \in DOMAIN frames[t] :
       frames[t][k].i \in 0..MaxReg /\ Range(frames[t][k].calls) \subseteq 1..MaxReg

(* Between calls, every registration's handler is given the userdata it was  *)
(* registered with (AddHandler and the RemoveHandlers keep two containers in *)
(* step, one keyed by position and one by function).  It is claimed for a    *)
(* socket that no listening thread was started for: two threads may leave    *)
(* the containers out of step in the middle of a removal.                    *)
UserdataOfRegistration ==
  (\A t \in Thread : pending[t] = None) /\ ~fault /\ (\A l \in Listener : life[l] = "unborn") =>
    \A k \in DOMAIN socketHandlers :
      socketUserdata[socketHandlers[k].fn] = socketHandlers[k].id

(* One datagram reaches a registration at most once and registrations in the *)
(* order they were made, whatever handlers and other threads add and remove  *)
(* while Listener's index walks the vector.                                  *)
CalledInOrder ==
  \A t \in Thread : \A k \in DOMAIN frames[t] :
    LET calls == frames[t][k].calls IN
    \A i, j \in DOMAIN calls : i < j => calls[i] < calls[j]

(* A registration that was there when the datagram came misses it only if a  *)
(* handler was removed during the dispatch.                                  *)
MissedOnlyAfterRemoval ==
  \A t \in Thread : \A k \in DOMAIN frames[t] :
    LET f == frames[t][k] IN
    f.pc \in {"free", "freeing"} /\ ~f.cut => f.due \subseteq Range(f.calls)

(* Without a listening thread the process is lost in two ways only: a        *)
(* handler deletes the socket that is calling it, or user code removes an    *)
(* index that is none of the vector's (RemoveHandler(int) checks nothing).   *)
(* Whatever handlers add and remove, the re-entrant loop of Listener never   *)
(* reads past the vector.                                                    *)
AloneSafe ==
  fault => \/ \E l \in Listener : life[l] # "unborn"
           \/ ~live /\ frames[Main] # <<>>
           \/ Astray(Main)

Stopped(t) == suspended[t] > 0 \/ life[t] # "alive"

(* Excuses for no progress: the process is lost, the socket is gone, or a    *)
(* thread was suspended or terminated between the two ends of a malloc or    *)
(* free, with the heap locked.                                               *)
Lost == fault \/ ~live \/ (heap # None /\ Stopped(heap))

(* A listening thread that is not stopped takes every result that arrives on *)
(* an open socket, unless the heap was left locked by one that was.          *)
ListenerKeepsUp ==
  \A l \in Listener :
    inbox # <<>> /\ life[l] = "alive" ~> inbox = <<>> \/ ~Open \/ Stopped(l) \/ Lost

(* Every edit of the handler table, and the destructor, returns, unless it  *)
(* is lost the same way.                                                     *)
CallsReturn ==
  \A t \in Thread : pending[t] # None ~> pending[t] = None \/ Stopped(t) \/ Lost
=============================================================================
