----------------------------- MODULE MCCollector -----------------------------
(* Heaps to begin with: a string and a userdata in a weak table; an upvalue  *)
(* of the running thread no function uses any more, and a coroutine; a       *)
(* function whose upvalue lives on the stack of a coroutine out of reach.    *)
EXTENDS Collector

CONSTANTS w, u, s, c, x, co

Fields(S) == {<<Field, o>> : o \in S}
Refs(h) == [o \in Obj |-> IF \E r \in h : r[1] = o THEN (CHOOSE r \in h : r[1] = o)[2] ELSE {}]

WeakHeap ==
  [alive |-> {main, registry, w, u, s},
   ref |-> Refs({<<main, Fields({u})>>, <<registry, {<<Nil, w>>, <<Nil, u>>}>>,
                 <<w, {<<Nil, u>>, <<s, s>>}>>, <<u, Fields({registry})>>}),
   owner |-> [v \in UpVal |-> Nil]]
StackHeap ==
  [alive |-> {main, registry, x, u, co},
   ref |-> Refs({<<main, Fields({u, co})>>, <<x, Fields({u})>>, <<u, Fields({registry})>>,
                 <<co, Fields({registry})>>}),
   owner |-> [v \in UpVal |-> main]]
UpvalHeap ==
  [alive |-> {main, registry, c, x, co, w},
   ref |-> Refs({<<main, Fields({c, w})>>, <<registry, {<<Nil, c>>}>>, <<c, Fields({x, registry})>>}),
   owner |-> [v \in UpVal |-> co]]
MCHeaps == {WeakHeap, StackHeap, UpvalHeap}
=============================================================================
