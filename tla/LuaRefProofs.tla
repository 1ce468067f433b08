---------------------------- MODULE LuaRefProofs ----------------------------
(* Proofs about the reference system: for every set of values and every      *)
(* bound on the table, live references keep leading to their objects, and    *)
(* the table with its free list implements RefTable.                         *)
EXTENDS LuaRef, FiniteSets, FiniteSetTheorems, TLAPS

(* With no freed slot the table's only border is top, so luaL_ref extends    *)
(* the table by exactly one (the length of a table with holes is not unique; *)
(* the free list is what keeps holes from being measured).                   *)
LEMMA NoFreeSlot ==
  ASSUME TypeOK, Lookup, UnusedAbove, registry[0] = Nil,
         NEW fl \in [1..0 -> Ref], IsFreeList(0, fl),
         NEW r \in NewRef(registry)
  PROVE  r = top + 1 /\ r \in Ref /\ FreeHead(registry) = 0
<1>1. FreeHead(registry) = 0
  BY RegistryAssumption DEF FreeHead
<1>2. \A s \in 1..top : registry[s] # Nil
  BY RegistryAssumption DEF IsFreeList, Lookup, TypeOK, Ref
<1>3. PICK n \in Border(registry) : r = n + 1
  BY <1>1 DEF NewRef
<1>4. n \in 0..MaxRef - 1 /\ registry[n + 1] = Nil /\ (n # 0 => registry[n] # Nil)
  BY <1>3 DEF Border
<1>5. n = top
  BY <1>2, <1>4, RegistryAssumption DEF UnusedAbove, TypeOK, Ref
<1> QED
  BY <1>1, <1>3, <1>4, <1>5, RegistryAssumption DEF Ref

(* A free list of n > 0 slots: luaL_ref returns its first slot, which is not *)
(* live.                                                                     *)
LEMMA RecycledSlot ==
  ASSUME TypeOK, NEW n \in 1..MaxRef, NEW fl \in [1..n -> Ref],
         IsFreeList(n, fl), NEW r \in NewRef(registry)
  PROVE  /\ r = fl[n] /\ r \in Ref /\ r <= top /\ held[r] = Nil
         /\ FreeHead(registry) # 0
<1>1. registry[0] = fl[n] /\ fl[n] \in Ref /\ n \in 1..n
  BY DEF IsFreeList
<1>2. FreeHead(registry) = fl[n] /\ fl[n] # 0
  BY <1>1, RegistryAssumption DEF FreeHead, Ref
<1>3. r = fl[n]
  BY <1>2 DEF NewRef
<1> QED
  BY <1>1, <1>2, <1>3 DEF IsFreeList

LEMMA InitFreeListInv == Init => FreeListInv
<1> SUFFICES ASSUME Init PROVE FreeListInv
  OBVIOUS
<1>1. TypeOK /\ Lookup /\ UnusedAbove
  BY RegistryAssumption DEF Init, TypeOK, Lookup, UnusedAbove, EmptyTable, Ref
<1>2. [i \in 1..0 |-> 1] \in [1..0 -> Ref]
  BY RegistryAssumption DEF Ref
<1>3. IsFreeList(0, [i \in 1..0 |-> 1])
  BY RegistryAssumption DEF Init, IsFreeList, EmptyTable
<1>4. 0 \in 0..MaxRef
  BY RegistryAssumption
<1> QED
  BY <1>1, <1>2, <1>3, <1>4 DEF FreeListInv

(* luaL_ref of an object keeps the invariant: it shortens the chain by its   *)
(* head or, when the chain is empty, extends the table by the slot top + 1.  *)
LEMMA RefFreeListInv ==
  ASSUME FreeListInv, NEW v \in Value, luaL_ref(v)
  PROVE  FreeListInv'
<1>1. PICK r \in NewRef(registry) :
        /\ registry' = Stored(registry, r, v)
        /\ held' = [held EXCEPT ![r] = IF held[r] = Nil THEN v ELSE held[r]]
        /\ top' = IF r > top THEN r ELSE top
  BY RegistryAssumption DEF luaL_ref
<1>2. PICK n \in 0..MaxRef : \E fl \in [1..n -> Ref] : IsFreeList(n, fl)
  BY DEF FreeListInv
<1>3. PICK fl \in [1..n -> Ref] : IsFreeList(n, fl)
  BY <1>2
<1>4. TypeOK /\ Lookup /\ UnusedAbove
  BY DEF FreeListInv
<1>5. CASE n = 0
  <2>1. registry[0] = Nil
    BY <1>3, <1>5 DEF IsFreeList
  <2>2. r = top + 1 /\ r \in Ref /\ FreeHead(registry) = 0
    BY <1>3, <1>4, <1>5, <2>1, NoFreeSlot
  <2>3. registry' = [registry EXCEPT ![r] = v] /\ top' = r /\ r # 0
    BY <1>1, <1>4, <2>2 DEF Stored, TypeOK, Ref
  <2>4. held' = [held EXCEPT ![r] = v]
    <3>1. r > top
      BY <1>4, <2>2 DEF TypeOK, Ref
    <3>2. held[r] = Nil
      BY <1>4, <2>2, <3>1 DEF UnusedAbove
    <3> QED
      BY <1>1, <3>2
  <2>5. TypeOK'
    BY <1>4, <2>2, <2>3, <2>4, RegistryAssumption DEF TypeOK, Ref
  <2>6. Lookup' /\ UnusedAbove'
    <3>1. \A s \in Ref : s # r => registry'[s] = registry[s] /\ held'[s] = held[s]
      BY <1>4, <2>3, <2>4 DEF TypeOK, Ref
    <3>2. registry'[r] = v /\ held'[r] = v
      BY <1>4, <2>2, <2>3, <2>4, RegistryAssumption DEF TypeOK, Ref
    <3> QED
      BY <1>4, <2>2, <2>3, <3>1, <3>2 DEF TypeOK, Lookup, UnusedAbove, Ref
  <2>7. registry'[0] = Nil
    BY <1>4, <2>1, <2>3 DEF TypeOK
  <2>8. \A s \in 1..top' : held'[s] # Nil
    BY <1>3, <1>4, <1>5, <2>2, <2>3, <2>4, RegistryAssumption
       DEF IsFreeList, TypeOK, Ref
  <2>9. IsFreeList(0, fl)'
    BY <1>5, <2>7, <2>8 DEF IsFreeList
  <2> QED
    BY <1>5, <2>5, <2>6, <2>9 DEF FreeListInv
<1>6. CASE n # 0
  <2>1. n \in 1..MaxRef
    BY <1>6
  <2>2. r = fl[n] /\ r \in Ref /\ r <= top /\ held[r] = Nil /\ FreeHead(registry) # 0
    BY <1>3, <1>4, <2>1, RecycledSlot
  <2>3. registry' = [registry EXCEPT ![0] = registry[r], ![r] = v]
    BY <1>1, <2>2 DEF Stored
  <2>4. top' = top /\ held' = [held EXCEPT ![r] = v]
    BY <1>1, <1>4, <2>2 DEF TypeOK, Ref
  <2>5. TypeOK'
    <3>1. 0 \in 0..MaxRef /\ r \in 0..MaxRef
      BY <2>2, RegistryAssumption DEF Ref
    <3>2. registry[r] \in Value \cup {Nil} \cup Ref
      BY <1>4, <3>1 DEF TypeOK
    <3>3. registry' \in [0..MaxRef -> Value \cup {Nil} \cup Ref]
      BY <1>4, <2>3, <3>1, <3>2 DEF TypeOK
    <3> QED
      BY <1>4, <2>2, <2>4, <3>3 DEF TypeOK
  <2>6. Lookup' /\ UnusedAbove'
    <3>1. \A s \in Ref : s # r => registry'[s] = registry[s] /\ held'[s] = held[s]
      BY <1>4, <2>3, <2>4, RegistryAssumption DEF TypeOK, Ref
    <3>2. registry'[r] = v /\ held'[r] = v
      BY <1>4, <2>2, <2>3, <2>4 DEF TypeOK, Ref
    <3> QED
      BY <1>4, <2>2, <2>4, <3>1, <3>2 DEF TypeOK, Lookup, UnusedAbove, Ref
  <2> DEFINE m == n - 1
             gl == [i \in 1..m |-> fl[i]]
  <2>7. m \in 0..MaxRef /\ gl \in [1..m -> Ref]
    BY <2>1, RegistryAssumption
  <2>8. registry[r] = IF n = 1 THEN Nil ELSE fl[n - 1]
    BY <1>3, <2>1, <2>2 DEF IsFreeList
  <2>9. IsFreeList(m, gl)'
    <3>1. \A i, j \in 1..m : gl[i] = gl[j] => i = j
      BY <1>3, <2>1 DEF IsFreeList
    <3>2. \A i \in 1..m : gl[i] = fl[i] /\ gl[i] # r /\ gl[i] \in Ref
      BY <1>3, <2>1, <2>2, <2>7 DEF IsFreeList
    <3>3. registry'[0] = IF m = 0 THEN Nil ELSE gl[m]
      BY <1>4, <2>1, <2>2, <2>3, <2>8, RegistryAssumption DEF TypeOK, Ref
    <3>4. \A i \in 1..m : registry'[gl[i]] = registry[fl[i]]
      BY <1>4, <2>2, <2>3, <3>2, RegistryAssumption DEF TypeOK, Ref
    <3>5. \A i \in 1..m : registry'[gl[i]] = IF i = 1 THEN Nil ELSE gl[i - 1]
      BY <1>3, <2>1, <3>4 DEF IsFreeList
    <3>6. \A i \in 1..m : gl[i] <= top' /\ held'[gl[i]] = Nil
      BY <1>3, <1>4, <2>1, <2>4, <3>2 DEF IsFreeList, TypeOK
    <3>7. \A s \in 1..top' : held'[s] = Nil => \E i \in 1..m : gl[i] = s
      <4> SUFFICES ASSUME NEW s \in 1..top, held'[s] = Nil
                   PROVE  \E i \in 1..m : gl[i] = s
        BY <2>4
      <4>1. s \in Ref
        BY <1>4, RegistryAssumption DEF TypeOK, Ref
      <4>2. s # r /\ held[s] = Nil
        BY <1>4, <2>2, <2>4, <4>1, RegistryAssumption DEF TypeOK
      <4>3. PICK i \in 1..n : fl[i] = s
        BY <1>3, <4>2 DEF IsFreeList
      <4>4. i # n
        BY <2>2, <4>2, <4>3
      <4> QED
        BY <2>1, <4>3, <4>4
    <3> QED
      BY <3>1, <3>3, <3>5, <3>6, <3>7 DEF IsFreeList
  <2> HIDE DEF m, gl
  <2> QED
    BY <2>5, <2>6, <2>7, <2>9 DEF FreeListInv
<1> QED
  BY <1>5, <1>6

(* luaL_unref of a live reference keeps the invariant: the slot becomes the  *)
(* head of the chain.                                                        *)
LEMMA UnrefFreeListInv ==
  ASSUME FreeListInv, NEW r \in Ref, luaL_unref(r)
  PROVE  FreeListInv'
<1>1. PICK n \in 0..MaxRef : \E fl \in [1..n -> Ref] : IsFreeList(n, fl)
  BY DEF FreeListInv
<1>2. PICK fl \in [1..n -> Ref] : IsFreeList(n, fl)
  BY <1>1
<1>3. TypeOK /\ Lookup /\ UnusedAbove
  BY DEF FreeListInv
<1>4. /\ r # 0 /\ r \in 0..MaxRef /\ 0 \in 0..MaxRef /\ r >= 0 /\ r # LUA_REFNIL
  BY RegistryAssumption DEF Ref, LUA_REFNIL
<1>5. /\ held[r] # Nil
      /\ held' = [s \in Ref |-> IF s = r THEN Nil ELSE held[s]]
      /\ registry' = [registry EXCEPT ![r] = registry[0], ![0] = r]
      /\ top' = top
  BY <1>4 DEF luaL_unref, Unreferenced
<1>6. registry'[0] = r /\ registry'[r] = registry[0]
  BY <1>3, <1>4, <1>5 DEF TypeOK
<1>7. \A s \in Ref : s # r => registry'[s] = registry[s] /\ held'[s] = held[s]
  BY <1>3, <1>5, RegistryAssumption DEF TypeOK, Ref
<1>8. held'[r] = Nil
  BY <1>5
<1>9. r <= top
  BY <1>3, <1>5, RegistryAssumption DEF UnusedAbove, TypeOK, Ref
<1>10. TypeOK'
  <2>1. registry[0] \in Value \cup {Nil} \cup Ref
    BY <1>3, <1>4 DEF TypeOK
  <2>2. registry' \in [0..MaxRef -> Value \cup {Nil} \cup Ref]
    BY <1>3, <1>4, <1>5, <2>1 DEF TypeOK
  <2>3. held' \in [Ref -> Value \cup {Nil}]
    BY <1>3, <1>5 DEF TypeOK
  <2> QED
    BY <1>3, <1>5, <2>2, <2>3 DEF TypeOK
<1>11. Lookup'
  BY <1>3, <1>7, <1>8 DEF Lookup
<1>12. UnusedAbove'
  BY <1>3, <1>5, <1>7, <1>9, RegistryAssumption DEF UnusedAbove, TypeOK, Ref
<1>13. \A i \in 1..n : fl[i] # r /\ fl[i] \in Ref
  BY <1>2, <1>5 DEF IsFreeList
<1> DEFINE m == n + 1
           gl == [i \in 1..m |-> IF i = m THEN r ELSE fl[i]]
<1>14. m \in 0..MaxRef
  (* n distinct references differ from r, so n < MaxRef. *)
  <2>1. n # MaxRef
    <3> SUFFICES ASSUME n = MaxRef PROVE FALSE
      OBVIOUS
    <3>1. fl \in Injection(Ref, Ref)
      BY <1>2 DEF IsFreeList, Injection, IsInjective, Ref
    <3>2. IsFiniteSet(Ref)
      BY FS_Interval, RegistryAssumption DEF Ref
    <3>3. fl \in Surjection(Ref, Ref)
      BY <3>1, <3>2, FS_Injection
    <3> QED
      BY <1>13, <3>3 DEF Surjection, Ref
  <2> QED
    BY <2>1, RegistryAssumption
<1>15. gl \in [1..m -> Ref]
  BY <1>13, RegistryAssumption DEF Ref
<1>16. IsFreeList(m, gl)'
  <2>1. \A i \in 1..n : gl[i] = fl[i]
    OBVIOUS
  <2>2. gl[m] = r
    OBVIOUS
  <2>3. \A i, j \in 1..m : gl[i] = gl[j] => i = j
    BY <1>2, <1>13, <2>1, <2>2 DEF IsFreeList
  <2>4. registry'[0] = IF m = 0 THEN Nil ELSE gl[m]
    BY <1>6, <2>2
  <2>5. \A i \in 1..m : registry'[gl[i]] = IF i = 1 THEN Nil ELSE gl[i - 1]
    <3>1. registry'[gl[m]] = IF m = 1 THEN Nil ELSE gl[m - 1]
      BY <1>2, <1>6, <2>1, <2>2 DEF IsFreeList
    <3>2. \A i \in 1..n : registry'[gl[i]] = IF i = 1 THEN Nil ELSE gl[i - 1]
      BY <1>2, <1>7, <1>13, <2>1 DEF IsFreeList
    <3>3. \A i \in 1..m : i = m \/ i \in 1..n
      BY RegistryAssumption
    <3> QED
      BY <3>1, <3>2, <3>3
  <2>6. \A i \in 1..m : gl[i] <= top' /\ held'[gl[i]] = Nil
    BY <1>2, <1>5, <1>7, <1>8, <1>9, <1>13, <2>1, <2>2 DEF IsFreeList
  <2>7. \A s \in 1..top' : held'[s] = Nil => \E i \in 1..m : gl[i] = s
    <3> SUFFICES ASSUME NEW s \in 1..top, held'[s] = Nil
                 PROVE  \E i \in 1..m : gl[i] = s
      BY <1>5
    <3>1. s \in Ref
      BY <1>3, RegistryAssumption DEF TypeOK, Ref
    <3>2. CASE s = r
      BY <2>2, <3>2
    <3>3. CASE s # r
      <4>1. PICK i \in 1..n : fl[i] = s
        BY <1>2, <1>7, <3>1, <3>3 DEF IsFreeList
      <4> QED
        BY <2>1, <4>1
    <3> QED
      BY <3>2, <3>3
  <2> HIDE DEF m, gl
  <2> QED
    BY <2>3, <2>4, <2>5, <2>6, <2>7 DEF IsFreeList
<1> HIDE DEF m, gl
<1> QED
  BY <1>10, <1>11, <1>12, <1>14, <1>15, <1>16 DEF FreeListInv

(* Releasing LUA_REFNIL changes nothing. *)
LEMMA UnrefNil ==
  ASSUME TypeOK, luaL_unref(LUA_REFNIL)
  PROVE  UNCHANGED vars
<1>1. registry' = registry /\ top' = top
  BY DEF luaL_unref, Unreferenced, LUA_REFNIL
<1>2. held' = held
  BY RegistryAssumption DEF luaL_unref, TypeOK, LUA_REFNIL, Ref
<1> QED
  BY <1>1, <1>2 DEF vars

LEMMA StutterFreeListInv ==
  ASSUME FreeListInv, UNCHANGED vars
  PROVE  FreeListInv'
  BY DEF FreeListInv, TypeOK, Lookup, UnusedAbove, IsFreeList, vars

LEMMA NextFreeListInv == FreeListInv /\ [Next]_vars => FreeListInv'
<1> SUFFICES ASSUME FreeListInv, [Next]_vars PROVE FreeListInv'
  OBVIOUS
<1>1. ASSUME NEW v \in Value, luaL_ref(v) PROVE FreeListInv'
  BY <1>1, RefFreeListInv
<1>2. CASE luaL_ref(Nil)
  BY <1>2, StutterFreeListInv DEF luaL_ref
<1>3. ASSUME NEW r \in Ref, luaL_unref(r) PROVE FreeListInv'
  BY <1>3, UnrefFreeListInv
<1>4. CASE luaL_unref(LUA_REFNIL)
  BY <1>4, UnrefNil, StutterFreeListInv DEF FreeListInv
<1>5. CASE UNCHANGED vars
  BY <1>5, StutterFreeListInv
<1> QED
  BY <1>1, <1>2, <1>3, <1>4, <1>5 DEF Next

(* The free list of luaL_ref and luaL_unref is never corrupted by callers    *)
(* that release what they hold, once.                                        *)
THEOREM FreeListCorrect == Spec => []FreeListInv
<1> QED
  BY InitFreeListInv, NextFreeListInv, PTL DEF Spec

(* Every live reference leads to the object it was created for.              *)
THEOREM LookupCorrect == Spec => []Lookup
<1>1. FreeListInv => Lookup
  BY DEF FreeListInv
<1> QED
  BY <1>1, FreeListCorrect, PTL

-----------------------------------------------------------------------------
(* luaL_ref of an object is an Acquire of the abstract table: the reference  *)
(* was not live, and a new one is made only when all the others are.         *)
LEMMA RefIsAcquire ==
  ASSUME FreeListInv, NEW v \in Value, luaL_ref(v)
  PROVE  Abstract!Acquire(v)
<1>1. PICK r \in NewRef(registry) :
        /\ held' = [held EXCEPT ![r] = IF held[r] = Nil THEN v ELSE held[r]]
        /\ top' = IF r > top THEN r ELSE top
  BY RegistryAssumption DEF luaL_ref
<1>2. PICK n \in 0..MaxRef : \E fl \in [1..n -> Ref] : IsFreeList(n, fl)
  BY DEF FreeListInv
<1>3. PICK fl \in [1..n -> Ref] : IsFreeList(n, fl)
  BY <1>2
<1>4. TypeOK /\ Lookup /\ UnusedAbove
  BY DEF FreeListInv
<1>5. CASE n = 0
  <2>1. registry[0] = Nil
    BY <1>3, <1>5 DEF IsFreeList
  <2>2. r = top + 1 /\ r \in Ref
    BY <1>3, <1>4, <1>5, <2>1, NoFreeSlot
  <2>3. held[r] = Nil /\ top' = r
    BY <1>1, <1>4, <2>2 DEF UnusedAbove, TypeOK, Ref
  <2>4. \A s \in 1..top : held[s] # Nil
    BY <1>3, <1>5 DEF IsFreeList
  <2> QED
    BY <1>1, <2>2, <2>3, <2>4 DEF Abstract!Acquire, Ref
<1>6. CASE n # 0
  <2>1. r \in Ref /\ r <= top /\ held[r] = Nil
    BY <1>3, <1>4, <1>6, RecycledSlot
  <2>2. top' = top
    BY <1>1, <1>4, <2>1 DEF TypeOK, Ref
  <2> QED
    BY <1>1, <2>1, <2>2 DEF Abstract!Acquire, Ref
<1> QED
  BY <1>5, <1>6

LEMMA UnrefIsRelease ==
  ASSUME TypeOK, NEW r \in Ref, luaL_unref(r)
  PROVE  Abstract!Release(r)
<1>1. r # LUA_REFNIL
  BY RegistryAssumption DEF Ref, LUA_REFNIL
<1>2. held' = [held EXCEPT ![r] = Nil]
  BY DEF luaL_unref, TypeOK
<1> QED
  BY <1>1, <1>2 DEF luaL_unref, Abstract!Release

(* The registry with its free list implements the abstract table: a live     *)
(* reference is never handed out a second time, and the table does not grow  *)
(* while a released reference can be reused.                                 *)
THEOREM RefinesRefTable == Spec => ImplementsRefTable
<1>1. Init => Abstract!Init
  BY DEF Init, Abstract!Init, Ref
<1>2. FreeListInv /\ [Next]_vars => [Abstract!Next]_(Abstract!vars)
  <2> SUFFICES ASSUME FreeListInv, [Next]_vars
               PROVE  [Abstract!Next]_(Abstract!vars)
    OBVIOUS
  <2>1. ASSUME NEW v \in Value, luaL_ref(v) PROVE Abstract!Next
    BY <2>1, RefIsAcquire DEF Abstract!Next
  <2>2. ASSUME NEW r \in Ref, luaL_unref(r) PROVE Abstract!Next
    BY <2>2, UnrefIsRelease DEF Abstract!Next, FreeListInv, Ref
  <2>3. CASE UNCHANGED vars
    BY <2>3 DEF vars, Abstract!vars
  <2>4. CASE luaL_ref(Nil)
    BY <2>3, <2>4 DEF luaL_ref
  <2>5. CASE luaL_unref(LUA_REFNIL)
    BY <2>3, <2>5, UnrefNil DEF FreeListInv
  <2> QED
    BY <2>1, <2>2, <2>3, <2>4, <2>5 DEF Next
<1> QED
  BY <1>1, <1>2, FreeListCorrect, PTL DEF Spec, Abstract!Spec, ImplementsRefTable
=============================================================================
