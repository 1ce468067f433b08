------------------------------ MODULE LuaTable ------------------------------
(* The table of the embedded Lua (ltable.c): an array part for the integers  *)
(* from 1, a hash part of chained scatter with Brent's variation for the     *)
(* other keys, a rehash that moves entries between the two, the traversal    *)
(* and the length.  It is driven by the assignments of a program, by the     *)
(* collector, which marks the keys of empty entries dead, and by `next'.     *)
EXTENDS Integers, Sequences, FiniteSetsExt

CONSTANTS
  String,    \* keys hashed by their text
  Object,    \* keys hashed by their address
  Value,
  Nil,
  Off,       \* the cursor when no traversal is under way
  Invalid,   \* the cursor after next raised "invalid key to 'next'"
  MaxKey,    \* bound: the integer keys are 1..MaxKey
  MaxHash,   \* bound: hashes of strings and addresses are 0..MaxHash
  MAX_INT    \* the largest integer key the doubling search of luaH_getn tries

TwoTo[e \in Nat] == IF e = 0 THEN 1 ELSE 2 * TwoTo[e - 1]

(* Integers below 2^20 have nothing in the low word of their double. *)
ASSUME LuaTableAssumption ==
  /\ MaxKey \in Nat /\ MaxKey < TwoTo[20] /\ MaxHash \in Nat /\ MAX_INT \in Nat
  /\ String \cap Object = {} /\ \A k \in String \cup Object : k \notin Int
  /\ Nil \notin Value \cup String \cup Object \cup Int
  /\ {Off, Invalid} \cap (String \cup Object \cup Int \cup {Nil}) = {} /\ Off # Invalid

VARIABLES
  table,     \* [array, node, lastfree]
  hash,      \* where the strings and the objects of this run hash to
  cursor,    \* the key a traversal stands at, Nil before its first call
  seen,      \* history: the keys the traversal under way has visited
  map        \* history: what was assigned to each key last

vars == <<table, hash, cursor, seen, map>>

Key == 1..MaxKey \cup String \cup Object

(* hashnum adds the two words of a double: for n = 2^e + m, the exponent and *)
(* the upper twenty bits of the fraction.                                    *)
Exponent(n) == CHOOSE e \in 0..n : TwoTo[e] <= n /\ n < TwoTo[e + 1]
hashnum(n) ==
  LET e == Exponent(n)
  IN (1023 + e) * TwoTo[20] + ((n - TwoTo[e]) * TwoTo[20]) \div TwoTo[e]

sizenode(t) == Cardinality(DOMAIN t.node)   \* 0: the shared dummynode
(* Strings are taken modulo the size, a power of two; numbers and addresses, *)
(* which have many factors two, modulo (size - 1) | 1.                       *)
mainposition(t, k) ==
  IF k \in String THEN hash[k] % sizenode(t)
  ELSE (IF k \in Object THEN hash[k] ELSE hashnum(k)) %
       (IF sizenode(t) = 1 THEN 1 ELSE sizenode(t) - 1)

-----------------------------------------------------------------------------
(* Finding a key.  The chain of a key is walked from its main position: the  *)
(* first of the nodes looked for counts, Nil: none is on the chain.          *)
First(t, k, nodes) ==
  LET from[p \in DOMAIN t.node] ==
        IF p \in nodes THEN p
        ELSE IF t.node[p].next = Nil THEN Nil ELSE from[t.node[p].next]
  IN IF sizenode(t) = 0 THEN Nil ELSE from[mainposition(t, k)]
NodesWith(t, k) == {p \in DOMAIN t.node : t.node[p].key = k}
NodeOf(t, k) == First(t, k, {p \in NodesWith(t, k) : ~t.node[p].dead})
InArray(t, k) == k \in DOMAIN t.array

luaH_get(t, k) ==
  IF InArray(t, k) THEN t.array[k]
  ELSE LET p == NodeOf(t, k) IN IF p = Nil THEN Nil ELSE t.node[p].val

-----------------------------------------------------------------------------
(* A new key.  Its main position is taken if that holds no value; a node     *)
(* that is in the way is moved to a free one unless that is its own main     *)
(* position, and then the new key goes to the free one.                      *)
FreeNodes(t) == {p \in DOMAIN t.node : p < t.lastfree /\ t.node[p].key = Nil}
Empty(k, next) == [key |-> k, dead |-> FALSE, val |-> Nil, next |-> next]

Occupied(t, k) == sizenode(t) = 0 \/ t.node[mainposition(t, k)].val # Nil
Full(t, k) == Occupied(t, k) /\ FreeNodes(t) = {}   \* getfreepos gives NULL

\* Mutant: the chain still leads to the node the colliding entry has left.
MovedUnlinked(t, k, mp, n) ==
  [t EXCEPT !.lastfree = n, !.node = [@ EXCEPT ![n] = t.node[mp], ![mp] = Empty(k, Nil)]]
Moved(t, k, mp, n) ==
  LET prev == First(t, t.node[mp].key, {p \in DOMAIN t.node : t.node[p].next = mp})
  IN [t EXCEPT !.lastfree = n,
        !.node = [@ EXCEPT ![prev].next = n, ![n] = t.node[mp], ![mp] = Empty(k, Nil)]]
Chained(t, k, mp, n) ==
  [t EXCEPT !.lastfree = n,
     !.node = [@ EXCEPT ![n] = Empty(k, t.node[mp].next), ![mp].next = n]]
\* Mutant: a colliding node is never moved.
PlacedBehind(t, k) ==
  LET mp == mainposition(t, k)
  IN IF ~Occupied(t, k) THEN [t EXCEPT !.node[mp] = Empty(k, @.next)]
     ELSE Chained(t, k, mp, Max(FreeNodes(t)))
(* newkey, where it needs no rehash *)
Placed(t, k) ==
  LET mp == mainposition(t, k)
  IN IF ~Occupied(t, k) THEN [t EXCEPT !.node[mp] = Empty(k, @.next)]
     ELSE LET n == Max(FreeNodes(t))
          IN IF mainposition(t, t.node[mp].key) # mp THEN Moved(t, k, mp, n)
             ELSE Chained(t, k, mp, n)

(* An assignment to the place luaH_set gives. *)
Stored(t, k, v) ==
  IF InArray(t, k) THEN [t EXCEPT !.array[k] = v]
  ELSE LET u == IF NodeOf(t, k) = Nil THEN Placed(t, k) ELSE t
       IN [u EXCEPT !.node[NodeOf(u, k)].val = v]

-----------------------------------------------------------------------------
(* Rehash: count the integer keys, choose the array part, insert all again.  *)
UsedNodes(t) == {p \in DOMAIN t.node : t.node[p].val # Nil}
UsedArray(t) == {i \in DOMAIN t.array : t.array[i] # Nil}
Ints(t, k) == UsedArray(t) \cup (({t.node[p].key : p \in UsedNodes(t)} \cup {k}) \cap 1..MaxKey)

(* The last power of two that more than half of its slots would be used of,  *)
(* among those whose own slice, from half of it up, has a key.               *)
Sizes == {TwoTo[i] : i \in 0..MaxKey}
UpTo(ints, n) == Cardinality({i \in ints : i <= n})
\* Mutant: the loop ends one power of two too early.
OnePowerLess(ints) ==
  LET sizes == {n \in Sizes :
                  /\ n < Cardinality(ints) /\ \E i \in ints : n \div 2 < i /\ i <= n
                  /\ UpTo(ints, n) > n \div 2}
  IN IF sizes = {} THEN 0 ELSE Max(sizes)
computesizes(ints) ==
  LET sizes == {n \in Sizes :
                  /\ \E i \in ints : n \div 2 < i /\ i <= n
                  /\ UpTo(ints, n) > n \div 2}
  IN IF sizes = {} THEN 0 ELSE Max(sizes)

ceilpow2(n) == CHOOSE p \in {TwoTo[i] : i \in 0..n} : n <= p /\ (p > 1 => p < 2 * n)
setnodevector(size) ==
  [p \in 0..(IF size = 0 THEN 0 ELSE ceilpow2(size)) - 1 |-> Empty(Nil, Nil)]
setarrayvector(a, size) == [i \in 1..size |-> IF i \in DOMAIN a THEN a[i] ELSE Nil]

Vanishing(t, nasize) ==   \* the slots of the array part that are cut off
  IF nasize >= Len(t.array) THEN <<>>
  ELSE [i \in 1..Len(t.array) - nasize |-> [key |-> nasize + i, val |-> t.array[nasize + i]]]
Entries(t) ==   \* the old hash part is read from its end
  [i \in 1..sizenode(t) |-> [key |-> t.node[sizenode(t) - i].key, val |-> t.node[sizenode(t) - i].val]]
resize(t, nasize, nhsize) ==
  LET nodes == setnodevector(nhsize)
      new == [array |-> setarrayvector(t.array, nasize), node |-> nodes,
              lastfree |-> Cardinality(DOMAIN nodes)]
      old == Vanishing(t, nasize) \o Entries(t)
      after[i \in 0..Len(old)] ==   \* i entries of the old table were read
        IF i = 0 THEN new
        ELSE IF old[i].val = Nil THEN after[i - 1] ELSE Stored(after[i - 1], old[i].key, old[i].val)
  IN after[Len(old)]

rehash(t, k) ==
  LET ints == Ints(t, k)
      nasize == computesizes(ints)
      totaluse == Cardinality(UsedArray(t)) + Cardinality(UsedNodes(t)) + 1
  IN resize(t, nasize, totaluse - UpTo(ints, nasize))

luaH_set(t, k, v) ==
  LET new == ~InArray(t, k) /\ NodeOf(t, k) = Nil
  IN Stored(IF new /\ Full(t, k) THEN rehash(t, k) ELSE t, k, v)

-----------------------------------------------------------------------------
(* Traversal: first the array part, then the nodes.  A key that was cleared  *)
(* and marked dead since the last call still tells where the traversal is.   *)
\* Mutant: dead keys are not found.
FindLive(t, k) ==
  IF k = Nil THEN 0
  ELSE IF InArray(t, k) THEN k
  ELSE LET p == NodeOf(t, k) IN IF p = Nil THEN Nil ELSE Len(t.array) + p + 1
findindex(t, k) ==   \* the index of k, Nil: "invalid key to 'next'"
  IF k = Nil THEN 0
  ELSE IF InArray(t, k) THEN k
  ELSE LET p == First(t, k, NodesWith(t, k))
       IN IF p = Nil THEN Nil ELSE Len(t.array) + p + 1
KeyAt(t, i) == IF i <= Len(t.array) THEN i ELSE t.node[i - Len(t.array) - 1].key
ValueAt(t, i) == IF i <= Len(t.array) THEN t.array[i] ELSE t.node[i - Len(t.array) - 1].val
Later(t, k) ==
  {i \in findindex(t, k) + 1..Len(t.array) + sizenode(t) : ValueAt(t, i) # Nil}

(* Length: a border, searched by halving in the array part, or by doubling   *)
(* and halving from its end; past MAX_INT one by one.  A round of either     *)
(* loop is a function of the two bounds <<i, j>>; more rounds than there can *)
(* be change nothing.                                                        *)
Rounds(round, m, bounds) ==
  LET after[s \in 0..m] == IF s = 0 THEN bounds ELSE round[after[s - 1]]
  IN after[m]
Halve(t) ==
  [b \in Nat \X Nat |->
     IF b[2] - b[1] <= 1 THEN b
     ELSE LET m == (b[1] + b[2]) \div 2
          IN IF luaH_get(t, m) = Nil THEN <<b[1], m>> ELSE <<m, b[2]>>]
Double(t) ==
  [b \in Nat \X Nat |->
     IF luaH_get(t, b[2]) = Nil \/ 2 * b[2] > MAX_INT THEN b ELSE <<b[2], 2 * b[2]>>]
Bisect(t, i, j) == Rounds(Halve(t), j - i, <<i, j>>)[1]
unbound_search(t, from) ==
  LET b == Rounds(Double(t), MaxKey + 1, <<from, from + 1>>)
  IN IF luaH_get(t, b[2]) = Nil THEN Bisect(t, b[1], b[2])
     ELSE Min({n \in 1..MaxKey + 1 : luaH_get(t, n) = Nil}) - 1
\* Mutant: a full array part ends the list.
ArrayEnd(t) ==
  LET j == Len(t.array) IN IF j > 0 /\ t.array[j] = Nil THEN Bisect(t, 0, j) ELSE j
luaH_getn(t) ==
  LET j == Len(t.array)
  IN IF j > 0 /\ t.array[j] = Nil THEN Bisect(t, 0, j)
     ELSE IF sizenode(t) = 0 THEN j
     ELSE unbound_search(t, j)
-----------------------------------------------------------------------------
luaH_new(narray, nhash) == resize([array |-> <<>>, node |-> <<>>, lastfree |-> 0], narray, nhash)

Init ==
  /\ hash \in [String \cup Object -> 0..MaxHash]
  /\ \E narray, nhash \in 0..2 : table = luaH_new(narray, nhash)
  /\ cursor = Off /\ seen = {} /\ map = [k \in Key |-> Nil]

(* An assignment of the program.  To a key that is not there it ends the     *)
(* traversal: what next does after it is undefined.                          *)
Set(k, v) ==
  /\ table' = luaH_set(table, k, v)
  /\ IF luaH_get(table, k) = Nil THEN cursor' = Off /\ seen' = {}
     ELSE UNCHANGED <<cursor, seen>>
  /\ map' = [map EXCEPT ![k] = v]
  /\ UNCHANGED hash

(* A constructor makes room for the items it is about to store (OP_SETLIST). *)
luaH_resizearray(n) ==
  /\ cursor = Off /\ n > Len(table.array)
  /\ table' = resize(table, n, sizenode(table))
  /\ UNCHANGED <<hash, cursor, seen, map>>

(* The collector traverses the table: the keys of empty entries are not      *)
(* marked, and those of them that are objects are dead from now on.          *)
removeentry(n) == IF n.val = Nil /\ n.key \in String \cup Object THEN [n EXCEPT !.dead = TRUE] ELSE n
traversetable ==
  /\ table' = [table EXCEPT !.node = [p \in DOMAIN @ |-> removeentry(@[p])]]
  /\ UNCHANGED <<hash, cursor, seen, map>>

Start == cursor = Off /\ cursor' = Nil /\ UNCHANGED <<table, hash, seen, map>>

luaH_next ==
  /\ cursor \in Key \cup {Nil} /\ UNCHANGED <<table, hash, map>>
  /\ LET at == findindex(table, cursor)
         k == KeyAt(table, Min(Later(table, cursor)))
     IN /\ cursor' = IF at = Nil THEN Invalid ELSE IF Later(table, cursor) = {} THEN Off ELSE k
        /\ seen' = IF cursor' \in Key THEN seen \cup {k} ELSE {}

Next ==
  \/ \E k \in Key, v \in Value \cup {Nil} : Set(k, v)
  \/ \E n \in 1..MaxKey : luaH_resizearray(n)
  \/ traversetable
  \/ Start
  \/ luaH_next

Spec == Init /\ [][Next]_vars

-----------------------------------------------------------------------------
(* The table is a map: through collisions, moved nodes, rehashes and entries *)
(* that go over between the parts, every key has the value it was assigned   *)
(* last (newkey, resize, luaH_get).                                          *)
IsMap == \A k \in Key : luaH_get(table, k) = map[k]

(* "A main invariant of these tables is that, if an element is not in its     *)
(* main position ..., then the colliding element is in its own main          *)
(* position" (ltable.c:15-17), also where entries were cleared, marked dead  *)
(* and their nodes taken again; and the chain from there leads to the        *)
(* element.                                                                  *)
MainPositions ==
  \A p \in UsedNodes(table) :
    LET mp == mainposition(table, table.node[p].key)
    IN /\ table.node[mp].val # Nil => mainposition(table, table.node[mp].key) = mp
       /\ NodeOf(table, table.node[p].key) = p

(* A traversal that only changes and clears entries on its way never fails,  *)
(* whatever the collector does to the cleared ones; it visits no key twice   *)
(* and ends only when every key still there was visited (luaH_next,          *)
(* findindex and its dead keys).                                             *)
TraversedOnce ==
  [][luaH_next =>
       /\ cursor' # Invalid
       /\ cursor' \in Key => cursor' \notin seen
       /\ cursor' = Off => \A k \in Key : map[k] # Nil => k \in seen]_vars

(* The length is a border: the integer before the first nil after it,        *)
(* whichever part it is in (luaH_getn, unbound_search).                      *)
LengthIsBorder ==
  LET n == luaH_getn(table)
  IN (n = 0 \/ map[n] # Nil) /\ (n < MaxKey => map[n + 1] = Nil)

(* An assignment that gives the array part another size, moving entries from *)
(* one part to the other, wastes at most half of it and leaves out no larger *)
(* power of two of which the table's keys would use more than half, the new  *)
(* key and those still in the hash part counted (ltable.c:10, rehash).  The  *)
(* comment's bound and the code's (more than half) both satisfy it: which of *)
(* them a size exactly half used goes by is left open.                       *)
ArraySized ==
  [][Len(table.array) # Len(table'.array) /\ map # map' =>
       LET n == Len(table'.array)
           used == {i \in 1..MaxKey : map'[i] # Nil}
       IN /\ 2 * UpTo(used, n) >= n
          /\ \A m \in Sizes : m > n => UpTo(used, m) <= m \div 2]_vars
=============================================================================
