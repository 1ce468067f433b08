-------------------------- MODULE ServerHostProofs --------------------------
(* Proofs that the host accounts for every Lua state, that its readers       *)
(* deliver their tables, leave nothing behind and apply what they read, for  *)
(* any number of folders, any tables the scripts return and any types in     *)
(* them.                                                                     *)
EXTENDS ServerHost, SequenceTheorems, TLAPS

Loading == {"require", "open", "next", "entry", "close", "clear"}

(* The folder under way has an open state that is not registered yet, those  *)
(* to come have none, and those done are accounted for.                      *)
Progress ==
  /\ folder \in 1..Folders + 1
  /\ lua \in [Folder -> {"none", "open", "closed"}]
  /\ pc \in Loading => folder \in Folder /\ lua[folder] = "open"
  /\ \A f \in Folder : f > folder => lua[f] = "none"
  /\ pc = "folder" /\ folder \in Folder => lua[folder] = "none"

Lists == \E S : g_Servers \in Seq(S) /\ g_ServerEnvironments \in Seq(S)

AccInv == Progress /\ Lists /\ Accounted

-----------------------------------------------------------------------------
LEMMA InitAcc == Init => AccInv
<1> SUFFICES ASSUME Init PROVE AccInv
  OBVIOUS
<1>1. Progress
  BY ServerHostAssumption DEF Init, Progress, Loading, Folder
<1>2. Lists
  <2>1. <<>> \in Seq({})
    BY EmptySeq
  <2> QED
    BY <2>1 DEF Init, Lists
<1>3. Accounted
  <2>1. Range(<<>>) = {} /\ Len(<<>>) = 0 /\ DOMAIN <<>> = {}
    BY DEF Range
  <2>2. \A f \in Folder : lua[f] = "none"
    BY DEF Init
  <2> QED
    BY <2>1, <2>2 DEF Init, Accounted
<1> QED
  BY <1>1, <1>2, <1>3 DEF AccInv

(* The lists stay as they are, and so do the states of the folders done. *)
LEMMA SameLists ==
  ASSUME AccInv, Progress', UNCHANGED registered,
         \A f \in Folder : f < folder' /\ lua'[f] = "open"
                            <=> f < folder /\ lua[f] = "open"
  PROVE  AccInv'
<1>1. Lists'
  BY DEF AccInv, Lists, registered
<1>2. Accounted'
  BY DEF AccInv, Accounted, registered
<1> QED
  BY <1>1, <1>2 DEF AccInv

(* The server of the folder under way is registered. *)
LEMMA OneMore ==
  ASSUME AccInv, Progress',
         \E e, info : /\ e.folder = folder
                      /\ g_Servers' = Append(g_Servers, info)
                      /\ g_ServerEnvironments' = Append(g_ServerEnvironments, e),
         folder' = folder + 1, lua' = lua, folder \in Folder, lua[folder] = "open"
  PROVE  AccInv'
<1> DEFINE envs == g_ServerEnvironments
<1>0. PICK e, info : /\ e.folder = folder
                     /\ g_Servers' = Append(g_Servers, info)
                     /\ envs' = Append(envs, e)
  OBVIOUS
<1>1. PICK S : g_Servers \in Seq(S) /\ envs \in Seq(S)
  BY DEF AccInv, Lists
<1> DEFINE T == S \cup {e, info}
<1>2. g_Servers \in Seq(T) /\ envs \in Seq(T)
  BY <1>1, SeqMonotonic
<1>3. /\ g_Servers' \in Seq(T) /\ Len(g_Servers') = Len(g_Servers) + 1
      /\ envs' \in Seq(T) /\ Len(envs') = Len(envs) + 1
      /\ \A i \in 1..Len(envs) : envs'[i] = envs[i]
      /\ envs'[Len(envs) + 1] = e
  <2>1. e \in T /\ info \in T
    OBVIOUS
  <2> HIDE DEF T
  <2> QED
    BY <1>0, <1>2, <2>1, AppendProperties
<1>4. /\ Len(envs) \in Nat /\ DOMAIN envs = 1..Len(envs)
      /\ DOMAIN envs' = 1..Len(envs) + 1
  BY <1>2, <1>3, LenProperties
<1>5. Lists'
  BY <1>3 DEF Lists
<1>6. {x.folder : x \in Range(envs)} = {f \in Folder : f < folder /\ lua[f] = "open"}
  BY DEF AccInv, Accounted
<1>7. \A i \in DOMAIN envs : envs[i].folder \in Folder /\ envs[i].folder < folder
  BY <1>6 DEF Range
<1>8. Range(envs') = Range(envs) \cup {e}
  BY <1>3, <1>4 DEF Range
<1>9. folder \in Nat /\ Folder \subseteq Nat
  BY ServerHostAssumption DEF Folder
<1>10. Len(g_Servers') = Len(envs')
  BY <1>3 DEF AccInv, Accounted
<1>11. \A i, j \in DOMAIN envs' : envs'[i].folder = envs'[j].folder => i = j
  <2>1. \A i, j \in DOMAIN envs : envs[i].folder = envs[j].folder => i = j
    BY DEF AccInv, Accounted
  <2>2. \A i \in DOMAIN envs : envs'[i].folder # folder
    BY <1>0, <1>3, <1>4, <1>7, <1>9
  <2> QED
    BY <1>0, <1>3, <1>4, <2>1, <2>2
<1>12. {x.folder : x \in Range(envs')} = {f \in Folder : f < folder' /\ lua'[f] = "open"}
  <2>1. {x.folder : x \in Range(envs')} = {x.folder : x \in Range(envs)} \cup {folder}
    BY <1>0, <1>8
  <2>2. {f \in Folder : f < folder + 1 /\ lua[f] = "open"}
          = {f \in Folder : f < folder /\ lua[f] = "open"} \cup {folder}
    <3>1. \A f \in Folder : f < folder + 1 <=> f < folder \/ f = folder
      BY <1>9
    <3> QED
      BY <3>1
  <2> QED
    BY <1>6, <2>1, <2>2
<1> QED
  BY <1>5, <1>10, <1>11, <1>12 DEF AccInv, Accounted

LEMMA NextAcc == AccInv /\ [Next]_vars => AccInv'
<1> SUFFICES ASSUME AccInv, [Next]_vars PROVE AccInv'
  OBVIOUS
<1> USE ServerHostAssumption
<1>0. Progress /\ Folder \subseteq Nat /\ folder \in Nat
  BY DEF AccInv, Progress, Folder
<1>1. CASE Skip
  <2>1. Progress'
    BY <1>0, <1>1 DEF Progress, Skip, NextFolder, Loading, Folder
  <2> QED
    BY <1>0, <1>1, <2>1, SameLists DEF Skip, NextFolder, Progress
<1>2. CASE Start
  <2>1. Progress'
    BY <1>0, <1>2 DEF Progress, Start, Loading, Folder
  <2> QED
    BY <1>0, <1>2, <2>1, SameLists DEF Start, Progress
<1>3. CASE AllLoaded
  <2>1. Progress'
    BY <1>0, <1>3 DEF Progress, AllLoaded, Loading
  <2> QED
    BY <1>3, <2>1, SameLists DEF AllLoaded
<1>4. CASE RequireFailed \/ Reject
  <2>1. folder \in Folder /\ lua[folder] = "open"
    BY <1>0, <1>4 DEF Progress, RequireFailed, Reject, Loading
  <2>2. /\ UNCHANGED registered
        /\ \/ NextFolder /\ lua' = [lua EXCEPT ![folder] = "closed"]
           \/ pc' = "terminated" /\ folder' = folder
              /\ (lua' = lua \/ lua' = [lua EXCEPT ![folder] = "closed"])
    BY <1>4 DEF RequireFailed, Reject, Rejected
  <2>3. Progress'
    BY <1>0, <2>1, <2>2 DEF Progress, NextFolder, Loading, Folder
  <2>4. \A f \in Folder : f < folder' /\ lua'[f] = "open" <=> f < folder /\ lua[f] = "open"
    BY <1>0, <2>1, <2>2 DEF Progress, NextFolder
  <2> QED
    BY <2>2, <2>3, <2>4, SameLists
<1>5. CASE Register
  <2>1. folder \in Folder /\ lua[folder] = "open"
    BY <1>0, <1>5 DEF Progress, Register, Loading
  <2>2. Progress'
    BY <1>0, <1>5, <2>1 DEF Progress, Register, NextFolder, Loading, Folder
  <2> DEFINE e == [folder |-> folder, stack |-> stack', registry |-> registry,
                   config |-> readers["config"].table]
  <2>3. e.folder = folder
    OBVIOUS
  <2>4. /\ g_Servers' = Append(g_Servers, serverInfo)
        /\ g_ServerEnvironments' = Append(g_ServerEnvironments, e)
        /\ folder' = folder + 1 /\ lua' = lua
    BY <1>5 DEF Register, NextFolder
  <2>5. \E d, info : /\ d.folder = folder
                     /\ g_Servers' = Append(g_Servers, info)
                     /\ g_ServerEnvironments' = Append(g_ServerEnvironments, d)
    BY <2>3, <2>4
  <2> HIDE DEF e
  <2> QED
    BY <2>1, <2>2, <2>4, <2>5, OneMore
(* Every other step leaves the folder, its state and the lists alone. *)
<1>6. ASSUME UNCHANGED <<folder, lua, registered>>,
             pc' \in Loading => pc \in Loading,
             pc' = "folder" => pc = "folder"
      PROVE  AccInv'
  <2>1. Progress'
    BY <1>0, <1>6 DEF Progress
  <2> QED
    BY <1>6, <2>1, SameLists
<1>7. CASE \E v \in Value \cup {Nil} : Required(v)
  BY <1>6, <1>7 DEF Required, Loading
<1>8. CASE ScriptServes \/ OpenReader \/ Iterate
  BY <1>6, <1>8 DEF ScriptServes, OpenReader, Iterate, Loading, program
<1>9. CASE Accept \/ Unknown \/ CloseReader \/ ClearMain
  BY <1>6, <1>9 DEF Accept, Unknown, CloseReader, ClearMain, Loading, program
<1>10. CASE Stopped \/ UNCHANGED vars
  BY <1>6, <1>10 DEF Stopped, vars
<1> QED
  BY <1>1, <1>2, <1>3, <1>4, <1>5, <1>7, <1>8, <1>9, <1>10 DEF Next, Load

(* Every Lua state the host makes is closed or registered, once, whatever    *)
(* the folders hold (main.cpp releases it by hand on each of its paths).     *)
THEOREM StatesAccounted == Spec => []Accounted
<1>1. Init => AccInv
  BY InitAcc
<1>2. AccInv /\ [Next]_vars => AccInv'
  BY NextAcc
<1>3. AccInv => Accounted
  BY DEF AccInv
<1> QED
  BY <1>1, <1>2, <1>3, PTL DEF Spec

-----------------------------------------------------------------------------
(* What a reader delivered is its table's beginning, and where its index and *)
(* its last answer say.                                                      *)
Delivered(p) ==
  LET t == Entries[p.table]
  IN  /\ p.idx \in Int /\ p.idx >= -1
      /\ p.seen \in Seq(Value \X Value) /\ Len(p.seen) <= Len(t)
      /\ \A i \in 1..Len(p.seen) : p.seen[i] = t[i]
      /\ p.idx = -1 => p.seen = <<>>
      /\ p.idx >= 0 /\ p.more => Len(p.seen) = p.idx + 1
      /\ p.idx >= 0 /\ ~p.more => Len(p.seen) = Len(t)

Busy == pc \in {"next", "entry", "close"}
NoValues(t) == t \in [0..MaxRef -> {Nil} \cup Ref]

(* The loops run over what a script left: below it there is at most the main *)
(* file's result, above it what lua_next needs, or delivered.                *)
Base ==
  /\ stackCount \in 0..1 /\ stackCount <= Len(stack)
  /\ \A i \in 1..stackCount : stack[i] \notin Table

Above(p) ==
  LET t == Entries[p.table]
  IN  /\ p.idx = -1 => Len(stack) = stackCount + 1 /\ pc = "next"
      /\ p.idx >= 0 /\ p.more =>
           /\ Len(stack) = stackCount + 4
           /\ stack[stackCount + 2] = p.table
           /\ stack[stackCount + 3] = t[p.idx + 1][1]
           /\ stack[stackCount + 4] = t[p.idx + 1][2]
      /\ p.idx >= 0 /\ ~p.more => Len(stack) = stackCount + 2 /\ pc = "close"

(* Of the values in the registry, one is a reader's: its table. *)
Anchored(p) ==
  /\ p.ref \in Ref /\ p.table \in Table
  /\ registry \in [0..MaxRef -> Value \cup {Nil} \cup Ref]
  /\ registry[p.ref] = p.table
  /\ \A k \in 0..MaxRef : k # p.ref => registry[k] \in {Nil} \cup Ref

(* The first n entries are known keys, and info has their last values.       *)
Latest(info, t, n) ==
  /\ \A i \in 1..n : t[i][1] \in {ServerName, Host, Port}
  /\ \A i \in 1..n :
       \/ info[FieldOf(t[i][1])] = t[i][2]
       \/ \E j \in i + 1..n : FieldOf(t[j][1]) = FieldOf(t[i][1])

ReaderState ==
  [ref : Ref \cup {LUA_REFNIL}, idx : Int, more : BOOLEAN,
   table : Table \cup {Nil}, seen : Seq(Value \X Value)]

Sound ==
  /\ ~fault /\ reading \in Reader
  /\ stack \in Seq(Value \cup {Nil})
  /\ serverInfo \in [Field -> Value \cup {Nil}]
  /\ readers \in [Reader -> ReaderState]
  /\ \A r \in Reader : readers[r].table # Nil => Delivered(readers[r])

Places ==
  /\ pc = "require" =>
       /\ NoValues(registry) /\ Len(stack) <= 1
       /\ \A i \in 1..Len(stack) : stack[i] \notin Table
       /\ reading = "serverData" => stack = <<>>
  /\ pc = "open" =>
       /\ Base /\ NoValues(registry)
       /\ Len(stack) = stackCount + 1 /\ Last(stack) \in Table
  /\ Busy => Base /\ Anchored(readers[reading]) /\ Above(readers[reading])
  /\ pc = "clear" => Base /\ NoValues(registry) /\ readers[reading].table \in Table

Values ==
  reading = "config" =>
    LET p == readers[reading]
        t == Entries[p.table]
    IN  /\ pc = "next" => Latest(serverInfo, t, Len(p.seen))
        /\ pc = "entry" => Latest(serverInfo, t, p.idx)
        /\ pc \in {"close", "clear"} => AppliedTo(serverInfo, t)

Registered ==
  \A n \in DOMAIN g_ServerEnvironments :
    LET e == g_ServerEnvironments[n]
    IN  /\ NoValues(e.registry) /\ Len(e.stack) <= 1
        /\ \A v \in Range(e.stack) : v \notin Table
        /\ AppliedTo(g_Servers[n], Entries[e.config])

ReadInv == AccInv /\ Sound /\ Places /\ Values /\ Registered

-----------------------------------------------------------------------------
(* Setup anchors the table in a slot; Close frees that slot. *)
LEMMA SetupAnchors ==
  ASSUME NEW t, NoValues(t), NEW v \in Value, NEW n \in NewRef(t)
  PROVE  /\ n \in Ref
         /\ Stored(t, n, v) \in [0..MaxRef -> Value \cup {Nil} \cup Ref]
         /\ Stored(t, n, v)[n] = v
         /\ \A k \in 0..MaxRef : k # n => Stored(t, n, v)[k] \in {Nil} \cup Ref
<1>1. 0 \in 0..MaxRef /\ MaxRef \in Nat \ {0} /\ Nil \notin Int
  BY RegistryAssumption
<1>2. t[0] \in {Nil} \cup Ref
  BY <1>1 DEF NoValues
<1>3. n \in Ref
  <2>1. CASE FreeHead(t) # 0
    <3>1. n = FreeHead(t) /\ FreeHead(t) = t[0] /\ t[0] \in Int
      BY <2>1 DEF NewRef, FreeHead
    <3> QED
      BY <1>1, <1>2, <3>1
  <2>2. CASE FreeHead(t) = 0
    BY <1>1, <2>2 DEF NewRef, Border, Ref
  <2> QED
    BY <2>1, <2>2
<1>4. n \in 0..MaxRef /\ n # 0
  BY <1>1, <1>3 DEF Ref
<1>5. t \in [0..MaxRef -> {Nil} \cup Ref] /\ t[n] \in {Nil} \cup Ref
  BY <1>4 DEF NoValues
<1>6. CASE Stored(t, n, v) = [t EXCEPT ![0] = t[n], ![n] = v]
  BY <1>1, <1>3, <1>4, <1>5, <1>6
<1>7. CASE Stored(t, n, v) = [t EXCEPT ![n] = v]
  BY <1>1, <1>3, <1>4, <1>5, <1>7
<1> QED
  BY <1>6, <1>7 DEF Stored

LEMMA CloseFrees ==
  ASSUME NEW p, Anchored(p)
  PROVE  NoValues(Unreferenced(registry, p.ref))
<1>1. 0 \in 0..MaxRef /\ p.ref \in 0..MaxRef /\ p.ref # 0 /\ p.ref >= 0 /\ p.ref \in Ref
  BY RegistryAssumption DEF Anchored, Ref
<1>2. Unreferenced(registry, p.ref) = [registry EXCEPT ![p.ref] = registry[0], ![0] = p.ref]
  BY <1>1 DEF Unreferenced
<1>3. registry \in [0..MaxRef -> Value \cup {Nil} \cup Ref]
  BY DEF Anchored
<1>4. \A k \in 0..MaxRef : k # p.ref => registry[k] \in {Nil} \cup Ref
  BY DEF Anchored
<1> QED
  BY <1>1, <1>2, <1>3, <1>4 DEF NoValues

(* lua_next finds the key on top where it is, as the keys of a table are its *)
(* own, and finds nil nowhere.                                               *)
LEMMA PlaceOfKey ==
  ASSUME NEW s, s[Len(s) - 1] \in Table,
         NEW i \in 1..Len(Entries[s[Len(s) - 1]]),
         Last(s) = Entries[s[Len(s) - 1]][i][1]
  PROVE  Place(s) = i
<1> DEFINE t == Entries[s[Len(s) - 1]]
           I == {j \in 1..Len(t) : t[j][1] = Last(s)}
<1>1. t \in Seq(Value \X Value) /\ DOMAIN t = 1..Len(t)
  BY TableAssumption
<1>2. \A j \in 1..Len(t) : t[j][1] = t[i][1] => j = i
  BY <1>1, TableAssumption
<1>3. I = {i}
  BY <1>2
<1>4. Place(s) = IF I # {} THEN Min(I) ELSE 0
  BY DEF Place, SelectInSeq
<1>5. i \in Int
  OBVIOUS
<1> HIDE DEF I
<1> QED
  BY <1>3, <1>4, <1>5 DEF Min

LEMMA PlaceOfNil ==
  ASSUME NEW s, s[Len(s) - 1] \in Table, Last(s) = Nil
  PROVE  Place(s) = 0
<1> DEFINE t == Entries[s[Len(s) - 1]]
           I == {j \in 1..Len(t) : t[j][1] = Last(s)}
<1>1. t \in Seq(Value \X Value)
  BY TableAssumption
<1>2. \A j \in 1..Len(t) : t[j][1] \in Value
  BY <1>1
<1>3. I = {}
  BY <1>2, RegistryAssumption
<1>4. Place(s) = IF I # {} THEN Min(I) ELSE 0
  BY DEF Place, SelectInSeq
<1> QED
  BY <1>3, <1>4

(* The stack as lua_next gets it: the reader's table, and above it the key   *)
(* of the last element delivered, or nil.                                    *)
LEMMA CursorReady ==
  ASSUME ReadInv, pc = "next"
  PROVE  LET p == readers[reading]
             t == Entries[p.table]
             s == Cursor(reading)
         IN  /\ p.idx \in Int /\ p.idx >= -1 /\ Len(p.seen) = p.idx + 1
             /\ s \in Seq(Value \cup {Nil}) /\ Len(s) = stackCount + 3
             /\ \A i \in 1..stackCount : s[i] \notin Table
             /\ s[stackCount + 2] = p.table
             /\ s[stackCount + 3] = IF p.idx = -1 THEN Nil ELSE t[p.idx + 1][1]
<1> DEFINE p == readers[reading]
           t == Entries[p.table]
           s == Cursor(reading)
           S == Value \cup {Nil}
<1>1. Base /\ Anchored(p) /\ Above(p) /\ stack \in Seq(S) /\ Delivered(p)
  BY TableAssumption, RegistryAssumption DEF ReadInv, Sound, Places, Busy, Anchored
<1>2. /\ p.idx \in Int /\ p.idx >= -1 /\ Len(p.seen) = p.idx + 1 /\ (p.idx >= 0 => p.more)
      /\ stackCount \in {0, 1} /\ Len(stack) \in Nat
  <2>1. p.idx \in Int /\ p.idx >= -1 /\ (p.idx >= 0 => p.more)
    BY <1>1 DEF Delivered, Above
  <2>2. Len(p.seen) = p.idx + 1
    <3>1. CASE p.idx = -1
      <4>1. p.seen = <<>> /\ Len(<<>>) = 0
        BY <1>1, <3>1 DEF Delivered
      <4> QED
        BY <3>1, <4>1
    <3>2. CASE p.idx >= 0
      BY <1>1, <2>1, <3>2 DEF Delivered
    <3> QED
      BY <2>1, <3>1, <3>2
  <2>3. stackCount \in {0, 1} /\ Len(stack) \in Nat
    BY <1>1 DEF Base
  <2> QED
    BY <2>1, <2>2, <2>3
<1>3. p.table \in Table /\ p.table \in S /\ Nil \in S /\ registry[p.ref] = p.table
  BY <1>1, TableAssumption DEF Anchored
<1>4. \A i \in 1..stackCount : stack[i] \notin Table
  BY <1>1 DEF Base
<1>5. CASE p.idx = -1
  <2> DEFINE q == <<p.table, Nil>>
  <2>1. s = stack \o q
    BY <1>3, <1>5 DEF Cursor
  <2>2. q \in Seq(S) /\ Len(q) = 2 /\ q[1] = p.table /\ q[2] = Nil
    BY <1>3
  <2>3. Len(stack) = stackCount + 1
    BY <1>1, <1>5 DEF Above
  <2> HIDE DEF s, q, S
  <2>4. /\ s \in Seq(S) /\ Len(s) = Len(stack) + 2
        /\ \A i \in 1..Len(stack) + 2 : s[i] = IF i <= Len(stack) THEN stack[i] ELSE q[i - Len(stack)]
    <3>1. /\ s \in Seq(S) /\ Len(s) = Len(stack) + Len(q)
          /\ \A i \in 1..Len(stack) + Len(q) :
               s[i] = IF i <= Len(stack) THEN stack[i] ELSE q[i - Len(stack)]
      BY <1>1, <2>1, <2>2, ConcatProperties
    <3> QED
      BY <2>2, <3>1
  <2>5. /\ \A i \in 1..stackCount : s[i] = stack[i]
        /\ s[stackCount + 2] = q[1] /\ s[stackCount + 3] = q[2]
    BY <1>2, <2>3, <2>4
  <2> QED
    BY <1>2, <1>4, <1>5, <2>2, <2>3, <2>4, <2>5 DEF s, S
<1>6. CASE p.idx >= 0
  <2>1. s = SubSeq(stack, 1, stackCount + 3) /\ Len(stack) = stackCount + 4
    BY <1>1, <1>2, <1>6 DEF Above, Cursor, Popped
  <2>2. /\ stack[stackCount + 2] = p.table
        /\ stack[stackCount + 3] = t[p.idx + 1][1]
    BY <1>1, <1>2, <1>6 DEF Above
  <2> HIDE DEF s, t, S
  <2>3. \A i \in 1..stackCount + 3 : stack[i] \in S
    BY <1>1, <1>2, <2>1, ElementOfSeq
  <2> DEFINE n == stackCount + 3
  <2>4. n \in Int /\ 1 <= n /\ 1 \in Int /\ n - 1 + 1 = n
    BY <1>2
  <2> HIDE DEF n
  <2>5. /\ s \in Seq(S) /\ Len(s) = IF 1 <= n THEN n - 1 + 1 ELSE 0
        /\ \A i \in 1..n - 1 + 1 : s[i] = stack[1 + i - 1]
    BY <2>1, <2>3, <2>4, SubSeqProperties DEF n
  <2>6. Len(s) = stackCount + 3 /\ \A i \in 1..stackCount + 3 : s[i] = stack[i]
    BY <2>4, <2>5 DEF n
  <2>7. /\ \A i \in 1..stackCount : s[i] = stack[i]
        /\ s[stackCount + 2] = stack[stackCount + 2] /\ s[stackCount + 3] = stack[stackCount + 3]
    BY <1>2, <2>6
  <2> QED
    BY <1>2, <1>4, <1>6, <2>2, <2>5, <2>6, <2>7 DEF s, t, S
<1> QED
  BY <1>2, <1>5, <1>6

(* NextElement finds its table and its key, and moves on by one element.     *)
LEMMA Iterated ==
  ASSUME ReadInv, pc = "next", NextElement(reading)
  PROVE  LET p == readers[reading]
             t == Entries[p.table]
             k == Len(p.seen)
             q == [p EXCEPT !.idx = k, !.more = k < Len(t),
                            !.seen = IF k < Len(t) THEN Append(p.seen, t[k + 1]) ELSE p.seen]
         IN  /\ fault' = FALSE /\ registry' = registry
             /\ readers' = [readers EXCEPT ![reading] = q]
             /\ stack' \in Seq(Value \cup {Nil})
             /\ \A i \in 1..stackCount : stack'[i] \notin Table
             /\ k < Len(t) => /\ Len(stack') = stackCount + 4
                              /\ stack'[stackCount + 2] = p.table
                              /\ stack'[stackCount + 3] = t[k + 1][1]
                              /\ stack'[stackCount + 4] = t[k + 1][2]
             /\ ~(k < Len(t)) => Len(stack') = stackCount + 2
<1> DEFINE p == readers[reading]
           t == Entries[p.table]
           k == Len(p.seen)
           s == Cursor(reading)
           S == Value \cup {Nil}
           next == t[k + 1]
           front == SubSeq(s, 1, stackCount + 2)
<1>1. /\ p.idx \in Int /\ p.idx >= -1 /\ k = p.idx + 1
      /\ s \in Seq(S) /\ Len(s) = stackCount + 3
      /\ \A i \in 1..stackCount : s[i] \notin Table
      /\ s[stackCount + 2] = p.table
      /\ s[stackCount + 3] = IF p.idx = -1 THEN Nil ELSE t[p.idx + 1][1]
  BY CursorReady
<1>2. Base /\ Anchored(p) /\ Delivered(p)
  BY TableAssumption, RegistryAssumption DEF ReadInv, Sound, Places, Busy, Anchored
<1>3. p.table \in Table /\ stackCount \in {0, 1} /\ t \in Seq(Value \X Value)
  BY <1>2, TableAssumption DEF Anchored, Base
<1>4. k \in Nat /\ k <= Len(t) /\ Len(t) \in Nat
  BY <1>1, <1>2, <1>3 DEF Delivered
<1>5. Len(s) >= 2 /\ s[Len(s) - 1] = p.table /\ Last(s) = s[stackCount + 3]
  BY <1>1, <1>3 DEF Last
<1>6. Place(s) = k
  <2>1. CASE p.idx = -1
    BY <1>1, <1>3, <1>5, <2>1, PlaceOfNil
  <2>2. CASE p.idx >= 0
    <3>1. k \in 1..Len(Entries[s[Len(s) - 1]]) /\ Last(s) = Entries[s[Len(s) - 1]][k][1]
      BY <1>1, <1>4, <1>5, <2>2
    <3> HIDE DEF k, s
    <3> QED
      BY <1>3, <1>5, <3>1, PlaceOfKey
  <2> QED
    BY <1>1, <2>1, <2>2
<1>7. Traversable(s)
  <2>1. CASE p.idx = -1
    BY <1>1, <1>3, <1>5, <2>1 DEF Traversable
  <2>2. CASE p.idx >= 0
    <3>1. k \in DOMAIN t /\ t[k][1] = Last(s)
      BY <1>1, <1>3, <1>4, <1>5, <2>2
    <3> HIDE DEF k, s
    <3>2. \E e \in Range(Entries[s[Len(s) - 1]]) : e[1] = Last(s)
      BY <1>5, <3>1 DEF Range
    <3> QED
      BY <1>3, <1>5, <3>2 DEF Traversable
  <2> QED
    BY <1>1, <2>1, <2>2
<1>8. front = Front(s)
  BY <1>1, <1>3 DEF Front
<1> DEFINE q == [p EXCEPT !.idx = @ + 1, !.more = k < Len(t),
                          !.seen = IF k < Len(t) THEN Append(@, next) ELSE @]
<1>9. /\ fault' = FALSE /\ registry' = registry
      /\ stack' = IF k < Len(t) THEN front \o next ELSE front
      /\ readers' = [readers EXCEPT ![reading] = q]
  <2> HIDE DEF s, front, q
  <2>1. /\ fault' = FALSE /\ registry' = registry
        /\ stack' = IF k < Len(t) THEN Front(s) \o next ELSE Front(s)
        /\ readers' = [readers EXCEPT
                     ![reading].idx = @ + 1,
                     ![reading].more = k < Len(t),
                     ![reading].seen = IF k < Len(t) THEN Append(@, next) ELSE @]
    BY <1>5, <1>6, <1>7 DEF NextElement, s
  <2>2. reading \in Reader /\ DOMAIN readers = Reader
    BY DEF ReadInv, Sound
  <2> QED
    BY <1>8, <2>1, <2>2 DEF q
<1>10. q = [p EXCEPT !.idx = k, !.more = k < Len(t),
                     !.seen = IF k < Len(t) THEN Append(p.seen, t[k + 1]) ELSE p.seen]
  BY <1>1
<1> HIDE DEF q
<1>11. /\ front \in Seq(S) /\ Len(front) = stackCount + 2
       /\ \A i \in 1..stackCount + 2 : front[i] = s[i]
  <2> HIDE DEF s, S
  <2> DEFINE n == stackCount + 2
  <2>1. n \in Int /\ 1 <= n /\ 1 \in Int /\ n - 1 + 1 = n
    BY <1>3
  <2>2. \A i \in 1..n : s[i] \in S
    BY <1>1, <1>3, ElementOfSeq
  <2> HIDE DEF n
  <2>3. /\ front \in Seq(S) /\ Len(front) = IF 1 <= n THEN n - 1 + 1 ELSE 0
        /\ \A i \in 1..n - 1 + 1 : front[i] = s[1 + i - 1]
    BY <2>1, <2>2, SubSeqProperties DEF n
  <2> QED
    BY <2>1, <2>3 DEF n
<1> HIDE DEF front, s
<1>12. CASE k < Len(t)
  <2>1. next \in Value \X Value
    BY <1>3, <1>4, <1>12, ElementOfSeq
  <2>2. next \in Seq(S) /\ Len(next) = 2
    <3>1. PICK a \in Value, b \in Value : next = <<a, b>>
      BY <2>1
    <3>2. <<a, b>> \in Seq(S) /\ Len(<<a, b>>) = 2
      OBVIOUS
    <3> HIDE DEF next
    <3> QED
      BY <3>1, <3>2
  <2>3. stack' = front \o next
    BY <1>9, <1>12
  <2> HIDE DEF S, next, t, k
  <2>4. /\ stack' \in Seq(S) /\ Len(stack') = stackCount + 4
        /\ \A i \in 1..stackCount + 4 :
             stack'[i] = IF i <= stackCount + 2 THEN front[i] ELSE next[i - (stackCount + 2)]
    <3>1. /\ stack' \in Seq(S) /\ Len(stack') = Len(front) + Len(next)
          /\ \A i \in 1..Len(front) + Len(next) :
             stack'[i] = IF i <= Len(front) THEN front[i] ELSE next[i - Len(front)]
      BY <1>11, <2>2, <2>3, ConcatProperties
    <3> QED
      BY <1>3, <1>11, <2>2, <3>1
  <2>5. /\ \A i \in 1..stackCount : stack'[i] = s[i]
        /\ stack'[stackCount + 2] = s[stackCount + 2]
        /\ stack'[stackCount + 3] = next[1] /\ stack'[stackCount + 4] = next[2]
    BY <1>3, <1>11, <2>4
  <2> QED
    BY <1>1, <1>9, <1>10, <1>12, <2>4, <2>5 DEF S, next, t, k
<1>13. CASE ~(k < Len(t))
  <2>1. stack' = front
    BY <1>9, <1>13
  <2>2. \A i \in 1..stackCount : stack'[i] = s[i]
    BY <1>3, <1>11, <2>1
  <2> QED
    BY <1>1, <1>9, <1>10, <1>11, <1>13, <2>1, <2>2
<1> QED
  BY <1>12, <1>13

-----------------------------------------------------------------------------
Reads == Sound /\ Places /\ Values /\ Registered

LEMMA RegisteredKept ==
  ASSUME Registered, UNCHANGED registered
  PROVE  Registered'
  BY DEF Registered, registered, AppliedTo, NoValues

(* Wherever the loop is left, and when there is nothing to read. *)
LEMMA LeftReads ==
  ASSUME ReadInv, UNCHANGED <<readerVars, registered, reading, serverInfo>>,
         pc' \in {"folder", "running", "serving", "terminated"}
  PROVE  Reads'
<1>1. Sound'
  BY DEF ReadInv, Sound, Delivered, readerVars
<1>2. Places' /\ Values'
  BY DEF Places, Values, Busy
<1> QED
  BY <1>1, <1>2, RegisteredKept DEF ReadInv, Reads

LEMMA ClosedState == ClosedReader \in ReaderState
  BY DEF ClosedReader, ReaderState

LEMMA StartReads ==
  ASSUME ReadInv, Start
  PROVE  Reads'
<1>1. /\ stack' = <<>> /\ registry' = EmptyTable /\ fault' = fault
      /\ readers' = [r \in Reader |-> ClosedReader]
      /\ serverInfo' = [k \in Field |-> Nil]
      /\ reading' = "serverData" /\ pc' = "require" /\ UNCHANGED registered
  BY DEF Start
<1>2. ClosedReader \in ReaderState
  BY ClosedState
<1>3. \A r \in Reader : readers'[r].table = Nil
  BY <1>1 DEF ClosedReader
<1>4. Sound'
  BY <1>1, <1>2, <1>3, ServerHostAssumption DEF ReadInv, Sound
<1>5. NoValues(registry)'
  BY <1>1 DEF NoValues, EmptyTable
<1>6. Places'
  <2>1. Len(stack') = 0
    BY <1>1
  <2> QED
    BY <1>1, <1>5, <2>1 DEF Places, Busy
<1>7. Values'
  BY <1>1 DEF Values
<1> QED
  BY <1>1, <1>4, <1>6, <1>7, RegisteredKept DEF ReadInv, Reads

LEMMA RequiredReads ==
  ASSUME ReadInv, NEW v \in Value \cup {Nil}, Required(v)
  PROVE  Reads'
<1>1. /\ pc = "require" /\ stackCount' = Len(stack) /\ stack' = Append(stack, v)
      /\ UNCHANGED <<registry, readers, fault, serverInfo, registered>>
  BY DEF Required, Pushed
<1>2. \/ v \in Table /\ pc' = "open" /\ reading' = reading
      \/ v \notin Table /\ reading = "serverData" /\ pc' = "require" /\ reading' = "config"
      \/ v \notin Table /\ pc' = "terminated" /\ reading' = reading
  BY DEF Required
<1>3. /\ stack \in Seq(Value \cup {Nil}) /\ Len(stack) \in {0, 1} /\ NoValues(registry)
      /\ \A i \in 1..Len(stack) : stack[i] \notin Table
      /\ reading = "serverData" => stack = <<>>
  <2>1. stack \in Seq(Value \cup {Nil}) /\ Len(stack) <= 1
    BY <1>1 DEF ReadInv, Sound, Places
  <2>2. Len(stack) \in Nat
    BY <2>1
  <2> QED
    BY <1>1, <2>1, <2>2 DEF ReadInv, Places
<1>4. /\ stack' \in Seq(Value \cup {Nil}) /\ Len(stack') = Len(stack) + 1
      /\ \A i \in 1..Len(stack) : stack'[i] = stack[i]
      /\ stack'[Len(stack) + 1] = v
  BY <1>1, <1>3, AppendProperties
<1>5. reading' \in Reader
  BY <1>2, ServerHostAssumption DEF ReadInv, Sound
<1>6. Sound'
  BY <1>1, <1>4, <1>5 DEF ReadInv, Sound, Delivered
<1>7. NoValues(registry)'
  BY <1>1, <1>3 DEF NoValues
<1>8. Places'
  <2>1. CASE v \in Table /\ pc' = "open"
    <3>1. Base'
      BY <1>1, <1>3, <1>4 DEF Base
    <3>2. Len(stack') = stackCount' + 1 /\ Last(stack') = v
      BY <1>1, <1>3, <1>4 DEF Last
    <3> QED
      BY <1>7, <2>1, <3>1, <3>2 DEF Places, Busy
  <2>2. CASE /\ v \notin Table /\ reading = "serverData" /\ pc' = "require" /\ reading' = "config"
    <3>1. Len(stack') = 1 /\ stack'[1] = v
      BY <1>3, <1>4, <2>2
    <3> QED
      BY <1>7, <2>2, <3>1 DEF Places, Busy
  <2>3. CASE pc' = "terminated"
    BY <2>3 DEF Places, Busy
  <2> QED
    BY <1>2, <2>1, <2>2, <2>3
<1>9. Values'
  BY <1>2 DEF Values
<1> QED
  BY <1>1, <1>6, <1>8, <1>9, RegisteredKept DEF ReadInv, Reads

LEMMA OpenReaderReads ==
  ASSUME ReadInv, OpenReader
  PROVE  Reads'
<1> DEFINE v == Last(stack)
<1>1. /\ pc = "open" /\ pc' = "next" /\ v \in Table
      /\ UNCHANGED <<stack, fault, reading, stackCount, serverInfo, registered>>
  BY DEF OpenReader, Setup, program
<1>2. PICK n \in NewRef(registry) :
        /\ registry' = Stored(registry, n, v)
        /\ readers' = [readers EXCEPT ![reading] =
             [ClosedReader EXCEPT !.ref = n, !.table = v]]
  BY DEF OpenReader, Setup
<1> DEFINE q == [ClosedReader EXCEPT !.ref = n, !.table = v]
<1>3. Base /\ NoValues(registry) /\ Len(stack) = stackCount + 1 /\ reading \in Reader
  BY <1>1 DEF ReadInv, Sound, Places
<1>4. v \in Value
  BY <1>1, TableAssumption
<1> HIDE DEF v
<1>5. /\ n \in Ref /\ registry' \in [0..MaxRef -> Value \cup {Nil} \cup Ref]
      /\ registry'[n] = v
      /\ \A k \in 0..MaxRef : k # n => registry'[k] \in {Nil} \cup Ref
  BY <1>2, <1>3, <1>4, SetupAnchors
<1>6. q.ref = n /\ q.table = v /\ q.idx = -1 /\ q.more = FALSE /\ q.seen = <<>>
  BY DEF ClosedReader
<1>7. q \in ReaderState
  BY <1>1, <1>5, ClosedState DEF ReaderState
<1>8. /\ readers'[reading] = q
      /\ \A r \in Reader : r # reading => readers'[r] = readers[r]
  BY <1>2, <1>3 DEF ReadInv, Sound
<1>9. Delivered(q)
  <2>1. Entries[v] \in Seq(Value \X Value)
    BY <1>1, TableAssumption
  <2> HIDE DEF q
  <2>2. q.seen \in Seq(Value \X Value) /\ Len(q.seen) = 0
    BY <1>6
  <2> QED
    BY <1>6, <2>1, <2>2 DEF Delivered
<1>10. Sound'
  <2>1. readers' \in [Reader -> ReaderState]
    BY <1>2, <1>3, <1>7 DEF ReadInv, Sound
  <2> HIDE DEF q
  <2>2. \A r \in Reader : readers'[r].table # Nil => Delivered(readers'[r])
    BY <1>8, <1>9 DEF ReadInv, Sound
  <2> QED
    BY <1>1, <2>1, <2>2 DEF ReadInv, Sound, Delivered
<1> HIDE DEF q
<1>11. Places'
  <2>1. Base'
    BY <1>1, <1>3 DEF Base
  <2>2. Anchored(readers[reading])'
    BY <1>1, <1>5, <1>6, <1>8 DEF Anchored
  <2>3. Above(readers[reading])'
    BY <1>1, <1>3, <1>6, <1>8 DEF Above
  <2> QED
    BY <1>1, <2>1, <2>2, <2>3 DEF Places, Busy
<1>12. Values'
  <2>1. Len(readers'[reading].seen) = 0
    BY <1>6, <1>8
  <2> QED
    BY <1>1, <2>1 DEF Values, Latest
<1> QED
  BY <1>1, <1>10, <1>11, <1>12, RegisteredKept DEF ReadInv, Reads

(* The values of the first n entries are those of all the config gives, when *)
(* the table ends there or goes on with an unknown key.                      *)
LEMMA LatestApplied ==
  ASSUME NEW info, NEW t \in Seq(Value \X Value), NEW n \in 0..Len(t),
         Latest(info, t, n),
         n = Len(t) \/ t[n + 1][1] \notin {ServerName, Host, Port}
  PROVE  AppliedTo(info, t)
<1> DEFINE Keys == {ServerName, Host, Port}
           Applied(i) == \A j \in 1..i : t[j][1] \in Keys
           L == Len(t)
<1>1. DOMAIN t = 1..L /\ L \in Nat /\ n \in Nat /\ n <= L
  OBVIOUS
<1>2. ASSUME NEW i \in DOMAIN t, Applied(i) PROVE i \in 1..n
  <2> HIDE DEF L, Keys
  <2>0. i \in Nat /\ i >= 1 /\ i <= L
    BY <1>1
  <2>1. CASE n = L
    BY <1>1, <2>0, <2>1
  <2>2. CASE t[n + 1][1] \notin Keys
    <3>1. n + 1 \notin 1..i
      BY <1>2, <2>2
    <3> QED
      BY <1>1, <2>0, <3>1
  <2> QED
    BY <2>1, <2>2 DEF L, Keys
<1>3. ASSUME NEW i \in 1..n PROVE i \in DOMAIN t /\ Applied(i)
  <2>1. \A j \in 1..n : t[j][1] \in Keys
    BY DEF Latest
  <2> HIDE DEF L, Keys
  <2>2. i \in Nat /\ i >= 1 /\ i <= n
    BY <1>1
  <2>3. \A j \in 1..i : j \in 1..n
    BY <1>1, <2>2
  <2>4. Applied(i)
    BY <2>1, <2>3
  <2>5. i \in 1..L
    BY <1>1, <2>2
  <2> HIDE DEF Applied
  <2> QED
    BY <1>1, <2>4, <2>5
<1>4. \A i \in 1..n :
        \/ info[FieldOf(t[i][1])] = t[i][2]
        \/ \E j \in i + 1..n : FieldOf(t[j][1]) = FieldOf(t[i][1])
  BY DEF Latest
<1>5. \A i \in 1..n : t[i][1] \in Keys
  BY DEF Latest
<1>6. /\ \A k \in Keys : /\ FieldOf(k) = ServerName <=> k \in {ServerName}
                         /\ FieldOf(k) = Host <=> k \in {Host, Port}
      /\ FieldOf(ServerName) = ServerName /\ FieldOf(Host) = Host
  BY ServerHostAssumption DEF FieldOf
<1> HIDE DEF Applied, Keys
<1>7. ASSUME NEW i \in DOMAIN t, Applied(i), NEW over,
             \A k \in Keys : FieldOf(k) = t[i][1] <=> k \in over,
             FieldOf(t[i][1]) = t[i][1]
      PROVE  \/ info[t[i][1]] = t[i][2]
             \/ \E j \in DOMAIN t : j > i /\ Applied(j) /\ t[j][1] \in over
  <2>1. i \in 1..n
    BY <1>2, <1>7
  <2>2. FieldOf(t[i][1]) = t[i][1]
    BY <1>7
  <2>3. CASE info[t[i][1]] = t[i][2]
    BY <2>3
  <2>4. ASSUME NEW j \in i + 1..n, FieldOf(t[j][1]) = t[i][1]
        PROVE  j \in DOMAIN t /\ j > i /\ Applied(j) /\ t[j][1] \in over
    <3>1. j \in 1..n /\ j > i
      BY <2>1
    <3> QED
      BY <1>3, <1>5, <1>7, <2>4, <3>1
  <2> QED
    BY <1>4, <2>1, <2>2, <2>3, <2>4
<1>8. \A i \in DOMAIN t : Applied(i) /\ t[i][1] = ServerName =>
        \/ info[ServerName] = t[i][2]
        \/ \E j \in DOMAIN t : j > i /\ Applied(j) /\ t[j][1] \in {ServerName}
  BY <1>6, <1>7
<1>9. \A i \in DOMAIN t : Applied(i) /\ t[i][1] = Host =>
        \/ info[Host] = t[i][2]
        \/ \E j \in DOMAIN t : j > i /\ Applied(j) /\ t[j][1] \in {Host, Port}
  BY <1>6, <1>7
<1> QED
  BY <1>8, <1>9 DEF AppliedTo, Applied, Keys

LEMMA IterateReads ==
  ASSUME ReadInv, Iterate
  PROVE  Reads'
<1> DEFINE p == readers[reading]
           t == Entries[p.table]
           k == Len(p.seen)
           more == k < Len(t)
           seen == IF more THEN Append(p.seen, t[k + 1]) ELSE p.seen
           q == [p EXCEPT !.idx = k, !.more = more, !.seen = seen]
<1>1. /\ pc = "next" /\ pc' = IF readers'[reading].more THEN "entry" ELSE "close"
      /\ UNCHANGED <<reading, stackCount, serverInfo, registered>>
      /\ NextElement(reading)
  BY DEF Iterate, program
<1>2. /\ fault' = FALSE /\ registry' = registry
      /\ readers' = [readers EXCEPT ![reading] = q]
      /\ stack' \in Seq(Value \cup {Nil})
      /\ \A i \in 1..stackCount : stack'[i] \notin Table
      /\ more => /\ Len(stack') = stackCount + 4
                 /\ stack'[stackCount + 2] = p.table
                 /\ stack'[stackCount + 3] = t[k + 1][1]
                 /\ stack'[stackCount + 4] = t[k + 1][2]
      /\ ~more => Len(stack') = stackCount + 2
  BY <1>1, Iterated
<1>3. Base /\ Anchored(p) /\ Delivered(p) /\ reading \in Reader /\ readers \in [Reader -> ReaderState]
  BY <1>1, TableAssumption, RegistryAssumption DEF ReadInv, Sound, Places, Busy, Anchored
<1>4. p.table \in Table /\ stackCount \in {0, 1} /\ t \in Seq(Value \X Value) /\ p \in ReaderState
  BY <1>3, TableAssumption DEF Anchored, Base
<1>5. /\ p.seen \in Seq(Value \X Value) /\ k \in Nat /\ Len(t) \in Nat /\ k <= Len(t)
      /\ \A i \in 1..k : p.seen[i] = t[i]
  BY <1>3, <1>4 DEF Delivered
<1>6. /\ seen \in Seq(Value \X Value) /\ Len(seen) <= Len(t)
      /\ \A i \in 1..Len(seen) : seen[i] = t[i]
      /\ Len(seen) = IF more THEN k + 1 ELSE Len(t)
  <2>1. CASE more
    <3>1. t[k + 1] \in Value \X Value
      BY <1>4, <1>5, <2>1, ElementOfSeq
    <3>2. seen = Append(p.seen, t[k + 1])
      BY <2>1
    <3> HIDE DEF seen
    <3>3. /\ seen \in Seq(Value \X Value) /\ Len(seen) = k + 1
          /\ \A i \in 1..k : seen[i] = p.seen[i]
          /\ seen[k + 1] = t[k + 1]
      BY <1>5, <3>1, <3>2, AppendProperties
    <3>4. k + 1 <= Len(t)
      BY <1>5, <2>1
    <3> HIDE DEF k, t
    <3>5. \A i \in 1..k + 1 : seen[i] = t[i]
      BY <1>5, <3>3
    <3> QED
      BY <2>1, <3>3, <3>4, <3>5
  <2>2. CASE ~more
    BY <1>5, <2>2
  <2> QED
    BY <2>1, <2>2
<1> HIDE DEF seen, more
<1>7. /\ q.ref = p.ref /\ q.idx = k /\ q.more = more /\ q.table = p.table /\ q.seen = seen
      /\ q \in ReaderState
  <2>1. p \in [ref : Ref \cup {LUA_REFNIL}, idx : Int, more : BOOLEAN,
                table : Table \cup {Nil}, seen : Seq(Value \X Value)]
    BY <1>4 DEF ReaderState
  <2>2. k \in Int /\ more \in BOOLEAN /\ seen \in Seq(Value \X Value)
    BY <1>5, <1>6 DEF more
  <2> HIDE DEF p, k, t
  <2>3. /\ q.ref = p.ref /\ q.idx = k /\ q.more = more /\ q.table = p.table
        /\ q.seen = seen
    BY <2>1
  <2>4. q \in ReaderState
    BY <2>1, <2>2 DEF ReaderState
  <2> QED
    BY <2>3, <2>4
<1> HIDE DEF q
<1>8. /\ readers'[reading] = q /\ readers' \in [Reader -> ReaderState]
      /\ \A r \in Reader : r # reading => readers'[r] = readers[r]
  BY <1>2, <1>3, <1>7
<1>9. Delivered(q)
  <2>1. q.idx \in Int /\ q.idx >= -1 /\ q.idx # -1
    BY <1>5, <1>7
  <2> QED
    BY <1>6, <1>7, <2>1 DEF Delivered
<1>10. Sound'
  <2>1. \A r \in Reader : readers'[r].table # Nil => Delivered(readers'[r])
    BY <1>8, <1>9 DEF ReadInv, Sound
  <2> QED
    BY <1>1, <1>2, <1>8, <2>1 DEF ReadInv, Sound, Delivered
<1>11. pc' = IF more THEN "entry" ELSE "close"
  BY <1>1, <1>7, <1>8
<1>12. Places'
  <2>1. Base'
    <3>1. Len(stack') \in {stackCount + 4, stackCount + 2}
      BY <1>2
    <3> QED
      BY <1>1, <1>2, <1>4, <3>1 DEF Base
  <2>2. Anchored(readers[reading])'
    BY <1>1, <1>2, <1>3, <1>7, <1>8 DEF Anchored
  <2>3. Above(readers[reading])'
    <3>1. /\ readers'[reading'] = q /\ Entries[q.table] = t /\ q.idx = k /\ k >= 0
          /\ q.more = more /\ q.table = p.table
      BY <1>1, <1>5, <1>7, <1>8
    <3>2. k # -1 /\ stackCount' = stackCount /\ (~more => pc' = "close")
      BY <1>1, <1>5, <1>11
    <3> HIDE DEF p, t, k
    <3> QED
      BY <1>2, <3>1, <3>2 DEF Above
  <2> QED
    BY <1>11, <2>1, <2>2, <2>3 DEF Places, Busy
<1>13. Values'
  <2>1. reading = "config" => Latest(serverInfo, t, k)
    BY <1>1 DEF ReadInv, Values
  <2>2. reading = "config" /\ ~more => AppliedTo(serverInfo, t)
    <3>1. ~more => k = Len(t)
      BY <1>5 DEF more
    <3>2. k \in 0..Len(t)
      BY <1>5
    <3> HIDE DEF t, k
    <3> QED
      BY <1>4, <2>1, <3>1, <3>2, LatestApplied
  <2>3. /\ serverInfo' = serverInfo /\ readers'[reading'] = q /\ Entries[q.table] = t
        /\ reading' = reading /\ q.idx = k
    BY <1>1, <1>7, <1>8
  <2> HIDE DEF t, k
  <2> QED
    BY <1>11, <2>1, <2>2, <2>3 DEF Values
<1> QED
  BY <1>1, <1>10, <1>12, <1>13, RegisteredKept DEF ReadInv, Reads

(* One more entry, whose key is known, is taken over. *)
LEMMA LatestExtended ==
  ASSUME NEW info \in [Field -> Value \cup {Nil}], NEW t, NEW n \in Nat,
         Latest(info, t, n), t[n + 1][1] \in {ServerName, Host, Port},
         NEW taken, taken = [info EXCEPT ![FieldOf(t[n + 1][1])] = t[n + 1][2]]
  PROVE  Latest(taken, t, n + 1)
<1> DEFINE field == FieldOf(t[n + 1][1])
<1>1. field \in Field
  BY DEF FieldOf, Field
<1>2. \A k : taken[field] = t[n + 1][2] /\ (k \in Field /\ k # field => taken[k] = info[k])
  BY <1>1
<1>3. \A i \in 1..n + 1 : i \in 1..n \/ i = n + 1
  OBVIOUS
<1>4. \A i \in 1..n : t[i][1] \in {ServerName, Host, Port} /\ FieldOf(t[i][1]) \in Field
  BY DEF Latest, FieldOf, Field
<1> HIDE DEF field
<1>5. ASSUME NEW i \in 1..n
      PROVE  \/ taken[FieldOf(t[i][1])] = t[i][2]
             \/ \E j \in i + 1..n + 1 : FieldOf(t[j][1]) = FieldOf(t[i][1])
  <2>1. i + 1..n \subseteq i + 1..n + 1 /\ n + 1 \in i + 1..n + 1
    OBVIOUS
  <2>2. CASE FieldOf(t[i][1]) = field
    BY <2>1, <2>2 DEF field
  <2>3. CASE FieldOf(t[i][1]) # field
    <3>1. taken[FieldOf(t[i][1])] = info[FieldOf(t[i][1])]
      BY <1>2, <1>4, <2>3
    <3>2. \/ info[FieldOf(t[i][1])] = t[i][2]
          \/ \E j \in i + 1..n : FieldOf(t[j][1]) = FieldOf(t[i][1])
      BY DEF Latest
    <3> QED
      BY <2>1, <3>1, <3>2
  <2> QED
    BY <2>2, <2>3
<1>6. taken[FieldOf(t[n + 1][1])] = t[n + 1][2]
  BY <1>2 DEF field
<1> QED
  BY <1>3, <1>4, <1>5, <1>6 DEF Latest

(* In the loop's body an entry lies on top, the one the reader delivered last. *)
LEMMA AtEntry ==
  ASSUME ReadInv, pc = "entry"
  PROVE  LET p == readers[reading]
             t == Entries[p.table]
         IN  /\ Base /\ Anchored(p) /\ p.idx \in Nat /\ p.more
             /\ t \in Seq(Value \X Value) /\ p.idx + 1 \in 1..Len(t)
             /\ Len(p.seen) = p.idx + 1
             /\ Len(stack) = stackCount + 4
             /\ stack[stackCount + 2] = p.table
             /\ Key = t[p.idx + 1][1] /\ stack[stackCount + 3] = t[p.idx + 1][1]
             /\ Last(stack) = t[p.idx + 1][2] /\ stack[stackCount + 4] = t[p.idx + 1][2]
<1> DEFINE p == readers[reading]
           t == Entries[p.table]
<1>1. Base /\ Anchored(p) /\ Above(p) /\ Delivered(p)
  BY TableAssumption, RegistryAssumption DEF ReadInv, Sound, Places, Busy, Anchored
<1>2. p.idx \in Int /\ p.idx >= 0 /\ p.more
  <2>1. p.idx \in Int /\ p.idx >= -1
    BY <1>1 DEF Delivered
  <2>2. p.idx # -1 /\ (p.idx >= 0 => p.more)
    BY <1>1 DEF Above
  <2> QED
    BY <2>1, <2>2
<1>3. /\ Len(stack) = stackCount + 4 /\ stack[stackCount + 2] = p.table
      /\ stack[stackCount + 3] = t[p.idx + 1][1] /\ stack[stackCount + 4] = t[p.idx + 1][2]
  BY <1>1, <1>2 DEF Above
<1>4. stackCount \in {0, 1}
  BY <1>1 DEF Base
<1>5. Key = stack[stackCount + 3] /\ Last(stack) = stack[stackCount + 4]
  BY <1>3, <1>4 DEF Key, Last
<1>6. p.table \in Table /\ t \in Seq(Value \X Value) /\ Len(t) \in Nat
  BY <1>1, TableAssumption DEF Anchored
<1>7. Len(p.seen) = p.idx + 1 /\ Len(p.seen) <= Len(t)
  BY <1>1, <1>2 DEF Delivered
<1>8. p.idx + 1 \in 1..Len(t)
  BY <1>2, <1>6, <1>7
<1> QED
  BY <1>1, <1>2, <1>3, <1>5, <1>6, <1>7, <1>8

LEMMA AcceptReads ==
  ASSUME ReadInv, Accept
  PROVE  Reads'
<1> DEFINE p == readers[reading]
           t == Entries[p.table]
           n == p.idx
<1>1. /\ pc = "entry" /\ pc' = "next" /\ Known
      /\ serverInfo' = [serverInfo EXCEPT ![FieldOf(Key)] = Last(stack)]
      /\ UNCHANGED <<stack, registry, readers, fault, reading, stackCount, registered>>
  BY DEF Accept, readerVars
<1>2. /\ Base /\ Anchored(p) /\ n \in Nat /\ p.more
      /\ t \in Seq(Value \X Value) /\ n + 1 \in 1..Len(t) /\ Len(p.seen) = n + 1
      /\ Len(stack) = stackCount + 4 /\ stack[stackCount + 2] = p.table
      /\ Key = t[n + 1][1] /\ stack[stackCount + 3] = t[n + 1][1]
      /\ Last(stack) = t[n + 1][2] /\ stack[stackCount + 4] = t[n + 1][2]
  BY <1>1, AtEntry
<1>3. t[n + 1] \in Value \X Value
  BY <1>2, ElementOfSeq
<1>4. serverInfo' \in [Field -> Value \cup {Nil}]
  <2>1. Last(stack) \in Value \cup {Nil}
    BY <1>2, <1>3
  <2> QED
    BY <1>1, <2>1 DEF ReadInv, Sound
<1>5. Sound'
  BY <1>1, <1>4 DEF ReadInv, Sound, Delivered
<1>6. Places'
  <2>1. Base' /\ Anchored(readers[reading])'
    BY <1>1, <1>2 DEF Base, Anchored
  <2>2. Above(readers[reading])'
    <3>1. /\ readers'[reading'] = p /\ stack' = stack /\ stackCount' = stackCount
          /\ Entries[p.table] = t /\ p.idx = n /\ n # -1
      BY <1>1, <1>2
    <3> HIDE DEF p, t, n
    <3> QED
      BY <1>2, <3>1 DEF Above
  <2> QED
    BY <1>1, <2>1, <2>2 DEF Places, Busy
<1>7. Values'
  <2> SUFFICES ASSUME reading = "config" PROVE Latest(serverInfo', t, n + 1)
    BY <1>1, <1>2 DEF Values
  <2>1. Latest(serverInfo, t, n)
    BY <1>1 DEF ReadInv, Values
  <2>2. Key \in {ServerName, Host, Port}
    BY <1>1 DEF Known, Wanted
  <2>3. serverInfo \in [Field -> Value \cup {Nil}]
    BY DEF ReadInv, Sound
  <2>4. serverInfo' = [serverInfo EXCEPT ![FieldOf(t[n + 1][1])] = t[n + 1][2]]
    BY <1>1, <1>2
  <2> HIDE DEF t, n
  <2> QED
    BY <1>2, <2>1, <2>2, <2>3, <2>4, LatestExtended
<1> QED
  BY <1>1, <1>5, <1>6, <1>7, RegisteredKept DEF ReadInv, Reads

LEMMA UnknownReads ==
  ASSUME ReadInv, Unknown
  PROVE  Reads'
<1> DEFINE p == readers[reading]
           t == Entries[p.table]
           n == p.idx
<1>1. /\ pc = "entry" /\ pc' = "close" /\ TypeOf[Key] = "string" /\ ~Known
      /\ UNCHANGED <<stack, registry, readers, fault, program, registered>>
  BY DEF Unknown, readerVars
<1>2. /\ Base /\ Anchored(p) /\ n \in Nat /\ p.more
      /\ t \in Seq(Value \X Value) /\ n + 1 \in 1..Len(t)
      /\ Len(stack) = stackCount + 4 /\ stack[stackCount + 2] = p.table
      /\ Key = t[n + 1][1] /\ stack[stackCount + 3] = t[n + 1][1]
      /\ stack[stackCount + 4] = t[n + 1][2]
  BY <1>1, AtEntry
<1>3. Sound'
  BY <1>1 DEF ReadInv, Sound, Delivered, program
<1>4. Places'
  <2>1. Base' /\ Anchored(readers[reading])'
    BY <1>1, <1>2 DEF Base, Anchored, program
  <2>2. Above(readers[reading])'
    <3>1. /\ readers'[reading'] = p /\ stack' = stack /\ stackCount' = stackCount
          /\ Entries[p.table] = t /\ p.idx = n /\ n # -1
      BY <1>1, <1>2 DEF program
    <3> HIDE DEF p, t, n
    <3> QED
      BY <1>2, <3>1 DEF Above
  <2> QED
    BY <1>1, <2>1, <2>2 DEF Places, Busy
<1>5. Values'
  <2> SUFFICES ASSUME reading = "config" PROVE AppliedTo(serverInfo, t)
    BY <1>1 DEF Values, program
  <2>1. Latest(serverInfo, t, n)
    BY <1>1 DEF ReadInv, Values
  <2>2. t[n + 1][1] \notin {ServerName, Host, Port}
    BY <1>1, <1>2 DEF Known, Wanted
  <2>3. Len(t) \in Nat
    BY <1>2
  <2>4. n \in 0..Len(t)
    BY <1>2, <2>3
  <2> HIDE DEF t, n
  <2> QED
    BY <1>2, <2>1, <2>2, <2>4, LatestApplied
<1> QED
  BY <1>1, <1>3, <1>4, <1>5, RegisteredKept DEF ReadInv, Reads, program

(* Close removes its two values or, at the first element, none: what main()  *)
(* found on the stack stays, and the slot becomes free.                      *)
LEMMA CloseReaderReads ==
  ASSUME ReadInv, CloseReader
  PROVE  Reads'
<1> DEFINE p == readers[reading]
           t == Entries[p.table]
           S == Value \cup {Nil}
           n == IF p.idx # 0 THEN 2 ELSE 0
<1>1. /\ pc = "close" /\ pc' = "clear"
      /\ fault' = (n > Len(stack)) /\ stack' = SubSeq(stack, 1, Len(stack) - n)
      /\ registry' = Unreferenced(registry, p.ref)
      /\ readers' = [readers EXCEPT ![reading] = [p EXCEPT !.ref = LUA_REFNIL]]
      /\ UNCHANGED <<reading, stackCount, serverInfo, registered>>
  BY DEF CloseReader, Close, Popped, Released, program
<1>2. /\ Base /\ Anchored(p) /\ Above(p) /\ Delivered(p)
      /\ stack \in Seq(S) /\ readers \in [Reader -> ReaderState] /\ reading \in Reader
  BY <1>1, TableAssumption, RegistryAssumption DEF ReadInv, Sound, Places, Busy, Anchored
<1>3. p \in ReaderState /\ p.table \in Table
  BY <1>2 DEF Anchored
<1>4. stackCount \in {0, 1} /\ Len(stack) \in {stackCount + 2, stackCount + 4} /\ n \in {0, 2}
  <2>1. p.idx \in Int /\ p.idx >= -1 /\ p.idx # -1
    BY <1>1, <1>2 DEF Delivered, Above
  <2>2. p.idx >= 0 /\ p.more \in BOOLEAN
    BY <1>3, <2>1 DEF ReaderState
  <2>3. Len(stack) \in {stackCount + 2, stackCount + 4}
    BY <1>2, <2>2 DEF Above
  <2> QED
    BY <1>2, <2>3 DEF Base
<1> HIDE DEF n
<1>5. fault' = FALSE
  <2>1. (n > Len(stack)) = FALSE
    BY <1>4
  <2>2. fault' = (n > Len(stack))
    BY <1>1
  <2> QED
    BY <2>1, <2>2
<1>6. /\ stack' \in Seq(S) /\ Len(stack') >= stackCount
      /\ \A i \in 1..stackCount : stack'[i] = stack[i]
  <2> DEFINE m == Len(stack) - n
  <2>1. m \in Nat /\ m >= stackCount /\ m <= Len(stack) /\ 1 \in Int
    BY <1>4
  <2> HIDE DEF m, S
  <2>2. \A i \in 1..m : stack[i] \in S
    BY <1>2, <2>1, ElementOfSeq
  <2>3. /\ SubSeq(stack, 1, m) \in Seq(S)
        /\ Len(SubSeq(stack, 1, m)) = IF 1 <= m THEN m - 1 + 1 ELSE 0
        /\ \A i \in 1..m - 1 + 1 : SubSeq(stack, 1, m)[i] = stack[1 + i - 1]
    BY <2>1, <2>2, SubSeqProperties
  <2>4. stack' = SubSeq(stack, 1, m)
    BY <1>1 DEF m
  <2> QED
    BY <1>4, <2>1, <2>3, <2>4
<1>7. NoValues(registry')
  BY <1>1, <1>2, CloseFrees
<1> DEFINE q == [p EXCEPT !.ref = LUA_REFNIL]
<1>8. /\ q.idx = p.idx /\ q.more = p.more /\ q.table = p.table /\ q.seen = p.seen
      /\ q \in ReaderState
  <2>1. p \in [ref : Ref \cup {LUA_REFNIL}, idx : Int, more : BOOLEAN,
               table : Table \cup {Nil}, seen : Seq(Value \X Value)]
    BY <1>3 DEF ReaderState
  <2> HIDE DEF p
  <2> QED
    BY <2>1 DEF ReaderState
<1>9. /\ readers'[reading] = q /\ readers' \in [Reader -> ReaderState]
      /\ \A r \in Reader : r # reading => readers'[r] = readers[r]
  <2> HIDE DEF q
  <2>1. readers' = [readers EXCEPT ![reading] = q]
    BY <1>1 DEF q
  <2> QED
    BY <1>2, <1>8, <2>1
<1> HIDE DEF q
<1>10. Sound'
  <2>1. Delivered(q)
    BY <1>2, <1>8 DEF Delivered
  <2>2. \A r \in Reader : readers'[r].table # Nil => Delivered(readers'[r])
    BY <1>9, <2>1 DEF ReadInv, Sound
  <2> QED
    BY <1>1, <1>5, <1>6, <1>9, <2>2 DEF ReadInv, Sound, Delivered
<1>11. Places'
  <2>1. Base'
    <3>1. Len(stack') \in Nat
      BY <1>6
    <3> QED
      BY <1>1, <1>2, <1>6, <3>1 DEF Base
  <2>2. NoValues(registry)'
    BY <1>7 DEF NoValues
  <2>3. readers'[reading'].table \in Table
    BY <1>1, <1>3, <1>8, <1>9
  <2> QED
    BY <1>1, <2>1, <2>2, <2>3 DEF Places, Busy
<1>12. Values'
  <2>1. readers'[reading'].table = p.table
    BY <1>1, <1>8, <1>9
  <2>2. reading = "config" => AppliedTo(serverInfo, t)
    BY <1>1 DEF ReadInv, Values
  <2> QED
    BY <1>1, <2>1, <2>2 DEF Values
<1> QED
  BY <1>1, <1>10, <1>11, <1>12, RegisteredKept DEF ReadInv, Reads

(* ClearStack leaves what lay on the stack before the script's result. *)
LEMMA ClearedToBase ==
  ASSUME Base, NEW S, stack \in Seq(S)
  PROVE  /\ Cleared(stack) \in Seq(S) /\ Len(Cleared(stack)) <= 1
         /\ \A i \in 1..Len(Cleared(stack)) : Cleared(stack)[i] \notin Table
<1>1. stackCount \in {0, 1} /\ stackCount <= Len(stack) /\ Len(stack) \in Nat
  BY DEF Base
<1>2. Cleared(stack) = [i \in 1..stackCount |-> stack[i]]
  BY <1>1 DEF Cleared, SetTop
<1>3. \A i \in 1..stackCount : stack[i] \in S /\ stack[i] \notin Table
  BY <1>1, ElementOfSeq DEF Base
<1> QED
  BY <1>1, <1>2, <1>3

LEMMA ClearMainReads ==
  ASSUME ReadInv, ClearMain
  PROVE  Reads'
<1>1. /\ pc = "clear" /\ pc' = "require" /\ reading' = "config" /\ stack' = Cleared(stack)
      /\ UNCHANGED <<registry, readers, fault, stackCount, serverInfo, registered>>
  BY DEF ClearMain
<1>2. Base /\ NoValues(registry) /\ stack \in Seq(Value \cup {Nil})
  BY <1>1 DEF ReadInv, Sound, Places
<1>3. /\ stack' \in Seq(Value \cup {Nil}) /\ Len(stack') <= 1
      /\ \A i \in 1..Len(stack') : stack'[i] \notin Table
  BY <1>1, <1>2, ClearedToBase
<1>4. Sound'
  <2>1. reading' \in Reader
    BY <1>1, ServerHostAssumption
  <2> QED
    BY <1>1, <1>3, <2>1 DEF ReadInv, Sound, Delivered
<1>5. Places'
  <2>1. NoValues(registry)'
    BY <1>1, <1>2 DEF NoValues
  <2> QED
    BY <1>1, <1>3, <2>1 DEF Places, Busy
<1>6. Values'
  BY <1>1 DEF Values
<1> QED
  BY <1>1, <1>4, <1>5, <1>6, RegisteredKept DEF ReadInv, Reads

LEMMA RegisterReads ==
  ASSUME ReadInv, Register
  PROVE  Reads'
<1> DEFINE e == [folder |-> folder, stack |-> stack', registry |-> registry,
                 config |-> readers["config"].table]
           envs == g_ServerEnvironments
<1>1. /\ pc = "clear" /\ pc' = "folder" /\ reading = "config" /\ stack' = Cleared(stack)
      /\ g_Servers' = Append(g_Servers, serverInfo)
      /\ g_ServerEnvironments' = Append(envs, e)
      /\ UNCHANGED <<registry, readers, fault, reading, stackCount, serverInfo>>
  BY DEF Register, NextFolder, program
<1>2. Base /\ NoValues(registry) /\ stack \in Seq(Value \cup {Nil})
  BY <1>1 DEF ReadInv, Sound, Places
<1>3. /\ stack' \in Seq(Value \cup {Nil}) /\ Len(stack') <= 1
      /\ \A i \in 1..Len(stack') : stack'[i] \notin Table
  BY <1>1, <1>2, ClearedToBase
<1>4. Sound'
  BY <1>1, <1>3 DEF ReadInv, Sound, Delivered
<1>5. Places' /\ Values'
  BY <1>1 DEF Places, Values, Busy
<1>6. /\ e.registry = registry /\ e.stack = stack'
      /\ e.config = readers["config"].table
  OBVIOUS
<1>7. PICK S : g_Servers \in Seq(S) /\ envs \in Seq(S)
  BY DEF ReadInv, AccInv, Lists
<1> DEFINE T == S \cup {e, serverInfo}
           l == Len(envs)
<1>8. /\ g_Servers \in Seq(T) /\ envs \in Seq(T) /\ e \in T /\ serverInfo \in T
      /\ Len(g_Servers) = l /\ l \in Nat
  <2>1. g_Servers \in Seq(T) /\ envs \in Seq(T)
    BY <1>7, SeqMonotonic
  <2>2. Len(g_Servers) = l
    BY DEF ReadInv, AccInv, Accounted
  <2> QED
    BY <1>7, <2>1, <2>2
<1> HIDE DEF e, T
<1>9. /\ DOMAIN g_ServerEnvironments' = 1..l + 1
      /\ \A n \in 1..l : g_ServerEnvironments'[n] = envs[n] /\ g_Servers'[n] = g_Servers[n]
      /\ g_ServerEnvironments'[l + 1] = e /\ g_Servers'[l + 1] = serverInfo
  <2>1. /\ Append(envs, e) \in Seq(T) /\ Len(Append(envs, e)) = Len(envs) + 1
        /\ \A n \in 1..Len(envs) : Append(envs, e)[n] = envs[n]
        /\ Append(envs, e)[Len(envs) + 1] = e
    BY <1>8, AppendProperties
  <2>2. /\ \A n \in 1..Len(g_Servers) : Append(g_Servers, serverInfo)[n] = g_Servers[n]
        /\ Append(g_Servers, serverInfo)[Len(g_Servers) + 1] = serverInfo
    BY <1>8, AppendProperties
  <2>3. DOMAIN Append(envs, e) = 1..l + 1
    BY <2>1
  <2> HIDE DEF l
  <2>4. /\ \A n \in 1..l : Append(g_Servers, serverInfo)[n] = g_Servers[n]
        /\ Append(g_Servers, serverInfo)[l + 1] = serverInfo
    BY <1>8, <2>2
  <2>5. /\ \A n \in 1..l : Append(envs, e)[n] = envs[n]
        /\ Append(envs, e)[l + 1] = e
    BY <2>1 DEF l
  <2> QED
    BY <1>1, <2>3, <2>4, <2>5
<1>10. DOMAIN envs = 1..l /\ \A n \in 1..l + 1 : n \in 1..l \/ n = l + 1
  BY <1>8
<1>11. /\ NoValues(e.registry) /\ Len(e.stack) <= 1
       /\ \A v \in Range(e.stack) : v \notin Table
       /\ AppliedTo(serverInfo, Entries[e.config])
  <2>1. \A v \in Range(stack') : v \notin Table
    BY <1>3 DEF Range
  <2>2. AppliedTo(serverInfo, Entries[readers["config"].table])
    BY <1>1 DEF ReadInv, Values
  <2> QED
    BY <1>2, <1>3, <1>6, <2>1, <2>2
<1>12. ASSUME NEW n \in 1..l + 1
       PROVE  LET d == g_ServerEnvironments'[n]
              IN  /\ NoValues(d.registry) /\ Len(d.stack) <= 1
                  /\ \A v \in Range(d.stack) : v \notin Table
                  /\ AppliedTo(g_Servers'[n], Entries[d.config])
  <2>1. CASE n \in 1..l
    BY <1>9, <1>10, <2>1 DEF ReadInv, Registered
  <2>2. CASE n = l + 1
    BY <1>9, <1>11, <2>2
  <2> QED
    BY <1>10, <2>1, <2>2
<1>13. Registered'
  BY <1>9, <1>12 DEF Registered, NoValues, AppliedTo
<1> QED
  BY <1>4, <1>5, <1>13 DEF Reads

LEMMA InitRead == Init => ReadInv
<1> SUFFICES ASSUME Init PROVE ReadInv
  OBVIOUS
<1>1. /\ stack = <<>> /\ fault = FALSE /\ readers = [r \in Reader |-> ClosedReader]
      /\ pc = "folder" /\ reading = "serverData" /\ g_ServerEnvironments = <<>>
      /\ serverInfo = [k \in Field |-> Nil]
  BY DEF Init
<1>2. Sound
  <2>1. ClosedReader \in ReaderState /\ ClosedReader.table = Nil
    BY ClosedState DEF ClosedReader
  <2> QED
    BY <1>1, <2>1, ServerHostAssumption DEF Sound
<1>3. Places /\ Values
  BY <1>1 DEF Places, Values, Busy
<1>4. Registered
  <2>1. DOMAIN g_ServerEnvironments = {}
    BY <1>1
  <2> QED
    BY <2>1 DEF Registered
<1> QED
  BY <1>2, <1>3, <1>4, InitAcc DEF ReadInv

LEMMA NextRead == ReadInv /\ [Next]_vars => ReadInv'
<1> SUFFICES ASSUME ReadInv, [Next]_vars PROVE ReadInv'
  OBVIOUS
<1>0. AccInv'
  BY NextAcc DEF ReadInv
<1>s. SUFFICES Reads'
  BY <1>0 DEF Reads, ReadInv
<1>1. CASE Skip \/ AllLoaded \/ Reject
  BY <1>1, LeftReads DEF Skip, AllLoaded, Reject, Rejected, NextFolder, program
<1>2. CASE ScriptServes
  BY <1>2, LeftReads DEF ScriptServes
<1>3. CASE RequireFailed
  BY <1>3, LeftReads DEF RequireFailed, NothingPushed, NextFolder, readerVars
<1>4. CASE \E v \in Value \cup {Nil} : Required(v)
  BY <1>4, RequiredReads
<1>5. CASE Start \/ OpenReader \/ Iterate
  BY <1>5, StartReads, OpenReaderReads, IterateReads
<1>6. CASE Accept \/ Unknown \/ CloseReader
  BY <1>6, AcceptReads, UnknownReads, CloseReaderReads
<1>7. CASE ClearMain \/ Register
  BY <1>7, ClearMainReads, RegisterReads
<1>8. CASE Stopped \/ UNCHANGED vars
  <2>1. UNCHANGED vars
    BY <1>8 DEF Stopped
  <2>2. Sound'
    BY <2>1 DEF ReadInv, Sound, Delivered, vars, readerVars, program
  <2>3. Places'
    <3>1. /\ UNCHANGED <<pc, stack, registry, readers, reading, stackCount>>
          /\ Places
      BY <2>1 DEF ReadInv, vars, readerVars, program
    <3>2. (Base => Base') /\ (NoValues(registry) => NoValues(registry)')
      BY <3>1 DEF Base, NoValues
    <3>3. Anchored(readers[reading]) => Anchored(readers[reading])'
      BY <3>1 DEF Anchored
    <3>4. Above(readers[reading]) => Above(readers[reading])'
      BY <3>1 DEF Above
    <3> QED
      BY <3>1, <3>2, <3>3, <3>4 DEF Places, Busy
  <2>4. Values'
    <3>1. UNCHANGED <<pc, readers, reading, serverInfo>> /\ Values
      BY <2>1 DEF ReadInv, vars, readerVars, program
    <3>2. \A t, n : Latest(serverInfo, t, n) => Latest(serverInfo', t, n)
      BY <3>1
    <3>3. \A t : AppliedTo(serverInfo, t) => AppliedTo(serverInfo', t)
      BY <3>1
    <3> QED
      BY <3>1, <3>2, <3>3 DEF Values
  <2> QED
    BY <2>1, <2>2, <2>3, <2>4, RegisteredKept DEF ReadInv, Reads, vars
<1> QED
  BY <1>1, <1>2, <1>3, <1>4, <1>5, <1>6, <1>7, <1>8 DEF Next, Load

LEMMA ReadAlways == Spec => []ReadInv
<1>1. Init => ReadInv
  BY InitRead
<1>2. ReadInv /\ [Next]_vars => ReadInv'
  BY NextRead
<1> QED
  BY <1>1, <1>2, PTL DEF Spec

(* Whatever tables the scripts return: a reader delivers its table from the  *)
(* start and without a gap, all of it when the loop was not left, and        *)
(* lua_next always finds a table and a key of it on the stack (the cursor of *)
(* LuaTableReader.cpp, which trusts the top of the stack).                   *)
THEOREM ReadersInOrder == Spec => []InOrder
<1>1. ReadInv => InOrder
  <2> SUFFICES ASSUME ReadInv PROVE InOrder
    OBVIOUS
  <2>1. ASSUME NEW r \in Reader, readers[r].table # Nil
        PROVE  LET p == readers[r]
               IN  /\ IsPrefix(p.seen, Entries[p.table])
                   /\ (p.idx >= 0 /\ ~p.more) => p.seen = Entries[p.table]
    <3> DEFINE p == readers[r]
               t == Entries[p.table]
    <3>1. Delivered(p)
      BY <2>1 DEF ReadInv, Sound
    <3>2. t \in Seq(Value \X Value)
      <4>1. readers \in [Reader -> ReaderState]
        BY DEF ReadInv, Sound
      <4>2. p.table \in Table
        BY <2>1, <4>1 DEF ReaderState
      <4> QED
        BY <4>2, TableAssumption
    <3>3. /\ p.seen \in Seq(Value \X Value) /\ Len(p.seen) <= Len(t)
          /\ Len(p.seen) \in Nat /\ Len(t) \in Nat
          /\ \A i \in 1..Len(p.seen) : p.seen[i] = t[i]
      BY <3>1, <3>2 DEF Delivered
    <3>4. p.idx >= 0 /\ ~p.more => Len(p.seen) = Len(t)
      BY <3>1 DEF Delivered
    <3> HIDE DEF p, t
    <3>5. IsPrefix(p.seen, t)
      <4> DEFINE n == Len(p.seen)
      <4>1. n \in Nat /\ n <= Len(t) /\ \A i \in 1..n : p.seen[i] = t[i]
        BY <3>3
      <4> HIDE DEF n
      <4>2. /\ Len(SubSeq(t, 1, n)) = n /\ SubSeq(t, 1, n) \in Seq(Value \X Value)
            /\ \A i \in 1..n : SubSeq(t, 1, n)[i] = t[i]
        <5>1. \A i \in 1..n : t[i] \in Value \X Value
          BY <3>2, <3>3, <4>1, ElementOfSeq
        <5>2. /\ SubSeq(t, 1, n) \in Seq(Value \X Value)
              /\ Len(SubSeq(t, 1, n)) = IF 1 <= n THEN n - 1 + 1 ELSE 0
              /\ \A i \in 1..n - 1 + 1 : SubSeq(t, 1, n)[i] = t[1 + i - 1]
          BY <4>1, <5>1, SubSeqProperties
        <5> QED
          BY <4>1, <5>2
      <4>3. p.seen = SubSeq(t, 1, n)
        BY <3>3, <4>1, <4>2, SeqEqual DEF n
      <4> QED
        BY <3>3, <4>3 DEF IsPrefix, n
    <3>6. p.idx >= 0 /\ ~p.more => p.seen = t
      BY <3>2, <3>3, <3>4, SeqEqual
    <3> QED
      BY <3>5, <3>6 DEF p, t
  <2>2. ~fault
    BY DEF ReadInv, Sound
  <2> QED
    BY <2>1, <2>2 DEF InOrder
<1> QED
  BY <1>1, ReadAlways, PTL

(* In a registered state no table is anchored any more, and the stack holds  *)
(* at most the main file's result: Close frees the slot Setup took, and what *)
(* Close leaves on the stack or takes too much of it, ClearStack makes up    *)
(* for, for every pair of tables.                                            *)
THEOREM Settled == Spec => []SettledWhenRegistered
<1>1. ReadInv => SettledWhenRegistered
  <2> SUFFICES ASSUME ReadInv, NEW e \in Range(g_ServerEnvironments)
               PROVE  /\ \A r \in Ref : e.registry[r] \notin Table
                      /\ Len(e.stack) <= 1
                      /\ \A v \in Range(e.stack) : v \notin Table
    BY DEF SettledWhenRegistered
  <2>1. PICK n \in DOMAIN g_ServerEnvironments : g_ServerEnvironments[n] = e
    BY DEF Range
  <2>2. /\ NoValues(e.registry) /\ Len(e.stack) <= 1
        /\ \A v \in Range(e.stack) : v \notin Table
    BY <2>1 DEF ReadInv, Registered
  <2>3. \A r \in Ref : e.registry[r] \notin Table
    <3>1. Ref \subseteq 0..MaxRef /\ Ref \subseteq Int
      BY RegistryAssumption DEF Ref
    <3>2. \A r \in Ref : e.registry[r] \in {Nil} \cup Ref
      BY <2>2, <3>1 DEF NoValues
    <3> QED
      BY <3>1, <3>2, RegistryAssumption, TableAssumption
  <2> QED
    BY <2>2, <2>3
<1> QED
  BY <1>1, ReadAlways, PTL

(* A registered server has the name and the host its config file gives, up   *)
(* to the first unknown key, each unless a later entry of that key, or for   *)
(* the host a later Port, writes it again: for every order of the entries,   *)
(* any number of tables, folders and readers left early.                     *)
THEOREM ConfigApplied == Spec => []EntriesApplied
<1>1. ReadInv => EntriesApplied
  BY DEF ReadInv, Registered, EntriesApplied
<1> QED
  BY <1>1, ReadAlways, PTL
=============================================================================
