----------------------------- MODULE ServerHost -----------------------------
(* The start-up of the server host: for each folder under Servers, a Lua     *)
(* state of its own runs Server.lua and the config file, whose tables are    *)
(* read with LuaTableReader, and a server that was read without complaint is *)
(* registered.  Everything happens on the main thread; what the scripts      *)
(* return, or that they never do, is open.                                   *)
EXTENDS TableReader

CONSTANTS
  ConfigFile, ServerName, Host, Port,   \* the keys the host knows
  Folders                               \* bound: folders under Servers

ASSUME ServerHostAssumption ==
  /\ {ConfigFile, ServerName, Host, Port} \subseteq Value
  /\ ServerName \notin {Host, Port}
  /\ Reader = {"serverData", "config"}
  /\ Folders \in Nat

VARIABLES
  pc,                     \* where main() is
  folder,                 \* the folder being loaded
  lua,                    \* of each folder: its lua_State
  reading,                \* the reader of the loop main() is in
  stackCount,             \* LuaManager: height of the stack before the script
  serverInfo,             \* LuaServerData of the folder
  g_Servers,              \* the registered servers
  g_ServerEnvironments    \* their Lua states, as left

program == <<reading, stackCount, serverInfo>>
registered == <<g_Servers, g_ServerEnvironments>>
vars == <<readerVars, pc, folder, lua, program, registered>>

Folder == 1..Folders

(* The keys each loop accepts, with the type it wants, and where they go:    *)
(* the port is assigned to Host.                                             *)
Wanted ==
  [serverData |-> [k \in {ConfigFile} |-> "string"],
   config     |-> [k \in {ServerName, Host, Port} |->
                     IF k = Port THEN "number" ELSE "string"]]
Field == {ConfigFile, ServerName, Host}

(* Faulty variant for EntriesApplied: a case copied from the one before. *)
FieldCopied(k) == IF k = ConfigFile THEN ConfigFile ELSE ServerName

FieldOf(k) == IF k = Port THEN Host ELSE k

Init ==
  /\ stack = <<>> /\ registry = EmptyTable /\ fault = FALSE
  /\ readers = [r \in Reader |-> ClosedReader]
  /\ pc = "folder" /\ folder = 1
  /\ lua = [f \in Folder |-> "none"]
  /\ reading = "serverData" /\ stackCount = 0
  /\ serverInfo = [k \in Field |-> Nil]
  /\ g_Servers = <<>> /\ g_ServerEnvironments = <<>>

(* Faulty variant for Settles: `continue' skips the increment. *)
SameFolder == pc' = "folder" /\ UNCHANGED folder

NextFolder == pc' = "folder" /\ folder' = folder + 1

(* No main file: nothing was made that would have to be released. *)
Skip ==
  /\ pc = "folder" /\ folder \in Folder
  /\ NextFolder
  /\ UNCHANGED <<readerVars, lua, program, registered>>

(* A manager with a state of its own, and the libraries loaded into it. *)
Start ==
  /\ pc = "folder" /\ folder \in Folder
  /\ lua' = [lua EXCEPT ![folder] = "open"]
  /\ stack' = <<>> /\ registry' = EmptyTable
  /\ readers' = [r \in Reader |-> ClosedReader]
  /\ serverInfo' = [k \in Field |-> Nil]
  /\ reading' = "serverData"
  /\ pc' = "require"
  /\ UNCHANGED <<fault, folder, stackCount, registered>>

AllLoaded ==
  /\ pc = "folder" /\ folder \notin Folder
  /\ pc' = "running"
  /\ UNCHANGED <<readerVars, folder, lua, program, registered>>

(* Execute, on success: the height of the stack is noted, for ClearStack, and *)
(* the script's one result pushed.                                           *)
Pushed(v) ==
  /\ stackCount' = Len(stack)
  /\ stack' = Append(stack, v)

(* ExecuteFile, on failure: without a file nothing is noted; an error message *)
(* is popped again (what is no message stays, in a state closed next).       *)
NothingPushed ==
  /\ stackCount' \in {stackCount, Len(stack)}
  /\ UNCHANGED stack

(* RequireFile succeeds.  A main file need not return a table; for a config  *)
(* that is none the constructor of the reader throws, and nobody catches.    *)
Required(v) ==
  /\ pc = "require"
  /\ Pushed(v)
  /\ IF v \in Table THEN pc' = "open" /\ UNCHANGED reading
     ELSE IF reading = "serverData" THEN pc' = "require" /\ reading' = "config"
     ELSE pc' = "terminated" /\ UNCHANGED reading
  /\ UNCHANGED <<registry, readers, fault, folder, lua, serverInfo, registered>>

(* The script runs for ever: it calls Listen, or steps its listener. *)
ScriptServes ==
  /\ pc = "require"
  /\ pc' = "serving"
  /\ stackCount' = Len(stack)
  /\ UNCHANGED <<readerVars, folder, lua, reading, serverInfo, registered>>

(* No such file, or an error in it.  For the config, the message is printed  *)
(* with a string too few, which the process may not survive.                 *)
RequireFailed ==
  /\ pc = "require"
  /\ \/ /\ NextFolder
        /\ lua' = [lua EXCEPT ![folder] = "closed"]
     \/ /\ reading = "config"
        /\ pc' = "terminated"
        /\ UNCHANGED <<folder, lua>>
  /\ NothingPushed
  /\ UNCHANGED <<registry, readers, fault, reading, serverInfo, registered>>

OpenReader ==
  /\ pc = "open"
  /\ Setup(reading)
  /\ pc' = "next"
  /\ UNCHANGED <<folder, lua, program, registered>>

Iterate ==
  /\ pc = "next"
  /\ NextElement(reading)
  /\ pc' = IF readers'[reading].more THEN "entry" ELSE "close"
  /\ UNCHANGED <<folder, lua, program, registered>>

Key == stack[Len(stack) - 1]
Known == TypeOf[Key] = "string" /\ Key \in DOMAIN Wanted[reading]

Accept ==
  /\ pc = "entry"
  /\ Known /\ TypeOf[Last(stack)] = Wanted[reading][Key]
  /\ serverInfo' = [serverInfo EXCEPT ![FieldOf(Key)] = Last(stack)]
  /\ pc' = "next"
  /\ UNCHANGED <<readerVars, folder, lua, reading, stackCount, registered>>

(* An unknown key ends the loop; the rest of the table is not read. *)
Unknown ==
  /\ pc = "entry"
  /\ TypeOf[Key] = "string" /\ ~Known
  /\ pc' = "close"
  /\ UNCHANGED <<readerVars, folder, lua, program, registered>>

(* Faulty variant for Accounted: `exit' is not tested after the loop. *)
RejectedRegisters ==
  /\ g_Servers' = Append(g_Servers, serverInfo)
  /\ UNCHANGED g_ServerEnvironments

Rejected == UNCHANGED registered

(* A key or a value of the wrong type: the state is closed and the manager   *)
(* deleted, and then the reader pops and releases its reference in the       *)
(* closed state and the deleted manager clears its stack.  The process dies  *)
(* of that, or goes on with the next folder.                                 *)
Reject ==
  /\ pc = "entry"
  /\ \/ TypeOf[Key] # "string"
     \/ Known /\ TypeOf[Last(stack)] # Wanted[reading][Key]
  /\ lua' = [lua EXCEPT ![folder] = "closed"]
  /\ \/ NextFolder
     \/ pc' = "terminated" /\ UNCHANGED folder
  /\ Rejected
  /\ UNCHANGED <<readerVars, program>>

(* lua_settop: cuts the stack, or fills it up with nil. *)
SetTop(s, n) == [i \in 1..n |-> IF i <= Len(s) THEN s[i] ELSE Nil]

(* ClearStack is lua_pop(L, gettop - stackCount); lua_pop of n is settop of  *)
(* -n - 1, which for a negative n is an absolute index.                      *)
Cleared(s) ==
  LET n == Len(s) - stackCount
  IN  SetTop(s, IF n >= 0 THEN stackCount ELSE -n - 1)

CloseReader ==
  /\ pc = "close"
  /\ Close(reading)
  /\ pc' = "clear"
  /\ UNCHANGED <<folder, lua, program, registered>>

(* After the main file's table: on to the config file, the default one (Nil) *)
(* unless the table named another.                                           *)
ClearMain ==
  /\ pc = "clear" /\ reading = "serverData"
  /\ stack' = Cleared(stack)
  /\ reading' = "config"
  /\ pc' = "require"
  /\ UNCHANGED <<registry, readers, fault, folder, lua, stackCount, serverInfo, registered>>

(* After the config's: the server is registered. *)
Register ==
  /\ pc = "clear" /\ reading = "config"
  /\ stack' = Cleared(stack)
  /\ g_Servers' = Append(g_Servers, serverInfo)
  /\ g_ServerEnvironments' = Append(g_ServerEnvironments,
       [folder |-> folder, stack |-> stack', registry |-> registry,
        config |-> readers["config"].table])
  /\ NextFolder
  /\ UNCHANGED <<registry, readers, fault, lua, program>>

(* while (g_Running) Sleep(1000), and the scripts that never return. *)
Stopped == pc \in {"running", "serving", "terminated"} /\ UNCHANGED vars

Load ==
  \/ Skip \/ Start \/ AllLoaded
  \/ \E v \in Value \cup {Nil} : Required(v)
  \/ ScriptServes \/ RequireFailed
  \/ OpenReader \/ Iterate \/ Accept \/ Unknown \/ Reject
  \/ CloseReader \/ ClearMain \/ Register

Next == Load \/ Stopped

(* The main thread is never blocked between two of its steps. *)
Spec == Init /\ [][Next]_vars /\ WF_vars(Load)

(* Types: an open reader holds a reference of the registry, a closed one -1; *)
(* only main()'s own places, keys and states occur (LuaTableReader, main).   *)
TypeOK ==
  /\ ReaderTypeOK
  /\ pc \in {"folder", "require", "open", "next", "entry", "close", "clear",
             "running", "serving", "terminated"}
  /\ folder \in 1..Folders + 1
  /\ lua \in [Folder -> {"none", "open", "closed"}]
  /\ reading \in Reader
  /\ stackCount \in Nat
  /\ serverInfo \in [Field -> Value \cup {Nil}]
  /\ g_Servers \in Seq([Field -> Value \cup {Nil}])
  /\ g_ServerEnvironments \in
       Seq([folder : Folder, stack : Seq(Value \cup {Nil}),
            registry : [0..MaxRef -> Value \cup {Nil} \cup Ref], config : Table])

-----------------------------------------------------------------------------
(* Two readers one after the other, each left at its end or in the middle:   *)
(* the second starts on its own table, both deliver theirs from the start    *)
(* without a gap, a loop that was not left delivers all of it, and the stack *)
(* never runs empty (Close pops what it believes to be the reader's).        *)
InOrder ==
  /\ ~fault
  /\ \A r \in Reader : readers[r].table # Nil =>
       LET p == readers[r]
       IN  /\ IsPrefix(p.seen, Entries[p.table])
           /\ (p.idx >= 0 /\ ~p.more) => p.seen = Entries[p.table]

(* On every path out of the loop body, the error paths included, the Lua     *)
(* state a folder was given is registered once and open, or was closed; the  *)
(* two lists of servers run in parallel.                                     *)
Accounted ==
  LET envs == g_ServerEnvironments
  IN  /\ Len(g_Servers) = Len(envs)
      /\ \A i, j \in DOMAIN envs : envs[i].folder = envs[j].folder => i = j
      /\ {e.folder : e \in Range(envs)} = {f \in Folder : f < folder /\ lua[f] = "open"}

(* What reading two tables left in a registered state: no table anchored in  *)
(* the registry, and on the stack at most the main file's result, when that  *)
(* was no table (Close and ClearStack make up for each other).               *)
SettledWhenRegistered ==
  \A e \in Range(g_ServerEnvironments) :
    /\ \A r \in Ref : e.registry[r] \notin Table
    /\ Len(e.stack) <= 1
    /\ \A v \in Range(e.stack) : v \notin Table

(* A registered server has the name and the host its config gives, as far as *)
(* no unknown key precedes them, unless a later entry gives another.  What a *)
(* Port does is left open: the code writes it over Host (main.cpp:233), which*)
(* nothing asks for, so a Host before a Port is not required to last.        *)
AppliedTo(info, t) ==
  LET Applied(i) == \A j \in 1..i : t[j][1] \in {ServerName, Host, Port}
      Has(key, over) ==
        \A i \in DOMAIN t :
          Applied(i) /\ t[i][1] = key
            => \/ info[key] = t[i][2]
               \/ \E j \in DOMAIN t : j > i /\ Applied(j) /\ t[j][1] \in over
  IN  Has(ServerName, {ServerName}) /\ Has(Host, {Host, Port})

EntriesApplied ==
  \A n \in DOMAIN g_ServerEnvironments :
    AppliedTo(g_Servers[n], Entries[g_ServerEnvironments[n].config])

(* Start-up comes to an end: every folder was tried, or a script never       *)
(* returned, or the process died.  No table and no error makes it loop.      *)
Settles == <>(pc \in {"running", "serving", "terminated"})
=============================================================================
