# A verification model of H1Z1-Server

TLA+ modules, TLC configurations and TLAPS proofs about the server core of this
repository: the UDP socket with its handler table and listening thread
(`src/ServerSystem/Sockets`), the bridge that gives Lua scripts sockets, events
and streams (`src/ServerSystem/LuaSystem`), the byte streams packets are built
with (`src/ServerSystem/Stream`), the server host that loads the scripts
(`src/ServerHost`), the cipher of `src/SonyNetworking`, and the Lua 5.1 that is
compiled into the server (`src/ServerSystem/Lua`, with additions of this
repository): compiler, virtual machine, tables, collector, string and table library.

    cd tla
    tlc -workers 2 -config MCNetSocket.cfg MCNetSocket
    tlapm NetSocketProofs.tla

## The system

| component | state it keeps | operations | talks to |
|---|---|---|---|
| `NetSocket` (Sockets.cpp) | handler vector, userdata map keyed by function, `listenThread` handle, socket | construct, destroy, `AddHandler`, `RemoveHandler` (by function, by index), `RemoveHandlers`, `Listener`, `Listen`, `ListenAsync`, `StopListener`, `StartListener`, `SendPacket` | the network; handlers, which call back into it |
| Lua registry references (lauxlib.c) | integer part of the registry, a free list threaded through it | `luaL_ref`, `luaL_unref` | everything the bridge must not lose |
| `LuaNetSocket` | `EventUserdata` (socket, index, three references), the metatable of light userdata | `New`, `OnRecieve`, `Connect`, `Disconnect`, `StepListener`, `Listen`, `StartListener`, `StopListener`, `SendPacket`, two `__gc` | `NetSocket`, registry, collector |
| `ByteStream` (Stream.cpp) | buffer, size, index, byte order, growth flag | reads and writes of numbers, bytes, strings; `Resize`, `GetBuffer` | `LuaStream` |
| `LuaStream` | userdata around a writer or a reader | the same, for scripts | scripts |
| `LuaManager`, `LuaTableReader` | the Lua stack and the nesting of readers on it | open, read and close tables, run files | `ServerHost` |
| `ServerHost` (main.cpp) | list of servers, a Lua state each | read configs, load plug-ins, start `Server.lua` | all of the above |
| SonyNetworking (RC4, `StreamConverter`) | cipher state, a stream's buffer | key schedule, encrypt, convert | nobody yet |
| Lua compiler (lparser.c, lcode.c, ldebug.c) | function under construction: code, jump lists, registers | one rule per production, one generator per kind of expression, the checker of code | the machine |
| Lua machine (lvm.c, ldo.c, lfunc.c, ltm.c, lbaselib.c) | stacks, `CallInfo`s, C calls, upvalues, metatable flags | 38 instructions, calls, errors, tag methods, coroutines | C functions, which call back into it |
| Lua tables (ltable.c) | array part, hash part with chains in it | look-up, insertion, rehash, traversal, length | everything in Lua |
| Lua string and table library (lstrlib.c, ltablib.c) | captures of a match under way, a sort's ranges | patterns, `gsub`, `gmatch`, `sort`, `concat`, ... | functions they call back |
| Lua collector (lgc.c, lfunc.c, lstring.c) | colours, gray lists, phase, userdata to finalise | a step at any allocation, barriers; `luaC_mark`, added by this repository | finalisers of the bridge |
| login server scripts | one socket, one event | identify, decode and answer packets | the bridge |

Calls go down (script, bridge, socket, WinSock) and come back up in the middle of
a call: `Listener` calls the C++ handler, the handler calls Lua, and Lua may call
anything below again, including what unregisters or deletes the object whose loop
is still on the stack. `ListenAsync` puts that whole tower on a second thread, with
no lock anywhere. Inside Lua it is the same: an instruction may call a tag method, a
library function a comparison, either may yield, fail, or resume a coroutine, and
the collector may take a step at each allocation.

### What is hard in it

* **Re-entrancy.** `Listener` walks a vector by index and tests the size before
  each call, while the handlers it calls edit the vector. `table.sort` and `gsub` call
  functions that may change what they work on.
* **Two containers for one table.** Handlers are kept by position and userdata by
  function; indexes handed out by `AddHandler` go stale when an earlier one leaves.
* **Threads stopped anywhere.** `SuspendThread` and `TerminateThread` stop the
  listener also between the two ends of a `malloc`, with the process heap locked.
  `listenThread` starts out uninitialised, is overwritten by a second
  `ListenAsync`, and after `Listen` holds a pseudo handle that names its user.
* **Ownership across the language border.** An event is Lua's memory, holds a raw
  pointer to a socket that is also Lua's memory, and is kept alive by a reference;
  its finaliser, `Disconnect` and `luaC_mark` all have views of their own of it.
* **An incremental collector.** What was visited is written to again, upvalues live on
  stacks of threads nobody visits, condemned strings are found again, finalisers
  wait from one cycle to the next.
* **State on a shared stack.** A table reader keeps its cursor on the Lua stack and
  pops by count; the host releases Lua states by hand on each of a dozen early exits.
* **Jumps without a syntax tree.** The compiler generates code while it parses; the jumps
  of a condition wait in lists threaded through the jump instructions themselves.
* **Variables that outlive their frames**, however they are left: by return, tail
  call, break, error, or a coroutine that never ends.
* **Caches.** The flags of a metatable, the dead keys of a table under traversal.
* **Sizes and formats.** Writers reserve, check and write three different sizes;
  numbers are swapped to the stream's byte order and string sizes are not; the key
  schedule runs over the wrong array's size.

### What makes each part correct

A datagram reaches each handler at most once, in order, and misses one only when
something was removed meanwhile; a handler gets its own userdata; the loop never
leaves the vector; calls return and listeners go on. A reference leads to its
object until it is released, and the registry holds exactly what connected events
need. A connected event and its socket stay alive. Writes stay in the buffer, what
was written stays written, and fields read back as they were written. A reader
delivers its table in order whatever else was read on the same stack; every Lua state
the host makes is registered, clean, or closed. A compiled program passes the code
checker and does what its text means, to its end or its error; each frame is its
`CallInfo`'s, each open upvalue is a slot of a frame that is still there. A table is a map
whatever its keys hash to, its length is a border, and a traversal visits each key once.
Nothing within reach is freed; finalisers run once, before their userdata goes, and
garbage goes.

## The modules

| module | models | note |
|---|---|---|
| `Registry` | `luaL_ref`, `luaL_unref` as operators on a table | used by the next two |
| `RefTable` | what their callers rely on: an abstract table of references | specification only |
| `LuaRef` | any sequence of correct calls; refines `RefTable` | `LuaRefProofs` |
| `NetSocket` | the class, all its operations but `SendPacket`, on any number of threads | `NetSocketProofs` |
| `LuaNetSocket` | the bridge, composed with the registry, the handler table and a coarse collector | `LuaNetSocketProofs` |
| `Collector` | the collector in full, with the program that runs between its steps | `CollectorProofs` |
| `ByteLog` | what a writer promises: an append-only log of bytes | specification only |
| `ByteStream` | writer and reader at the interface the binding uses; refines `ByteLog` | `ByteStreamProofs` |
| `TableReader` | `LuaTableReader` on the Lua stack, `lua_next`, over `Registry`, as operators | used by the next two |
| `TableWalk` | a caller that reads tables inside of tables as the header says | |
| `ServerHost` | `main()`: loading the server folders, with `LuaManager` | `ServerHostProofs` |
| `StreamConverter` | RC4 and `StreamConverter` over a small S-box | |
| `LuaTable` | ltable.c: hash part, array part, traversal, length | `LuaTableProofs` |
| `Opcodes` | lopcodes.h: instructions and their modes | used by the compiler and the machine |
| `Steps` | sequencing of operators | used by the compiler |
| `CodeGen` | lcode.c: expressions, jump lists, registers, constant folding | |
| `Parser` | lparser.c: the grammar, each rule with the code it generates | |
| `CodeCheck` | ldebug.c: what `luaG_checkcode` asks of one instruction | used by the machine |
| `SymbExec` | ldebug.c: `luaG_checkcode`, symbolic execution, names for error messages | |
| `LuaValues` | values, conversions, characters | |
| `LuaString` | lstrlib.c: plain functions, the pattern matcher, `gsub` | |
| `VM` | the virtual machine, calls, errors, upvalues, tag methods, coroutines, base and table library | `VMProofs` |
| `LuaSemantics`, `PatternMeaning` | what programs and patterns mean: the reference the compiler and machine are checked against | specification only |
| `LuaText`, `LuaPrograms` | a notation for programs, and the families of programs that are run | instance |
| `MC*` | the instances TLC checks | |

### How state and actions correspond to the code

**NetSocket.** `socketHandlers` is the vector, each entry with a ghost number that
tells registrations of one function apart; `socketUserdata` is the map, holding
the number of the registration whose userdata it has. `frames[t]` is thread t's
stack of `Listener()` calls: a handler that calls `Listener()` again pushes a frame.
A call is split into the steps another thread can come between: `malloc` (taking and
dropping the heap's lock are two), `recvfrom`, the size test, the read of the
element, the handler, `free`. An edit of the handler table is two steps, one per
container, in the code's order. A thread that touches the containers while another
is half way through changing them has a data race; the outcome is either the one
written or `fault`, after which nothing is followed any further, as nothing can be
said of it. `socketUserdata[f]` in the loop inserts a null entry when there is
none; a null entry and none are the same to every caller and are not told apart.
`RemoveHandler(int)` tests no index, so `RemoveHandlerAt` takes any: past the vector's end (which stands for
negative ones as well) the look-up may crash, find nothing, or take some function's userdata, and the erase that
follows does not return (`Astray`).

Threads are `unborn`, `alive` or `killed` and have a suspend count. `Named(t)` is the
set of threads the stored handle may mean: the last one created, the caller itself
for the pseudo handle, any at all while it is uninitialised.

**LuaNetSocket.** All events register the same C++ function, so a socket's userdata
map is the single field `userdata`. `sock` and `ev` are the userdata, `rooted` the
script's variables, `registry` the references. The collector is modelled as far as it decides who dies: before
(`gray`) and after (`black`) the registry was traversed, traversed again because the
barrier saw a store (`again`), finalising. At the atomic step any subset of
the unreachable userdata is condemned (an object may survive one more cycle), and
what `luaC_mark` whitened behind the collector's back as well, unless it is found
again through a variable. `luaC_mark` writes a mark byte without asking what it writes to: of the light userdata that stands
for the socket there is no object, and the byte falls behind the block `New` allocated for one
pointer, where the allocator may pad or not (`MarkHarm`: `fault' \in BOOLEAN`). `Connect` is atomic to the collector. `Disconnect` ends in
`delete` on memory that Lua's allocator owns: the run-time may survive that or not,
hence `fault' \in BOOLEAN`. C++ exceptions and Lua errors in a handler end the
handler, as `lua_pcall` sees to.

**Collector.** `ref[o]` is what the object refers to: pairs of key and value for the
entries of a table, `Field` in place of the key for what is in the structure itself
(metatable, environment, upvalues, stack slots). `colour` merges the two white bits and
the black one: gray is none of them. `gray`, `grayagain` and `weak` are the three lists that share
the field `gclist`; they are sets, for the code's order of visits is not one the
program may rely on. `tosweep` is what `sweepgc` and the sweep of the string table have ahead of them.
`Marked` is `reallymarkobject` in one go: userdata and closed upvalues are black
at once, and their referents marked on the way. The atomic phase is one action per
stretch that reads different lists (`RemarkUpvals`, `RemarkWeak`, `RemarkGray`,
`Separate`, `FlipWhite`), in the code's order, with no program step in between. A program step is one
instruction or API call with the barrier it ends in: `Back` is `luaC_barriert`, `Forward`
`luaC_barrierf` and `luaC_barrier`, an open upvalue has none. `ref[running]` is the stack; a value gets to it
before anything can be done with it. `tainted` records the two ways around the barriers:
`luaC_mark` of an object the cycle had marked or finalised, and `lua_setupvalue`.

**ByteStream.** `mem` is the buffer as a function on `0..bufferSize-1`. A write is one
action: grow, copy, refuse or write. An over-long write sets `overrun`; nothing is
followed past it. `fields` records what was written, and the reader reads fields
back in that order, in between further writes; `stale` says that the block it points to
was freed, and it is not followed after that. A number goes through `int` on its way from
Lua (`InInt`). The scan for a terminator looks at a byte before it compares with the end:
what is there is 0, or a byte like 1 or 255. The binding's readers are big endian; the model lets a reader
choose. A size from 2^31 on only fails the test for room, so its value is not followed.

**TableReader.** `stack` is the Lua stack above the caller's base, `readers` the fields of
each reader object; `ref` is -1 when `L` is null, as the two are set together. The
result of `NextElement` is the field `more`. `Entries[t]` lists a table's elements in the
order `lua_next` delivers them, which Lua leaves open. `lua_next` on what is no table, or
with what is no key of it, and a pop below the base set `fault`: the first and the last
are undefined, the other is a Lua error outside any `lua_pcall`, which ends the process.

**ServerHost.** One action per stretch of `main()` between two calls that can go either way.
The scripts are open: `RequireFile` may fail, return any value, or never return (a script
that calls `Listen`). `serverInfo.ConfigFile` is `Nil` for the default. After a key or value of the
wrong type the code uses a Lua state it has closed; `Reject` lets the process die there or go on,
and follows nothing in the closed state. The second `%s` of `main.cpp:170` has no
argument; the process may die of that too.

**StreamConverter.** A `CRC4` object is the memory from its S-box on: `sbox_free` behind
the S-box, then what the memory behind the object holds. `Initialize` is the key
schedule over the stored key's size, four longer than the S-box. `Convert` makes a new
object each time, whose `sbox_free` is whatever was there.

**LuaTable.** `table` is the array part, the nodes with their `next` links, and `lastfree`.
An assignment is one action: look-up, and if the key is new `newkey`, with the move of a
colliding node or a rehash. `traversetable` is the collector's visit, which marks the
keys of empty entries dead; `luaH_next` a step of `next`. The main position of a string or an object is any
function `hash` of them, chosen once; that of an integer is computed from the two
words of the double as `hashnum` does.

**Compiler.** The parser's input is a program as nested records of its grammar; an
expression is left as a flat list of tokens, for the priorities are `subexpr`'s to apply. What
the code does with `FuncState`, `expdesc` and `BlockCnt` is done with the record `f`, the
expression `e` and `f.bl`, in the same order: registers are reserved and freed, jumps coded with their target
field as the link to the next one, `lasttarget` kept against `LOADNIL` merging, constants folded,
upvalues resolved through the enclosing functions. A failed `lua_assert` sets `f.ok` to `FALSE`. `held` says
that `luaK_goiftrue` coded the jump of a constant while other jumps waited for that place.

**Machine.** An action is an instruction, or the end of something C code waited for. `vm.threads` has
each coroutine's stack, `base`, `top`, `savedpc`, `CallInfo`s and status; `vm.C` is the C stack as far
as it matters, an entry for each activation of `luaV_execute` and for each C function that called
back, with its locals (`pcall`, a tag method with where its result goes, the state of a `sort`).
A call from `OP_CALL` stays in its activation, as `nexeccalls` counts. Calling a C function
sets up its frame and notes it in `vm.cfun`; `Cfunction` runs it. An error cuts `vm.C` back to the last
`pcall` or `resume`, closes upvalues from its stack level and restores its `CallInfo`; `lua_yield`
cuts it back to the `resume`. Upvalues are open, a slot of a thread, or closed.
Tables keep their keys in the order they were made in: what order hashing gives is left to `LuaTable`.
Two strings are compared by the codes of their characters, as `strcoll` does in the C locale, which no script of the repository changes.
An error's message starts with the position of the function at the level the code asks for, counted over `CallInfo`s and the
calls tail calls replaced (`luaL_where`): file and line are one token, `Position`. `error` puts it before strings and
numbers, a wrapped coroutine once more before what it hands on. `unpack` takes its range, `assert` its message, and a `SETLIST` whose
batch does not fit its operand has it in the next word (`CountWord`).
The compiler (`Main`), the string library (`StringFunction`, `gmatch` and `gsub` in steps of their own) and the names
in messages (`NameOfRegister`) are operators the module is parameterised by. `MCLua` gives them those of `Parser`, `LuaString` and `SymbExec`;
the proofs are about any. A loop in C that calls back, in a chain of tag methods, `concat`, `foreach`, `sort` or `gsub`, is
one action from a call to the next. `selfmeta` is history: the tables that were their own metatable at some time.

**Strings and patterns.** `match` and what it calls are the code's functions, each recursion where
the code recurs, with `goto init` a recursion too; a failed try hands the captures back as
the code leaves them (`level--`, `CAP_UNFINISHED`). `gsub` runs up to where it calls a function,
which is then a C call that waits; so does `sort`, which keeps its range, its two indexes, its
pivot and the ranges still to be done.

## The runs

| run | question | result |
|---|---|---|
| `lua_ref` | can the free list lose, repeat or clobber a reference? | no |
| `netsocket` | re-entrant handlers, depth 2, one listening thread beside the owner, 2 functions, 3 registrations, 4 calls, any index removed; with fairness | types, userdata, order, no missed handler, loop in the vector; listeners keep up, calls return, but for their excuses |
| `lua_netsocket` | 2 sockets, 3 events, up to 2 of them on one socket, each disconnected once | references exact, sockets kept, own handler called or none, events lost by `luaC_mark` only |
| `lua_netsocket_socket` | handlers that do not capture their socket | violated: socket deleted under its event |
| `byte_stream` | modes whose encoding fits the reservation, a reader between writes | in bounds, append-only, read back |
| `byte_stream_overrun` | the mode with size and terminator | violated: one byte too many |
| `table_reader_nested` | an inner table read to its end and closed, then the outer one | violated: outer reader lost its place |
| `server_host` | 2 folders, 7 tables, any result of any script | tables read in order, states accounted for and clean, name and host as configured, start-up ends or stays in a script |
| `collector` | 3 heaps, 2 operations at any place of any cycle | nothing in reach freed, one list per object, finalisers once and in time, weak entries kept, garbage freed |
| `lua_table` | integers 1 to 3, a string, an object, any hash | a map, chains from main positions, lengths are borders, traversals complete, array part at least half in use |
| `lua_vm` | some thousand programs in families, compiled and run | code passes its checker, outcome is the meaning, frames, upvalues, flags and coroutines sound, every program ends |
| `converter_reversible` | a stream converted twice from one place | violated: the S-box depends on memory nobody has set |

**Bounds.** `MaxReg`, `MaxOps`, `MaxArrivals`, `MaxDepth` bound the history of a
behaviour. Three registrations are what it takes for a handler to stand before,
at and after the index being served; depth 2 is the first with an outer loop whose
vector an inner one edits; four calls allow register, register, start, and a stop or removal, and
every shorter mix. One listener beside the owner is what a data race needs; the handle a second `ListenAsync`
overwrites takes two, and is not in the run. In
`LuaRef` five slots with two values let the free list
reach length five in every order. `LuaNetSocket` has six slots, for the two events that are connected at a time with three references each, so a
third event recycles what another freed; two events on a socket are what it takes for a removal to make
the other's index stale, and for one `userdata` to serve two handlers.
Three fields are enough for a growth and a refused write between a first and a
last one. Two folders show what the first leaves behind for the second; the seven
tables are empty, right, right in another order, and wrong or unknown at the first or at
a later element, which are the four heights `Close` finds the stack at.

In `collector` two operations of the program may come before, between and after any steps of any number of
cycles: the hazards of lgc.c are a store behind a visit, the loss of the old path, or the end of a frame, and each
takes two. The heaps begin with the objects such a pair needs: an entry in a weak
table whose value has a finaliser, an upvalue no function uses any more beside a coroutine, a function whose upvalue is
a slot of a coroutine out of reach. `GCSWEEPMAX` is 5, fewer than the objects of a heap. In
`lua_table` three integers, a string and an object fill four nodes and three array slots, so that each part grows
into the other, and every order of collisions in sizes 1 to 4 occurs. `MaxHash` 2 makes any two
of them collide or not.

The programs of `lua_vm` are families in which one construct takes all its forms in all its places: each statement;
three operands under `and`, `or`, `not` as value, condition, argument and index; each operator on each
kind of operand; multiple assignment; loops with captured variables left in each way; calls with too few, too many and open
arguments; tag methods; coroutines that wrap, resume each other, die; patterns and the functions that use them;
the table functions with comparisons that lie, and callbacks that change the table. What a program must come to
is computed by `LuaSemantics` from its text; the programs about coroutines, which it does not cover, and those about messages and positions
(`Messages`) have their outcomes written beside them, the latter compared with both. `MAXRK`
is 2, so that a fourth constant no longer fits an operand (256 in the code); `LFIELDS_PER_FLUSH` is 2
for 50, `MAXARG_C` 2 for 511, `LUAI_MAXCALLS` 9 for 20000, `LUAI_MAXCCALLS` 8 for 200, `MAXTAGLOOP` 4 for 100, `LUA_MAXCAPTURES` 2 for 32: each limit is met by some
program. Numbers are small integers.

The S-box of `converter_reversible` has four entries for 256, with the excess of four; a
counterexample on it is one in the code, whose excess is the same. Where the proofs below cover a property, bounds do not matter to it.

**Assumptions of an instance.** `Reuse = FALSE`: a function is registered with a socket once at
a time. The header's "only first occurance" (`Sockets.h:86`) allows more, and the userdata map does not: with `TRUE`, `UserdataOfRegistration` fails.
The bridge does register one function for every event of a socket; what comes of that is modelled in `LuaNetSocket`. `CaptureSocket`: the
functions a script connects mention their socket, as those of the login server do.
`Once`: an event is disconnected once; without it `RegistryExact` fails. `Modes`: those whose encoding fits.

**Fairness.** Weak fairness of each thread's `Step`: the system runs every thread
that is neither suspended nor blocked, and handlers return. Strong fairness of the
steps that need the heap: once the socket is closed its listener fails at once,
over and over, and takes the heap each time round; a thread that waits gets it if it is free
again and again. Nothing forces a datagram to arrive or user code to call anything.
Both liveness properties of the socket carry the excuses the code really leaves: the
thread itself stopped, the object deleted, undefined behaviour, or a thread stopped while it held the
heap. Drop any of them and TLC shows the hang. So the two say that nothing but these keeps a thread waiting, and not
that these do not happen.
`ServerHost` is one thread that never waits: weak fairness of `Load`, all its steps. `Collector`: weak fairness of
`Collect`, as the program allocates and each allocation pays for steps; the program's own steps are free to
stop. `VM`: the interpreter goes on while it can. Its step is always enabled while a program runs, but for a jump to itself, which changes nothing;
so weak fairness is written `[]<>~Runs \/ []<><<TRUE>>_vm`, which TLC evaluates without a search for successors.

**Deadlock.** `CHECK_DEADLOCK FALSE` wherever calls, fields, operations or conversions are bounded: user code may
stop calling and nothing more may arrive, or a fault has ended the process. `lua_ref`, `lua_table`, `lua_vm` and
`server_host` check for deadlock.

## What the code and its comments disagree on

1. `LuaNetSocket.cpp:97` "Make the NetSocket userdata be marked as used": the
   reference is to a light userdata and anchors nothing (`lua_netsocket_socket`).
2. `Stream.h:244` "resize the buffer for you JUST ENOUGH to fit the string": one byte
   short in one mode (`byte_stream_overrun`).
3. `LuaManager.h:58` "you MUST close the table then you may continue to reading the primary
   table": closing an inner reader takes a value of the outer one, or leaves some of its own
   (`table_reader_nested`). No caller in the repository nests readers yet.
4. `StreamConverter.cpp:31` "Encryption == Decryption, it's XOR. Reversable.": the key schedule
   runs over the 260 bytes of the stored key instead of the 256 of the S-box and mixes
   in memory no one has set (`converter_reversible`).

More shows in the models where no comment of the code is contradicted by a run:

* `main.cpp:233` assigns the port to `Host`. The model follows the code, and no property demands it: `EntriesApplied` asks that the name is the
  configured one and that the host is it too unless a later entry, of `Host` or of `Port`, replaced it; of `Port` it asks nothing.
* `main.cpp:124-155` goes on to use a state it
  has closed (`Reject`).
* `Stream.cpp:478-498`: the terminator is not consumed, strings of one byte are read as empty,
  a zero inside ends a string that was written with it, and the scan tests a byte behind the end; a size of 2^31 and more makes the read fail, wrapped or not.
* `luaC_mark` gives an object the current white whatever phase the collector is in, and takes back `FINALIZEDBIT`:
  with it, `NoDangling` and `FinalizedOnce` fail, which is why both except it (`tainted`), as
  they do `lua_setupvalue` on an upvalue that is black already.
* `luaK_goiftrue` codes the jump of a constant false while other jumps may be on hold for that place; they then skip it. `Correct` leaves
  such programs out (`held`), as the code compiles them to something else than they mean; `CompiledWell`, `Ends` and the invariants do not.
* A table that is its own metatable can end up with a flag set for `__newindex` though it has it, and keep it when it is no longer: `luaV_settable` resets
  its flags, looks for `__newindex`, which sets one, and then stores the method (`FlagsTrue` excepts the tables in `selfmeta`, and for this one event).
* `ltable.c:10-13` says "at least half" of the array's slots are in use; `computesizes` asks for more than half. `ArraySized` leaves it open: at least
  half are in use, and no larger size would have more than half.
* `Sockets.cpp:80-84` takes any index for one of the vector's; a second event of a socket whose index went stale removes another's handler with it, or memory behind the vector.
* `LuaNetSocket.cpp:98-99` marks a light userdata (`MarkHarm`).
* The events of a socket share one entry of the userdata map: with two connected, the later one's function is called once for each handler and the earlier one's never,
  and when one is disconnected nothing is called until another connects (`EventHandler`). `OwnHandlerCalled` does not object, as whoever is called is the owner of the entry.
* `RC4.cpp` also writes those four bytes behind its S-box.

## What is proved

For every value of the constants, under the named assumptions of each module.

**References** (`LuaRefProofs`). `FreeListInv` is inductive: the freed slots form one chain
without repetition from slot 0, and with the live slots they are exactly `1..top`. `Lookup`
alone is not inductive, for a release writes into a slot and a later acquisition
trusts it. The chain is a witness, an injective sequence; release appends to it,
acquisition takes its last element, and its length is bounded by an injection into
`Ref`. `RefinesRefTable` maps each step to an abstract one.

**Dispatch** (`NetSocketProofs`). The invariant `IInv` says that registration numbers
increase along the vector, that every call a dispatch has made is older than every
entry it has still to visit, and that a dispatch nothing was removed under has
called, or has still to visit, whatever was registered when its datagram came. The last
two are what the removal of an element, at any place and by any thread, preserves. Types,
`CalledInOrder` and `MissedOnlyAfterRemoval` follow for any number of threads,
handlers and nested calls.

**A socket without a second thread** (`NetSocketProofs`). `AloneSafe` is about a state only and
not inductive: what makes it so is that a thread not yet started has done nothing (`Quiet`), that the owner
stands inside a handler in each of its `Listener()` calls but the innermost, edits only from there, and that
an index it has just checked is still in range (`Careful`). So no edit falls between the test of the size and the read
of the element. Two ways to lose the process remain, and `AloneSafe` names them: a handler deletes the socket that is calling it, or
`RemoveHandler(int)` is given an index the vector does not have, which nothing in the class tests. `UserdataOfRegistration` needs the step
in the middle of an edit: `Consistent` says what map and vector look like there too, when one container
has changed and the other has not. It supposes that no function is registered twice at a time (`Reuse = FALSE`); with it allowed TLC finds
the userdata lost at the removal of the first of the two.

**The bridge** (`LuaNetSocketProofs`). `IInv` carries `FreeListInv`'s chain over to this registry (`Threaded`), and says
which slots the connected events have (`Exact`), where the userdata map of a socket may point
(`MapConnected`), that what the collector can reach is neither dead nor condemned (`SocketsKept`), and that a socket has one handler for each
connected event, of which the map can only hold the last (`HandlersCounted`). Each conjunct is under just those of the script's
promises it needs, and so is each theorem: `RegistryExact` under `Once`, as a second `Disconnect`
releases references that may be another event's by then; `ConnectedSocketKept` under `Once` and `CaptureSocket`, without which
finding 1 deletes the socket; `OwnHandlerCalled` under `Once`, for any number of events on a socket; its key is that the map's entry is always
that of the last event to connect, whose index is the last position, and that a removal, which makes other indexes stale, empties the map.
`LostOnlyByMark` takes `Once` alone. That Lua functions, sockets and events are different values is an assumption of the module.

**The collector** (`CollectorProofs`). The invariant is the one of tri-colour collectors, in each phase: while marking, nothing
black refers to something white, and what is gray is in one of the three lists (`MarkInv`); the stages of the atomic
phase each add what they have settled, first open upvalues, then the running thread and the metatables of the basic types, the strong ends of the
weak tables, the lists that were put off, at last the userdata to be finalised (`AtomicInv`);
while sweeping, all that is not yet of the new white is ahead of the sweep (`SweepInv`); in between all is white (`IdleInv`). Through
all of it the program's view is closed: roots are kept, and what is kept refers to what is kept (`Closed`). `Finals` follows
a userdata to its finaliser. Two lemmas carry most of it: `Mutated`, for whatever the program does, each store with its barrier, and `Painted`,
for whatever a step of the collector blackens. The invariant is needed in full, for the atomic phase trusts the lists, the sweep the atomic
phase, and the next cycle the sweep. All this stands under `~tainted`; `OneList` and `FinalizedOnce`
hold beyond it, up to what the property itself excepts. Any heap is allowed whose objects are of one kind each.

**Streams** (`ByteStreamProofs`). Under `FittingModes`, that every mode in use encodes into
what `WriteString` reserves, the types of the writer and its buffer hold in every state (`StreamTypes`), no write leaves the buffer, and the writer implements
`ByteLog`, for any strings and sizes. The assumption is needed: the third mode is a finding. `WrittenIsRead` supposes in addition
that sizes fit an `int` (`IntSizes`). Its invariant is a layout: there are positions, one after each
field, between which the buffer holds the field's encoding (`Laid`), and a reader that has met no field with a defect of its own stands
at one of them (`InStep`). Growth copies the layout, a write extends it, a read follows it; numbers need that
four bytes taken apart and put together again are the same number, in both orders. The attempt
showed that a string with a zero in it does not come back in the mode that reads up to a terminator: `Readable` leaves it out now, and the run has one.

**Start-up** (`ServerHostProofs`). `AccInv` adds to `Accounted` where each folder stands: done, under
way with an open state, or still without one. The only steps with something to show are
those that leave a folder, five of them; all others keep `folder`, `lua` and both lists.
`ReadInv` extends it to the readers: what is on the Lua stack at each point of a loop, counted from what the script left (`Base`,
`Above`), that the registry holds the table of the reader under way and nothing else (`Anchored`), and which entries of the config have been applied
(`Latest`). From this `Close` and `ClearStack`, which pop by count, find what they expect in every case, and
`InOrder`, `SettledWhenRegistered` and `EntriesApplied` follow. The invariant has to know that `Host` and `Port` go to one
field in the code; `EntriesApplied` only allows it, and would hold as well if the port went to a field of its own.

**Tables** (`LuaTableProofs`). All five properties, for any keys, values and hashes and tables of any size. The walk along a
chain is a recursive function on the nodes, which says something only if chains end: `Paths` supposes there is a path for every node
and a distance to its end that each link makes smaller. `Homed` puts every key behind its main position, on the path that key's
holder heads; `Unique` allows one live node of a key, and `Freshest` puts the dead ones of the same key behind it. With these a
look-up meets the live node of a key if there is one (`FirstMeets`, `NodeOfIs`), and the table has a value for a key without any
walk, `Val`. `newkey` is then shown three times over, on an empty main position, behind a colliding node (`Spliced`) and in the place of one
that moves (`Replaced`); the free node it needs is there by counting (`Room`, `CountedRoom`), also in the middle of a
`resize` that reads the old table from its end. `TableInv` adds that `Val` is the history variable `map`, and where a traversal
stands (`Standing`): it has visited the entries before its place and none behind, with dead keys for places too. The length is a loop over
bounds that keep a value below and nil above; halving shrinks them each round and doubling passes `MaxKey` in fewer rounds
than it is given. `LuaTableAssumption` says that strings, objects, integers and `Nil` are different values, as their tags make them, and
that integer keys are below 2^20, where `hashnum` is the model's. No assumption is made on the hashes.

**The machine** (`VMProofs`), for any programs, any compiler, any string library and all limits. `FlagsTrue`: the invariant
says that tables are maps with flags, that a flag is for a tag method the table does not have (`Sound`), and that
only tables in `selfmeta` are their own metatable (`Owned`). Most operators of the machine leave the tables alone (`Keeps`);
what remains are the stores, each of which comes behind `luaH_set`, and the look-ups, which set flags for what is not there.
The proof shows why the exception is needed: between resetting the flags and storing the value there is a look-up in the metatable.
`ResumedOnce`: that the threads that wait are a chain says nothing of why a thread that is resumed was not in it already. It
was not because it has status `yield`, or has not started, and for that one has to know what each thread on the C stack looks like. `Control` says how the
C stack is built (`Common`): the first activation is the main thread's, each other one starts at the `CallInfo` where the one below it ends (`Linked`, `Nested`),
a thread that resumed another is at the `CallInfo` of that `resume` (`Waiting`), what was resumed had no activation before (`Fresh`),
a thread that yielded did so in a call (`Others`); and how many `CallInfo`s the thread that runs has above its activation
(`Mid`): none between two instructions, one while a C function runs. The steps are shown by what they do to these counts (`Moves`): a call adds one,
a return, a finish or a tail call's replaced frame takes one, all others add none. An error is the hard case: it cuts the C stack at
the last `pcall` or `resume`, and that what is left is well built needs all of `Common` (`UnwoundCommon`, `CaughtMid`).

Upvalues are the third thing proved of it. `OneUpvalue`, the part of `UpvaluesOpen` on which sharing a variable rests, says that no slot of a thread has two
open upvalues. `Held` carries it: an upvalue bears the number of the function it was made for, which no earlier one has (`Numbered`),
`findupval` makes one only for a slot that has none (`Apart`), and closing only closes. Between two steps, too,
nothing is lost: an open upvalue stays at its thread and slot until it is closed, and a closed one is never opened again
(`Follow`, the theorem `VariablesAreKept`). `UpvaluesKept` is stated beside its proof and is no property of a run.

Only model-checked:

* Liveness (`ListenerKeepsUp`, `CallsReturn`, `Settles`, `GarbageFreed`, `Ends`): fairness and `ENABLED` are beyond the prover.
* The compiler (`CompiledWell`, `Correct`): its operators are recursive, and the prover handles none of these. What a compiled
  program does for every program would take an induction over programs.
* `InFrame`, and the other part of `UpvaluesOpen`, that an open upvalue lies in a live frame, are false of the machine with any code
  whatever: they hold because the compiler's jumps, registers and captured variables are in order along every path, also where
  an upvalue is written while calls are open, and that is the same induction.
* `StreamConverter`, which uses `Bitwise`.

## What is not modelled, and the plan

* `SendPacket`: it changes nothing in the class, and its result is only handed to the script.
* `Listen`, `StartListener` and `StopListener` called by scripts: a second thread runs Lua over the one
  `lua_State` the first goes on using. Nothing can be said of that from the first instruction on; `NetSocket` models the
  same calls made by C++ handlers.
* Readers of tables by key, `GetTable` and `GetLength` of `LuaTableReader`: nothing in the solution calls them.
* `ByteStream`: `SetIdx`, explicit start indexes, wide strings, `Resize` called from outside: the binding offers none of them.
* The login server's packets: the scripts only run the modelled calls in a row; their texts are not programs of `lua_vm`.
* Lexical analysis (llex.c), `string.format`, numbers that are no integers, division, hooks, function environments in
  the machine, `xpcall`, `load` and `require`, the growth of stacks and the errors at its limits ("too many results to unpack", "too many arguments to resume"),
  dumping and undumping, the io, os, math and debug libraries; in the code checker, the count words that look like a `SETLIST` (`ldebug.c:350-360`).
* `FileSystem` (wrappers of Win32 calls without state), the debug library (output), build files and assets.

Left of the plan: environments of functions and `xpcall` in the machine.
