----------------------------- MODULE ByteStream -----------------------------
(* ByteStreamWriter and ByteStreamReader at the interface the Lua binding    *)
(* (LuaStream) uses: every access at the internal index, narrow strings,     *)
(* numbers by way of an int.  A writer fills its buffer, growing it on       *)
(* demand; a reader made from that buffer, with a byte order of its own,     *)
(* reads the fields in the order of writing, while more may be written.      *)
EXTENDS Integers, Sequences

CONSTANTS
  Fixed,        \* byte, word, dword and qword values, most significant byte first
  String,       \* strings, as sequences of bytes
  Modes,        \* the interpretation modes strings are written with
  AutoResize,   \* the values WriteString's autoResize takes; the binding's is TRUE
  StartSizes,   \* sizes buffers are created with
  MaxFields     \* bound: fields written to one stream

Byte == 0..255

ASSUME ByteStreamAssumption ==
  /\ Fixed \subseteq Seq(Byte) /\ \A v \in Fixed : Len(v) \in {1, 2, 4, 8}
  /\ String \subseteq Seq(Byte)
  /\ Modes \subseteq {"GIVEN_SIZE", "GIVEN_SIZE_NULL_TERM", "UNTIL_NULL_TERM"}
  /\ AutoResize \subseteq BOOLEAN
  /\ StartSizes \subseteq Nat
  /\ MaxFields \in Nat

VARIABLES
  mem,          \* the buffer, a function on 0..bufferSize-1
  bufferSize,
  idx,          \* the writer's internal index
  bigEndian, autoBuffer,   \* the writer's configuration
  overrun,      \* a write went past the end of the buffer
  fields,       \* history: what was written, [mode, bytes]
  reading, ridx,   \* the reader, once there is one, and its index
  readBigEndian,   \* the reader's byte order; the binding's is TRUE
  stale,        \* the block the reader points to was freed when the buffer grew
  got           \* history: what each read returned, [ok, bytes]; not ok: it threw

config == <<bigEndian, autoBuffer>>
reader == <<reading, ridx, readBigEndian, got>>
vars == <<mem, bufferSize, idx, config, overrun, fields, stale, reader>>

Init ==
  /\ bufferSize \in StartSizes /\ mem = [k \in 0..bufferSize - 1 |-> 0]
  /\ idx = 0
  /\ bigEndian \in BOOLEAN /\ autoBuffer \in BOOLEAN
  /\ overrun = FALSE /\ fields = <<>>
  /\ reading = FALSE /\ ridx = 0 /\ readBigEndian = FALSE /\ got = <<>>
  /\ stale = FALSE

-----------------------------------------------------------------------------
(* Bytes of a number in memory: the machine is little endian, AUTO_ENDIAN    *)
(* swaps for a big endian stream.  Reading undoes it the same way.           *)
Reversed(b) == [k \in 1..Len(b) |-> b[Len(b) + 1 - k]]
Ordered(b, big) == IF big THEN b ELSE Reversed(b)

(* A string's size is stored without the swap. *)
Dword(n) == <<n % 256, (n \div 256) % 256, (n \div 65536) % 256, (n \div 16777216) % 256>>

(* Faulty variant for RoundTrip: the size is read in the other order. *)
Value4Swapped(b) ==
  IF b[4] < 128 THEN b[1] + 256 * b[2] + 65536 * b[3] + 16777216 * b[4] ELSE 2147483647

(* The size of a string; from 2^31 on it is only known not to fit. *)
Value4(b) ==
  IF b[1] < 128 THEN b[4] + 256 * b[3] + 65536 * b[2] + 16777216 * b[1] ELSE 2147483647

Encoded(str, mode) ==
  CASE mode = "GIVEN_SIZE" -> Dword(Len(str)) \o str
    [] mode = "UNTIL_NULL_TERM" -> str \o <<0>>
    [] mode = "GIVEN_SIZE_NULL_TERM" -> Dword(Len(str)) \o str \o <<0>>

(* Faulty variant for InBounds: the room left is taken for the whole buffer. *)
GrownFromStart(n, forced) ==
  IF (autoBuffer \/ forced) /\ n > bufferSize THEN bufferSize + n ELSE bufferSize

(* AUTO_BUFFER: when n bytes do not fit, grow by n (not to what is missing). *)
Grown(n, forced) ==
  IF (autoBuffer \/ forced) /\ n > bufferSize - idx THEN bufferSize + n ELSE bufferSize

(* Faulty variant for ImplementsByteLog: nothing is copied. *)
ResizedEmpty(size) == [k \in 0..size - 1 |-> 0]

(* Resize(size, true): a zeroed block with the old one's contents. *)
Resized(size) == [k \in 0..size - 1 |-> IF k < bufferSize THEN mem[k] ELSE 0]

Put(m, at, b) ==
  [k \in DOMAIN m |-> IF at <= k /\ k < at + Len(b) THEN b[k - at + 1] ELSE m[k]]

(* A write of b that reserved n bytes, and is refused when checked bytes do  *)
(* not fit.  The buffer has grown either way.                                *)
Write(b, n, forced, checked, field) ==
  /\ ~overrun /\ Len(fields) < MaxFields
  /\ bufferSize' = Grown(n, forced)
  /\ IF bufferSize' = 0 \/ idx + checked > bufferSize'
       THEN mem' = Resized(bufferSize') /\ UNCHANGED <<idx, overrun, fields>>
       ELSE /\ mem' = Put(Resized(bufferSize'), idx, b)
            /\ idx' = idx + Len(b)
            /\ overrun' = (idx + Len(b) > bufferSize')
            /\ fields' = Append(fields, field)
  /\ stale' = (stale \/ (reading /\ bufferSize' # bufferSize))
  /\ UNCHANGED <<config, reader>>

(* The number of a script is converted to an int before it is written.  Of   *)
(* one too large for that the build makes the least int or the low four      *)
(* bytes; a qword is that int with its sign.                                 *)
InInt(v) ==
  Len(v) >= 4 => v[Len(v) - 3] < 128 /\ \A k \in 1..Len(v) - 4 : v[k] = 0
Signed(b, n) == [k \in 1..n - 4 |-> IF b[1] < 128 THEN 0 ELSE 255] \o b
AsInt(v) ==
  IF InInt(v) THEN {v}
  ELSE {Signed(b, Len(v)) : b \in {<<128, 0, 0, 0>>, [k \in 1..4 |-> v[Len(v) - 4 + k]]}}

(* WriteByte, WriteWord, WriteDword, WriteQword *)
WriteFixed(v) ==
  \E b \in AsInt(v) :
    Write(Ordered(b, bigEndian), Len(v), FALSE, Len(v), [mode |-> "FIXED", bytes |-> v])

(* WriteData: as it is in memory *)
WriteData(v) ==
  Write(v, Len(v), FALSE, Len(v), [mode |-> "DATA", bytes |-> v])

(* WriteString reserves room for a size and the string whatever the mode,    *)
(* and checks the string alone, only when it may not resize.                 *)
WriteString(str, mode, autoResize) ==
  Write(Encoded(str, mode), Len(str) + 4, autoResize,
        IF autoResize THEN 0 ELSE Len(str), [mode |-> mode, bytes |-> str])

-----------------------------------------------------------------------------
(* GetBuffer: a reader over the writer's buffer, as it is now.  Once a write  *)
(* has moved the buffer the reader is left with a freed block: what it would *)
(* read then is undefined and not followed.                                  *)
OpenReader ==
  /\ ~reading /\ ~overrun /\ reading' = TRUE
  /\ readBigEndian' \in BOOLEAN
  /\ UNCHANGED <<mem, bufferSize, idx, config, overrun, fields, stale, ridx, got>>

Slice(at, n) == [k \in 1..n |-> mem[at + k - 1]]

Returns(ok, b, next) ==
  /\ got' = Append(got, [ok |-> ok, bytes |-> b])
  /\ ridx' = next
  /\ UNCHANGED <<mem, bufferSize, idx, config, overrun, fields, stale, reading, readBigEndian>>

Throws == Returns(FALSE, <<>>, ridx)

Reading(mode) ==
  reading /\ ~stale /\ ~overrun /\ Len(got) < Len(fields) /\ fields[Len(got) + 1].mode = mode

(* ReadByte .. ReadQword; ReadData does not swap. *)
ReadFixed ==
  /\ Reading("FIXED") \/ Reading("DATA")
  /\ LET f == fields[Len(got) + 1]
         n == Len(f.bytes) IN
     IF bufferSize = 0 \/ ridx + n > bufferSize THEN Throws
     ELSE Returns(TRUE, IF f.mode = "FIXED" THEN Ordered(Slice(ridx, n), readBigEndian)
                                            ELSE Slice(ridx, n),
                  ridx + n)

(* ReadString with the size in front: the size is read with the swap. *)
ReadSized(mode) ==
  /\ Reading(mode)
  /\ IF bufferSize = 0 \/ ridx + 4 > bufferSize THEN Throws
     ELSE LET n == Value4(Ordered(Slice(ridx, 4), readBigEndian)) IN
          IF n > bufferSize - ridx - 4 THEN Throws
          ELSE Returns(TRUE, Slice(ridx + 4, n),
                       ridx + 4 + n + (IF mode = "GIVEN_SIZE_NULL_TERM" THEN 1 ELSE 0))

(* ReadString up to a zero: a string of one byte is taken for the terminator *)
(* alone; without a zero the scan runs one byte past the buffer or, should   *)
(* that byte not be zero, two, and takes what is there.                      *)
Run(n) == \A k \in 0..n - 1 : mem[ridx + k] # 0

ReadUntilNull ==
  /\ Reading("UNTIL_NULL_TERM")
  /\ \/ bufferSize = 0 /\ Throws
     \/ \E n \in 0..bufferSize - ridx :
          /\ Run(n) /\ (ridx + n < bufferSize => mem[ridx + n] = 0)
          /\ \/ /\ n = 1 /\ Returns(TRUE, <<>>, ridx + 1)
             \/ /\ n # 1 /\ Returns(TRUE, Slice(ridx, n), ridx + n)
             \/ /\ ridx + n = bufferSize
                /\ \E b \in {1, 255} :
                     IF n = 0 THEN Returns(TRUE, <<>>, ridx + 1)
                     ELSE Returns(TRUE, Append(Slice(ridx, n), b), ridx + n + 1)
     \/ ridx > bufferSize /\ Returns(TRUE, <<>>, ridx)

Next ==
  \/ \E v \in Fixed : WriteFixed(v) \/ WriteData(v)
  \/ \E str \in String, mode \in Modes, r \in AutoResize : WriteString(str, mode, r)
  \/ OpenReader \/ ReadFixed \/ ReadUntilNull
  \/ \E mode \in {"GIVEN_SIZE", "GIVEN_SIZE_NULL_TERM"} : ReadSized(mode)

Spec == Init /\ [][Next]_vars

-----------------------------------------------------------------------------
(* Types: the buffer has exactly the size recorded for it (Resize keeps the  *)
(* block and bufferSize in step), and every byte of it is a byte.            *)
TypeOK ==
  /\ bufferSize \in Nat /\ mem \in [0..bufferSize - 1 -> Byte]
  /\ idx \in Nat
  /\ bigEndian \in BOOLEAN /\ autoBuffer \in BOOLEAN
  /\ overrun \in BOOLEAN /\ reading \in BOOLEAN

(* "it will automatically resize the buffer for you JUST ENOUGH to fit": no  *)
(* write goes past the end of the buffer.                                    *)
InBounds == ~overrun /\ idx <= bufferSize

(* What was written stays as it was, through growth and refused writes.      *)
Log == INSTANCE ByteLog WITH log <- [k \in 0..idx - 1 |-> mem[k]], len <- idx
ImplementsByteLog == Log!Spec

(* Fields the reader understands the way the writer meant them: bytes; a     *)
(* number an int holds, when both have one byte order; a string with its     *)
(* size in front, when the reader is little endian, for the size is never    *)
(* swapped on the way in.  (A reader made by the Lua binding is big endian.) *)
Plain(f) ==
  \/ f.mode = "DATA"
  \/ f.mode = "FIXED" /\ InInt(f.bytes) /\ (Len(f.bytes) = 1 \/ readBigEndian = bigEndian)
  \/ f.mode = "GIVEN_SIZE" /\ ~readBigEndian

(* A string up to its terminator is read as written unless it has one byte   *)
(* or a zero in it, but the reader is left in front of the terminator.       *)
Readable(f) ==
  \/ Plain(f)
  \/ /\ f.mode = "UNTIL_NULL_TERM" /\ Len(f.bytes) # 1
     /\ \A k \in DOMAIN f.bytes : f.bytes[k] # 0

(* Reading the fields back in order gives what was written, up to and with   *)
(* the first field that is not plain, if that is readable at all, however    *)
(* the buffer grew before the reader was made and whatever was written, or   *)
(* refused, while it was read.                                               *)
RoundTrip ==
  \A k \in DOMAIN got :
    (\A j \in 1..k - 1 : Plain(fields[j])) /\ Readable(fields[k])
      => got[k] = [ok |-> TRUE, bytes |-> fields[k].bytes]
=============================================================================
