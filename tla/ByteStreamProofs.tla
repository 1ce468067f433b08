-------------------------- MODULE ByteStreamProofs --------------------------
(* Proofs about streams: in the two string modes whose encoding fits the     *)
(* room WriteString reserves, no write leaves the buffer, the bytes written  *)
(* are an append-only log, and a reader gets back the fields written, for    *)
(* all values, strings, buffer sizes and numbers of fields.                  *)
EXTENDS ByteStream, SequenceTheorems, TLAPS

(* The assumption the overrun of the third mode makes necessary. *)
FittingModes ==
  Modes \subseteq {"GIVEN_SIZE", "UNTIL_NULL_TERM"} /\ AutoResize \subseteq {TRUE}

StreamInv == TypeOK /\ InBounds

LEMMA OrderedBytes ==
  ASSUME NEW b \in Seq(Byte), NEW big
  PROVE  Ordered(b, big) \in Seq(Byte) /\ Len(Ordered(b, big)) = Len(b)
<1>1. \A k \in 1..Len(b) : b[Len(b) + 1 - k] \in Byte
  OBVIOUS
<1>2. Reversed(b) \in [1..Len(b) -> Byte]
  BY <1>1 DEF Reversed
<1>3. Reversed(b) \in Seq(Byte) /\ Len(Reversed(b)) = Len(b)
  BY <1>2
<1> QED
  BY <1>3 DEF Ordered

LEMMA DwordBytes ==
  ASSUME NEW n \in Nat
  PROVE  Dword(n) \in Seq(Byte) /\ Len(Dword(n)) = 4
<1>1. \A m \in Nat : m % 256 \in Byte
  BY DEF Byte
<1>2. n \div 256 \in Nat /\ n \div 65536 \in Nat /\ n \div 16777216 \in Nat
  OBVIOUS
<1> QED
  BY <1>1, <1>2 DEF Dword

LEMMA ConcatBytes ==
  ASSUME NEW s \in Seq(Byte), NEW t \in Seq(Byte)
  PROVE  s \o t \in Seq(Byte) /\ Len(s \o t) = Len(s) + Len(t)
  BY ConcatProperties, Zenon

LEMMA TupleBytes ==
  ASSUME NEW n \in Nat, NEW f \in [1..n -> Byte]
  PROVE  f \in Seq(Byte) /\ Len(f) = n
  OBVIOUS

LEMMA SignedBytes ==
  ASSUME NEW b \in Seq(Byte), Len(b) = 4, NEW n \in {4, 8}
  PROVE  Signed(b, n) \in Seq(Byte) /\ Len(Signed(b, n)) = n
<1> DEFINE ext == [k \in 1..n - 4 |-> IF b[1] < 128 THEN 0 ELSE 255]
<1>1. n - 4 \in Nat /\ ext \in [1..n - 4 -> Byte]
  BY DEF Byte
<1>2. ext \in Seq(Byte) /\ Len(ext) = n - 4
  BY <1>1, TupleBytes
<1>3. Signed(b, n) = ext \o b
  BY DEF Signed
<1> HIDE DEF ext
<1>4. ext \o b \in Seq(Byte) /\ Len(ext \o b) = Len(ext) + Len(b)
  BY <1>2, ConcatBytes
<1> QED
  BY <1>2, <1>3, <1>4

LEMMA LowBytes ==
  ASSUME NEW v \in Seq(Byte), NEW n \in {4, 8}, Len(v) = n
  PROVE  [k \in 1..4 |-> v[n - 4 + k]] \in [1..4 -> Byte]
  OBVIOUS

(* A number taken through an int still has the width of the field.           *)
LEMMA AsIntBytes ==
  ASSUME NEW v \in Fixed
  PROVE  \A b \in AsInt(v) : b \in Seq(Byte) /\ Len(b) = Len(v)
<1>1. v \in Seq(Byte) /\ Len(v) \in {1, 2, 4, 8}
  BY ByteStreamAssumption
<1>2. CASE InInt(v)
  BY <1>1, <1>2 DEF AsInt
<1>3. CASE ~InInt(v)
  <2>1. Len(v) \in {4, 8}
    <3>1. ~(Len(v) >= 4) => InInt(v)
      BY Zenon DEF InInt
    <3>2. Len(v) >= 4
      BY <1>3, <3>1, Zenon
    <3>3. \A n \in {1, 2, 4, 8} : n >= 4 => n \in {4, 8}
      OBVIOUS
    <3> QED
      BY <1>1, <3>2, <3>3, Zenon
  <2> DEFINE low == [k \in 1..4 |-> v[Len(v) - 4 + k]]
             least == <<128, 0, 0, 0>>
  <2>2. low \in Seq(Byte) /\ Len(low) = 4
    BY <1>1, <2>1, LowBytes, TupleBytes
  <2>3. least \in Seq(Byte) /\ Len(least) = 4
    BY DEF Byte
  <2>4. AsInt(v) = {Signed(b, Len(v)) : b \in {least, low}}
    BY <1>3 DEF AsInt
  <2> HIDE DEF low, least
  <2>5. \A w \in {least, low} : Signed(w, Len(v)) \in Seq(Byte) /\ Len(Signed(w, Len(v))) = Len(v)
    BY <2>1, <2>2, <2>3, SignedBytes
  <2> QED
    BY <2>4, <2>5
<1> QED
  BY <1>2, <1>3

(* WriteString's reservation, the string and a size, covers these encodings. *)
LEMMA EncodedFits ==
  ASSUME NEW str \in Seq(Byte), NEW mode \in {"GIVEN_SIZE", "UNTIL_NULL_TERM"}
  PROVE  /\ Encoded(str, mode) \in Seq(Byte)
         /\ Len(Encoded(str, mode)) \in 1..Len(str) + 4
<1>1. CASE mode = "GIVEN_SIZE"
  <2>1. Encoded(str, mode) = Dword(Len(str)) \o str
    BY <1>1 DEF Encoded
  <2>2. Dword(Len(str)) \in Seq(Byte) /\ Len(Dword(Len(str))) = 4
    BY DwordBytes
  <2>3. /\ Dword(Len(str)) \o str \in Seq(Byte)
        /\ Len(Dword(Len(str)) \o str) = 4 + Len(str)
    BY <2>2, ConcatBytes
  <2>4. Len(str) \in Nat
    OBVIOUS
  <2> QED
    BY <2>1, <2>3, <2>4
<1>2. CASE mode = "UNTIL_NULL_TERM"
  <2>1. Encoded(str, mode) = str \o <<0>>
    BY <1>2 DEF Encoded
  <2>2. <<0>> \in Seq(Byte) /\ Len(<<0>>) = 1
    BY DEF Byte
  <2> QED
    BY <2>1, <2>2
<1> QED
  BY <1>1, <1>2

(* AUTO_BUFFER never shrinks the buffer and, when it may grow, makes room. *)
LEMMA GrownEnough ==
  ASSUME StreamInv, NEW n \in Nat, NEW forced \in BOOLEAN
  PROVE  /\ Grown(n, forced) \in Nat /\ Grown(n, forced) >= bufferSize
         /\ autoBuffer \/ forced => idx + n <= Grown(n, forced)
  BY DEF StreamInv, TypeOK, InBounds, Grown

(* A write whose bytes are within what it reserved and what it checked keeps *)
(* inside the buffer, and leaves what was written before as it was.          *)
LEMMA WriteStep ==
  ASSUME StreamInv, NEW b \in Seq(Byte), NEW n \in Nat, NEW forced \in BOOLEAN,
         NEW checked \in Nat, NEW field, Len(b) <= n,
         forced \/ Len(b) <= checked,
         Write(b, n, forced, checked, field)
  PROVE  /\ StreamInv'
         /\ idx' >= idx
         /\ \A k \in 0..idx - 1 : mem'[k] = mem[k]
<1>1. /\ bufferSize' = Grown(n, forced) /\ bufferSize' \in Nat /\ bufferSize' >= bufferSize
      /\ forced => idx + n <= bufferSize'
  BY GrownEnough DEF Write
<1>2. idx \in Nat /\ idx <= bufferSize /\ bufferSize \in Nat /\ mem \in [0..bufferSize - 1 -> Byte]
  BY DEF StreamInv, TypeOK, InBounds
<1>3. Resized(bufferSize') \in [0..bufferSize' - 1 -> Byte]
  BY <1>1, <1>2 DEF Resized, Byte
<1>4. \A k \in 0..idx - 1 : k \in 0..bufferSize' - 1 /\ Resized(bufferSize')[k] = mem[k]
  BY <1>1, <1>2 DEF Resized
<1>5. /\ bigEndian' \in BOOLEAN /\ autoBuffer' \in BOOLEAN /\ reading' \in BOOLEAN
  BY DEF Write, config, reader, StreamInv, TypeOK
<1>6. ~overrun
  BY DEF StreamInv, InBounds
<1>7. CASE mem' = Resized(bufferSize') /\ UNCHANGED <<idx, overrun, fields>>
  <2>1. StreamInv'
    BY <1>1, <1>2, <1>3, <1>5, <1>6, <1>7 DEF StreamInv, TypeOK, InBounds
  <2> QED
    BY <1>2, <1>4, <1>7, <2>1
<1>8. CASE /\ ~(bufferSize' = 0 \/ idx + checked > bufferSize')
           /\ mem' = Put(Resized(bufferSize'), idx, b)
           /\ idx' = idx + Len(b)
           /\ overrun' = (idx + Len(b) > bufferSize')
  <2>1. Len(b) \in Nat /\ idx + Len(b) <= bufferSize'
    BY <1>1, <1>2, <1>8
  <2>2. \A k \in 0..bufferSize' - 1 :
          mem'[k] = IF idx <= k /\ k < idx + Len(b) THEN b[k - idx + 1]
                                                    ELSE Resized(bufferSize')[k]
    BY <1>3, <1>8 DEF Put
  <2>3. DOMAIN mem' = 0..bufferSize' - 1
    BY <1>3, <1>8 DEF Put
  <2>4. \A k \in 0..bufferSize' - 1 : idx <= k /\ k < idx + Len(b) => b[k - idx + 1] \in Byte
    BY <1>2
  <2>5. mem' \in [0..bufferSize' - 1 -> Byte]
    <3>1. \A k \in DOMAIN Resized(bufferSize') :
            (IF idx <= k /\ k < idx + Len(b) THEN b[k - idx + 1]
                                             ELSE Resized(bufferSize')[k]) \in Byte
      BY <1>3, <2>4
    <3> QED
      BY <1>3, <1>8, <3>1 DEF Put
  <2>6. StreamInv'
    BY <1>1, <1>2, <1>5, <1>8, <2>1, <2>5 DEF StreamInv, TypeOK, InBounds
  <2>7. \A k \in 0..idx - 1 : mem'[k] = mem[k]
    BY <1>2, <1>4, <2>2
  <2> QED
    BY <1>2, <1>8, <2>1, <2>6, <2>7
<1> QED
  BY <1>7, <1>8 DEF Write

(* A read leaves alone what the writer owns; so does a step that stutters.   *)
Untouched == UNCHANGED <<mem, bufferSize, idx, config, overrun>>

LEMMA ReadStep ==
  ASSUME StreamInv, Untouched, reading' \in BOOLEAN
  PROVE  /\ StreamInv' /\ idx' >= idx
         /\ \A k \in 0..idx - 1 : mem'[k] = mem[k]
  BY DEF Untouched, StreamInv, TypeOK, InBounds, config

LEMMA ReadsTouchNothing ==
  ASSUME \/ ReadFixed \/ ReadUntilNull
         \/ \E mode \in {"GIVEN_SIZE", "GIVEN_SIZE_NULL_TERM"} : ReadSized(mode)
  PROVE  Untouched /\ reading' = reading
<1>1. ASSUME NEW ok, NEW b, NEW next, Returns(ok, b, next)
      PROVE  Untouched /\ reading' = reading
  BY <1>1 DEF Returns, Untouched
<1>2. CASE ReadFixed
  BY <1>1, <1>2 DEF ReadFixed, Throws
<1>3. CASE ReadUntilNull
  BY <1>3 DEF ReadUntilNull, Throws, Returns, Untouched
<1>4. ASSUME NEW mode, ReadSized(mode) PROVE Untouched /\ reading' = reading
  BY <1>1, <1>4 DEF ReadSized, Throws
<1> QED
  BY <1>2, <1>3, <1>4

(* Every step keeps the invariant, and keeps the bytes below the index.      *)
LEMMA NextStep ==
  ASSUME FittingModes, StreamInv, [Next]_vars
  PROVE  /\ StreamInv' /\ idx' >= idx
         /\ \A k \in 0..idx - 1 : mem'[k] = mem[k]
<1> DEFINE Goal == /\ StreamInv' /\ idx' >= idx
                   /\ \A k \in 0..idx - 1 : mem'[k] = mem[k]
<1>1. idx \in Nat
  BY DEF StreamInv, TypeOK
<1>2. ASSUME NEW v \in Fixed, WriteFixed(v) PROVE Goal
  <2>1. v \in Seq(Byte) /\ Len(v) \in Nat
    BY ByteStreamAssumption
  <2>2. PICK b \in AsInt(v) :
          Write(Ordered(b, bigEndian), Len(v), FALSE, Len(v), [mode |-> "FIXED", bytes |-> v])
    BY <1>2 DEF WriteFixed
  <2>3. b \in Seq(Byte) /\ Len(b) = Len(v)
    BY AsIntBytes
  <2>4. Ordered(b, bigEndian) \in Seq(Byte) /\ Len(Ordered(b, bigEndian)) = Len(b)
    BY <2>3, OrderedBytes
  <2>5. Len(Ordered(b, bigEndian)) <= Len(v)
    BY <2>1, <2>3, <2>4
  <2> QED
    BY <2>1, <2>2, <2>4, <2>5, WriteStep
<1>3. ASSUME NEW v \in Fixed, WriteData(v) PROVE Goal
  <2>1. v \in Seq(Byte) /\ Len(v) \in Nat
    BY ByteStreamAssumption
  <2>2. Write(v, Len(v), FALSE, Len(v), [mode |-> "DATA", bytes |-> v])
    BY <1>3 DEF WriteData
  <2>3. Len(v) <= Len(v)
    BY <2>1
  <2> QED
    BY <2>1, <2>2, <2>3, WriteStep
<1>4. ASSUME NEW str \in String, NEW mode \in Modes, NEW r \in AutoResize,
             WriteString(str, mode, r)
      PROVE  Goal
  <2>1. str \in Seq(Byte) /\ Len(str) \in Nat
    BY ByteStreamAssumption
  <2>2. mode \in {"GIVEN_SIZE", "UNTIL_NULL_TERM"} /\ r = TRUE
    BY DEF FittingModes
  <2>3. /\ Encoded(str, mode) \in Seq(Byte)
        /\ Len(Encoded(str, mode)) \in 1..Len(str) + 4
    BY <2>1, <2>2, EncodedFits
  <2>4. Write(Encoded(str, mode), Len(str) + 4, TRUE, 0, [mode |-> mode, bytes |-> str])
    BY <1>4, <2>2 DEF WriteString
  <2>5. Len(str) + 4 \in Nat /\ Len(Encoded(str, mode)) <= Len(str) + 4
        /\ Len(Encoded(str, mode)) \in Nat
    BY <2>1, <2>3
  <2> QED
    BY <1>1, <2>3, <2>4, <2>5, WriteStep
<1>5. ASSUME OpenReader PROVE Goal
  BY <1>5, ReadStep DEF OpenReader, Untouched
<1>6. ASSUME \/ ReadFixed \/ ReadUntilNull
             \/ \E mode \in {"GIVEN_SIZE", "GIVEN_SIZE_NULL_TERM"} : ReadSized(mode)
      PROVE  Goal
  BY <1>6, ReadsTouchNothing, ReadStep DEF StreamInv, TypeOK
<1>7. ASSUME UNCHANGED vars PROVE Goal
  BY <1>7, ReadStep DEF vars, reader, Untouched, StreamInv, TypeOK
<1> HIDE DEF Goal
<1>8. ASSUME Next PROVE Goal
  <2>1. CASE \E v \in Fixed : WriteFixed(v) \/ WriteData(v)
    BY <1>2, <1>3, <2>1
  <2>2. CASE \E str \in String, mode \in Modes, r \in AutoResize : WriteString(str, mode, r)
    BY <1>4, <2>2
  <2> QED
    BY <1>5, <1>6, <1>8, <2>1, <2>2 DEF Next
<1>9. Goal
  BY <1>7, <1>8
<1> QED
  BY <1>9 DEF Goal

LEMMA InitStreamInv == Init => StreamInv
<1> SUFFICES ASSUME Init PROVE StreamInv
  OBVIOUS
<1>1. bufferSize \in Nat /\ 0 \in Byte
  BY ByteStreamAssumption DEF Init, Byte
<1>2. mem \in [0..bufferSize - 1 -> Byte]
  BY <1>1 DEF Init
<1>3. TypeOK
  BY <1>1, <1>2 DEF Init, TypeOK
<1>4. InBounds
  BY <1>1 DEF Init, InBounds
<1> QED
  BY <1>3, <1>4 DEF StreamInv

(* A writer that uses the fitting modes never writes past its buffer.        *)
THEOREM WriterInBounds == ASSUME FittingModes PROVE Spec => []InBounds
<1>1. StreamInv /\ [Next]_vars => StreamInv'
  BY NextStep
<1>2. StreamInv => InBounds
  BY DEF StreamInv
<1> QED
  BY <1>1, <1>2, InitStreamInv, PTL DEF Spec

(* Its buffer keeps the size recorded for it, and holds bytes.               *)
THEOREM StreamTypes == ASSUME FittingModes PROVE Spec => []TypeOK
<1>1. StreamInv /\ [Next]_vars => StreamInv'
  BY NextStep
<1>2. StreamInv => TypeOK
  BY DEF StreamInv
<1> QED
  BY <1>1, <1>2, InitStreamInv, PTL DEF Spec

LEMMA Below ==
  \A m, n \in Nat : m <= n => \A k \in 0..m - 1 : k \in 0..n - 1
  OBVIOUS

(* A step that only adds bytes above the index appends to the log.           *)
LEMMA LogStep ==
  ASSUME StreamInv, StreamInv', idx' > idx, \A k \in 0..idx - 1 : mem'[k] = mem[k]
  PROVE  Log!Append
<1>1. /\ idx \in Nat /\ idx' \in Nat /\ bufferSize' \in Nat /\ idx' <= bufferSize'
      /\ mem' \in [0..bufferSize' - 1 -> Byte]
  BY DEF StreamInv, TypeOK, InBounds
<1>2. \A k \in 0..idx' - 1 : k \in 0..bufferSize' - 1
  <2>1. idx' \in Nat /\ bufferSize' \in Nat /\ idx' <= bufferSize'
    BY <1>1
  <2> QED
    BY <2>1, Below
<1>3. \A k \in 0..idx - 1 : k \in 0..idx' - 1
  <2>1. idx \in Nat /\ idx' \in Nat /\ idx <= idx'
    BY <1>1
  <2> QED
    BY <2>1, Below
<1> DEFINE new == [k \in 0..idx' - 1 |-> mem'[k]]
           old == [k \in 0..idx - 1 |-> mem[k]]
<1>4. new \in [0..idx' - 1 -> Byte]
  BY <1>1, <1>2
<1>5. \A k \in 0..idx - 1 : new[k] = old[k]
  BY <1>3
<1> QED
  BY <1>1, <1>4, <1>5 DEF Log!Append

(* Its bytes are an append-only log: no growth, refused write, swap or read  *)
(* alters what was written.                                                  *)
THEOREM WriterKeepsLog == ASSUME FittingModes PROVE Spec => ImplementsByteLog
<1>1. Init => Log!Init
  BY DEF Init, Log!Init
<1>2. StreamInv /\ [Next]_vars => StreamInv'
  BY NextStep
<1>3. StreamInv /\ [Next]_vars => [Log!Append]_<<[k \in 0..idx - 1 |-> mem[k]], idx>>
  <2> SUFFICES ASSUME StreamInv, [Next]_vars
               PROVE  [Log!Append]_<<[k \in 0..idx - 1 |-> mem[k]], idx>>
    OBVIOUS
  <2>1. /\ StreamInv' /\ idx' >= idx
        /\ \A k \in 0..idx - 1 : mem'[k] = mem[k]
    BY NextStep
  <2>2. CASE idx' = idx
    BY <2>1, <2>2
  <2>3. CASE idx' > idx
    BY <2>1, <2>3, LogStep
  <2>4. idx' = idx \/ idx' > idx
    BY <2>1 DEF StreamInv, TypeOK
  <2> QED
    BY <2>2, <2>3, <2>4
<1> QED
  BY <1>1, <1>2, <1>3, InitStreamInv, PTL DEF Spec, ImplementsByteLog, Log!Spec

-----------------------------------------------------------------------------
(* A size is a DWORD and the sizes of buffers are ints: strings of 2^31      *)
(* bytes and more do not fit a stream.                                       *)
IntRange == 2147483648
IntSizes == \A str \in String : Len(str) < IntRange

(* What a write of a field may put into the buffer. *)
Image(f, big) ==
  CASE f.mode = "FIXED" -> {Ordered(b, big) : b \in AsInt(f.bytes)}
    [] f.mode = "DATA" -> {f.bytes}
    [] OTHER -> {Encoded(f.bytes, f.mode)}

Number == {"FIXED", "DATA"}
Field == [mode : Number \cup {"GIVEN_SIZE", "UNTIL_NULL_TERM"}, bytes : Seq(Byte)]

FieldsOK ==
  /\ fields \in Seq(Field)
  /\ \A j \in 1..Len(fields) :
       IF fields[j].mode \in Number THEN Len(fields[j].bytes) \in {1, 2, 4, 8}
                                    ELSE Len(fields[j].bytes) < IntRange

Holds(m, at, b) == \A k \in 1..Len(b) : m[at + k - 1] = b[k]

(* pos: where each field begins, and where the next one will.                *)
Laid(pos) ==
  /\ pos \in Seq(Nat) /\ Len(pos) = Len(fields) + 1
  /\ pos[1] = 0 /\ pos[Len(fields) + 1] = idx
  /\ \A j \in 1..Len(fields) :
       /\ pos[j + 1] <= idx
       /\ \E b \in Image(fields[j], bigEndian) :
            /\ Len(b) \in Nat /\ pos[j + 1] = pos[j] + Len(b)
            /\ Holds(mem, pos[j], b)

(* A reader that has only met plain fields is where the next field begins.   *)
InStep(pos) ==
  (\A j \in 1..Len(got) : Plain(fields[j])) => ridx = pos[Len(got) + 1]

Tuple(s) == s \in Seq({s[k] : k \in DOMAIN s})

ReadInv ==
  /\ FieldsOK
  /\ Tuple(got) /\ Len(got) <= Len(fields)
  /\ ~reading => got = <<>> /\ ridx = 0
  /\ \E pos : Laid(pos) /\ InStep(pos)
  /\ RoundTrip

LEMMA Offsets ==
  ASSUME NEW from \in Nat, NEW n \in Nat, NEW size \in Nat, from + n <= size
  PROVE  \A k \in 1..n : LET at == from + k - 1
                        IN  /\ at \in 0..size - 1
                            /\ from <= at /\ at < from + n /\ at - from + 1 = k
  OBVIOUS

LEMMA TupleAppend ==
  ASSUME NEW s, Tuple(s), NEW e
  PROVE  /\ Tuple(Append(s, e)) /\ Len(s) \in Nat /\ Len(Append(s, e)) = Len(s) + 1
         /\ DOMAIN s = 1..Len(s) /\ DOMAIN Append(s, e) = 1..Len(s) + 1
         /\ Append(s, e)[Len(s) + 1] = e
         /\ \A k \in 1..Len(s) : Append(s, e)[k] = s[k]
<1> DEFINE S == {s[k] : k \in DOMAIN s}
           T == S \cup {e}
           a == Append(s, e)
<1>1. s \in Seq(S)
  BY DEF Tuple
<1>2. s \in Seq(T) /\ e \in T
  <2> HIDE DEF S
  <2> QED
    BY <1>1
<1> HIDE DEF T
<1>3. /\ a \in Seq(T) /\ Len(s) \in Nat /\ Len(a) = Len(s) + 1 /\ a[Len(s) + 1] = e
      /\ \A k \in 1..Len(s) : a[k] = s[k]
  BY <1>2, AppendProperties
<1> HIDE DEF a
<1>4. DOMAIN s = 1..Len(s) /\ DOMAIN a = 1..Len(s) + 1
  BY <1>2, <1>3
<1>5. a \in Seq({a[k] : k \in DOMAIN a})
  BY <1>3
<1> QED
  BY <1>3, <1>4, <1>5 DEF Tuple, a

LEMMA OrderedTwice ==
  ASSUME NEW b \in Seq(Byte), NEW big
  PROVE  Ordered(Ordered(b, big), big) = b
<1> DEFINE c == Reversed(b)
           d == Reversed(c)
<1>1. c \in Seq(Byte) /\ Len(c) = Len(b) /\ \A k \in 1..Len(b) : c[k] = b[Len(b) + 1 - k]
  <2>1. Ordered(b, FALSE) \in Seq(Byte) /\ Len(Ordered(b, FALSE)) = Len(b)
    BY OrderedBytes
  <2> QED
    BY <2>1 DEF Ordered, Reversed
<1> HIDE DEF c
<1>2. d \in Seq(Byte) /\ Len(d) = Len(b) /\ \A k \in 1..Len(b) : d[k] = c[Len(b) + 1 - k]
  <2>1. Ordered(c, FALSE) \in Seq(Byte) /\ Len(Ordered(c, FALSE)) = Len(c)
    BY <1>1, OrderedBytes
  <2> QED
    BY <1>1, <2>1 DEF Ordered, Reversed
<1> HIDE DEF d
<1>3. \A k \in 1..Len(b) : d[k] = b[k]
  <2>1. \A k \in 1..Len(b) : Len(b) + 1 - k \in 1..Len(b) /\ Len(b) + 1 - (Len(b) + 1 - k) = k
    OBVIOUS
  <2> QED
    BY <1>1, <1>2, <2>1
<1>4. d = b
  BY <1>2, <1>3, SeqEqual
<1> QED
  BY <1>4 DEF Ordered, c, d

(* The size of a string comes back when it is read in the order it was put.  *)
LEMMA SizeRead ==
  ASSUME NEW n \in Nat, n < IntRange
  PROVE  Value4(Ordered(Dword(n), FALSE)) = n
<1> DEFINE p == n \div 256
           q == p \div 256
           r == q \div 256
           a == n % 256
           b == p % 256
           c == q % 256
           w == <<r, c, b, a>>
<1>1. p \in Nat /\ a \in 0..255 /\ n = 256 * p + a
  BY SMT
<1>2. q \in Nat /\ b \in 0..255 /\ p = 256 * q + b
  BY <1>1, SMT
<1>3. r \in Nat /\ c \in 0..255 /\ q = 256 * r + c
  BY <1>2, SMT
<1>4. n \div 65536 = q /\ n \div 16777216 = r
  BY <1>1, <1>2, <1>3, SMT
<1>5. r < 128 /\ r % 256 = r
  BY <1>1, <1>2, <1>3, SMT DEF IntRange
<1>6. Dword(n) = <<a, b, c, r>>
  BY <1>4, <1>5, SMT DEF Dword
<1> HIDE DEF a, b, c, r, p, q
<1>7. Ordered(Dword(n), FALSE) = w
  BY <1>6, SMT DEF Ordered, Reversed
<1>8. w[1] = r /\ w[2] = c /\ w[3] = b /\ w[4] = a
  BY SMT
<1> HIDE DEF w
<1>9. Value4(w) = a + 256 * b + 65536 * c + 16777216 * r
  BY <1>5, <1>8, SMT DEF Value4
<1>10. Value4(w) = n
  BY <1>1, <1>2, <1>3, <1>9, SMT
<1> QED
  BY <1>7, <1>10, Zenon

(* A read looks at plain fields the same way before and after any step but   *)
(* the one that makes the reader.                                            *)
LEMMA PlainKept ==
  ASSUME UNCHANGED <<bigEndian, readBigEndian>>, NEW j, fields'[j] = fields[j]
  PROVE  /\ Plain(fields[j])' <=> Plain(fields[j])
         /\ Readable(fields[j])' <=> Readable(fields[j])
  BY DEF Plain, Readable

LEMMA LaidKept ==
  ASSUME StreamInv, NEW pos, Laid(pos), UNCHANGED <<fields, idx, bigEndian>>,
         \A k \in 0..idx - 1 : mem'[k] = mem[k]
  PROVE  Laid(pos)'
<1>1. ASSUME NEW j \in 1..Len(fields), NEW b, Len(b) \in Nat, pos[j + 1] = pos[j] + Len(b),
             pos[j + 1] <= idx, Holds(mem, pos[j], b), pos[j] \in Nat
      PROVE  Holds(mem', pos[j], b)
  <2>1. idx \in Nat
    BY DEF StreamInv, TypeOK
  <2>2. \A k \in 1..Len(b) : pos[j] + k - 1 \in 0..idx - 1
    <3>1. pos[j] \in Nat /\ Len(b) \in Nat /\ pos[j] + Len(b) <= idx
      BY <1>1
    <3> QED
      BY <2>1, <3>1, Offsets
  <2> QED
    BY <1>1, <2>2 DEF Holds
<1>2. \A j \in 1..Len(fields) : pos[j] \in Nat
  <2>1. Len(fields) \in Nat
    BY DEF Laid
  <2> QED
    BY DEF Laid
<1> QED
  BY <1>1, <1>2 DEF Laid

(* What a write that is not refused does: the field is behind the others.    *)
LEMMA Appended ==
  ASSUME StreamInv, StreamInv', NEW b \in Seq(Byte), NEW n, NEW forced, NEW checked, NEW field,
         Write(b, n, forced, checked, field)
  PROVE  \/ UNCHANGED <<idx, fields>>
         \/ /\ fields' = Append(fields, field) /\ idx' = idx + Len(b)
            /\ Holds(mem', idx, b)
<1>1. CASE /\ mem' = Put(Resized(bufferSize'), idx, b)
           /\ idx' = idx + Len(b) /\ fields' = Append(fields, field)
  <2>1. /\ idx \in Nat /\ bufferSize' \in Nat /\ Len(b) \in Nat
        /\ idx + Len(b) <= bufferSize'
    BY <1>1 DEF StreamInv, TypeOK, InBounds
  <2>2. DOMAIN Resized(bufferSize') = 0..bufferSize' - 1
    BY DEF Resized
  <2>3. \A k \in 1..Len(b) : LET at == idx + k - 1
                             IN  /\ at \in 0..bufferSize' - 1
                                 /\ idx <= at /\ at < idx + Len(b) /\ at - idx + 1 = k
    BY <2>1, Offsets
  <2>4. \A at \in 0..bufferSize' - 1 :
          idx <= at /\ at < idx + Len(b) => mem'[at] = b[at - idx + 1]
    BY <1>1, <2>2 DEF Put
  <2>5. \A k \in 1..Len(b) : mem'[idx + k - 1] = b[k]
    BY <2>3, <2>4
  <2> QED
    BY <1>1, <2>5 DEF Holds
<1> QED
  BY <1>1 DEF Write

LEMMA LaidAppend ==
  ASSUME StreamInv, StreamInv', FieldsOK, NEW pos, Laid(pos), NEW b \in Seq(Byte), NEW field \in Field,
         b \in Image(field, bigEndian), bigEndian' = bigEndian,
         fields' = Append(fields, field), idx' = idx + Len(b), Holds(mem', idx, b),
         \A k \in 0..idx - 1 : mem'[k] = mem[k]
  PROVE  \E p : Laid(p)' /\ \A k \in 1..Len(fields) + 1 : p[k] = pos[k]
<1> DEFINE n == Len(fields)
<1>0. PICK p : p = Append(pos, idx')
  OBVIOUS
<1>1. /\ idx \in Nat /\ idx' \in Nat /\ Len(b) \in Nat /\ idx <= idx'
  BY DEF StreamInv, TypeOK
<1>2. /\ n \in Nat /\ Len(fields') = n + 1 /\ fields'[n + 1] = field
      /\ \A k \in 1..n : fields'[k] = fields[k]
  BY AppendProperties DEF FieldsOK
<1>3. pos \in Seq(Nat) /\ Len(pos) = n + 1 /\ pos[1] = 0 /\ pos[n + 1] = idx
  BY DEF Laid
<1>4. /\ p \in Seq(Nat) /\ Len(p) = n + 2 /\ p[n + 2] = idx'
      /\ \A k \in 1..n + 1 : p[k] = pos[k]
  BY <1>0, <1>1, <1>2, <1>3, AppendProperties
<1> HIDE DEF n
<1>5. ASSUME NEW j \in 1..n
      PROVE  /\ p[j + 1] <= idx'
             /\ \E c \in Image(fields'[j], bigEndian) :
                  /\ Len(c) \in Nat /\ p[j + 1] = p[j] + Len(c)
                  /\ Holds(mem', p[j], c)
  <2>1. PICK c \in Image(fields[j], bigEndian) :
          /\ pos[j + 1] <= idx /\ Len(c) \in Nat /\ pos[j + 1] = pos[j] + Len(c)
          /\ Holds(mem, pos[j], c)
    BY DEF Laid, n
  <2>2. pos[j] \in Nat /\ p[j] = pos[j] /\ p[j + 1] = pos[j + 1] /\ pos[j + 1] \in Nat
    <3>1. j \in 1..n + 1 /\ j + 1 \in 1..n + 1
      BY <1>2
    <3>2. \A k \in 1..n + 1 : pos[k] \in Nat
      BY <1>3
    <3> QED
      BY <1>4, <3>1, <3>2
  <2>3. \A k \in 1..Len(c) : pos[j] + k - 1 \in 0..idx - 1
    <3>1. pos[j] \in Nat /\ Len(c) \in Nat /\ idx \in Nat /\ pos[j] + Len(c) <= idx
      BY <1>1, <2>1, <2>2
    <3> QED
      BY <3>1, Offsets
  <2>4. Holds(mem', pos[j], c)
    BY <2>1, <2>3 DEF Holds
  <2>5. p[j + 1] <= idx'
    BY <1>1, <2>1, <2>2
  <2> QED
    BY <1>2, <2>1, <2>2, <2>4, <2>5
<1>6. p[n + 1] = idx /\ p[1] = 0
  BY <1>2, <1>3, <1>4
<1>7. /\ p[n + 2] <= idx'
      /\ \E c \in Image(fields'[n + 1], bigEndian) :
           /\ Len(c) \in Nat /\ p[n + 2] = p[n + 1] + Len(c)
           /\ Holds(mem', p[n + 1], c)
  BY <1>1, <1>2, <1>4, <1>6
<1>8. \A j \in 1..n + 1 : j \in 1..n \/ (j = n + 1 /\ j + 1 = n + 2)
  BY <1>2
<1>9. Laid(p)'
  <2>1. Len(p) = Len(fields') + 1 /\ p[Len(fields') + 1] = idx'
    BY <1>2, <1>4
  <2> QED
    BY <1>2, <1>4, <1>5, <1>6, <1>7, <1>8, <2>1 DEF Laid
<1> QED
  BY <1>4, <1>9 DEF n

(* A write keeps the layout, and the reader where it is in it.               *)
LEMMA WriteKept ==
  ASSUME StreamInv, StreamInv', ReadInv, NEW b \in Seq(Byte), NEW n, NEW forced, NEW checked,
         NEW field \in Field, b \in Image(field, bigEndian),
         IF field.mode \in Number THEN Len(field.bytes) \in {1, 2, 4, 8}
                                  ELSE Len(field.bytes) < IntRange,
         Write(b, n, forced, checked, field),
         \A k \in 0..idx - 1 : mem'[k] = mem[k]
  PROVE  ReadInv'
<1>1. UNCHANGED <<bigEndian, reading, ridx, readBigEndian, got>>
  BY DEF Write, config, reader
<1>2. PICK pos : Laid(pos) /\ InStep(pos)
  BY DEF ReadInv
<1>3. /\ fields \in Seq(Field) /\ Len(fields) \in Nat
      /\ Tuple(got) /\ DOMAIN got = 1..Len(got) /\ Len(got) \in Nat /\ Len(got) <= Len(fields)
  <2>1. DOMAIN got = 1..Len(got) /\ Len(got) \in Nat
    BY TupleAppend DEF ReadInv
  <2> QED
    BY <2>1 DEF ReadInv, FieldsOK
<1>4. CASE UNCHANGED <<idx, fields>>
  <2>1. Laid(pos)'
    BY <1>1, <1>2, <1>4, LaidKept
  <2>2. InStep(pos)'
    BY <1>1, <1>2, <1>4 DEF InStep, Plain
  <2>3. RoundTrip'
    BY <1>1, <1>4 DEF ReadInv, RoundTrip, Plain, Readable
  <2> QED
    BY <1>1, <1>4, <2>1, <2>2, <2>3 DEF ReadInv, FieldsOK, Tuple
<1>5. CASE /\ fields' = Append(fields, field) /\ idx' = idx + Len(b)
           /\ Holds(mem', idx, b)
  <2>1. /\ fields' \in Seq(Field) /\ Len(fields') = Len(fields) + 1
        /\ fields'[Len(fields) + 1] = field
        /\ \A k \in 1..Len(fields) : fields'[k] = fields[k]
    BY <1>3, <1>5, AppendProperties
  <2>2. PICK p : Laid(p)' /\ \A k \in 1..Len(fields) + 1 : p[k] = pos[k]
    BY <1>1, <1>2, <1>5, LaidAppend DEF ReadInv
  <2>2a. \A k \in 1..Len(got) : fields'[k] = fields[k]
    BY <1>3, <2>1
  <2>3. \A k \in 1..Len(got) : /\ Plain(fields[k])' <=> Plain(fields[k])
                               /\ Readable(fields[k])' <=> Readable(fields[k])
    BY <1>1, <2>2a, PlainKept
  <2>4. InStep(p)'
    <3>1. Len(got) + 1 \in 1..Len(fields) + 1
      BY <1>3
    <3> QED
      BY <1>1, <1>2, <2>2, <2>3, <3>1 DEF InStep
  <2>5. RoundTrip'
    <3>1. ASSUME NEW k \in 1..Len(got), \A j \in 1..k - 1 : Plain(fields[j])',
                 Readable(fields[k])'
          PROVE  got[k] = [ok |-> TRUE, bytes |-> fields'[k].bytes]
      <4>1. \A j \in 1..k - 1 : j \in 1..Len(got)
        BY <1>3
      <4>2. got[k] = [ok |-> TRUE, bytes |-> fields[k].bytes]
        BY <1>3, <2>3, <3>1, <4>1 DEF ReadInv, RoundTrip
      <4> QED
        BY <2>2a, <4>2
    <3> QED
      BY <1>1, <1>3, <3>1 DEF RoundTrip
  <2>6. FieldsOK'
    <3>1. \A j \in 1..Len(fields) + 1 : j \in 1..Len(fields) \/ j = Len(fields) + 1
      BY <1>3
    <3> QED
      BY <2>1, <3>1 DEF ReadInv, FieldsOK
  <2>7. Len(got') <= Len(fields')
    BY <1>1, <1>3, <2>1
  <2> QED
    BY <1>1, <2>2, <2>4, <2>5, <2>6, <2>7 DEF ReadInv, Tuple
<1> QED
  BY <1>4, <1>5, Appended

(* What a read finds where the buffer holds some bytes. *)
LEMMA SliceHeld ==
  ASSUME NEW b \in Seq(Byte), NEW at, Holds(mem, at, b)
  PROVE  Slice(at, Len(b)) = b
<1> DEFINE s == Slice(at, Len(b))
<1>1. \A k \in 1..Len(b) : mem[at + k - 1] = b[k]
  BY DEF Holds
<1>2. s = [k \in 1..Len(b) |-> b[k]]
  BY <1>1 DEF Slice
<1> QED
  BY <1>2

LEMMA HeldParts ==
  ASSUME NEW s \in Seq(Byte), NEW t \in Seq(Byte), NEW at \in Nat, Holds(mem, at, s \o t)
  PROVE  Holds(mem, at, s) /\ Holds(mem, at + Len(s), t)
<1>1. /\ Len(s) \in Nat /\ Len(t) \in Nat /\ Len(s \o t) = Len(s) + Len(t)
      /\ \A k \in 1..Len(s) + Len(t) :
           (s \o t)[k] = IF k <= Len(s) THEN s[k] ELSE t[k - Len(s)]
  BY ConcatProperties
<1>2. \A k \in 1..Len(s) + Len(t) :
        mem[at + k - 1] = IF k <= Len(s) THEN s[k] ELSE t[k - Len(s)]
  BY <1>1 DEF Holds
<1>3. Holds(mem, at, s)
  <2>1. \A k \in 1..Len(s) : k \in 1..Len(s) + Len(t) /\ k <= Len(s)
    BY <1>1
  <2> QED
    BY <1>2, <2>1 DEF Holds
<1>4. ASSUME NEW k \in 1..Len(t)
      PROVE  mem[at + Len(s) + k - 1] = t[k]
  <2> DEFINE m == k + Len(s)
  <2>1. /\ m \in 1..Len(s) + Len(t) /\ ~(m <= Len(s))
        /\ m - Len(s) = k /\ at + m - 1 = at + Len(s) + k - 1
    BY <1>1
  <2> HIDE DEF m
  <2> QED
    BY <1>2, <2>1
<1> QED
  BY <1>3, <1>4 DEF Holds

LEMMA Room ==
  ASSUME StreamInv, ridx \in Nat, NEW n \in Nat, n > 0, ridx + n <= idx
  PROVE  bufferSize # 0 /\ ridx + n <= bufferSize /\ ~(ridx + n > bufferSize)
  BY DEF StreamInv, TypeOK, InBounds

(* The next read of a plain field, by a reader that is where it begins,      *)
(* returns it and leaves the reader where the one after it begins.           *)
LEMMA FixedRead ==
  ASSUME StreamInv, NEW f \in Field, Plain(f), f.mode \in Number,
         Len(f.bytes) \in {1, 2, 4, 8}, NEW b \in Image(f, bigEndian),
         ridx \in Nat, Holds(mem, ridx, b), ridx + Len(b) <= idx
  PROVE  /\ Len(b) = Len(f.bytes)
         /\ ~(bufferSize = 0 \/ ridx + Len(f.bytes) > bufferSize)
         /\ f.mode = "FIXED" => Ordered(Slice(ridx, Len(f.bytes)), readBigEndian) = f.bytes
         /\ f.mode = "DATA" => Slice(ridx, Len(f.bytes)) = f.bytes
<1> DEFINE v == f.bytes
<1>1. v \in Seq(Byte) /\ Len(v) \in Nat /\ Len(v) > 0
  <2>1. v \in Seq(Byte)
    BY DEF Field
  <2>2. \A n \in {1, 2, 4, 8} : n \in Nat /\ n > 0
    OBVIOUS
  <2> QED
    BY <2>1, <2>2
<1>2. CASE f.mode = "DATA"
  <2>1. b = v
    BY <1>2 DEF Image
  <2>2. Slice(ridx, Len(v)) = v
    BY <1>1, <2>1, SliceHeld
  <2>3. ~(bufferSize = 0 \/ ridx + Len(v) > bufferSize)
    BY <1>1, <2>1, Room
  <2> QED
    BY <1>2, <2>1, <2>2, <2>3
<1>3. CASE f.mode = "FIXED"
  <2>1. b = Ordered(v, bigEndian)
    BY <1>3 DEF Image, Plain, AsInt
  <2>2. b \in Seq(Byte) /\ Len(b) = Len(v)
    BY <1>1, <2>1, OrderedBytes
  <2>3. Slice(ridx, Len(v)) = b
    BY <2>2, SliceHeld
  <2>4. Ordered(b, readBigEndian) = v
    <3>1. CASE readBigEndian = bigEndian
      BY <1>1, <2>1, <3>1, OrderedTwice
    <3>2. CASE Len(v) = 1
      <4>1. ASSUME NEW w \in Seq(Byte), Len(w) = 1 PROVE Reversed(w) = w
        <5>1. Reversed(w) = [k \in 1..1 |-> w[k]]
          BY <4>1 DEF Reversed
        <5> QED
          BY <4>1, <5>1
      <4>2. b = v
        BY <1>1, <2>1, <3>2, <4>1 DEF Ordered
      <4> QED
        BY <1>1, <3>2, <4>1, <4>2 DEF Ordered
    <3> QED
      BY <1>3, <3>1, <3>2 DEF Plain
  <2>5. ~(bufferSize = 0 \/ ridx + Len(v) > bufferSize)
    BY <1>1, <2>2, Room
  <2> QED
    BY <1>3, <2>2, <2>3, <2>4, <2>5
<1> QED
  BY <1>2, <1>3 DEF Number

LEMMA SizedRead ==
  ASSUME StreamInv, NEW f \in Field, Plain(f), f.mode = "GIVEN_SIZE",
         Len(f.bytes) < IntRange, NEW b \in Image(f, bigEndian),
         ridx \in Nat, Holds(mem, ridx, b), ridx + Len(b) <= idx
  PROVE  LET n == Value4(Ordered(Slice(ridx, 4), readBigEndian))
         IN  /\ ~(bufferSize = 0 \/ ridx + 4 > bufferSize)
             /\ ~(n > bufferSize - ridx - 4)
             /\ n = Len(f.bytes) /\ Len(b) = 4 + n
             /\ Slice(ridx + 4, n) = f.bytes
<1> DEFINE v == f.bytes
           d == Dword(Len(v))
<1>1. v \in Seq(Byte) /\ Len(v) \in Nat
  BY DEF Field
<1>2. d \in Seq(Byte) /\ Len(d) = 4
  BY <1>1, DwordBytes
<1>3. b = d \o v
  BY DEF Image, Encoded
<1> HIDE DEF d
<1>4. Len(b) = 4 + Len(v)
  BY <1>1, <1>2, <1>3, ConcatBytes
<1>5. Holds(mem, ridx, d) /\ Holds(mem, ridx + 4, v)
  BY <1>1, <1>2, <1>3, HeldParts
<1>6. Slice(ridx, 4) = d /\ Slice(ridx + 4, Len(v)) = v
  BY <1>1, <1>2, <1>5, SliceHeld
<1>7. Value4(Ordered(d, readBigEndian)) = Len(v)
  <2>1. Ordered(d, readBigEndian) = Ordered(d, FALSE)
    BY DEF Ordered, Plain, Number
  <2>2. Value4(Ordered(d, FALSE)) = Len(v)
    BY <1>1, SizeRead DEF d
  <2> QED
    BY <2>1, <2>2, Zenon
<1>8. /\ ridx + 4 <= idx /\ bufferSize # 0 /\ ridx + 4 <= bufferSize
      /\ Len(v) <= bufferSize - ridx - 4
  BY <1>1, <1>4 DEF StreamInv, TypeOK, InBounds
<1>9. bufferSize \in Nat
  BY DEF StreamInv, TypeOK
<1> DEFINE n == Value4(Ordered(Slice(ridx, 4), readBigEndian))
<1>10. n = Len(v)
  BY <1>6, <1>7, Zenon
<1> HIDE DEF n
<1>11. ~(bufferSize = 0 \/ ridx + 4 > bufferSize) /\ ~(n > bufferSize - ridx - 4)
  BY <1>1, <1>8, <1>9, <1>10
<1>12. Slice(ridx + 4, n) = v /\ Len(b) = 4 + n
  BY <1>4, <1>6, <1>10
<1> QED
  BY <1>10, <1>11, <1>12 DEF n

LEMMA TerminatedRead ==
  ASSUME StreamInv, NEW f \in Field, f.mode = "UNTIL_NULL_TERM", Readable(f),
         NEW b \in Image(f, bigEndian),
         ridx \in Nat, Holds(mem, ridx, b), ridx + Len(b) <= idx, ReadUntilNull
  PROVE  got' = Append(got, [ok |-> TRUE, bytes |-> f.bytes])
<1> DEFINE v == f.bytes
           m == Len(v)
<1>1. v \in Seq(Byte) /\ m \in Nat
  BY DEF Field
<1>2. m # 1 /\ \A k \in 1..m : v[k] # 0
  <2>1. DOMAIN v = 1..m
    BY <1>1
  <2> QED
    BY <2>1 DEF Readable, Plain, Number
<1>3. <<0>> \in Seq(Byte) /\ Len(<<0>>) = 1 /\ <<0>>[1] = 0
  BY DEF Byte
<1>4. b = v \o <<0>>
  BY DEF Image, Encoded
<1>5. Len(b) = m + 1
  BY <1>1, <1>3, <1>4, ConcatBytes
<1>6. Holds(mem, ridx, v) /\ Holds(mem, ridx + m, <<0>>)
  BY <1>1, <1>3, <1>4, HeldParts
<1>7. Slice(ridx, m) = v
  BY <1>1, <1>6, SliceHeld
<1>8. mem[ridx + m] = 0 /\ \A k \in 0..m - 1 : mem[ridx + k] # 0
  <2>1. mem[ridx + m + 1 - 1] = 0
    BY <1>3, <1>6 DEF Holds
  <2>2. ridx + m + 1 - 1 = ridx + m
    BY <1>1
  <2>3. \A k \in 0..m - 1 : k + 1 \in 1..m /\ ridx + (k + 1) - 1 = ridx + k
    BY <1>1
  <2>4. \A j \in 1..m : mem[ridx + j - 1] # 0
    BY <1>2, <1>6 DEF Holds
  <2> QED
    BY <2>1, <2>2, <2>3, <2>4
<1>9. /\ bufferSize \in Nat /\ bufferSize # 0 /\ ridx + m < bufferSize /\ ~(ridx > bufferSize)
  BY <1>1, <1>5 DEF StreamInv, TypeOK, InBounds
<1> HIDE DEF v, m
<1>10. PICK n \in 0..bufferSize - ridx :
         /\ Run(n) /\ (ridx + n < bufferSize => mem[ridx + n] = 0)
         /\ \/ n = 1
            \/ n # 1 /\ Returns(TRUE, Slice(ridx, n), ridx + n)
            \/ ridx + n = bufferSize
  BY <1>9 DEF ReadUntilNull
<1>11. n = m
  <2>1. n \in Nat
    BY <1>9, <1>10
  <2>2. ~(m < n)
    <3>1. m < n => m \in 0..n - 1
      BY <1>1, <2>1
    <3> QED
      BY <1>8, <1>10, <3>1 DEF Run
  <2>3. ~(n < m)
    <3>1. n < m => n \in 0..m - 1 /\ ridx + n < bufferSize
      BY <1>1, <1>9, <2>1
    <3> QED
      BY <1>8, <1>10, <3>1
  <2> QED
    BY <1>1, <2>1, <2>2, <2>3
<1>12. Returns(TRUE, v, ridx + m)
  <2>1. ridx + m # bufferSize
    BY <1>1, <1>9
  <2> QED
    BY <1>2, <1>7, <1>10, <1>11, <2>1
<1> QED
  BY <1>12 DEF Returns, v

(* The field a reader that is in step with the layout reads next. *)
LEMMA NextField ==
  ASSUME StreamInv, ReadInv, Len(got) < Len(fields), NEW pos, Laid(pos),
         ridx = pos[Len(got) + 1]
  PROVE  LET f == fields[Len(got) + 1]
         IN  /\ f \in Field /\ ridx \in Nat
             /\ IF f.mode \in Number THEN Len(f.bytes) \in {1, 2, 4, 8}
                                     ELSE Len(f.bytes) < IntRange
             /\ \E b \in Image(f, bigEndian) :
                  /\ Len(b) \in Nat /\ Holds(mem, ridx, b) /\ ridx + Len(b) <= idx
                  /\ pos[Len(got) + 2] = ridx + Len(b)
<1> DEFINE g == Len(got) + 1
<1>1. g \in 1..Len(fields) /\ Len(fields) \in Nat /\ Len(got) + 2 = g + 1
  <2>1. Len(got) \in Nat
    BY TupleAppend DEF ReadInv
  <2>2. Len(fields) \in Nat
    BY DEF ReadInv, FieldsOK
  <2> QED
    BY <2>1, <2>2
<1> HIDE DEF g
<1>2. /\ fields[g] \in Field
      /\ IF fields[g].mode \in Number THEN Len(fields[g].bytes) \in {1, 2, 4, 8}
                                      ELSE Len(fields[g].bytes) < IntRange
  BY <1>1 DEF ReadInv, FieldsOK
<1>3. pos[g] \in Nat
  <2>1. pos \in Seq(Nat) /\ Len(pos) = Len(fields) + 1
    BY DEF Laid
  <2>2. g \in 1..Len(fields) + 1
    BY <1>1
  <2> QED
    BY <2>1, <2>2
<1>4. PICK b \in Image(fields[g], bigEndian) :
        /\ pos[g + 1] <= idx /\ Len(b) \in Nat /\ pos[g + 1] = pos[g] + Len(b)
        /\ Holds(mem, pos[g], b)
  BY <1>1 DEF Laid
<1>5. ridx = pos[g]
  BY DEF g
<1>6. /\ Len(b) \in Nat /\ Holds(mem, ridx, b) /\ ridx + Len(b) <= idx
      /\ pos[Len(got) + 2] = ridx + Len(b)
  BY <1>1, <1>4, <1>5
<1> QED
  BY <1>2, <1>3, <1>5, <1>6 DEF g

(* A read that is right about the field it is in front of keeps the reader   *)
(* right about everything it has read.                                       *)
LEMMA ReadKept ==
  ASSUME StreamInv, ReadInv, reading, Len(got) < Len(fields), NEW ok, NEW bytes, NEW next,
         Returns(ok, bytes, next), NEW pos, Laid(pos), InStep(pos),
         LET f == fields[Len(got) + 1]
         IN  ridx = pos[Len(got) + 1] =>
               /\ Readable(f) => ok = TRUE /\ bytes = f.bytes
               /\ Plain(f) => next = pos[Len(got) + 2]
  PROVE  ReadInv'
<1> DEFINE g == Len(got) + 1
           r == [ok |-> ok, bytes |-> bytes]
<1>1. /\ UNCHANGED <<mem, idx, fields, reading, bigEndian, readBigEndian>>
      /\ got' = Append(got, r) /\ ridx' = next
  BY DEF Returns, config
<1> HIDE DEF r
<1>2. /\ Tuple(got') /\ Len(got) \in Nat /\ Len(got') = g
      /\ DOMAIN got = 1..Len(got) /\ DOMAIN got' = 1..g
      /\ got'[g] = r /\ \A k \in 1..Len(got) : got'[k] = got[k]
  BY <1>1, TupleAppend DEF ReadInv
<1>3. Len(fields) \in Nat /\ g <= Len(fields)
  BY <1>2 DEF ReadInv, FieldsOK
<1>4. (\A j \in 1..g - 1 : Plain(fields[j])) =>
        /\ Readable(fields[g]) => r = [ok |-> TRUE, bytes |-> fields[g].bytes]
        /\ Plain(fields[g]) => ridx' = pos[g + 1]
  <2>1. g - 1 = Len(got) /\ g + 1 = Len(got) + 2
    BY <1>2
  <2> QED
    BY <1>1, <2>1 DEF InStep, r
<1>5. \A j : Plain(fields[j])' <=> Plain(fields[j])
  BY <1>1, PlainKept
<1>6. \A j : Readable(fields[j])' <=> Readable(fields[j])
  BY <1>1, PlainKept
<1>7. Laid(pos)'
  BY <1>1, LaidKept
<1>8. InStep(pos)'
  <2>1. ASSUME \A j \in 1..g : Plain(fields[j]) PROVE ridx' = pos[g + 1]
    <3>1. g \in 1..g /\ \A j \in 1..g - 1 : j \in 1..g
      BY <1>2
    <3> QED
      BY <1>4, <2>1, <3>1
  <2> QED
    BY <1>2, <1>5, <2>1 DEF InStep
<1>9. RoundTrip'
  <2>1. ASSUME NEW k \in 1..g, \A j \in 1..k - 1 : Plain(fields[j]), Readable(fields[k])
        PROVE  got'[k] = [ok |-> TRUE, bytes |-> fields[k].bytes]
    <3>1. CASE k = g
      BY <1>2, <1>4, <2>1, <3>1
    <3>2. CASE k # g
      <4>1. k \in 1..Len(got)
        BY <1>2, <3>2
      <4>2. got[k] = [ok |-> TRUE, bytes |-> fields[k].bytes]
        BY <1>2, <2>1, <4>1 DEF ReadInv, RoundTrip
      <4> QED
        BY <1>2, <4>1, <4>2
    <3> QED
      BY <3>1, <3>2
  <2> QED
    BY <1>1, <1>2, <1>5, <1>6, <2>1 DEF RoundTrip
<1>10. FieldsOK'
  BY <1>1 DEF ReadInv, FieldsOK
<1>11. reading' /\ Len(got') <= Len(fields')
  BY <1>1, <1>2, <1>3
<1> QED
  BY <1>2, <1>7, <1>8, <1>9, <1>10, <1>11 DEF ReadInv

LEMMA PlainOnly ==
  ASSUME NEW f
  PROVE  f.mode # "UNTIL_NULL_TERM" => (Readable(f) <=> Plain(f))
  BY DEF Readable

LEMMA FixedKept ==
  ASSUME StreamInv, ReadInv, ReadFixed
  PROVE  ReadInv'
<1> DEFINE f == fields[Len(got) + 1]
           n == Len(f.bytes)
           v == IF f.mode = "FIXED" THEN Ordered(Slice(ridx, n), readBigEndian)
                                    ELSE Slice(ridx, n)
           short == bufferSize = 0 \/ ridx + n > bufferSize
<1>1. /\ reading /\ Len(got) < Len(fields) /\ f.mode \in Number
      /\ IF short THEN Throws ELSE Returns(TRUE, v, ridx + n)
  BY DEF ReadFixed, Reading, Number
<1>2. PICK pos : Laid(pos) /\ InStep(pos)
  BY DEF ReadInv
<1>3. ASSUME ridx = pos[Len(got) + 1], Plain(f)
      PROVE  ~short /\ v = f.bytes /\ ridx + n = pos[Len(got) + 2]
  <2>1. /\ f \in Field /\ ridx \in Nat /\ Len(f.bytes) \in {1, 2, 4, 8}
    BY <1>1, <1>2, <1>3, NextField
  <2>2. PICK b \in Image(f, bigEndian) :
           /\ Len(b) \in Nat /\ Holds(mem, ridx, b) /\ ridx + Len(b) <= idx
           /\ pos[Len(got) + 2] = ridx + Len(b)
    BY <1>1, <1>2, <1>3, NextField
  <2> HIDE DEF f
  <2>3. /\ Len(b) = n /\ ~short
        /\ f.mode = "FIXED" => Ordered(Slice(ridx, n), readBigEndian) = f.bytes
        /\ f.mode = "DATA" => Slice(ridx, n) = f.bytes
    BY <1>1, <1>3, <2>1, <2>2, FixedRead
  <2> QED
    BY <1>1, <2>2, <2>3 DEF Number
<1>4. Readable(f) <=> Plain(f)
  BY <1>1, PlainOnly DEF Number
<1> HIDE DEF v, n, short
<1>5. CASE short
  BY <1>1, <1>2, <1>3, <1>4, <1>5, ReadKept DEF Throws
<1>6. CASE ~short
  BY <1>1, <1>2, <1>3, <1>4, <1>6, ReadKept
<1> QED
  BY <1>5, <1>6

LEMMA SizedKept ==
  ASSUME StreamInv, ReadInv, NEW mode \in {"GIVEN_SIZE", "GIVEN_SIZE_NULL_TERM"},
         ReadSized(mode)
  PROVE  ReadInv'
<1> DEFINE f == fields[Len(got) + 1]
           n == Value4(Ordered(Slice(ridx, 4), readBigEndian))
           s == Slice(ridx + 4, n)
           next == ridx + 4 + n + (IF mode = "GIVEN_SIZE_NULL_TERM" THEN 1 ELSE 0)
           short == (bufferSize = 0 \/ ridx + 4 > bufferSize) \/ n > bufferSize - ridx - 4
<1>1. /\ reading /\ Len(got) < Len(fields) /\ f.mode = mode
      /\ IF short THEN Throws ELSE Returns(TRUE, s, next)
  BY DEF ReadSized, Reading
<1>2. PICK pos : Laid(pos) /\ InStep(pos)
  BY DEF ReadInv
<1>3. ASSUME ridx = pos[Len(got) + 1], Plain(f)
      PROVE  ~short /\ s = f.bytes /\ next = pos[Len(got) + 2]
  <2>0. mode = "GIVEN_SIZE"
    BY <1>1, <1>3 DEF Plain
  <2>1. f \in Field /\ ridx \in Nat /\ Len(f.bytes) < IntRange
    BY <1>1, <1>2, <1>3, <2>0, NextField DEF Number
  <2>2. PICK b \in Image(f, bigEndian) :
           /\ Len(b) \in Nat /\ Holds(mem, ridx, b) /\ ridx + Len(b) <= idx
           /\ pos[Len(got) + 2] = ridx + Len(b)
    BY <1>1, <1>2, <1>3, NextField
  <2> HIDE DEF f
  <2>3. ~short /\ n = Len(f.bytes) /\ Len(b) = 4 + n /\ s = f.bytes
    BY <1>1, <1>3, <2>0, <2>1, <2>2, SizedRead
  <2>4. Len(f.bytes) \in Nat
    BY <2>1 DEF Field
  <2> HIDE DEF n, s, short
  <2>5. next = ridx + Len(b)
    <3>1. next = ridx + 4 + n + 0
      BY <2>0
    <3>2. n \in Nat /\ Len(b) = 4 + n
      BY <2>3, <2>4
    <3> HIDE DEF next
    <3> QED
      BY <2>1, <3>1, <3>2
  <2> QED
    BY <2>2, <2>3, <2>5
<1>4. Readable(f) <=> Plain(f)
  BY <1>1, PlainOnly
<1> HIDE DEF n, s, short, next
<1>5. CASE short
  BY <1>1, <1>2, <1>3, <1>4, <1>5, ReadKept DEF Throws
<1>6. CASE ~short
  BY <1>1, <1>2, <1>3, <1>4, <1>6, ReadKept
<1> QED
  BY <1>5, <1>6

LEMMA TerminatedKept ==
  ASSUME StreamInv, ReadInv, ReadUntilNull
  PROVE  ReadInv'
<1> DEFINE f == fields[Len(got) + 1]
<1>1. reading /\ Len(got) < Len(fields) /\ f.mode = "UNTIL_NULL_TERM"
  BY DEF ReadUntilNull, Reading
<1>2. PICK ok, bytes, next : Returns(ok, bytes, next)
  <2>1. ASSUME NEW a, NEW b, NEW c, Returns(a, b, c)
        PROVE  \E ok, bytes, next : Returns(ok, bytes, next)
    BY <2>1
  <2> DEFINE Some == \E ok, bytes, next : Returns(ok, bytes, next)
  <2> SUFFICES Some
    OBVIOUS
  <2> HIDE DEF Some
  <2>2. ASSUME NEW n, NEW b,
               IF n = 0 THEN Returns(TRUE, <<>>, ridx + 1)
               ELSE Returns(TRUE, Append(Slice(ridx, n), b), ridx + n + 1)
        PROVE  Some
    <3>1. CASE n = 0
      BY <2>1, <2>2, <3>1 DEF Some
    <3>2. CASE n # 0
      BY <2>1, <2>2, <3>2 DEF Some
    <3> QED
      BY <3>1, <3>2
  <2>3. ASSUME NEW n,
               \/ n = 1 /\ Returns(TRUE, <<>>, ridx + 1)
               \/ n # 1 /\ Returns(TRUE, Slice(ridx, n), ridx + n)
               \/ \E b \in {1, 255} :
                    IF n = 0 THEN Returns(TRUE, <<>>, ridx + 1)
                    ELSE Returns(TRUE, Append(Slice(ridx, n), b), ridx + n + 1)
        PROVE  Some
    <3>1. CASE n = 1 /\ Returns(TRUE, <<>>, ridx + 1)
      BY <2>1, <3>1 DEF Some
    <3>2. CASE n # 1 /\ Returns(TRUE, Slice(ridx, n), ridx + n)
      BY <2>1, <3>2 DEF Some
    <3> QED
      BY <2>2, <2>3, <3>1, <3>2
  <2>4. CASE bufferSize = 0 /\ Throws
    BY <2>1, <2>4 DEF Throws, Some
  <2>5. CASE ridx > bufferSize /\ Returns(TRUE, <<>>, ridx)
    BY <2>1, <2>5 DEF Some
  <2>6. CASE ~(bufferSize = 0 /\ Throws) /\ ~(ridx > bufferSize /\ Returns(TRUE, <<>>, ridx))
    <3>1. PICK n :
            \/ n = 1 /\ Returns(TRUE, <<>>, ridx + 1)
            \/ n # 1 /\ Returns(TRUE, Slice(ridx, n), ridx + n)
            \/ \E b \in {1, 255} :
                 IF n = 0 THEN Returns(TRUE, <<>>, ridx + 1)
                 ELSE Returns(TRUE, Append(Slice(ridx, n), b), ridx + n + 1)
      BY <2>6 DEF ReadUntilNull
    <3> QED
      BY <2>3, <3>1
  <2> QED
    BY <2>4, <2>5, <2>6
<1>3. PICK pos : Laid(pos) /\ InStep(pos)
  BY DEF ReadInv
<1>4. ASSUME ridx = pos[Len(got) + 1], Readable(f)
      PROVE  ok = TRUE /\ bytes = f.bytes
  <2>1. f \in Field /\ ridx \in Nat
    BY <1>1, <1>3, <1>4, NextField
  <2>2. PICK b \in Image(f, bigEndian) :
           /\ Len(b) \in Nat /\ Holds(mem, ridx, b) /\ ridx + Len(b) <= idx
           /\ pos[Len(got) + 2] = ridx + Len(b)
    BY <1>1, <1>3, <1>4, NextField
  <2> HIDE DEF f
  <2>3. got' = Append(got, [ok |-> TRUE, bytes |-> f.bytes])
    BY <1>1, <1>4, <2>1, <2>2, TerminatedRead
  <2>4. got' = Append(got, [ok |-> ok, bytes |-> bytes])
    BY <1>2 DEF Returns
  <2>5. [ok |-> TRUE, bytes |-> f.bytes] = [ok |-> ok, bytes |-> bytes]
    BY <2>3, <2>4, TupleAppend DEF ReadInv
  <2> QED
    BY <2>5
<1>5. ~Plain(f)
  BY <1>1 DEF Plain
<1> QED
  BY <1>1, <1>2, <1>3, <1>4, <1>5, ReadKept

LEMMA ReadInvStep ==
  ASSUME FittingModes, IntSizes, StreamInv, ReadInv, [Next]_vars
  PROVE  ReadInv'
<1>0. /\ StreamInv' /\ idx' >= idx
      /\ \A k \in 0..idx - 1 : mem'[k] = mem[k]
  BY NextStep
<1>1. ASSUME NEW v \in Fixed, WriteFixed(v) PROVE ReadInv'
  <2> DEFINE field == [mode |-> "FIXED", bytes |-> v]
  <2>1. PICK b \in AsInt(v) : Write(Ordered(b, bigEndian), Len(v), FALSE, Len(v), field)
    BY <1>1 DEF WriteFixed
  <2>2. v \in Seq(Byte) /\ Len(v) \in {1, 2, 4, 8}
    BY ByteStreamAssumption
  <2>3. field \in Field /\ field.mode \in Number /\ field.bytes = v /\ field.mode = "FIXED"
    BY <2>2 DEF Field, Number
  <2> HIDE DEF field
  <2>4. Ordered(b, bigEndian) \in Image(field, bigEndian)
    BY <2>3 DEF Image
  <2>5. Ordered(b, bigEndian) \in Seq(Byte)
    BY AsIntBytes, OrderedBytes
  <2> QED
    BY <1>0, <2>1, <2>2, <2>3, <2>4, <2>5, WriteKept
<1>2. ASSUME NEW v \in Fixed, WriteData(v) PROVE ReadInv'
  <2> DEFINE field == [mode |-> "DATA", bytes |-> v]
  <2>1. Write(v, Len(v), FALSE, Len(v), field)
    BY <1>2 DEF WriteData
  <2>2. v \in Seq(Byte) /\ Len(v) \in {1, 2, 4, 8}
    BY ByteStreamAssumption
  <2>3. field \in Field /\ field.mode \in Number /\ field.bytes = v /\ field.mode = "DATA"
    BY <2>2 DEF Field, Number
  <2> HIDE DEF field
  <2>4. v \in Image(field, bigEndian)
    BY <2>3 DEF Image
  <2> QED
    BY <1>0, <2>1, <2>2, <2>3, <2>4, WriteKept
<1>3. ASSUME NEW str \in String, NEW mode \in Modes, NEW r \in AutoResize,
             WriteString(str, mode, r)
      PROVE  ReadInv'
  <2> DEFINE field == [mode |-> mode, bytes |-> str]
             b == Encoded(str, mode)
  <2>1. \E checked : Write(b, Len(str) + 4, r, checked, field)
    BY <1>3 DEF WriteString
  <2>2. str \in Seq(Byte) /\ Len(str) < IntRange
    BY ByteStreamAssumption DEF IntSizes
  <2>3. mode \in {"GIVEN_SIZE", "UNTIL_NULL_TERM"}
    BY DEF FittingModes
  <2>4. field \in Field /\ field.mode \notin Number /\ field.bytes = str /\ field.mode = mode
    BY <2>2, <2>3 DEF Field, Number
  <2> HIDE DEF field
  <2>5. b \in Image(field, bigEndian) /\ b \in Seq(Byte)
    BY <2>2, <2>3, <2>4, EncodedFits DEF Image, Number
  <2> HIDE DEF b
  <2> QED
    BY <1>0, <2>1, <2>2, <2>4, <2>5, WriteKept
<1>4. ASSUME OpenReader PROVE ReadInv'
  <2>1. /\ UNCHANGED <<mem, idx, bigEndian, fields, ridx, got>>
        /\ reading' /\ got = <<>> /\ ridx = 0
    BY <1>4 DEF OpenReader, config, ReadInv
  <2>2. PICK pos : Laid(pos)
    BY DEF ReadInv
  <2>3. Laid(pos)'
    BY <2>1, <2>2, LaidKept
  <2>4. Len(got) = 0 /\ DOMAIN got = {}
    BY <2>1
  <2>5. InStep(pos)' /\ RoundTrip'
    BY <2>1, <2>2, <2>4 DEF InStep, Laid, RoundTrip
  <2> QED
    BY <2>1, <2>3, <2>5 DEF ReadInv, FieldsOK, Tuple
<1>5. ASSUME ReadFixed PROVE ReadInv'
  BY <1>5, FixedKept
<1>6. ASSUME ReadUntilNull PROVE ReadInv'
  BY <1>6, TerminatedKept
<1>7. ASSUME NEW mode \in {"GIVEN_SIZE", "GIVEN_SIZE_NULL_TERM"}, ReadSized(mode)
      PROVE  ReadInv'
  BY <1>7, SizedKept
<1>8. ASSUME UNCHANGED vars PROVE ReadInv'
  <2>1. UNCHANGED <<mem, idx, fields, reading, ridx, readBigEndian, got, bigEndian>>
    BY <1>8 DEF vars, reader, config
  <2>2. PICK pos : Laid(pos) /\ InStep(pos)
    BY DEF ReadInv
  <2>3. Laid(pos)'
    BY <2>1, <2>2, LaidKept
  <2>4. InStep(pos)'
    BY <2>1, <2>2 DEF InStep, Plain
  <2>5. RoundTrip'
    BY <2>1 DEF ReadInv, RoundTrip, Plain, Readable
  <2> QED
    BY <2>1, <2>3, <2>4, <2>5 DEF ReadInv, FieldsOK, Tuple
<1> QED
  BY <1>1, <1>2, <1>3, <1>4, <1>5, <1>6, <1>7, <1>8 DEF Next

LEMMA ReadInvInit == Init => ReadInv
<1> SUFFICES ASSUME Init PROVE ReadInv
  OBVIOUS
<1>1. fields = <<>> /\ got = <<>> /\ idx = 0 /\ ridx = 0
  BY DEF Init
<1>2. PICK pos : pos = <<0>>
  OBVIOUS
<1>3. Laid(pos) /\ InStep(pos)
  BY <1>1, <1>2 DEF Laid, InStep
<1>4. FieldsOK /\ Tuple(got) /\ RoundTrip /\ Len(got) <= Len(fields)
  BY <1>1 DEF FieldsOK, Tuple, RoundTrip
<1> QED
  BY <1>1, <1>3, <1>4 DEF ReadInv

(* A reader over the writer's buffer gives back, in order, what was written: *)
(* bytes, numbers an int holds when both ends have one byte order, strings   *)
(* behind their size when the reader is little endian, and a string up to    *)
(* its terminator when it is none of those the scan of ReadString mistakes.  *)
(* Growth, refused writes and what is written behind do not matter.          *)
THEOREM WrittenIsRead ==
  ASSUME FittingModes, IntSizes
  PROVE  Spec => []RoundTrip
<1>1. StreamInv /\ ReadInv /\ [Next]_vars => (StreamInv /\ ReadInv)'
  BY NextStep, ReadInvStep
<1>2. ReadInv => RoundTrip
  BY DEF ReadInv
<1> QED
  BY <1>1, <1>2, InitStreamInv, ReadInvInit, PTL DEF Spec
=============================================================================
