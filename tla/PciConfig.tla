----------------------------- MODULE PciConfig ------------------------------
(***************************************************************************)
(* nop/arch/i386/tasks/pci.c, the bus device over the PCI configuration    *)
(* space, which is accessed in aligned words of four bytes, and the        *)
(* devices of nop/tree/pci.c over it, one per opened function, which share *)
(* the bus device and its offset.                                          *)
(*                                                                         *)
(* A byte of the space is identified by where it came from: Original(k) is *)
(* what was at k before the call, Given(j) is the caller's j-th byte. What *)
(* a real register does on a write is outside the model.                   *)
(***************************************************************************)
EXTENDS Integers

CONSTANTS
  FuncCount,   \* 2^16 functions
  FuncSize,    \* 256 bytes each
  Lengths,     \* the n of reads and writes
  Distances    \* offsets to seek to

ASSUME ConfigAssumption ==
  /\ FuncCount \in Nat \ {0} /\ FuncSize \in Nat \ {0} /\ FuncSize % 4 = 0
  /\ Lengths \subseteq Nat /\ Distances \subseteq Int

Size == FuncCount * FuncSize
ConfigBytes == 0 .. Size - 1
Funcs == 0 .. FuncCount - 1

VARIABLES
  space,     \* the bytes of the configuration space
  out,       \* the caller's buffer, of a read
  offset,    \* device->data of the bus device
  foffset,   \* pci_device->offset of each function's device
  stage, op,
  n, ptr,    \* the bytes still to transfer; those transferred
  start, wanted, owner   \* the offset, the clipped n, and the function whose
                         \* device is called, or Bus

call == <<op, start, wanted, owner>>
configVars == <<space, out, offset, foffset, stage, n, ptr, call>>

Original(k) == k
Given(j) == Size + j
Empty == -1
Bus == -1

ConfigInit ==
  /\ space = [k \in ConfigBytes |-> Original(k)]
  /\ out = [k \in ConfigBytes |-> Empty]
  /\ offset = 0 /\ foffset = [f \in Funcs |-> 0]
  /\ stage = "idle" /\ op = "read" /\ n = 0 /\ ptr = 0
  /\ start = 0 /\ wanted = 0 /\ owner = Bus

-----------------------------------------------------------------------------
Clip(x, size) == IF x < 0 THEN 0 ELSE IF x > size THEN size ELSE x
AtMost(m, room) == IF m > room THEN room ELSE m

(* pci_device_seek of the bus device and of a function's device. *)
Seek(base, distance) ==
  /\ stage = "idle"
  /\ offset' = Clip(base + distance, Size)
  /\ UNCHANGED <<space, out, foffset, stage, n, ptr, call>>

FuncSeek(f, base, distance) ==
  /\ stage = "idle"
  /\ foffset' = [foffset EXCEPT ![f] = Clip(base + distance, FuncSize)]
  /\ UNCHANGED <<space, out, offset, stage, n, ptr, call>>

(* The entry of the bus device's read and write, from offset at. *)
Begin(o, at, m, who) ==
  /\ op' = o /\ start' = at /\ owner' = who
  /\ wanted' = AtMost(m, Size - at)
  /\ n' = wanted' /\ ptr' = 0
  /\ offset' = at
  /\ space' = [k \in ConfigBytes |-> Original(k)]
  /\ out' = [k \in ConfigBytes |-> Empty]
  /\ stage' = "head"

Call(o, m) ==
  /\ stage = "idle"
  /\ Begin(o, offset, m, Bus)
  /\ UNCHANGED foffset

(* offset | (addr << 8): an offset at the end of an odd function sets a    *)
(* bit that is set already.                                                *)
Address(f) ==
  IF foffset[f] = FuncSize /\ f % 2 = 1 THEN f * FuncSize
    ELSE f * FuncSize + foffset[f]

(* Variant: the bus device is not positioned. *)
FuncCallHere(f, o, m) ==
  /\ stage = "idle"
  /\ Begin(o, offset, AtMost(m, FuncSize - foffset[f]), f)
  /\ UNCHANGED foffset

(* The function's offset stays; the bus device is positioned every time.   *)
FuncCall(f, o, m) ==
  /\ stage = "idle"
  /\ Begin(o, Address(f), AtMost(m, FuncSize - foffset[f]), f)
  /\ UNCHANGED foffset

-----------------------------------------------------------------------------
(* Words. An address past the end of the space loses its high bits.        *)
Word(at) == ((at \div 4) * 4) % Size

PutWord(at, bytes) ==
  space' = [k \in ConfigBytes |->
              IF k \div 4 = Word(at) \div 4 THEN bytes[k % 4] ELSE space[k]]

(* The word at w with the caller's next len bytes from position p on.      *)
Patched(w, p, len) ==
  [b \in 0 .. 3 |-> IF p <= b /\ b < p + len THEN Given(ptr + b - p)
                                             ELSE space[w + b]]

Fetch(len) ==
  out' = [k \in ConfigBytes |->
            IF ptr <= k /\ k < ptr + len THEN space[offset + k - ptr] ELSE out[k]]

Advance(len) ==
  /\ offset' = offset + len /\ ptr' = ptr + len /\ n' = n - len
  /\ UNCHANGED <<foffset, call>>

(* Variant: the head is read even if it is longer than the request. *)
HeadLengthWhole == 4 - (offset % 4)

HeadLength == AtMost(n, 4 - (offset % 4))

HeadSkip ==
  /\ stage = "head" /\ offset % 4 = 0
  /\ stage' = "words"
  /\ UNCHANGED <<space, out, offset, foffset, n, ptr, call>>

HeadRead ==
  /\ stage = "head" /\ offset % 4 # 0 /\ op = "read"
  /\ Fetch(HeadLength) /\ Advance(HeadLength)
  /\ stage' = "words"
  /\ UNCHANGED space

(* The word is written at the offset that the loop has moved on. *)
HeadWrite ==
  /\ stage = "head" /\ offset % 4 # 0 /\ op = "write"
  /\ PutWord(offset + HeadLength, Patched(Word(offset), offset % 4, HeadLength))
  /\ Advance(HeadLength)
  /\ stage' = "words"
  /\ UNCHANGED out

WordMoves ==
  /\ stage = "words" /\ n >= 4
  /\ IF op = "read" THEN Fetch(4) /\ UNCHANGED space
       ELSE PutWord(offset, Patched(Word(offset), 0, 4)) /\ UNCHANGED out
  /\ Advance(4)
  /\ UNCHANGED stage

(* Variant: a tail is one byte shorter. *)
TailShort ==
  /\ stage = "words" /\ n < 4
  /\ IF op = "read" THEN Fetch(n) /\ UNCHANGED space
       ELSE /\ PutWord(offset, Patched(Word(offset), 0, n - 1))
            /\ UNCHANGED out
  /\ Advance(n)
  /\ stage' = "idle"

TailMoves ==
  /\ stage = "words" /\ n < 4
  /\ IF op = "read" THEN Fetch(n) /\ UNCHANGED space
       ELSE IF n = 0 THEN UNCHANGED <<space, out>>
       ELSE PutWord(offset, Patched(Word(offset), 0, n)) /\ UNCHANGED out
  /\ Advance(n)
  /\ stage' = "idle"

ConfigNext ==
  \/ \E base \in {0, offset, Size}, d \in Distances : Seek(base, d)
  \/ \E f \in Funcs, d \in Distances :
       \E base \in {0, foffset[f], FuncSize} : FuncSeek(f, base, d)
  \/ \E o \in {"read", "write"}, m \in Lengths :
       Call(o, m) \/ \E f \in Funcs : FuncCall(f, o, m)
  \/ HeadSkip \/ HeadRead \/ HeadWrite \/ WordMoves \/ TailMoves

ConfigSpec == ConfigInit /\ [][ConfigNext]_configVars

-----------------------------------------------------------------------------
Values == {Empty} \cup (0 .. 2 * Size - 1)

ConfigTypeOK ==
  /\ space \in [ConfigBytes -> Values] /\ out \in [ConfigBytes -> Values]
  /\ offset \in 0 .. Size /\ foffset \in [Funcs -> 0 .. FuncSize]
  /\ stage \in {"idle", "head", "words"} /\ op \in {"read", "write"}
  /\ n \in 0 .. Size /\ ptr \in 0 .. Size
  /\ start \in 0 .. Size /\ wanted \in 0 .. Size
  /\ owner \in Funcs \cup {Bus}

(* A read of any length at any offset yields the bytes of the space in     *)
(* order and nothing more, and leaves the offset after them.               *)
ReadsInOrder ==
  stage = "idle" /\ op = "read" =>
    /\ \A k \in ConfigBytes :
         out[k] = IF k < wanted THEN Original(start + k) ELSE Empty
    /\ ptr = wanted

(* Through a function's device only that function's bytes are read, from   *)
(* where its own offset stands, even though all of them move the one       *)
(* offset of the bus device.                                               *)
FunctionReadsOwn ==
  op = "read" /\ owner \in Funcs /\ wanted > 0 =>
    /\ stage # "idle" => start = owner * FuncSize + foffset[owner]
    /\ stage = "idle" => \A k \in 0 .. wanted - 1 : out[k] \div FuncSize = owner

Changed == {k \in ConfigBytes : space[k] # Original(k)}
Asked == start .. start + wanted - 1

(* A write changes exactly the bytes it was asked to change,               *)
WritesInPlace ==
  stage = "idle" /\ op = "write" =>
    /\ Changed = Asked
    /\ \A k \in Asked : space[k] = Given(k - start)

(* at least when it starts with a word or ends inside its first one.       *)
AlignedWritesInPlace ==
  (start % 4) = 0 \/ (start % 4) + wanted < 4 => WritesInPlace
=============================================================================
