# nopOS in TLA+

nopOS is a hobby kernel for i386 PCs, written in C and assembly. This directory
holds TLA+ models of the parts of it that decide things: who owns a page, a
piece of heap, a device slot, a sector or an AHCI command slot, what a log
buffer holds, and which handler an interrupt calls. TLC checks each model on a
small machine; TLAPS proves every safety property of these runs, the two
refinements and the three action properties for machines of any size.

Paths below are relative to the repository's root, with `src/` left out.

1. [The system](#1-the-system)
2. [Modules](#2-modules)
3. [Runs](#3-runs)
4. [Fairness](#4-fairness)
5. [Proofs](#5-proofs)
6. [What the models found](#6-what-the-models-found)
7. [Not modelled](#7-not-modelled)
8. [Plan](#8-plan)

## 1. The system

### Components

**Boot (`nop/arch/i386/start.asm`, `nop/arch/i386/start.c`, `nop/start.c`).**
The loader enters with a Multiboot2 memory map. `i386_start_c` clips its entries
against the real mode area and the kernel's image and passes an array of blocks
to `start()`. That cuts the page bitmap off the end of the first block that is
large enough, frees the blocks' whole pages, initialises the heap, the log and
the root tree, and runs five tasks in order: idt, text, serial, pci, ahci. After
every task `tree_mount(&root)` looks for new devices to mount. At the end the
root tree is listed and the kernel spins.
*State:* the memory map, the blocks, the index of the task.
*Correct if* only RAM outside the kernel and the bitmap becomes free, and every
mountable device ends up mounted once.

**Page allocator (`nop/page.c`).** One bit per page. `page_mark` sets or clears
a range in three loops (bits up to a byte boundary, bits down to one, bytes),
`page_alloc` scans for n clear bits, `page_free` clears.
*State:* `page_bitmap`. *Clients:* the heap's callbacks in `nop/start.c`, and
the AHCI driver, which allocates its command structures and marks the
controller's registers as used.
*Correct if* nobody is given a page twice, or one the boot code did not hand
over, and NULL means that there is no run of free pages.

**Heap (`lib/alloc.c`).** A list of blocks, each a run of pages tiled by
headers whose sign tells used from free; first fit with splitting. Nothing is
merged or given back to the page allocator.
*State:* `block_root`, the blocks, the headers. *Clients:* the device table,
trees, temporary devices, the log, the handle table.
*Correct if* headers always tile their block, live allocations do not overlap,
and every call returns.

**Device table (`nop/device.c`) and temporary devices (`nop/temp.c`).** A table
of device records that grows by eight with `realloc`. A driver's device gets a
number after its name (`term0`, `term1`), a temporary device does not. Reads,
writes and seeks go through the record's function pointers; a temporary device's
data pointer leads to its contents, an offset and a size.
*State:* `devices`, `device_used`, `device_total`; per temporary device its
memory.
*Correct if* a slot that was handed out stays its holder's, with what its holder
put behind it, and a name finds its own device.

**Trees (`nop/tree.c`, `nop/tree/root.c`, `nop/tree/mbr.c`,
`nop/tree/pci.c`).** The root tree has one child per device that an MBR or a PCI
tree can be mounted on. Paths are resolved by comparing prefixes. Mounting a PCI
tree scans the buses; its list and its opened functions are temporary devices.
*State:* `root.childs`; per MBR tree its partitions; per PCI tree its functions.
*Correct if* each device is mounted once, a path reaches the tree it names,
partitions lie on their drive and do not overlap, and a function is found and
opened under its own address.

**PCI configuration space (`nop/arch/i386/tasks/pci.c`, and the opened
functions of `nop/tree/pci.c`).** A 16 MiB byte-addressed device over 32-bit
port accesses, and a 256-byte device per opened function, all of which share the
bus device's offset.
*Correct if* a read or write of any length at any offset touches the bytes it
names, whoever moved the shared offset before.

**AHCI (`nop/tasks/ahci.c`).** `ahci_task` walks the PCI trees, opens every
function, and initialises the ports of the controllers it finds. Commands are
issued by setting a bit of PxCI and polling. The disk device cuts a transfer
into head, body and tail.
*State:* the port's registers and memory structures; per disk its size and
offset.
*Correct if* a slot is never rewritten while the controller owns it, success is
reported for exactly the commands that succeeded, and a write changes no byte
outside its range.

**Log (`nop/log.c`).** Every message goes to a terminal's write function, and
after `log_init` also to a buffer that grows by `realloc`.
*State:* `log_buffer`, `log_offset`, `log_size`.
*Correct if* the buffer holds what was logged, and a message about memory
running out, logged while the buffer is growing, does not ask for more.

**Text terminal (`nop/arch/i386/tasks/text.c`).** A flat array of cells in video
memory, scrolled line by line.
*State:* the cells, `text_x`, `text_y`.
*Correct if* the screen is the end of everything written.

**Interrupts and events (`nop/event.c`, `nop/arch/i386/tasks/idt.c`,
`idt.asm`).** A table of handles that grows by eight. A hardware interrupt's
stub triggers the event of its line, which calls the handles registered for it,
and then ends the interrupt at one or both interrupt controllers.
*State:* `handles`, `handle_used`, `handle_total`; the controllers' in-service
bits.
*Correct if* an interrupt at any moment calls the handlers registered for it and
no others, the count stays right, and no line stays blocked.

**Serial terminals, digits, BSON, strings, endianness.** See section 7.

### How they interact

```
 start() --ranges--> page bitmap <--pages-- heap <--realloc/malloc-- device table,
    |                    ^                                          trees, lists
    |                    '--page_alloc/page_mark-- AHCI
    '--tasks--> text, serial, pci, ahci --device_add--> device table
                                |                           ^
                                '--tree_list, tree_open--> trees --root_mount

 log --> text terminal                 interrupt controllers --> idt.asm stubs
  '--> log_buffer <--realloc-- heap      --> event_trigger --> handle table
```

The kernel is single-threaded: no scheduler, no second CPU. Two things run
concurrently with it. The hardware: an AHCI controller changes registers between
any two accesses of the driver. And interrupts, which the idt task enables:
their stubs run `event_trigger` over the handle table between any two
instructions of a driver that adds or frees a handle. No driver of this commit
does so yet; `nop/event.h` is there for them. One piece of code re-enters
itself: `log_write` grows its buffer with `realloc`, which asks for pages, and
`page_alloc` logs a refusal. The rest of what is hard in this code is
sequential: loops that share counters, errors that are not looked at, memory
that is read before it is written, tables and lists under long sequences of
calls, arithmetic at the edges of address spaces and widths. `PROJECT.json`
lists these places one by one, each with the properties that cover it.

## 2. Modules

| module | models | implements / extends |
|---|---|---|
| `PageAllocator` | what `nop/page.c` promises: a pool of pages | |
| `PageBitmap` | `nop/page.c`, loop by loop, and its callers | `PageAllocator` |
| `BootMemory` | `i386_start_c`, step 1 of `start()` | gives `PageBitmap` its ranges |
| `Allocation` | what `malloc`, `realloc`, `free` promise | |
| `Heap` | `lib/alloc.c` over the page pool | `Allocation`; uses `PageAllocator` |
| `DeviceTable` | `nop/device.c` | |
| `PciTree` | `nop/tree/pci.c`: scan, list, open, close, over `nop/temp.c` | `DeviceTable` |
| `DeviceTree` | steps 3 to 5 of `start()`, root tree, paths, `ahci_task`'s walk | `DeviceTable` |
| `Mbr` | `nop/tree/mbr.c` | |
| `PciConfig` | `nop/arch/i386/tasks/pci.c` and the opened functions of `nop/tree/pci.c` | |
| `AhciPort` | a port, from `ahci_init_port` to `ahci_send_h2d`, with the controller | |
| `AhciDisk` | the disk device's seek, read and write | used by `AhciDrive` |
| `AhciDrive` | the disk device over its port | `AhciPort`, `AhciDisk` |
| `Text` | `nop/arch/i386/tasks/text.c`, and a sheet of paper to compare it with | |
| `Console` | `nop/log.c` over the screen and `realloc` | `Text` |
| `EventTable` | `nop/event.c` under the interrupts of `idt.c` and `idt.asm` | |

Proofs are in modules of their own: `PageBitmapProofs`, `HeapProofs`,
`MbrProofs`, `EventTableProofs`, `ConsoleProofs` (with `Text`),
`AhciDriveProofs` (the port and the drive), `I386Proofs` (`BootMemory` and
`PciConfig`) and `DeviceProofs` (`DeviceTable`, `DeviceTree` and `PciTree`).
Where one module extends two specifications, the names of one of them carry its
prefix (`PciInit`, `ConfigSpec`, `DriveSpec`). Modules `MC...` give the
constants their values. Operators headed *Variant* are plausible wrong versions
of the definition below them; each is used to see that a property notices it.
They are no part of a specification.

**PageBitmap.** Every turn of a loop is an action. `pc` is `"mark"` in
`page_mark`, `"take"` in the `page_mark` that `page_alloc` calls, `"outer"` and
`"inner"` in `page_alloc`'s loops. `held` and `unmarked` are history: who owns
what, and which boot blocks are still to be freed. The refinement counts a range
under `page_mark` as done at the call, and `page_alloc`'s run as owned once it
has been found. The bitmap's memory is arbitrary before `page_init`
(`Leftovers`). Requests are between 1 and PageCount; `page.c` itself does not
test this, its callers ask for a few pages. Page addresses are page numbers.

**BootMemory.** Addresses are bytes modulo `Space` (4 GiB); entries of the map
may lie above it. The three loops of the two functions are the three values of
`pc`. The order of the clipping ifs is kept in `Start` and `End`.

**Heap.** `header` is the function from addresses to signed sizes; the walk of
`malloc_once` goes header by header. Page requests go through the actions of
`PageAllocator`, so that the pool may refuse as well as grant at any place it
has room. `live` is what the callers hold. `alloc_tidy` is empty in the code and
leaves only the second attempt.

**DeviceTable.** A slot keeps what was written to it, free or not, since
`device_add` reads the names of free slots. Slots that `realloc` adds are `Junk`
whose `free` field is chosen from `FreshFree`. It has no specification of its
own: `DeviceTree` and `PciTree` do the calls. When `device_add` returns -1 to a
caller that does not look, the model ends (`"wild"`): the store then goes to the
memory before the table.

**PciTree.** `doing = "scan"` is a turn of `pci_test`'s loop; `slot`, `i` and
`addr` are the locals of `pci_init` and `pci_test`, and `addr` stays where it is
at an absent function, as in the code. `heap` is the memory `malloc` has given
out, at addresses that are reused, and `data` the devices' pointers into it; a
file's unit is an entry. A name is the digits of an address, so that opening a
listed function converts there and back. `Closing` says whether files are
closed: today they are not, `tree_close` being empty, and `pci_close` is what it
would call.

**DeviceTree.** Adds `root.childs`, the tasks and the listings. Numbers in names
have radix `Radix`, so that a name can continue another (`disk1`, `disk10`); the
two prefix comparisons of the code, in opposite directions, are `HasTree` and
`Matches`. `mbr` is the set of disks with a good partition table, arbitrary.
How many serial ports, functions and drives are found is a choice, up to bounds.

**Mbr.** Entries are chosen when they are read: any table, or, after a short
read, any stack contents. The local array starts as garbage and is what gets
copied to `tree->data`.

**PciConfig** and **AhciDisk** abstract data to provenance: a byte of the
device is "what was there" or "the caller's j-th byte", a byte of the caller's
buffer is "the device's k-th byte". Where the bytes came from is what the
properties ask about. The body has the code's PRDT fault: every entry has the
same address.

**AhciPort.** The driver's accesses are separate actions; `HbaEngine`,
`HbaReady`, `HbaCompletes` and `HbaFails` are the controller (external), which
may act between any two of them. Setting a bit of PxCI is a read and a write. A
failed command either keeps its bit and halts the controller or loses it:
controllers differ. `outcome` is history.

**AhciDrive.** `call` is where a read or write of the disk device is, `pc` where
`ahci_send_h2d` is. Each of the up to five commands of a call is issued as a
transfer of `512 * sectors` bytes; the controller moves the data in the step in
which it completes the command, or some sectors of it in the step in which it
fails, and the device goes on with what `ahci_send_h2d` returns. (A controller
that runs has no other command: section 5, `IssueInv`.) A device whose IDENTIFY
failed is added with an arbitrary size and not followed (`"unsized"`).

**Text** and **Console.** `Put` is `text_putchar`. The paper of `Sheet` starts
with the firmware's screen, which `text_init` leaves there. `calls` is the stack
of `log_write`s under way: the outer one waits in `realloc` (`"null"`) while the
message about the refused request is written a character at a time, as `log`
does. At that time `log_size` is already the new size, and buffer and offset are
the old ones. After a refusal the outer call stores at NULL; what that
overwrites is not followed, nor is a store past the end (`corrupt`).

**EventTable.** `handle_add` is split at every store to what interrupts read:
the copy that `realloc` makes and frees, the pointer, the size, the fields, the
`free` field, the count. Pairs of stores that a compiler may swap are made in
either order (`left`). `Interrupt(l)` is a whole stub up to its end of
interrupt: the gate clears IF, so nothing interrupts it. A handler marked `once`
frees its handle. `registered` and `called` are history. `"lost"` is section 3's
condition on `TriggerReaches`.

## 3. Runs

| run | module, constants | properties | what it shows |
|---|---|---|---|
| `page_bitmap` | 24 pages, two boot blocks, one register range, requests of 3, 5, 8 | `HeldExclusive` `PagesConserved` `ImplementsPool` `AllocReturns` | Pages are exclusive and accounted for from any leftover memory; NULL only if no run is free. |
| `boot_memory` | 16 pages of 4 bytes, all maps of up to two entries over 14 marks | `KernelKept` `RangesLegal` `FreeIsRam` | The kernel stays used and every range fits the bitmap for every map; with RAM below 4 GiB exactly the RAM becomes free. |
| `heap` | 3 free pages of 8 bytes, sizes 2, 4, 7, three live allocations | `Tiled` `LiveExclusive` `UsedIsLive` `NullOnlyRefused` `ImplementsAllocation` `CallsReturn` | Blocks stay tiled and allocations exclusive over any sequence of calls, with a pool that runs out. |
| `heap_null` | as `heap` | `NullMeansFull` (fails) | Section 6. |
| `device_tree` | up to 2 terminals, 2 functions, 5 disks, radix 2, steps of 8 | `FoundByName` `OneTreePerDevice` `MountedUnlessShadowed` `ReachesOwn` | The whole boot, for every set of mountable disks. |
| `pci_tree` | 2 slots of 4 functions, 5 machines, a table of up to 4 slots in steps of 2, 3 allocations | `ScanFinds` `FilesKept` | The scan over gaps and silent slots, then any sequence of list, open, read, seek and close over reused slots and memory. |
| `mbr` | 4 entries of 2-bit start and count, drives of 0 to 6 sectors | `MountedOnDrive` `NoSharedSector` `MountedIsTable` `RefusedForReason` | Every table is mounted or refused as the rules say. |
| `pci` | 2 functions of 8 bytes, lengths up to 11 | `ReadsInOrder` `FunctionReadsOwn` `AlignedWritesInPlace` | Reads are right at any offset; writes where they start a word or end in their first. |
| `ahci` | 3 sectors of 3 bytes, PRDT entries of 2 sectors, 1 and 2 slots, 2 turns of the wait | `BasesWhileStopped` `SlotOwned` `LeakOnlyByHalt` `OutsideKept` `ReportedIsDone` `ResultHonest` `OffsetFollows` `CallReturns` | Any sequence of calls of the disk device, each command carried by the port, against a controller that answers, fails or halts at any time. |
| `ahci_port_empty` | the port alone, 1 and 2 slots | `EntryForRemainder` (fails) | Section 6. |
| `console` | a screen of 3 lines of 2 characters, a buffer that grows by 2, 9 characters in all | `ScreenShowsAll` `LogKept` `ComplaintAsksNothing` | Screen and buffer through scrolling, growth and refusals of memory whose message is written inside another one. |
| `events` | lines 0 and 8, 3 handlers, one of them for once, a table of up to 4 slots in steps of 2 | `HandlesCounted` `TriggerReaches` `RequestServed` | Interrupts from both controllers at every step of `handle_add` and `handle_free`. |

### Why the bounds are enough

- `page_bitmap`: 24 pages are three bytes of bitmap. One boot block starts and
  ends inside a byte with a whole byte between, so all three loops of
  `page_mark` run in one call; the other ends at the last page, where the scan
  stops. The requests fit, just fit, and fail, depending on what is held.
- `boot_memory`: the marks are page boundaries, kernel bounds and address space
  bounds, bytes beside them and bytes inside pages; two entries are enough for
  the one that holds the bitmap and one that does not, in both orders, below and
  above 4 GiB.
- `heap`: two runs of pages, so that blocks of one and of two pages exist and
  the list has more than one block; a size that splits, one that takes a block
  whole, one that needs two pages. Refusals happen from every fill of the pool.
- `device_tree`: the fifth disk's binary name continues the second's and the
  third's; the table grows twice after `realloc`'s first call.
- `pci_tree`: the machines have empty slots, slots with one and with all
  functions, a gap, functions behind an absent function 0, and a function that
  function 0 does not announce. The table is filled, so that slots are reused
  and, where fresh memory reads as taken, `device_add` fails; freed memory is
  given out again for another kind of file.
- `mbr`: two-bit fields overflow their sum; four entries are the code's number,
  and overlaps of entries that are not neighbours need three.
- `pci`, `ahci`: every residue of an offset modulo the word or sector, with and
  without each of the three parts, at the end of a function and of the device;
  in `ahci` also transfers shorter than, as long as and longer than one PRDT
  entry. The driver has one command in flight; two slots are enough for a lost
  one and the one in use, one slot for running out. The wait's 2^22 turns differ
  from two only in how much the device can do meanwhile, and it may do anything
  already.
- `console`: the screen scrolls by full lines and by line ends, in and before
  the last line; the buffer grows three times, and a refusal may come at each;
  the refusal's message has two characters, as many as a step, the tightest case
  of `ConsoleAssumption` (in the code it is less than a fiftieth of one).
- `events`: the table grows twice, so that a copy with handles in it is made,
  and a slot is reused; line 8 comes in through both controllers, and line 0 is
  more urgent.

`CHECK_DEADLOCK FALSE` stands where the code ends or never returns, or a bound
ends the run: the boot (`boot_memory`, `device_tree`), a drive mounted or
refused (`mbr`), the runaway loop over PRDT entries (`ahci`, `ahci_port_empty`),
a list that could not be added (`pci_tree`), `MaxWritten` (`console`), and a
table in pieces (`events`).

### Properties with a condition

- `ReportedIsDone` is about transfers of one PRDT entry (8192 bytes). Longer
  ones move wrong data: `nop/tasks/ahci.c:70` stores the same address in every
  entry.
- `AlignedWritesInPlace` is about writes that start a word or end inside their
  first one. Others are written at the wrong place, the offset having been
  advanced before the word is put back (`nop/arch/i386/tasks/pci.c:60`); the
  unconditional form, `WritesInPlace`, is what the README's "[x] Write support"
  would need. The kernel performs no such write today.
- `FoundByName` is a property of a table from which nothing is freed. With
  freeing, `device_add`'s suffix, which is taken from the last matching slot and
  not from the largest number, can repeat a name.
- `FreeIsRam` is about machines whose RAM lies below 4 GiB and whose map lists
  it once: an entry above aliases low memory, and of RAM listed twice one copy
  may keep what was cut off the other for the bitmap. `KernelKept` needs no such
  condition.
- `CallReturns` is about a call that begins with a controller that has not
  halted, and leaves out the runaway loop. After a halt the next command's poll
  hangs, nothing restarting the engine.
- `ScanFinds` describes which functions the code finds: those up to the first
  gap of their slot. What is behind a gap is lost (section 6).
- `FilesKept` ends where a list's device could not be added and is written
  nevertheless.
- `LogKept` holds until a request for pages is refused; then the buffer is at
  NULL.
- `TriggerReaches` and `HandlesCounted` hold for the stores of `handle_add` in
  source order, and also for an interrupt that a compiler's reordering lets come
  between two stores that do not matter. Two orders matter: the new size before
  the new pointer, which GCC produces at `-Os` (the flag of `build_i386.sh`), and
  the `free` field before the other fields, at `-O2`. An interrupt there walks a
  table in pieces; nothing in the source forbids it, and the model goes to
  `"lost"`. It also does when a handler frees its handle in the old table after
  `realloc` has copied it: the handle comes back.

## 4. Fairness

`PageBitmap` and `Heap`: weak fairness of the loops only (`Loop`, `Work`). They
run on the processor with nothing to wait for. Nobody is obliged to call.

`AhciDrive` (`FairDriveSpec`): weak fairness of the driver's code
(`DriverRuns`), which waits for nothing but registers; of the controller's
engine bits (`EngineRuns`), which the driver's two unbounded waits presume; and
of its answers (`AnswersDrive`): a running controller that has commands
completes or fails one eventually. There is no fairness of `HbaReady`: the
device may stay busy for ever, which the bounded wait has to survive. Nobody is
obliged to call or to seek.

`EventTable`: weak fairness of `IdtTask`, which the boot reaches; of `Return`,
handlers being ordinary code without waits; and of `Interrupt(l)` for each line:
the processor takes an interrupt that is requested and that the controllers let
through. No driver is obliged to add a handle and no line to request.

The other specifications have no liveness properties and no fairness.

## 5. Proofs

All are checked by TLAPS without omitted or assumed steps; the assumptions are
those the modules name, and TLC evaluates them in every run. Every theorem about
a property of section 3 holds for all values of the constants that satisfy them.

### PageBitmapProofs: any number of pages, boot blocks and requests

| theorem | states |
|---|---|
| `TypeCorrect` | `Spec => []TypeOK` |
| `Bounded` | `Spec => []InBounds`: no loop touches a bit outside the bitmap |
| `Exclusive` | `Spec => []HeldExclusive` |
| `Conserved` | `Spec => []PagesConserved` |
| `Refinement` | `Spec => ImplementsPool` |

`HeldExclusive` alone is not inductive: `page_alloc` marks its run page by page,
and meanwhile the bitmap says that pages are free that have an owner. The
inductive invariant `IInv` therefore speaks of the pool as it is after the loop
under way (`FreePages`, `Owned`). It consists of

- `BootFirst`: nothing is allocated before every boot block has been freed;
- `ScanInv`: what `page_alloc` knows in each loop: the pages counted so far are
  free, no run of n free pages starts below the one being counted, and step is
  1. The second is what makes NULL an honest answer;
- `Accounts`: every page handed over is either free or owned, and owned once.

`MarkKeepsPool` shows that no turn of `page_mark`'s loops changes that pool, so
that only calls and returns are left to compare with `PageAllocator`'s actions.
The skip over a used page is sound since no run can contain that page.
That every `StepArg` becomes a step of 1 is from `StepAssumption`. The other
assumptions are `CountAssumption`, `RangeAssumption` and `LeftoverAssumption`.

### I386Proofs: any page size, kernel and memory map; any configuration space

| theorem | states |
|---|---|
| `Kernel` | `Spec => []KernelKept` |
| `Legal` | `Spec => []RangesLegal`, which is `PageBitmap`'s `RangeAssumption` |
| `RamFreed` | `Spec => []FreeIsRam` |
| `InOrder` | `ConfigSpec => []ReadsInOrder` |
| `OwnBytes` | `ConfigSpec => []FunctionReadsOwn` |
| `InPlace` | `ConfigSpec => []AlignedWritesInPlace` |

`GoodBlock` is what clipping leaves of an entry, its ends modulo 4 GiB included:
it starts at or after the kernel's end and does not wrap around. Cutting the
bitmap off keeps that (`BlocksInv`), and rounding the start up makes a page that
is freed lie behind the kernel (`FreeInv`). From `LayoutAssumption` (the kernel
is linked at the end of the real mode area and does not reach into the last
page) and `MapAssumption` (the loader's entries are not empty, and RAM does not
start in the last page below a multiple of 4 GiB).

`FreeIsRam` says two things, that nothing but RAM becomes free and that no page
of it is lost, and needs `RInv`: each block is a piece of an entry already read
(`SourceInv`), blocks are apart from one another (`ApartInv`) and from the
bitmap (`KeptOutInv`), every page that is wholly RAM of an entry read so far,
above the kernel and clear of the bitmap lies in some block (`AllRamInv`), and
the free pages are those inside the blocks marked so far (`MarkedInv`).
`AllRamInv` is where the clipping ifs, the cut for the bitmap and the rounding
to pages have to agree. Since pages lie in one block each, the order of marking
does not matter.

For the configuration space, `ConfigInv` follows a call byte by byte. `CallAt`
ties the locals to the shared offset: what has been moved and what is left make
up the call, and the offset stands behind what has been moved. `ReadInv` says
that the first `ptr` bytes of the buffer are those of the space and the rest is
untouched, `WriteInv` the same of the space for writes that start a word or end
in their first, which reach every further word at its start. `OwnInv` needs
`OffsetsInv`, each function's offset inside the function, since the offset of
the bus device is whatever the last caller left. From `ConfigAssumption`.

### HeapProofs: any page size, size of heads and requests

| theorem | states |
|---|---|
| `Tiling` | `Spec => []Tiled` |
| `Exclusive` | `Spec => []LiveExclusive` |
| `Used` | `Spec => []UsedIsLive` |
| `Refusals` | `Spec => []NullOnlyRefused` |
| `Refinement` | `Spec => ImplementsAllocation` |

The inductive invariant `HInv` says that headers tile the blocks (`Tiles`, kept
by `SplitTiles` and `BlockTiles`); that each block is a run of pages the pool
has granted and that is not free any more (`Backed`), so that a new block is
apart from all others; that the search stands on a header (`CursorOnHeader`);
that a live pointer has a used header of at least its size (`LiveInv`); and
`ThirdInv`: the third search starts at the block just granted, whose one header
is large enough. The last is arithmetic about 25% more, `block_min` and rounding
up (`NewSizeEnough`, `PagesEnough`). Exclusiveness follows from tiling; the
refinement maps a call's return to the abstract allocator's answer. From
`HeapAssumption` and `SizesAssumption`.

### MbrProofs: any width of an entry, size of a drive and number of entries

| theorem | states |
|---|---|
| `TypeCorrect` | `Spec => []TypeOK` |
| `OnDrive` | `Spec => []MountedOnDrive` |
| `Disjointness` | `Spec => []NoSharedSector` |
| `TableMounted` | `Spec => []MountedIsTable` |
| `Reasons` | `Spec => []RefusedForReason` |
| `NoneLopsided` | `Spec => []NoLopsidedEntry`, rule 5 of the comment before the loop |

The properties are about a mounted or refused drive; the invariant carries them
through the loop: the partitions gathered so far keep the rules (`Filled`), are
pairwise apart (`Disjoint`), each comes from an entry read so far (`FromTable`)
and each such entry with sectors is among them (`AllKept`), entries have both a
start and sectors or neither (`Balanced`), and the copy is made when the unused
slots have been marked (`Copied`). `Disjoint` is where comparing with earlier
entries only turns out to be enough: `Apart` is symmetric. From `MbrAssumption`.

### AhciDriveProofs, the port: any number of slots, length of the wait and transfers

| theorem | states |
|---|---|
| `Invariance` | `Spec => []IInv` |
| `BasesSafe` | `Spec => []BasesWhileStopped` |
| `Ownership` | `Spec => []SlotOwned` |
| `Leaks` | `Spec => []LeakOnlyByHalt` |
| `Honesty` | `Spec => ResultHonest`, an action property |

What the driver relies on is that nothing it prepares is in the controller's
hands. `IssueInv` says so: a controller that runs owns at most the command that
is being waited for, and none between transfers. A halted one may keep commands
for ever, which are then never chosen again; so the copy of PxCI that the driver
writes back (`ahci.c:94`) names no command that finished since. `EngineInv`
follows the bits of PxCMD through `ahci_init_port`. `StatusInv` ties PxIS and
PxCI to what happened to the command: TFES is set exactly when it failed, a slot
given back has been answered, and one kept with TFES means a halt. Hence it does
not matter at which of its three looks (`ahci.c:96`, `97`, `102`) the driver
sees the failure.

### AhciDriveProofs, the drive: any sectors, disks and sequences of calls

| theorem | states |
|---|---|
| `DriveBasesSafe`, `DriveOwnership`, `DriveLeaks`, `DriveHonesty` | the port's properties under the disk device's calls |
| `Outside` | `DriveSpec => []OutsideKept` |
| `Reported` | `DriveSpec => []ReportedIsDone` |
| `Follows` | `DriveSpec => OffsetFollows`, an action property |

`PortStep` shows that a step of the drive is a step of the port or none, so that
the port's invariant carries over. `CallInv` says where a call is: how far the
offset, the caller's pointer and the bytes left have come, and that head and
tail begin at sector bounds where the code relies on it. `BufferInv` says that
the local sector is the disk's when a read of it has been answered, and differs
from it in no byte outside the range when it is written back. The invariant of
the second half follows the caller's bytes: through the patched sector
(`Carries`), onto the disk or into the caller's buffer when the controller
answers (`Written`, `ReadIn`), and into what the call reports (`DoneInv`).
`Follows` reads off `CallInv` where a call leaves the offset on each of its ways
out. From `DriveAssumption` and `PortAssumption`. `CallReturns` stays with TLC.

### EventTableProofs: any lines, handlers and step of the table

| theorem | states |
|---|---|
| `Counted` | `Spec => []HandlesCounted` |
| `Reached` | `Spec => TriggerReaches`, an action property |

The invariant compares the table with the set of registered handles at every
point at which an interrupt may come: its size while pointer and size differ
(`SizeInv`), the copy while it is not yet the table (`CopyInv`), the slot that
is half filled (`AddInv`, `Holder`), and the count, which is one behind between
the store of the `free` field and the increment (`CountInv`). It holds as long
as the mode is not `"lost"`. From `EventAssumption`.

### DeviceProofs: any number of devices, functions, names and calls

| theorem | states |
|---|---|
| `Finds` | `Spec => []FoundByName` |
| `OneTree` | `Spec => []OneTreePerDevice` |
| `AllMounted` | `Spec => []MountedUnlessShadowed` |
| `OwnLists` | `Spec => []ReachesOwn` |
| `ScanFindsAll` | `PciSpec => []ScanFinds` |
| `AddressOfName` | the digits of every address give the address back |
| `FilesStayWhole` | `PciSpec => []FilesKept` |

`HandleInv` is about `device_add` and `device_remove`, for every client: the
slots given out are taken and apart, and what is in them is what their holders
put there, through every growth of the table. It needs nothing of `device_used`.

The boot, which gives no slot of a driver's device back, adds `FoundInv`: of two
devices of a kind the one in the later slot has the larger number. So the
suffix, taken from the last slot that matches, is larger than all numbers in
use. It stays so since every free slot lies above every public device.
`FoundByName` follows. `TreesInv` says that a mounted device is public, that its
tree has its name, that no mounted name starts another one, and that each slot
below a mounted one is `Settled`: mounted, not mountable, or shadowed by a
mounted name that starts its own. `PassInv` carries `Settled` to the end of the
last pass. For `ReachesOwn`, `tree_list` takes the first tree whose name the
path starts with, and `ListedInv` with the last part of `TreesInv` leaves one.
Names are numerals of any length (`Numbers`, `IsStart`), so these proofs compare
powers of `Radix`.

The PCI tree needs `ScanInv` (where `pci_test` stands in its slot, and that what
was found below the cursor is exactly what is reachable there) and `FilesInv`:
an open file's pointer is its own, the memory behind it is of the kind that was
asked for, a list under way has the names of the functions done so far and its
offset behind them, and an opened function has the address that was asked for.
The last goes through a name's digits and back: `AddressOfName`. The memory may
be freed and given out again, and slots reused, between any two of these.

From `TableAssumption`, `PciTreeAssumption`, `PowerAssumption` and
`DigitAssumption`. The last two state what the exponents in use do, since the
provers know nothing of `^`; TLC evaluates them. Induction over numbers is by
the least counterexample: `Least` gets the least element of a set of numbers
from the library's theorem that the finite subsets of a set are well-founded,
which takes no operator as a parameter.

### ConsoleProofs: any screen, allocation step and messages

| theorem | states |
|---|---|
| `Bounded` | `Spec => []ComplaintAsksNothing` |
| `Kept` | `Spec => []LogKept` |
| `Shown` | `Spec => []ScreenShowsAll` |

`CallsInv` has room for the whole message in the buffer's new size when a
request is refused (`NewSizeRoom`: rounding adds at least a step), and while the
message is written, room for its rest; so the inner call never asks. From
`ConsoleAssumption`: the message is not longer than a step. `KeptInv` adds that,
before the first refusal, the buffer's bytes are what was written since
`log_init` up to `log_offset`, that what the call under way has shown and not
stored follows there (`Pending`), and that the allocation is `log_size` long
except in `realloc`.

`ScreenInv` relates screen and paper: from some line of the sheet on
(`ShowsAt`), the screen's cells are the sheet's, column and row agree, and the
sheet ends with the screen. Each character keeps this (`PutShows`): on the last
line, a line end moves the screen up by one line just when the paper gets a new
one, above it neither happens; a full line ends only with the next character, on
both. That `memmove`'s copying in place is a move (`Moved`), and that typing a
string on after another is typing both (`SheetGoesOn`), are inductions along a
fold. `FoldLeft` chooses its function by `CHOOSE`, so `FoldExists` first shows
that there is one, and `FoldRuns` that it is a run over the indices; both,
again, by least counterexample. From `TextAssumption`.

### Model-checked only

Liveness, which like `ENABLED` is beyond the prover: `AllocReturns`,
`CallsReturn`, `CallReturns`, `RequestServed`. And, since they fail, the
properties of section 6's two runs. Every other property of a run has a theorem,
which the run checks at one size before the proof holds for all.

Definitions that no run names: `InBounds` and `NoLopsidedEntry` (theorems),
`CursorOnHeader` (part of the heap's invariant), `LiveKept`, `WritesInPlace`,
`HandlesKept`, `ListingWhole` and `OpensOwn` (the parts of `FilesKept`), and the
type invariants, of which those of `PageBitmap` and `Mbr` are theorems; the
other proofs contain the types they need in their invariants.

## 6. What the models found

- **`heap_null`** (`lib/alloc.c:47`). `alloc_block` does not look at
  `page_alloc`'s result. One refusal makes the null address the first block; a
  list that starts there is empty, all earlier blocks are out of reach, and
  `malloc` returns NULL where "for sure there wasn't enough free memory"
  (line 133) is not so.
- **`ahci_port_empty`** (`nop/tasks/ahci.c:59`). A transfer of less than a sector
  at a sector boundary sends a command of 0 bytes. Its PRDT entry count is 0
  after truncation to 16 bits, where the comment has "one per 8192 bytes plus
  one for the remaining", and the loop to `prdtl - 1` runs through memory.

No runs of their own, since no comment or document says otherwise, but visible
in the models or met while writing them:

- the conditions listed under section 3;
- `device_add` looks for a free slot in memory it has just got from `realloc`
  (`nop/device.c:21`). If that reads as 0, it returns -1, now and for ever, the
  table never growing again, and the drivers do not look;
- `pci_test` goes on without `addr++` when a function is absent
  (`nop/tree/pci.c:189`): the functions behind a gap are looked up at the gap;
- after a refusal of memory the log goes on at NULL (`nop/log.c`), with the size
  it asked for;
- `ahci_identify`'s failure is ignored (`nop/tasks/ahci.c:375`), and the device
  added with the size that `malloc`'s memory happens to hold;
- a transfer of more than 64 KiB has more PRDT entries than its command table
  has room for (`nop/tasks/ahci.c:64`);
- `handles` and `handle_total` are ordinary variables, so that the compiler may
  swap their stores (section 3);
- the stub of line 8 reads the clock's register C through port 0x71 without
  having written its number to port 0x70 (`idt.asm`, `idt_handle_40`);
- stubs of exceptions with an error code leave it on the stack (`idt.asm`);
- `log_init` does not create the "logs" device that `nop/start.c:50` names
  (`LogInit` of `DeviceTree`);
- `pci_open` has no return statement, and the models take the value that
  `device_add` leaves in the return register.

## 7. Not modelled

- **Log**: the formatting of `log`, which is wording; the hexadecimal and decimal
  conversions in it are `lib/digits.c`'s pattern again.
- **Interrupts**: exceptions, which cannot return (section 6), and what the clock
  does when its register C is not read: line 8 may ask again at any time.
- **Serial (`serial.c`)**: only its devices' slots; the rest is port I/O.
- **Text's device**: `text_device_...` add nothing to `text_write`.
- **AHCI**: the layout of command tables in memory, IDENTIFY's contents, the
  16-bit sector count, the tests of class, mode and signature.
- **Trees**: `tree_free` and `tree_is_tree` have no caller; `tree_delete` and
  `tree_close` are empty. Lists of the root tree are sets of entries.
- **Digits, BSON, strings, endianness (`lib/`)**: pure. The two conversions of
  `lib/digits.c` that PCI names go through are in `PciTree`; other names are
  pairs of a base and a number. BSON has no caller.
- **Assembly, headers, build scripts**: no state of their own, except the stubs of
  `idt.asm`. That the kernel is linked at 1 MiB (`files/i386/linker.ld`) is an
  assumption of `BootMemory`.

## 8. Plan

Done: memory (`PageBitmap`, `BootMemory`, `Heap`), devices and trees
(`DeviceTable`, `DeviceTree`, `PciTree`, `Mbr`, `PciConfig`), AHCI (`AhciPort`,
`AhciDisk`, `AhciDrive`), the log and its screen (`Text`, `Console`), interrupts
(`EventTable`), and the proofs of section 5.

Next, in order:

1. An abstract disk, a sequence of bytes that `AhciDrive` implements for calls
   without failure, and a set of named devices for `DeviceTable`, with the proofs
   that they are implemented.
2. `Discovery`: `ahci_task`'s tests of class, signature and implemented ports,
   over the functions of `PciTree`.
3. `Serial`: the loopback probe and transfers over a port that may not answer.
4. `Digits`, `Bson`: pure functions against reference definitions.
