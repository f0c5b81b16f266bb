# A verification model of the prOS kernel

prOS is a small x86 kernel in C++: a boot loader stub, memory management, a
timer driven scheduler, an ATA driver, a FAT32 reader and a text terminal. This
directory models it in TLA+, checks the model with TLC on small instances, and
proves the central results for all instances with TLAPS. All of it is
translated from the source under `src/`; the repository has no design document
and no tests, so what the code is *meant* to do is taken from its comments, log
messages and panics.

## The system

| Component | State | Operations | Talks to | Correct when |
|---|---|---|---|---|
| Boot (`loader.S`, `main.cpp`) | boot page directory, boot stack | switch to paging, `kmain` constructs everything in order | all | components are used after they are constructed |
| Physical memory manager (`PMM.cpp`) | bitmap, `maxBlocks`, `usedBlocks` | `setRegionFree/Used`, `allocBlock(s)`, `freeBlock` | called by `kmain` and the VMM | no frame has two holders, none is lost, the kernel's own frames are never handed out |
| Virtual memory manager (`VMM.cpp`) | page directory, page tables in frames | constructor, `getPageForAddress`, `allocPage`, `freePage`, `virtualToPhysical` | allocates from the PMM, called by the heap | both managers agree on every frame; tables and kernel out of reach |
| Heap (`Heap.cpp`) | list of chunks in memory, `usedMemory` | `malloc`, `free`, `new`, `delete` | lives in pages the VMM mapped | blocks in use are disjoint and mapped, memory is found again |
| Interrupts (`IDT.cpp`, `interrupts.S`) | `handlers`, descriptor table, both interrupt controllers | registration, dispatch, save and restore of registers, end of interrupt | timer, disk, scheduler | a handler is entered only when it is constructed; no line is held back for good |
| Scheduler and threads (`Scheduler.cpp`, `Thread.cpp`, `Vector.hpp`) | `threads`, `currentThreadNumber`, tick counter, saved registers | `addThread`, `handle`, `getNextReadyThread` | interrupts `kmain` and all threads | registers survive, everyone gets a turn, a removed thread is gone |
| GDT/TSS (`GDT.cpp`) | descriptors, `esp0` | constructor, `setTSS` | called by the scheduler | the TSS names the running thread's stack |
| ATA driver (`ATA.cpp`) | device registers | `identify`, `read28` | the drive, over ports | reads one sector or says that it failed; ends |
| FAT (`FAT.cpp`), partition table, VFS | BIOS parameter block | directories, paths, files | reads through ATA, allocates from the heap | finds exactly the entries of the disk, ends on any disk |
| Terminal, Log (`Terminal.cpp`, `Log.cpp`) | row, column, color, screen memory, the video controller's cursor | `putChar`, `scroll`, `setColor`, `log`, `printf` | called by everybody | the screen shows the text; what two writers tear is right again afterwards |
| Vector, String | size, capacity, array | `pushBack`, `remove`, ..., `split` | used by everybody | behaves as a list; `split` returns the parts of the string |

What makes it hard: the timer interrupts everything from `main.cpp:40` on, and
its handler shares the scheduler's vector and the heap with the code it
interrupts; memory management keeps the same facts twice (bitmap and counter,
bitmap and page tables, chunk list and blocks); several computations are one
off or wrap around, and whether that does harm depends on long sequences of
calls. `PROJECT.json` lists each hazard at its line with the properties that
would catch it.

## Modules

| Module | What it is |
|---|---|
| `PMM` | the physical memory manager and the part of `kmain` that sets it up |
| `AddressSpace` | abstract: pages, the frames behind them, the frames of page tables |
| `VMM` | the virtual memory manager; extends `PMM` and calls its actions |
| `Heap` | the heap's chunk list, `malloc` and `free` |
| `VirtualCpus` | abstract: every thread has a processor of its own |
| `Scheduler` | the timer handler, `addThread` statement by statement, and the threads |
| `Interrupts` | the two interrupt controllers and the end of an interrupt; `Scheduler` extends it |
| `ATA` | the disk driver and the drives |
| `FAT` | the file system, the partition table and `kmain`'s use of them; extends `ATA` |
| `Terminal` | `putChar` with threads switched anywhere in it |
| `Log` | `log`, `printf` and `intToString`; extends `Terminal` |
| `List` | abstract: a list that grows and shrinks at both ends |
| `Vector` | the operations of `Vector` |
| `Strings` | `split`, which fills a vector, and a caller that goes on with it; extends `Vector` |
| `PMM_proofs`, `VMM_proofs`, `Heap_proofs`, `Strings_proofs`, `Scheduler_proofs`, `FAT_proofs`, `Log_proofs` | theorems and proofs |
| `DataInduction` | induction over numbers and sequences, for the proofs |
| `MCPMM`, `MCVMM`, `MCHeap`, `MCScheduler`, `MCFAT`, `MCLog`, `MCStrings` | the instances for TLC |

Definitions called *Variant* are plausible mistakes in the definition that
follows them. They are used by no specification; `PROJECT.json` says which
property each of them breaks.

### PMM

`memoryMap` is the bitmap as the set of its 1 bits, `usedBlocks` and
`maxBlocks` are the counters modulo `U32`. `phase` and `entry` are where `kmain`
is: `Construct` is the constructor, `VisitRegion` one turn of the loop over the
memory map, `ReserveLow` and `ReserveKernel` the two calls behind it.
`AllocBlocks(count)` and `FreeBlock` are the calls afterwards. The odd
arithmetic is kept: both region functions visit one block more than the size
divides into, block 0 is set without being counted, sizes in bytes are
multiplied by 1024, the kernel is reserved with the *address* of a local
variable as its size, and `firstFree(size)` tests bits at `i * 32 + (1 << j)`.
What it reads outside the bitmap is nondeterministic: clear, set, or a page
fault (`MayFault`).
`owned` and `multi` are history variables: who holds what, and whether several
frames were ever requested at once. `freeBlock` is called by a holder of the
frame; the code does not check that, and no caller does otherwise.

### VMM and AddressSpace

A page is a number; directory and table index are its quotient and remainder.
`memory` is what each frame holds when it is read as a page table: frames start
out, and come back, with entries that map frame 0 for everybody, and a new
table is safe only because it is cleared. A request is two steps, as in
`allocPage(getPageForAddress(...))`: `pte` is the entry handed from one to the
other. Either call may find memory exhausted, which is a panic. `VMMSpec`
starts with PMM's own boot actions. `freePage` is called for mapped pages and
requests are made for pages that are not mapped; the code's own callers (the
constructor) do only the latter. `ImplementsAddressSpace` maps `space` to the
page table walk and `tables` to the frames the directory names.

### Heap

Headers live in memory at addresses, `hdr` is the function from address to
header, and writing a block removes headers under it (`Overwrite`). `malloc`
is the test of `usedMemory` followed by one step per chunk it looks at; `free` is one
step made of the three things it does: mark, let the predecessor take the chunk
over, take the successor over. Following a pointer to something that is not a
header is the end state `wild`, touching memory behind the mapped heap the end
state `fault`, KPANIC the end state `panic`. `Size` is what the constructor is
told, `Mapped` what is mapped.

Two conditions in `free` are wrong in the code and kept: `Heap.cpp:110` merges
into a predecessor that is *in use*, and `Heap.cpp:126` links the chunk behind
a merged one to the wrong predecessor. The properties separate the two. The
first is shown to be harmless for the blocks in use (it only loses memory);
after the second (`relinked`) nothing is promised: TLC finds behaviours in
which two live blocks overlap and in which `free` follows a pointer into a block.
The invariants therefore hold *until* `relinked`, and that is what the theorems
say.

### Scheduler and VirtualCpus

`kmain` is a program counter over the constructor and over `pushBack`, because
the timer can interrupt it between any two statements; statements that touch
nothing the handler reads (copying into the new array) are one step with their
neighbour. The handler runs behind an interrupt gate (`IDT.cpp:107`), so
nothing interrupts it: a tick that switches saves the registers and takes the
next thread (`TickSwitches`), then the loop over stopped threads goes one thread
per step until `Dispatch`. A thread's registers are a number: what it has done
so far. `kmain` is no thread, its registers are not saved, and the first
dispatch leaves it where it is, also in the middle of `pushBack`; an array
that was given back to the heap at that point may then be overwritten, and an
element that was not stored is garbage. A deleted thread stays in the vector:
when the round reaches it again its memory either still says `Stopped`, and it
is deleted a second time (`heapBroken`), or has been reused (`wild`).

The scheduler object lies on the boot stack, which is zeroed memory
(`loader.S:18`); ticks before construction therefore see a frequency of 0. The
member `currentThread` is never assigned, so `Scheduler.cpp:46-50` never runs
and is left out. The state `Blocked` is not distinguished by the code.
`kmain`'s calls of `addThread` are commented out in this commit
(`main.cpp:95-104`); the model makes them, in any order, as the commented code does.

`Interrupts` is in between the timer and the handler. `raised` and `inService`
are the request and in-service registers of both controllers, a slave line in
service occupying the cascade of the master too. A tick is a request of the
timer that is accepted; one that only counts is over in the same step, one that
switches stays in service until `Dispatch` sends the end of the interrupt, by
then on another thread's stack. Line 14, the disk, has no handler
(`handlers[...]` is null) and is over at once (`Unhandled`), and so is the timer
until the scheduler registers. Requests of a line that is already raised are
one request, which is how ticks get lost while the handler runs.

`ImplementsCpus` maps a thread's progress to the processor's registers while it
runs and to its saved registers otherwise.

### ATA and FAT

The driver copies bytes without looking at them, so a byte is `<<sector,
offset>>` and `Junk` is anything else. `Read28` refuses a sector or count that
is out of range, or writes the registers; `Poll`, `CopyWord` and `DrainWord` are
the loops behind. The drive answers some time later; at most `MaxFaults` times
it reports an error, or is still not busy when the driver looks for the first
time (the driver does not wait the 400 ns a drive may take). An error is logged
and the words are fetched all the same, and an absent drive reads as status 0,
which only `identify` looks for.

`FAT` calls the driver in steps: `Reads` hands a sector over, `Returns` takes
it back, and `Seen` is what the caller's cast makes of the buffer: the record of
that sector of the disk, or `Garbage` if not all of it was delivered. `phase`
is where the code is: four phases of `kmain` (identify twice, partition table,
parameter block), then per call the walk along the directory's path (`walk`),
the loops of `getEntries` (`list`, `next`), the search (`listed`), and the loops
of `readClusterChain` (`copy`, `copyNext`). `Loop` says where a loop over a
chain goes on; a cluster without sectors, which a parameter block read from
garbage may claim, is passed over. Sector numbers wrap at `U32`. Kept as in the
code: the sector of
`getEntries` is computed from the first cluster only; an entry is entered
without a look at whether it is a directory, and cluster 0 is the root; a mark
for a bad cluster is followed; `readFile` ignores its offset; the zero behind a
file goes to `buffer[size]`, so a caller needs one byte more than
`getFileSize` says; the label of the volume counts as a file; of a link 28 bits
are kept (`LinkValues`); a name with an
extension of one character is converted without its dot (`FAT.cpp:41` looks at
the second character) and never found under its own name.

Strings are read without a terminator, and three stores lie behind a buffer.
Directory paths and converted names carry no zero: `clean` says for each call
whether the heap happened to hold zeros there, and if not, `Found` and
`Continued` are nondeterministic. The stores are

- the letters of `convertName`, which counts the attributes as a character of
  the name when it measures its buffer (`BufferLength`), and the dot not at all:
  for a file with no attribute but `archive` (0x20, a space) and an extension
  the last letter lands behind the buffer (`Overruns`);
- the loop over these letters (`FAT.cpp:51-53`), which goes on as long as memory
  is not zero and changes capitals on its way;
- the terminator of `split` (`String.cpp:149`), a zero one byte behind its last
  buffer, for every path.

What lies there is the `next` link of the chunk that follows, or bytes that
`malloc` left over. With `clean`, the first may do damage and the other two
change nothing; without it, each of them may (`Breaks`, `SplitBreaks`). Whether it
does is nondeterministic: `Wild` is a step the model may take there. It leads to
a state that nothing leaves, so later calls too happen on an intact heap, and
nothing is claimed of a damaged one. `WildExplained` therefore says what does the
damage in a call that finds zeros behind its strings, and no more: where there
are none, no call is safe.

What the disk says is defined independently of the code: `Listing` and `Bytes`
follow the allocation table and lay a chain's sectors end to end, `Places`
resolves a path one name at a time. `VolumeAssumption` says what it means that
the volume is as it was formatted. `Plain` excludes the calls for which the
code is known to differ (listed above), `Trusted` those hit by a fault or by
memory that is not clean. A fault in an *earlier* call is not excluded: the
driver has to recover from it.

### Terminal and Log

`at` is where a writer is inside `putChar`, `reg` the value it has loaded:
`x++` and `y++` are a load and a store, and so are the computations of the cell
and of the cursor's position; the tests of column and row are steps of their own
(`Goto`). `Switch` gives the processor to the other thread,
`MaxSwitches` times. The copy loop of `scroll` is one step, since the screen is
compared only without a race, and stores behind the last row are dropped. Two
history variables tell what happened: `raced` (some `putChar` was interrupted)
and `alone` (the last one was not). The drawing of the whole `history` is the
reference: `Typed` breaks it into lines, `Visible` are the last ones.

A torn `putChar` may lose the character it puts, and leaves the cursor anywhere
for a while. No property says otherwise: `ShowsText` is about text written
without a race, `CursorFollows` about the first `putChar` after one.

A call of `log` or `printf` is the sequence of its effects (`Program`):
characters, colors, and for `%d` the stores of `intToString` into its static
buffer `ret` and the reads of it. Digits are counted on the number as an `int`
(`Magnitude`), so from `U32 / 2` on fewer characters may be printed than there
are digits, and for numbers near `U32` the first ones are stored in front of the
buffer; `foreign` says that another writer came in between. `printf` formats are
letters only: its `%d` differs from log's, and nothing in the kernel calls it.

### Vector, List and Strings

`dataPtr` is the allocated array, as long as the code allocates it, and `Junk` an
element nothing was stored in; `m_capacity` is what the vector believes. An
access outside the array, or an array of negative length, ends the model with
the name of the operation in `wild`. `remove` allocates the smaller array and
keeps the capacity, so the next `pushBack` writes behind it. `popFront` counts the
size down and then copies `m_size - 1` elements: the last one is lost, `Junk` is in
its place, and of a vector of one element it copies 2^32 bytes less one element.
`WildExplained` names these two and the vectors `popBack` made smaller than
empty. Of `remove` it says nothing: whether its range lies in the vector is up to
the caller, and the code does not check it.

`List` is what remains of a list: its `PopFront` is lossy like the code's, and
stated as such, so that `ImplementsList` can say that no *other* operation loses
an element, keeps one it should remove, or changes the order, `remove` and
`shrinkToFit` included, which copy everything. Nobody in the kernel calls
`popFront`.

`split` pushes one part per step; buffers are sequences with their terminator,
and the caller then uses the vector in any way. The terminator `split` stores
for the last part lies one byte behind its buffer (`String.cpp:149`); the part
is terminated nevertheless, because the terminator of the string was copied.

## Runs

| Run | Result | Bounds | Shows |
|---|---|---|---|
| `pmm` | holds | 2-byte frames, 8-bit words and counters, three memory maps, requests of 1 or 2 frames | no order of calls gives a frame away twice or loses it; the counter is conservative although blocks are counted twice at boot |
| `pmm_size` | violated | same | bytes taken for kilobytes (`PMM.cpp:10`) |
| `vmm` | holds | 5 directory entries of 3 pages, 2 heap pages, 3 others, 5 or 8 frames | the books of both managers agree after every call, also when memory runs out in the middle; the address space is the abstract one |
| `heap` | holds | heap told to be 13 units of which 8 are mapped, requests of 0, 2 and 63 (which wraps the guard) | tiling, disjoint live blocks, no wild pointer until relinking |
| `heap_oom` | violated | told 40 units | "Out of memory" with one small block in use |
| `heap_fault` | violated | told 40 units | writes behind the mapped memory instead of the panic |
| `scheduler` | holds | three threads, one instruction each, a switch at every second tick, 2-bit tick counter, lines 0 and 14 | registers, bounded waiting, progress, the handler's return, no request forgotten, and what can lead to a wild pointer |
| `scheduler_removed` | violated | same | "Removing thread" leaves it in the vector |
| `fat` | holds | sectors of 4 bytes, clusters of 3 sectors, 17 calls on a volume of 8 clusters, 1 fault | answers, bytes, sectors read, and that every call returns |
| `fat_dir` | violated | same | a directory of two clusters is not read to its end (`FAT.cpp:110`) |
| `terminal` | holds | screen of 3 by 2, two threads with 6 characters each, 3 switches, numbers to base 2 below 8 | the text on the screen, cursor and color after a race, the digits of a number |
| `strings` | holds | strings of up to 3 characters, vectors of up to 4 elements, one `popBack` too many | `split` against its definition, `Vector` against `List`, what leaves the array |

Why the bounds are enough. PMM: the memory maps have a usable region below and
one above the hole, usable neighbours that share a frame, and a size that wraps
the multiplication; the word is small enough that a request for two frames
crosses the tested bits. VMM: the heap shares its table with a page requested
later, other pages share one table and need a second one, and there are too few frames for all. Heap:
requests that could fit are far smaller than the gap between the size the heap
is told and the memory that is mapped, as `LiveMapped` needs and every request
of the kernel is; the life time budget (`usedMemory` never decreases) ends every behaviour, so
the state space is finite without an artificial bound; three blocks fit, enough
to merge backward, forward, and with a chunk behind. Scheduler: three threads
let one be stopped while another waits; `MaxWork` bounds the instructions of a
thread, `MaxWaited` the history variable that counts how long it waits; line 14
is behind the cascade, so both controllers have to be told. FAT: a file of two
clusters that ends inside a sector, a directory of two clusters and one that
ends in its second sector, names of every kind the conversion treats
differently, and calls for the file's size, for 3 bytes (an odd count that
leaves part of a sector in the drive) and for more than there is; the fault
(`MaxFaults`) may hit any command, at boot too, where it replaces the volume's
parameters by others. Terminal: six characters fill the screen of two lines, so
lines are full, end, and scroll; `MaxSwitches` = 3 lets each thread be
interrupted once and finish; one number is negative as an `int`, one is not.
Strings: every string of up to three characters, with empty parts at both ends
and in the middle; four elements are enough for `remove` to leave elements on
both sides of a range. `MaxLength`, `MaxSize` and `MaxBelow` bound the string,
the vector and how far `popBack` goes below empty.

Deadlock is not checked: a panic, a fault and a wild pointer are end states of
the kernel.

Fairness. Scheduler: `WF_vars(Request(Timer))` and `WF_vars(Tick)`, the timer is
a device that never stops and the processor takes its interrupts;
`WF_vars(Handler)`, the processor goes on executing the handler;
`SF_vars(Unhandled(irq))`, another line gets its turn between two ticks, since
the timer is far slower than its handler. Nothing is assumed of `kmain`, the
threads or the disk's line. `EveryThreadRuns` excepts behaviours in which the
kernel follows a wild pointer or deletes a thread twice; `HandlerReturns` holds
without that exception as long as a thread is left; `Acknowledged` excepts wild
pointers and the endless loop over a vector of stopped threads. FAT:
`WF_vars(Kernel)`, the processor goes on, and `WF_vars(Answer ...)`, a drive that
is busy gets done; without the second the polling loop never ends, as it has no
timeout. Nobody has to make a call. The chains of the disk end; one with a
cycle would be followed for ever. Terminal and Strings have no liveness
properties.

## Proofs

`PMM_proofs` proves for every memory map and every size of frame, word and
counter: type correctness, `NoFrameGivenTwice`, `ProtectedNeverGiven`,
`NoFrameLost`, `FreeCountConservative`. The invariant `Inv` has to follow the
boot stage by stage (what is reserved in `low`, `kernel` and `running`), and
adds that a held frame's bit is set, which makes `NoFrameGivenTwice` inductive.
`CountInv` counts: in the loop over the memory map the counter of free frames
lies between the number of frames released so far and that number plus the
entries that offered a frame again (`Again`, each at most one, its first);
behind it the two reservations take off more than is free twice, because the
hole below 1 MB was never counted as free; and from then on the counter and the
holders (`Held`, a frame with two holders counts twice) together never exceed
what was free after boot. With `NoFrameLost`, every bit that is set in that
memory has a holder, so at least as many are clear as the counter says.

Assumed of the constants (and evaluated by TLC in `pmm`): sizes are positive; a
region of the memory map ends below the 32-bit limit; the region `kmain`
reserves for the kernel covers image and bitmap. The last is no triviality:
`kmain` passes an address as the size, and the assumption holds because that
address is above 1 MB. `FreeCountConservative` alone needs `MemoryAssumption`:
usable regions come in order and do not overlap by more than the extra block of
each; the frames offered twice are no more than the frames of the hole below
1 MB; what `kmain` reserves is less than what there is; and the memory falls
short of the 4 GB that would wrap the counter.

`VMM_proofs` proves the same of the composition, for any directory, tables and
pages: `VMMTypeOK`, `FramesAccounted`, `TablesUnreachable`,
`HeapSupervisorOnly`, and that every step is a step of `AddressSpace` or a
stutter. It takes over the invariant of `PMM_proofs` and adds that no frame is
used twice (`TablesInv`), that the frames held are those in use (`UsedInv`),
what the entry between `getPageForAddress` and `allocPage` may be
(`PendingInv`), and how far the constructor is. `FramesAccounted` counts, the
invariant does not: where no frame is used twice the counts are 0 or 1.
Frame 0 is never handed out, without which `freePage`, which keeps a frame
numbered 0, would leak. Assumed in addition: the heap is a range of pages, and no
page shares its directory entry with the kernel, the directory itself or the
identity mapping. That `maxBlocks` does not exceed the frames there are is
proved (`MaxBlocksFrame`), for any lengths in the memory map and any overflow
of their sum.

`Heap_proofs` proves for every start, size and header size, and any requests
that do not wrap an address: type correctness, `Tiling`, `LiveDisjoint`,
`NoWildAccess`, `LiveMapped`. The invariant adds that the cursor of a search is a chunk of
the list and that blocks with the same address are the same block. The work is
in three lemmas: splitting a chunk keeps a tiling, absorbing a successor keeps
a tiling (`AbsorbTiles`), and the merged list of `free` is one of these twice
(`MergedTiles`). Assumed: the header fits the mapped heap, the mapped heap fits
the size, sizes fit a u32, and a request either does not make an address wrap
or is larger than the heap. `LiveMapped` needs more of the requests: that each
is smaller than the gap between the size the heap is told and what is mapped, or
larger than the heap. The gap is two thirds of the heap (`main.cpp:81`), and
`heap_fault` shows what happens otherwise.

`Strings_proofs` proves first of a vector and a caller that calls its operations
in any order (`VectorSpec`), for every set of elements: that the size stays
within the array, whose cells hold elements or `Junk`, `WildExplained`, and
`ImplementsList`, against the list with the lossy `PopFront`. The first two are one
inductive invariant; the refinement needs it, for a store is an append only if
it falls into the array. It then proves all four properties of `Strings`, for
every set of characters, every delimiter and strings of every length. While
`split` runs, the vector holds the parts up to the delimiter it has come to
(its invariant counts delimiters: the `n`-th is the position with `n` of them
in front, `Rank`); what `Joined` makes of these parts is the string up to that
delimiter, by `FoldSolved`, and the part behind the last delimiter completes
it. `SplitRight` is about the parts `split` returned; the vector's invariant
goes on for the caller. `CallerStrays` adds to `WildExplained` that nothing
leaves the arrays while `split` runs. Assumed: the bounds are natural numbers, the delimiter
is a character and the terminator is none, and elements include the buffers
`split` makes.

`Scheduler_proofs` proves for any number of threads, any frequency and any
width of the counter: type correctness, `BoundedWait`, `WildExplained`, and
that every step of the scheduler is a step of `VirtualCpus` or a stutter
(`ImplementsCpus`). The invariant has three parts. `VectorInv` says what the
handler finds in the vector at every statement of `kmain` a tick may interrupt,
and that the vector has room for every thread. `SwitchInv` says that
`currentThreadNumber`, the thread being switched to and the saved registers
agree. `WaitInv` is what makes `BoundedWait` inductive: nobody has waited longer
than the distance the round has come since its last turn. Assumed: there are
finitely many threads, `kmain` and garbage are not among them, the frequency is
a u32, stack tops are numbers.

`FAT_proofs` goes from the data port to the caller of `readFile`. First the
driver, under a caller that calls `identify` and `read28` in any order
(`ATASpec`): for every sector of an even number of bytes and any number of
faults, `SectorDelivered` and the types. The invariant `DriverInv` says that in a
read nothing disturbed the drive is always at the word the driver fetches next,
also when a fault left an earlier call in the middle of a sector. Then the
kernel as one such caller (`StepCalls`: every step of the stack is a driver step
or leaves the driver alone), for every disk, every size of sector, cluster and
allocation table, and any calls in any order:

- `TypeOK`, from `FATInv`: the driver's invariant, the types, and what the driver
  was asked for in each phase. It holds also when the parameter block or the
  entries were read from garbage, so no sector number, cluster or size the code
  computes leaves its type.
- `AnswersRight`, `BytesRight`, and `WildExplained` (for calls that find zeros
  behind their strings, which is assumed and not proved), from `FollowInv`. For a call that
  is `Trusted` and `Plain` it says where the walk is (`Reached(k)`: after `k`
  names, the cluster is the one of the place the first `k` names lead to), how
  much of the directory is listed (`Collecting`: the entries of its first `i`
  sectors), and what is copied (`CopiedFrom(q)`: the first `q` sectors of the
  file, as far as the size asked for goes). The lemmas it rests on are about the
  disk and not about steps: `ReadSucceeds` (the sector asked for is in range, so
  the driver delivers it), `ChainFacts` (a chain ends and is what following
  `Link` gives), `LBAIsFirstSector` (no sum wraps on a volume that fits its
  disk), `CollectedConcat` (entries of two sectors in a row, the first without
  an end mark), `FoundIsChild` (the search by converted name finds the entry
  the path names) and `SectorOfFile` (which sector of the chain comes `q`-th).
- `ReadsInside`, from the same invariant, for plain calls. For others TLC checks
  it on the instance: a file on the path has its bytes taken for entries, and
  with the right bytes they lead anywhere.

Assumed, and evaluated by TLC in `fat`: what a sector holds has the types of the
structures it is cast to, garbage is as long as any parameter block claims, names are sequences of characters
(`FATAssumption`); and the volume was formatted (`VolumeAssumption`): it fits the
disk, no cluster is marked bad, chains end, entries of the directories on paths
lie in the volume, and a name on a path stands once in its directory.

`Log_proofs` proves all five properties of `Log`, for every size of the screen,
every base and width of numbers, any number of writers, and all calls of `log`
and `printf`. `TypeInv` adds to the types that what a writer holds before it
adds the column is at most the first cell of the last row. A program is a
concatenation over formats and calls, so what the other proofs need of it
(`WellFormed`: a color is set between the bracket and the text of a tag and
taken back behind it; digits are stored and read only where a number is printed
as a whole) is shown of its pieces and kept by `\o` and `FlattenSeq`.
`ColorRestored` follows from an invariant that names a culprit: while the color
is not light grey, some writer has just set it or is about to take it back.
`NumberShown` follows from `NumberInv`: of the number a writer is printing
everything stored so far is still in the buffer. `CursorFollows` follows the
position through the registers (`CursorAt`), with the lemma that two bytes are
enough for it. `ShowsText` is a refinement in disguise: `Stage` says for every
statement of `putChar` which lines the screen shows and how the text typed so
far (`Typed`) differs from them, and `StoreWritten`, `NextSettled`,
`NextScrolled` are its three steps that change the picture. Assumed: the screen
is smaller than 256 by 256, the base is at least 2, the terminator is no digit,
formats consist of characters and numbers below `U32`.

`DataInduction` makes recursion over data provable. The library's induction
theorems take a predicate, which the installed provers cannot instantiate;
stated about a *set* of numbers, induction follows from the theorem that there
is a least element (`WFMin`). From it come the existence and the uniqueness of
what `DigitsOf`, `FlattenSeq`, `FoldLeft` and the sum of `MemorySize` compute, and
what laying sequences end to end does: it distributes over `\o`
(`FlattenConcat`), may be cut behind any piece (`FlattenSplit`), and a position in
pieces of equal length is found by dividing (`FlattenEqual`).

Only model-checked: `ReadsInside` for calls whose path is not plain, the
deadlines of `Interrupts`, and all liveness (`CallsReturn` and `Scheduler`'s
properties), which is beyond the proof system.

## What the code does that no property is about

- `freePage` flushes no TLB, and `allocPage` keeps the user and write bits an
  entry had before. Nothing calls `freePage` today.
- `mapPage` stores a byte address in a 20-bit frame number and uses a null
  directory; `createAddressSpace` clears a physical address; `alignedMalloc`
  writes through a null pointer by default. None has a caller.
- `setTSS` cuts the stack pointer to 16 bits (`esp0` in `Scheduler`); the TSS is
  not consulted as long as threads run in ring 0.
- The timer handler allocates and frees (its log message, `delete`) while it
  may have interrupted `malloc`.
- A panic is an endless loop with interrupts enabled: threads go on after it.
- log's `%x` prints as many characters of the hexadecimal string as the number
  has decimal digits, which for numbers of a million and more reads behind it.
- `popFront` loses the last element and strays on the only one (`Vector.hpp:69`);
  part of `Vector`, but no comment says what it should do, and nobody calls it.
- `printf`'s `%d` counts the minus sign as a digit and prints one character too
  many for a negative number.
- `getEntries` and `getEntry` release neither the entries nor, at the end mark,
  the sector's buffer, on a heap whose life time budget is limited.
- A path without a leading slash loses its first character in `getEntry`.

## Not modelled

VFS (default implementations that return nothing) and ELF (declarations)
contain no behaviour; port I/O and the library headers wrap single
instructions, types and macros. The gates of the descriptor table and the
segment descriptors are written once by straight-line code; of the exceptions,
all end in a panic, which every module has as an end state. `printk` goes through its format as `log` does
and writes to the serial port without keeping state; `%x`, `printf`'s `%d`, `hexdump`,
`intToHex`, `memset` and `strcmp` are left out, as are `Terminal::write`,
`alignedMalloc`, `mapPage` and `createAddressSpace`, which have no caller. The
switch to paging in the loader and the TLB are below the level of the model.
Threads that call `malloc` while another is in it are not modelled; `Heap`
takes one call at a time.

## Plan

Done: all modules above and the proofs of `PMM`, `VMM`, `Heap`, `Strings`,
`Scheduler`, `ATA`, `FAT` and `Log`. Left: a heap whose calls interrupt each
other, composed with the timer handler.
