-------------------------------- MODULE PMM --------------------------------
(***************************************************************************)
(* The physical memory manager: a bitmap with one bit per page frame and a *)
(* counter of the frames in use, set up by kmain from the memory map the   *)
(* boot loader hands over, then used to hand out and take back frames.     *)
(*                                                                         *)
(* Addresses and sizes are bytes, as in the code; the sizes that the code  *)
(* writes as literals (a frame, a word of the bitmap, a KB, the range of   *)
(* u32) are constants, so that a small instance keeps every rounding.      *)
(***************************************************************************)
EXTENDS Integers, FiniteSets, Sequences

CONSTANTS
  BlockSize,      \* BLOCK_SIZE, the bytes of a frame
  BlocksPerByte,  \* BLOCKS_PER_BYTE, the bits of a byte of the bitmap
  WordBits,       \* the bits of a u32 of the bitmap
  U32,            \* the number of u32 values: counters are taken modulo it
  KB,             \* the 1024 by which the constructor multiplies its argument
  LowMemory,      \* the 1 MB kmain reserves at address 0
  KernelStart,    \* physical address of the linker's kernelStart
  KernelEnd,      \* physical address of the linker's kernelEnd
  KernelSizeAddr, \* physical address of kmain's local variable kernelSize
  MemoryMaps,     \* the memory maps a boot loader may hand over
  Counts          \* the counts allocBlocks may be called with

VARIABLES
  mmap,        \* the multiboot memory map of this boot
  phase,       \* where kmain is: see Phase
  entry,       \* the next entry of mmap the second loop of kmain visits
  memoryMap,   \* the bitmap: the set of the frames whose bit is 1
  maxBlocks,   \* the number of frames the bitmap is meant to cover
  usedBlocks,  \* the counter of frames in use
  owned,       \* history: how many times each frame is handed out and not freed
  multi        \* history: a request for more than one frame was served

pmmVars == <<mmap, phase, entry, memoryMap, maxBlocks, usedBlocks, owned, multi>>

Phase == {"construct", "regions", "low", "kernel", "running", "panic"}

(* Every frame a 32-bit physical address can lie in. *)
Frame == 0 .. (U32 \div BlockSize)

(* The block numbers setRegionFree and setRegionUsed visit: their loops run *)
(* while blocks >= 0, one block more than the region's size divides into.   *)
Blocks(start, size) ==
  (start \div BlockSize) .. (start \div BlockSize + size \div BlockSize)

(* An entry of the memory map. *)
Region == [addr : Nat, len : Nat, type : {"available", "reserved", "reclaimable"}]

(* kmain hands the regions of these types to the allocator. *)
Usable(region) == region.type \in {"available", "reclaimable"}

(* memorySize of kmain: the lengths of all entries, whatever their type. *)
MemorySize(map) ==
  LET sum[i \in 0 .. Len(map)] ==
        IF i = 0 THEN 0 ELSE (sum[i - 1] + map[i].len) % U32
  IN  sum[Len(map)]

(* maxBlocks of the constructor, which takes memorySize to be in KB. *)
MaxBlocks(map) == ((MemorySize(map) * KB) % U32) \div BlockSize

(* What the kernel occupies: its image, and the bitmap that kmain places   *)
(* one page after the image.                                               *)
KernelFrames(map) ==
  (KernelStart \div BlockSize) ..
    ((KernelEnd + BlockSize + MaxBlocks(map) \div BlocksPerByte) \div BlockSize)

LowFrames == 0 .. (LowMemory \div BlockSize - 1)

Protected == LowFrames \cup KernelFrames(mmap)

(* The bits firstFree looks at: whole words only. *)
Searchable == 0 .. ((maxBlocks \div WordBits) * WordBits - 1)

FreeBlocksCount == (maxBlocks - usedBlocks) % U32

-----------------------------------------------------------------------------
(* What is assumed of the constants. *)

ASSUME SizesAssumption ==
  /\ {BlockSize, BlocksPerByte, WordBits, U32, KB} \subseteq Nat \ {0}
  /\ {LowMemory, KernelStart, KernelEnd, KernelSizeAddr} \subseteq Nat
  /\ Counts \subseteq Nat

ASSUME MapsAssumption ==
  \A map \in MemoryMaps :
    /\ map \in Seq(Region)
    /\ \A i \in DOMAIN map : Blocks(map[i].addr, map[i].len) \subseteq Frame

(* The two regions kmain reserves cover low memory, the image and the      *)
(* bitmap.  The size it passes for the kernel is the address of a variable *)
(* on the boot stack, which lies inside the image: it is at least 1 MB.    *)
ASSUME ReservedAssumption ==
  /\ LowFrames \subseteq Blocks(0, LowMemory)
  /\ 0 \in Blocks(0, LowMemory)
  /\ Blocks(0, LowMemory) \cup Blocks(KernelStart, KernelSizeAddr) \subseteq Frame
  /\ \A map \in MemoryMaps : KernelFrames(map) \subseteq Blocks(KernelStart, KernelSizeAddr)

(* The frames that the first n entries of a map offer, and the entries     *)
(* that offer a frame again: each offers one block more than it is long.   *)
Offered(map, n) ==
  UNION {Blocks(map[i].addr, map[i].len) : i \in {j \in 1 .. n : Usable(map[j])}}
Again(map) ==
  {i \in DOMAIN map : /\ Usable(map[i])
                      /\ Blocks(map[i].addr, map[i].len) \cap Offered(map, i - 1) # {}}

(* The memory of a PC: the usable regions come in order, and the frames    *)
(* offered twice are no more than those in the hole below 1 MB, which      *)
(* kmain reserves and no region offers.  There is more memory than kmain   *)
(* reserves, and less than would overflow the counter.                     *)
ASSUME MemoryAssumption ==
  \A map \in MemoryMaps :
    LET offered == Offered(map, Len(map)) IN
    /\ \A i, j \in DOMAIN map : i < j /\ Usable(map[i]) /\ Usable(map[j]) =>
         map[i].addr + map[i].len <= map[j].addr
    /\ Cardinality(Again(map)) <= Cardinality(Blocks(0, LowMemory) \ offered)
    /\ Cardinality(Blocks(0, LowMemory)) + Cardinality(Blocks(KernelStart, KernelSizeAddr))
         <= Cardinality(offered)
    /\ Cardinality(offered) + Cardinality(Again(map)) < U32

-----------------------------------------------------------------------------
(* kmain sets the allocator up. *)

Init ==
  /\ mmap \in MemoryMaps
  /\ phase = "construct"
  /\ entry = 1
  /\ memoryMap = {}
  /\ maxBlocks = 0
  /\ usedBlocks = 0
  /\ owned = [f \in Frame |-> 0]
  /\ multi = FALSE

(* The constructor fills the bitmap: every frame starts out used.  It      *)
(* clears whole bytes only; bits past them are never read by firstFree().  *)
Construct ==
  /\ phase = "construct"
  /\ maxBlocks' = MaxBlocks(mmap)
  /\ usedBlocks' = MaxBlocks(mmap)
  /\ memoryMap' = 0 .. ((MaxBlocks(mmap) \div BlocksPerByte) * BlocksPerByte - 1)
  /\ phase' = "regions"
  /\ UNCHANGED <<mmap, entry, owned, multi>>

(* Variant for testing the properties: the counter is not taken modulo 2^32. *)
SetRegionFreeWide(start, size) ==
  /\ memoryMap' = (memoryMap \ Blocks(start, size)) \cup {0}
  /\ usedBlocks' = usedBlocks - (size \div BlockSize + 1)

(* setRegionFree: every block is counted, also one that was free already,  *)
(* and block 0 is marked used again without being counted.                 *)
SetRegionFree(start, size) ==
  /\ memoryMap' = (memoryMap \ Blocks(start, size)) \cup {0}
  /\ usedBlocks' = (usedBlocks - (size \div BlockSize + 1)) % U32

(* Variant: a region is marked used without being counted. *)
SetRegionUsedUncounted(start, size) ==
  /\ memoryMap' = memoryMap \cup Blocks(start, size)
  /\ usedBlocks' = usedBlocks

(* setRegionUsed: every block is counted, also one that was used already. *)
SetRegionUsed(start, size) ==
  /\ memoryMap' = memoryMap \cup Blocks(start, size)
  /\ usedBlocks' = (usedBlocks + size \div BlockSize + 1) % U32

(* One turn of the second loop of kmain over the memory map. *)
VisitRegion ==
  /\ phase = "regions"
  /\ entry <= Len(mmap)
  /\ IF Usable(mmap[entry])
       THEN SetRegionFree(mmap[entry].addr, mmap[entry].len)
       ELSE UNCHANGED <<memoryMap, usedBlocks>>
  /\ entry' = entry + 1
  /\ UNCHANGED <<mmap, phase, maxBlocks, owned, multi>>

RegionsDone ==
  /\ phase = "regions"
  /\ entry > Len(mmap)
  /\ phase' = "low"
  /\ UNCHANGED <<mmap, entry, memoryMap, maxBlocks, usedBlocks, owned, multi>>

ReserveLow ==
  /\ phase = "low"
  /\ SetRegionUsed(0, LowMemory)
  /\ phase' = "kernel"
  /\ UNCHANGED <<mmap, entry, maxBlocks, owned, multi>>

(* Variant: the kernel's size is passed where the code passes an address. *)
ReserveKernelImage ==
  /\ phase = "kernel"
  /\ SetRegionUsed(KernelStart, KernelEnd - KernelStart)
  /\ phase' = "running"
  /\ UNCHANGED <<mmap, entry, maxBlocks, owned, multi>>

ReserveKernel ==
  /\ phase = "kernel"
  /\ SetRegionUsed(KernelStart, KernelSizeAddr)
  /\ phase' = "running"
  /\ UNCHANGED <<mmap, entry, maxBlocks, owned, multi>>

Boot == Construct \/ VisitRegion \/ RegionsDone \/ ReserveLow \/ ReserveKernel

-----------------------------------------------------------------------------
(* Frames are handed out and taken back. *)

(* The first bit firstFree(size) tests for a candidate bit j of word i is  *)
(* i * 32 + (1 << j), not i * 32 + j.  For the top bit, 1 << 31 is         *)
(* negative, and the tested bit lies below the bitmap.                     *)
TestedBit(frame, k) ==
  (frame \div WordBits) * WordBits + 2 ^ (frame % WordBits) + k

InBitmap(frame, k) ==
  /\ frame % WordBits # WordBits - 1
  /\ TestedBit(frame, k) < (maxBlocks \div BlocksPerByte) * BlocksPerByte

(* firstFree(size) accepts a clear bit when size of the size + 1 bits it   *)
(* tests are clear; stray stands for what it reads outside the bitmap.     *)
Fits(frame, size, stray) ==
  /\ frame \notin memoryMap
  /\ \/ size = 1
     \/ /\ size > 1
        /\ Cardinality({k \in 0 .. size :
              IF InBitmap(frame, k) THEN TestedBit(frame, k) \notin memoryMap
                                    ELSE stray}) >= size

(* A bit far from the bitmap is in a page that is not mapped. *)
MayFault(frame, size) ==
  frame \notin memoryMap /\ size > 1 /\ \E k \in 0 .. size - 1 : ~InBitmap(frame, k)

Panic ==
  /\ phase' = "panic"
  /\ UNCHANGED <<mmap, entry, memoryMap, maxBlocks, usedBlocks, owned, multi>>

(* Variant: the last frame of a grant is not marked in the bitmap. *)
GrantShort(frame, count) ==
  /\ memoryMap' = memoryMap \cup (frame .. frame + count - 2)
  /\ usedBlocks' = (usedBlocks + count) % U32
  /\ owned' = [f \in Frame |-> IF f \in frame .. frame + count - 1
                                 THEN owned[f] + 1 ELSE owned[f]]
  /\ multi' = (multi \/ count > 1)
  /\ UNCHANGED <<mmap, phase, entry, maxBlocks>>

Grant(frame, count) ==
  /\ memoryMap' = memoryMap \cup (frame .. frame + count - 1)
  /\ usedBlocks' = (usedBlocks + count) % U32
  /\ owned' = [f \in Frame |-> IF f \in frame .. frame + count - 1
                                 THEN owned[f] + 1 ELSE owned[f]]
  /\ multi' = (multi \/ count > 1)
  /\ UNCHANGED <<mmap, phase, entry, maxBlocks>>

(* allocBlocks: the counter is asked first, then the bitmap; both answers  *)
(* can end in KPANIC("Out of memory"), from which the kernel never returns, *)
(* and so does a page fault.  The search comes to the frames in order, up  *)
(* to the first that fits whatever is read outside the bitmap.             *)
AllocBlocks(count) ==
  LET sure == {f \in Searchable : Fits(f, count, FALSE)}
      reached == {f \in Searchable : \A g \in sure : f <= g}
  IN /\ phase = "running"
     /\ \/ (FreeBlocksCount <= count \/ sure = {}) /\ Panic
        \/ FreeBlocksCount > count /\ (\E f \in reached : MayFault(f, count)) /\ Panic
        \/ /\ FreeBlocksCount > count
           /\ \E f \in reached : Fits(f, count, TRUE) /\ Grant(f, count)

(* allocBlock, the only entry the virtual memory manager uses. *)
AllocBlock == AllocBlocks(1)

(* Variant: the counter is corrected, the bitmap is not. *)
FreeBlockCountOnly(frame) ==
  /\ phase = "running"
  /\ owned[frame] > 0
  /\ usedBlocks' = (usedBlocks - 1) % U32
  /\ owned' = [owned EXCEPT ![frame] = @ - 1]
  /\ UNCHANGED <<mmap, phase, entry, memoryMap, maxBlocks, multi>>

(* freeBlock: a holder of a frame gives it back. *)
FreeBlock(frame) ==
  /\ phase = "running"
  /\ owned[frame] > 0
  /\ memoryMap' = memoryMap \ {frame}
  /\ usedBlocks' = (usedBlocks - 1) % U32
  /\ owned' = [owned EXCEPT ![frame] = @ - 1]
  /\ UNCHANGED <<mmap, phase, entry, maxBlocks, multi>>

Next ==
  \/ Boot
  \/ \E count \in Counts : AllocBlocks(count)
  \/ \E frame \in Frame : FreeBlock(frame)

Spec == Init /\ [][Next]_pmmVars

-----------------------------------------------------------------------------
(* Properties. *)

(* Every variable keeps its type: in particular the counter of used frames *)
(* stays a u32 although kmain frees and reserves blocks twice.             *)
TypeOK ==
  /\ mmap \in MemoryMaps
  /\ phase \in Phase
  /\ entry \in 1 .. Len(mmap) + 1
  /\ memoryMap \subseteq Nat
  /\ maxBlocks \in 0 .. U32 - 1
  /\ usedBlocks \in 0 .. U32 - 1
  /\ owned \in [Frame -> Nat]
  /\ multi \in BOOLEAN

(* As long as frames are asked for one at a time (allocBlock, the only      *)
(* request of the kernel today), no frame has two holders, whatever the     *)
(* order of allocations and frees: bitmap, counter and holders agree.       *)
NoFrameGivenTwice == ~multi => \A f \in Frame : owned[f] <= 1

(* The first megabyte, the kernel image and the bitmap itself are never     *)
(* handed out by allocBlock, although kmain frees the region they lie in    *)
(* and reserves the kernel with an address where a size is expected.        *)
ProtectedNeverGiven == ~multi => \A f \in Protected : owned[f] = 0

(* The frames some usable region of the memory map made free. *)
Released == UNION {Blocks(mmap[i].addr, mmap[i].len) :
                     i \in {j \in DOMAIN mmap : Usable(mmap[j])}}

(* No frame is lost: once the kernel runs, a frame the memory map offers    *)
(* and kmain did not reserve is either held by a caller or found by         *)
(* firstFree, also after requests for several frames that overlap.          *)
NoFrameLost ==
  phase = "running" =>
    \A f \in Released \ (Blocks(0, LowMemory) \cup Blocks(KernelStart, KernelSizeAddr)) :
      f \in memoryMap => owned[f] > 0

(* The counter never promises more frames than the bitmap can deliver, so   *)
(* allocBlock panics on the counter before firstFree comes back with -1.    *)
(* The counter counts blocks twice at boot; what it counts as used without  *)
(* being free (the hole below 1 MB) outweighs what it counts as free twice. *)
FreeCountConservative ==
  phase = "running" /\ Released \subseteq Searchable =>
    FreeBlocksCount <= Cardinality(Searchable \ memoryMap)

(* What main.cpp:58 logs, "Initializing physical memory manager with %dMB   *)
(* memory size", memorySize being in bytes: the allocator manages no more   *)
(* memory than kmain detected.                                              *)
ManagesDetectedMemory == maxBlocks * BlockSize <= MemorySize(mmap)

=============================================================================
