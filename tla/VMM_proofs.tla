----------------------------- MODULE VMM_proofs -----------------------------
(***************************************************************************)
(* What the two memory managers guarantee together, for every memory map,  *)
(* every size of frame and table and every choice of pages: their books    *)
(* agree, page tables and the kernel stay out of reach, and the address    *)
(* space is the abstract one.                                              *)
(***************************************************************************)
EXTENDS VMM, PMM_proofs, FiniteSetTheorems

(* The allocator as this manager uses it: one frame at a time, and frame 0 *)
(* is never handed out, which freePage relies on.                          *)
AllocInv ==
  /\ Inv
  /\ ~multi
  /\ maxBlocks \in Frame
  /\ owned[0] = 0
  /\ phase \in {"running", "panic"} => 0 \in memoryMap

(* The frames the page tables use. *)
MappedPages == {p \in Page : Mapped(p)}
UsedFrames == TableFrames \cup {VirtualToPhysical(p) : p \in MappedPages}

(* No frame is used twice. *)
TablesInv ==
  /\ \A d \in Dir \ {0, KernelDir, SelfDir} :
       ~directory[d].large /\ (directory[d].present => directory[d].write)
  /\ 0 \notin TableDirs
  /\ \A d, e \in TableDirs : directory[d].frame = directory[e].frame => d = e
  /\ \A p, q \in MappedPages : VirtualToPhysical(p) = VirtualToPhysical(q) => p = q
  /\ \A p \in MappedPages : VirtualToPhysical(p) \notin TableFrames

(* The two managers agree on the frames in use. *)
UsedInv == \A f \in Frame : owned[f] > 0 <=> f \in UsedFrames

(* An entry that waits to be filled is that of a page with a table. *)
PendingInv ==
  pte # NoEntry =>
    /\ stage # "boot"
    /\ \E p \in Page : /\ HasTable(p) /\ pte = FoundEntry(p) /\ ~EntryOf(p).present
                       /\ stage = "heap" => p = next

FirstHeapPage == CHOOSE p \in HeapPages : \A q \in HeapPages : p <= q

(* How far the constructor is. *)
StageInv ==
  /\ phase \notin {"running", "panic"} => stage = "boot"
  /\ stage = "boot" => /\ pte = NoEntry /\ next = FirstHeapPage
                       /\ \A d \in Dir : directory[d].present => directory[d].large
  /\ stage # "ready" => \A d \in Dir : ~directory[d].user

(* A page of the heap that is set up: only its directory entry protects it. *)
SetUp(p) == KernelMayWrite(p) /\ ~directory[DirOf(p)].user

HeapInv ==
  /\ stage = "heap" => /\ FirstHeapPage <= next
                       /\ \A p \in HeapPages : IF p < next THEN SetUp(p) ELSE ~Mapped(p)
  /\ stage = "ready" => \A p \in HeapPages : SetUp(p)

VMMInv ==
  /\ AllocInv /\ VMMTypeOK /\ TablesInv /\ UsedInv /\ PendingInv /\ StageInv /\ HeapInv

-----------------------------------------------------------------------------
(* Numbers. *)

LEMMA PageFacts ==
  /\ Page \subseteq Nat
  /\ HeapPages \subseteq Page
  /\ OtherPages \subseteq Page
  /\ HeapPages \cap OtherPages = {}
  /\ \A p \in Page : DirOf(p) \in Dir \ {0, KernelDir, SelfDir} /\ IndexOf(p) \in Index
<1>1. Page \subseteq Nat
  BY RangesAssumption DEF Page
<1>2. \A p \in Page : IndexOf(p) \in Index
  <2> SUFFICES ASSUME NEW p \in Page PROVE IndexOf(p) \in Index
    OBVIOUS
  <2>1. p \in Int /\ PagesPerTable \in Nat \ {0}
    BY <1>1, PagesAssumption
  <2>2. p % PagesPerTable \in 0 .. PagesPerTable - 1
    BY <2>1, ModRange
  <2> QED
    BY <2>2 DEF IndexOf, Index
<1> QED
  BY <1>1, <1>2, PagesAssumption DEF Page

LEMMA HeapRange ==
  /\ FirstHeapPage \in HeapPages
  /\ FirstHeapPage \in Nat
  /\ \A p \in HeapPages : FirstHeapPage <= p
  /\ \A n \in Nat : FirstHeapPage <= n /\ n \notin HeapPages => \A p \in HeapPages : p < n
<1>1. PICK first, last \in HeapPages : HeapPages = first .. last
  BY RangesAssumption
<1>2. HeapPages \subseteq Nat /\ \A q \in HeapPages : first <= q
  BY <1>1, PageFacts
<1>3. FirstHeapPage \in HeapPages /\ \A q \in HeapPages : FirstHeapPage <= q
  BY <1>2 DEF FirstHeapPage
<1> QED
  BY <1>1, <1>2, <1>3

(* Directory and table index determine the page. *)
LEMMA Coordinates ==
  ASSUME NEW p \in Page, NEW q \in Page, DirOf(p) = DirOf(q), IndexOf(p) = IndexOf(q)
  PROVE  p = q
<1>1. \A x \in Nat, m \in Nat \ {0} : x = m * (x \div m) + (x % m)
  OBVIOUS
<1>2. PagesPerTable \in Nat \ {0} /\ p \in Nat /\ q \in Nat
  BY PageFacts, PagesAssumption
<1>3. p \div PagesPerTable = q \div PagesPerTable /\ p % PagesPerTable = q % PagesPerTable
  BY DEF DirOf, IndexOf
<1> QED
  BY <1>1, <1>2, <1>3

LEMMA FrameFacts == Frame \subseteq Nat /\ 0 \in Frame
BY SizesAssumption DEF Frame

(* firstFree looks only at bits of frames there are. *)
LEMMA SearchableFrames ==
  ASSUME maxBlocks \in Frame PROVE Searchable \subseteq Frame
<1>1. \A x \in Nat, m \in Nat \ {0} : (x \div m) * m <= x /\ (x \div m) * m \in Nat
  OBVIOUS
<1>2. maxBlocks \in Nat /\ WordBits \in Nat \ {0} /\ U32 \div BlockSize \in Nat
  BY FrameNat, SizesAssumption
<1>3. (maxBlocks \div WordBits) * WordBits <= maxBlocks
  BY <1>1, <1>2
<1>4. (maxBlocks \div WordBits) * WordBits \in Nat /\ maxBlocks <= U32 \div BlockSize
  BY <1>1, <1>2 DEF Frame
<1> QED
  BY <1>2, <1>3, <1>4 DEF Searchable, Frame

-----------------------------------------------------------------------------
(* The allocator. *)

LEMMA AllocInit == Init => AllocInv
<1> SUFFICES ASSUME Init PROVE AllocInv
  OBVIOUS
<1>1. Inv
  BY InitInv
<1>2. maxBlocks \in Frame /\ owned[0] = 0 /\ ~multi
  BY FrameFacts DEF Init
<1> QED
  BY <1>1, <1>2 DEF AllocInv, Init

LEMMA AllocBoot ==
  ASSUME AllocInv, Boot
  PROVE  AllocInv' /\ owned' = owned /\ phase \notin {"running", "panic"} /\ phase' # "panic"
<1>1. Inv' /\ Inv
  BY BootKeepsInv DEF AllocInv
<1>2. /\ owned' = owned /\ multi' = multi /\ mmap \in MemoryMaps
      /\ phase \notin {"running", "panic"} /\ phase' # "panic"
  BY <1>1 DEF Boot, Construct, VisitRegion, RegionsDone, ReserveLow, ReserveKernel, Inv, TypeOK
<1>3. maxBlocks' \in Frame
  BY <1>2, MaxBlocksFrame DEF AllocInv, Boot, Construct, VisitRegion, RegionsDone,
                                ReserveLow, ReserveKernel
<1>4. phase' = "running" => 0 \in memoryMap'
  <2>1. SUFFICES ASSUME phase' = "running" PROVE 0 \in memoryMap'
    OBVIOUS
  <2>2. phase = "kernel" /\ memoryMap \subseteq memoryMap'
    BY <2>1, <1>2 DEF Boot, Construct, VisitRegion, RegionsDone, ReserveLow, ReserveKernel,
                      SetRegionUsed
  <2>3. 0 \in memoryMap
    BY <1>1, <1>2, <2>2, ReservedCover DEF Inv, BitmapInv
  <2> QED
    BY <2>2, <2>3
<1> QED
  BY <1>1, <1>2, <1>3, <1>4 DEF AllocInv

(* allocBlock hands out a frame nobody holds. *)
LEMMA TakesFresh ==
  ASSUME AllocInv, TakeFrame
  PROVE  /\ AllocInv'
         /\ TakenFrame \in Frame \ (Protected \cup {0})
         /\ owned[TakenFrame] = 0
         /\ owned' = [owned EXCEPT ![TakenFrame] = 1]
         /\ phase = "running" /\ mmap' = mmap
<1>1. Inv /\ AllocBlocks(1) /\ phase' = "running" /\ phase = "running" /\ ~multi
  BY DEF AllocInv, TakeFrame, AllocBlock, AllocBlocks
<1>2. Inv'
  BY <1>1, AllocKeepsInv
<1>3. PICK f \in Searchable : f \notin memoryMap /\ Grant(f, 1)
  BY <1>1 DEF AllocBlocks, Panic, Fits
<1>4. f \in Frame /\ f \in Nat
  BY <1>3, SearchableFrames, FrameFacts DEF AllocInv
<1>5. /\ owned' = [g \in Frame |-> IF g \in f .. f + 1 - 1 THEN owned[g] + 1 ELSE owned[g]]
      /\ memoryMap' = memoryMap \cup (f .. f + 1 - 1)
      /\ multi' = multi
      /\ UNCHANGED <<mmap, phase, maxBlocks>>
  BY <1>1, <1>3 DEF Grant, Inv, TypeOK
<1>6. f .. f + 1 - 1 = {f}
  BY <1>4
<1>7. owned \in [Frame -> Nat] /\ Protected \subseteq memoryMap
  BY <1>1 DEF Inv, TypeOK, BitmapInv
<1>8. owned[f] = 0 /\ f \notin Protected
  BY <1>1, <1>3, <1>4, <1>7 DEF Inv, HeldInv
<1>9. owned' = [owned EXCEPT ![f] = 1]
  <2>1. owned' = [g \in Frame |-> IF g \in {f} THEN owned[g] + 1 ELSE owned[g]]
    BY <1>5, <1>6, Zenon
  <2>2. \A g \in Frame : owned'[g] = IF g = f THEN 1 ELSE owned[g]
    BY <1>8, <2>1
  <2>3. owned' = [g \in Frame |-> owned'[g]]
    BY <2>1
  <2>4. [owned EXCEPT ![f] = 1] = [g \in Frame |-> IF g = f THEN 1 ELSE owned[g]]
    BY <1>7
  <2> QED
    BY <2>2, <2>3, <2>4
<1>10. TakenFrame = f
  <2>1. owned'[f] > owned[f]
    BY <1>4, <1>7, <1>8, <1>9
  <2>2. \A g \in Frame : owned'[g] > owned[g] => g = f
    BY <1>7, <1>9
  <2> QED
    BY <1>4, <2>1, <2>2 DEF TakenFrame
<1>11. 0 \in memoryMap /\ f # 0
  BY <1>1, <1>3 DEF AllocInv
<1>12. owned'[0] = 0
  BY <1>7, <1>9, <1>11, FrameFacts DEF AllocInv
<1>13. AllocInv'
  BY <1>1, <1>2, <1>5, <1>11, <1>12 DEF AllocInv
<1> QED
  BY <1>1, <1>4, <1>5, <1>8, <1>9, <1>10, <1>11, <1>13

LEMMA PanicKeepsAlloc ==
  ASSUME AllocInv, AllocBlock, phase' = "panic"
  PROVE  AllocInv' /\ owned' = owned /\ phase = "running" /\ mmap' = mmap
<1>1. Inv /\ AllocBlocks(1) /\ phase = "running"
  BY DEF AllocInv, AllocBlock, AllocBlocks
<1>2. Panic
  BY <1>1 DEF AllocBlocks, Grant
<1>3. Inv'
  BY <1>1, AllocKeepsInv
<1> QED
  BY <1>1, <1>2, <1>3 DEF Panic, AllocInv

(* freeBlock of a frame in use: it had one holder. *)
LEMMA ReleasesOne ==
  ASSUME AllocInv, NEW f \in Frame, FreeBlock(f)
  PROVE  /\ AllocInv'
         /\ owned' = [owned EXCEPT ![f] = 0]
         /\ phase = "running" /\ phase' = "running" /\ mmap' = mmap
<1>1. Inv /\ Inv' /\ ~multi
  BY FreeKeepsInv DEF AllocInv
<1>2. /\ owned[f] > 0 /\ owned' = [owned EXCEPT ![f] = @ - 1]
      /\ memoryMap' = memoryMap \ {f} /\ phase = "running"
      /\ UNCHANGED <<mmap, phase, maxBlocks, multi>>
  BY DEF FreeBlock
<1>3. owned[f] = 1 /\ f # 0 /\ owned \in [Frame -> Nat]
  BY <1>1, <1>2 DEF AllocInv, Inv, HeldInv, TypeOK
<1>4. owned' = [owned EXCEPT ![f] = 0]
  BY <1>2, <1>3
<1> QED
  BY <1>1, <1>2, <1>3, <1>4, FrameFacts DEF AllocInv


-----------------------------------------------------------------------------
(* What the operations do to the page table walk. *)

(* Entering a cleared table maps nothing and moves nothing. *)
LEMMA TableAdded ==
  ASSUME VMMTypeOK, NEW page \in Page, NEW user \in BOOLEAN, NEW f \in Frame,
         ~HasTable(page), f \notin TableFrames,
         EnterTable(page, user, f),
         \A d \in Dir \ {0, KernelDir, SelfDir} : ~directory[d].large,
         memory' = [memory EXCEPT ![f] = [i \in Index |-> EmptyTableEntry]]
  PROVE  /\ TableDirs' = TableDirs \cup {DirOf(page)}
         /\ TableFrames' = TableFrames \cup {f}
         /\ \A d \in Dir \ {DirOf(page)} : directory'[d] = directory[d]
         /\ directory'[DirOf(page)] =
              [present |-> TRUE, write |-> TRUE, user |-> user, large |-> FALSE, frame |-> f]
         /\ HasTable(page)' /\ ~EntryOf(page).present'
         /\ \A p \in Page : HasTable(p) => HasTable(p)' /\ EntryOf(p)' = EntryOf(p)
         /\ \A p \in Page : ~HasTable(p) => ~Mapped(p)'
<1>1. DirOf(page) \in Dir \ {0, KernelDir, SelfDir}
  BY PageFacts
<1>2. directory \in [Dir -> DirEntry] /\ memory \in [Frame -> [Index -> TableEntry]]
  BY DEF VMMTypeOK
<1>3. /\ \A d \in Dir \ {DirOf(page)} : directory'[d] = directory[d]
      /\ directory'[DirOf(page)] =
              [present |-> TRUE, write |-> TRUE, user |-> user, large |-> FALSE, frame |-> f]
  BY <1>1, <1>2 DEF EnterTable
<1>4. /\ memory'[f] = [i \in Index |-> EmptyTableEntry]
      /\ \A g \in Frame \ {f} : memory'[g] = memory[g]
  BY <1>2
<1>5. DirOf(page) \notin TableDirs
  BY DEF TableDirs, HasTable
<1>6. TableDirs' = TableDirs \cup {DirOf(page)}
  BY <1>1, <1>3 DEF TableDirs
<1>7. TableFrames' = TableFrames \cup {f}
  <2>1. \A d \in TableDirs : directory'[d].frame = directory[d].frame
    BY <1>3, <1>5 DEF TableDirs
  <2>2. directory'[DirOf(page)].frame = f
    BY <1>3
  <2> QED
    BY <1>6, <2>1, <2>2 DEF TableFrames
<1>8. ASSUME NEW p \in Page, HasTable(p)
      PROVE  HasTable(p)' /\ EntryOf(p)' = EntryOf(p)
  <2>1. DirOf(p) \in TableDirs /\ DirOf(p) # DirOf(page)
    BY <1>8, PageFacts DEF HasTable, TableDirs
  <2>2. directory'[DirOf(p)] = directory[DirOf(p)] /\ directory[DirOf(p)].frame # f
    BY <1>3, <2>1 DEF TableFrames, TableDirs
  <2>3. directory[DirOf(p)].frame \in Frame
    BY <1>2, <2>1 DEF DirEntry, TableDirs
  <2> QED
    BY <1>4, <1>8, <2>2, <2>3 DEF HasTable, EntryOf
<1>9. ASSUME NEW p \in Page, ~HasTable(p), DirOf(p) = DirOf(page)
      PROVE  HasTable(p)' /\ ~Mapped(p)' /\ ~EntryOf(p).present'
  <2>1. memory'[f][IndexOf(p)] = EmptyTableEntry
    BY <1>4, PageFacts
  <2> QED
    BY <1>3, <1>9, <2>1 DEF Mapped, HasTable, EntryOf, EmptyTableEntry
<1>10. ASSUME NEW p \in Page, ~HasTable(p), DirOf(p) # DirOf(page)
       PROVE  ~Mapped(p)'
  BY <1>3, <1>10, PageFacts DEF Mapped, HasTable
<1> QED
  BY <1>3, <1>6, <1>7, <1>8, <1>9, <1>10

(* Storing an entry changes what is behind one page. *)
LEMMA EntryStored ==
  ASSUME VMMTypeOK, TablesInv, NEW page \in Page, HasTable(page), NEW e \in TableEntry,
         directory' = directory,
         memory' = [memory EXCEPT ![directory[DirOf(page)].frame][IndexOf(page)] = e]
  PROVE  /\ TableDirs' = TableDirs
         /\ TableFrames' = TableFrames
         /\ memory' \in [Frame -> [Index -> TableEntry]]
         /\ \A p \in Page : HasTable(p)' = HasTable(p)
         /\ EntryOf(page)' = e
         /\ \A p \in Page \ {page} : HasTable(p) => EntryOf(p)' = EntryOf(p)
<1>1. directory \in [Dir -> DirEntry] /\ memory \in [Frame -> [Index -> TableEntry]]
  BY DEF VMMTypeOK
<1>2. ASSUME NEW p \in Page, HasTable(p)
      PROVE  /\ DirOf(p) \in TableDirs /\ IndexOf(p) \in Index
             /\ directory[DirOf(p)].frame \in Frame
  BY <1>1, <1>2, PageFacts DEF HasTable, TableDirs, TablesInv, DirEntry
<1>3. memory' \in [Frame -> [Index -> TableEntry]]
  BY <1>1, <1>2
<1>4. EntryOf(page)' = e
  BY <1>1, <1>2 DEF EntryOf
<1>5. ASSUME NEW p \in Page \ {page}, HasTable(p)
      PROVE  EntryOf(p)' = EntryOf(p)
  <2>1. DirOf(p) # DirOf(page) \/ IndexOf(p) # IndexOf(page)
    BY <1>5, Coordinates
  <2>2. /\ DirOf(p) # DirOf(page) => directory[DirOf(p)].frame # directory[DirOf(page)].frame
    BY <1>2, <1>5 DEF TablesInv
  <2> QED
    BY <1>1, <1>2, <1>5, <2>1, <2>2 DEF EntryOf
<1> QED
  BY <1>3, <1>4, <1>5 DEF TableDirs, TableFrames, HasTable


(* Frames in use are frames, and held ones. *)
LEMMA UsedFacts ==
  ASSUME VMMInv
  PROVE  /\ UsedFrames \subseteq Frame
         /\ \A p \in Page : HasTable(p) => DirOf(p) \in TableDirs
         /\ \A p \in MappedPages : VirtualToPhysical(p) \in Frame
<1>1. directory \in [Dir -> DirEntry] /\ memory \in [Frame -> [Index -> TableEntry]]
  BY DEF VMMInv, VMMTypeOK
<1>2. \A d \in Dir : directory[d].frame \in Frame
  BY <1>1 DEF DirEntry
<1>3. TableFrames \subseteq Frame
  BY <1>2 DEF TableFrames, TableDirs
<1>4. \A p \in Page : EntryOf(p) \in TableEntry
  BY <1>1, <1>2, PageFacts DEF EntryOf
<1>5. \A p \in Page : VirtualToPhysical(p) \in Frame
  BY <1>4 DEF VirtualToPhysical, TableEntry
<1>6. UsedFrames \subseteq Frame
  BY <1>3, <1>5 DEF UsedFrames, MappedPages
<1>7. \A p \in Page : HasTable(p) => DirOf(p) \in TableDirs
  BY PageFacts DEF VMMInv, TablesInv, HasTable, TableDirs
<1> QED
  BY <1>5, <1>6, <1>7 DEF MappedPages

(* A step that leaves the page tables alone. *)
LEMMA WalkUnchanged ==
  ASSUME UNCHANGED <<directory, memory>>
  PROVE  /\ TableDirs' = TableDirs /\ TableFrames' = TableFrames
         /\ MappedPages' = MappedPages /\ UsedFrames' = UsedFrames
         /\ TablesInv <=> TablesInv'
         /\ \A p \in Page : /\ HasTable(p)' = HasTable(p) /\ EntryOf(p)' = EntryOf(p)
                            /\ Mapped(p)' = Mapped(p) /\ SetUp(p)' = SetUp(p)
                            /\ VirtualToPhysical(p)' = VirtualToPhysical(p)
BY DEF TableDirs, TableFrames, MappedPages, UsedFrames, TablesInv, HasTable, EntryOf, Mapped,
       SetUp, KernelMayWrite, VirtualToPhysical

(* getPageForAddress makes a table out of a frame nobody uses. *)
LEMMA TableCreated ==
  ASSUME VMMInv, NEW page \in Page, NEW user \in BOOLEAN, ~HasTable(page), CreateTable(page, user)
  PROVE  /\ AllocInv' /\ TablesInv' /\ UsedInv'
         /\ TakenFrame \in Frame \ UsedFrames
         /\ TableFrames' = TableFrames \cup {TakenFrame}
         /\ MappedPages' = MappedPages
         /\ \A p \in MappedPages : VirtualToPhysical(p)' = VirtualToPhysical(p)
         /\ directory' \in [Dir -> DirEntry]
         /\ memory' \in [Frame -> [Index -> TableEntry]]
         /\ ~user => \A d \in Dir : directory'[d].user => directory[d].user
         /\ \A p \in Page : SetUp(p) => SetUp(p)'
         /\ HasTable(page)' /\ ~EntryOf(page).present'
         /\ pte' = FoundEntry(page)'
<1> DEFINE f == TakenFrame
<1>1. /\ AllocInv' /\ f \in Frame /\ owned[f] = 0 /\ owned' = [owned EXCEPT ![f] = 1]
  BY TakesFresh DEF VMMInv, CreateTable
<1>2. /\ EnterTable(page, user, f)
      /\ memory' = [memory EXCEPT ![f] = [i \in Index |-> EmptyTableEntry]]
      /\ pte' = [table |-> f, index |-> IndexOf(page)]
  BY DEF CreateTable
<1>3. f \notin UsedFrames /\ f \notin TableFrames
  BY <1>1 DEF VMMInv, UsedInv, UsedFrames
<1> HIDE DEF f
<1>4. /\ TableDirs' = TableDirs \cup {DirOf(page)}
      /\ TableFrames' = TableFrames \cup {f}
      /\ \A d \in Dir \ {DirOf(page)} : directory'[d] = directory[d]
      /\ directory'[DirOf(page)] =
              [present |-> TRUE, write |-> TRUE, user |-> user, large |-> FALSE, frame |-> f]
      /\ HasTable(page)' /\ ~EntryOf(page).present'
      /\ \A p \in Page : HasTable(p) => HasTable(p)' /\ EntryOf(p)' = EntryOf(p)
      /\ \A p \in Page : ~HasTable(p) => ~Mapped(p)'
  BY <1>1, <1>2, <1>3, TableAdded DEF VMMInv, TablesInv
<1>5. MappedPages' = MappedPages
  BY <1>4 DEF MappedPages, Mapped
<1>6. \A p \in MappedPages : VirtualToPhysical(p)' = VirtualToPhysical(p)
  BY <1>4 DEF MappedPages, Mapped, VirtualToPhysical
<1>7. UsedFrames' = UsedFrames \cup {f}
  BY <1>4, <1>5, <1>6 DEF UsedFrames
<1>8. UsedInv'
  <2>1. owned \in [Frame -> Nat]
    BY DEF VMMInv, VMMTypeOK, TypeOK
  <2>2. ASSUME NEW g \in Frame PROVE owned'[g] > 0 <=> g \in UsedFrames'
    BY <1>1, <1>7, <2>1 DEF VMMInv, UsedInv
  <2> QED
    BY <2>2 DEF UsedInv
<1>9. directory' \in [Dir -> DirEntry] /\ memory' \in [Frame -> [Index -> TableEntry]]
  <2>1. directory \in [Dir -> DirEntry] /\ memory \in [Frame -> [Index -> TableEntry]]
    BY DEF VMMInv, VMMTypeOK
  <2>2. EmptyTableEntry \in TableEntry
    BY FrameFacts DEF EmptyTableEntry, TableEntry
  <2>3. memory' \in [Frame -> [Index -> TableEntry]]
    BY <1>1, <1>2, <2>1, <2>2
  <2>4. directory' \in [Dir -> DirEntry]
    BY <1>1, <1>2, <2>1 DEF EnterTable, DirEntry
  <2> QED
    BY <2>3, <2>4
<1>10. TablesInv'
  <2>1. \A d \in TableDirs : d # DirOf(page) /\ directory'[d] = directory[d]
    BY <1>4 DEF TableDirs, HasTable
  <2>2. \A d \in TableDirs : directory[d].frame # f
    BY <1>3 DEF TableFrames
  <2>3. \A d, e \in TableDirs' : directory'[d].frame = directory'[e].frame => d = e
    BY <1>4, <2>1, <2>2 DEF VMMInv, TablesInv
  <2>4. \A d \in Dir \ {0, KernelDir, SelfDir} :
          ~directory'[d].large /\ (directory'[d].present => directory'[d].write)
    BY <1>4 DEF VMMInv, TablesInv
  <2>5. \A p \in MappedPages : VirtualToPhysical(p) \notin TableFrames \cup {f}
    BY <1>3 DEF VMMInv, TablesInv, UsedFrames
  <2> QED
    BY <1>4, <1>5, <1>6, <2>3, <2>4, <2>5, PageFacts DEF VMMInv, TablesInv
<1>11. ~user => \A d \in Dir : directory'[d].user => directory[d].user
  BY <1>4
<1>12. ASSUME NEW p \in Page, SetUp(p) PROVE SetUp(p)'
  <2>1. HasTable(p) /\ DirOf(p) # DirOf(page) /\ DirOf(p) \in Dir
    BY <1>12, PageFacts DEF SetUp, KernelMayWrite, Mapped, HasTable
  <2>2. directory'[DirOf(p)] = directory[DirOf(p)] /\ EntryOf(p)' = EntryOf(p) /\ HasTable(p)'
    BY <1>4, <2>1
  <2> QED
    BY <1>12, <2>2 DEF SetUp, KernelMayWrite, Mapped
<1>13. pte' = FoundEntry(page)'
  BY <1>2, <1>4 DEF FoundEntry
<1> QED
  BY <1>1, <1>3, <1>4, <1>5, <1>6, <1>8, <1>9, <1>10, <1>11, <1>12, <1>13 DEF f

(* allocPage puts a frame nobody uses behind the page whose entry waits. *)
LEMMA PageFilled ==
  ASSUME VMMInv, NEW kernel \in BOOLEAN, AllocPage(kernel), NEW page \in Page,
         HasTable(page), pte = FoundEntry(page), ~EntryOf(page).present
  PROVE  /\ AllocInv' /\ TablesInv' /\ UsedInv'
         /\ TakenFrame \in Frame \ UsedFrames
         /\ TableFrames' = TableFrames
         /\ MappedPages' = MappedPages \cup {page} /\ page \notin MappedPages
         /\ VirtualToPhysical(page)' = TakenFrame
         /\ \A p \in MappedPages : VirtualToPhysical(p)' = VirtualToPhysical(p)
         /\ memory' \in [Frame -> [Index -> TableEntry]]
         /\ \A p \in Page : SetUp(p) => SetUp(p)'
         /\ ~directory[DirOf(page)].user => SetUp(page)'
<1> DEFINE f == TakenFrame
           e == [present |-> TRUE, write |-> TRUE, user |-> EntryOf(page).user \/ ~kernel,
                 frame |-> f]
<1>1. AllocInv' /\ f \in Frame /\ owned[f] = 0 /\ owned' = [owned EXCEPT ![f] = 1]
  BY TakesFresh DEF VMMInv, AllocPage
<1>2. f \notin UsedFrames
  BY <1>1 DEF VMMInv, UsedInv
<1>3. pte.table = directory[DirOf(page)].frame /\ pte.index = IndexOf(page)
  BY DEF FoundEntry
<1>4. /\ memory' = [memory EXCEPT ![directory[DirOf(page)].frame][IndexOf(page)] = e]
      /\ directory' = directory
  BY <1>3 DEF AllocPage, EntryOf
<1>5. e \in TableEntry
  BY <1>1 DEF TableEntry
<1> HIDE DEF f
<1>6. /\ TableDirs' = TableDirs
      /\ TableFrames' = TableFrames
      /\ memory' \in [Frame -> [Index -> TableEntry]]
      /\ \A p \in Page : HasTable(p)' = HasTable(p)
      /\ EntryOf(page)' = e
      /\ \A p \in Page \ {page} : HasTable(p) => EntryOf(p)' = EntryOf(p)
  <2> HIDE DEF e
  <2> QED
    BY <1>4, <1>5, EntryStored DEF VMMInv
<1>7. Mapped(page)' /\ VirtualToPhysical(page)' = f /\ EntryOf(page)'.write
  BY <1>6 DEF Mapped, VirtualToPhysical
<1>8. page \notin MappedPages
  BY DEF MappedPages, Mapped
<1>9. MappedPages' = MappedPages \cup {page}
  BY <1>6, <1>7 DEF MappedPages, Mapped
<1>10. \A p \in MappedPages : VirtualToPhysical(p)' = VirtualToPhysical(p)
  BY <1>6, <1>8 DEF MappedPages, Mapped, VirtualToPhysical
<1>11. UsedFrames' = UsedFrames \cup {f}
  BY <1>6, <1>7, <1>9, <1>10 DEF UsedFrames
<1>12. UsedInv'
  <2>1. owned \in [Frame -> Nat]
    BY DEF VMMInv, VMMTypeOK, TypeOK
  <2>2. ASSUME NEW g \in Frame PROVE owned'[g] > 0 <=> g \in UsedFrames'
    BY <1>1, <1>11, <2>1 DEF VMMInv, UsedInv
  <2> QED
    BY <2>2 DEF UsedInv
<1>13. TablesInv'
  <2>1. \A p \in MappedPages : VirtualToPhysical(p) # f
    BY <1>2 DEF UsedFrames
  <2>2. f \notin TableFrames
    BY <1>2 DEF UsedFrames
  <2> QED
    BY <1>4, <1>6, <1>7, <1>9, <1>10, <2>1, <2>2 DEF VMMInv, TablesInv
<1>14. ASSUME NEW p \in Page \ {page}, SetUp(p) PROVE SetUp(p)'
  BY <1>4, <1>6, <1>14 DEF SetUp, KernelMayWrite, Mapped
<1>15. directory[DirOf(page)].write
  BY PageFacts DEF VMMInv, TablesInv, HasTable
<1>16. ~directory[DirOf(page)].user => SetUp(page)'
  BY <1>4, <1>7, <1>15 DEF SetUp, KernelMayWrite
<1>17. ~SetUp(page)
  BY DEF SetUp, KernelMayWrite, Mapped
<1> QED
  BY <1>1, <1>2, <1>6, <1>7, <1>8, <1>9, <1>10, <1>12, <1>13, <1>14, <1>16, <1>17 DEF f

(* freePage takes the frame from behind a page and gives it back. *)
LEMMA PageFreed ==
  ASSUME VMMInv, NEW page \in OtherPages, FreePage(page)
  PROVE  /\ AllocInv' /\ TablesInv' /\ UsedInv'
         /\ TableFrames' = TableFrames
         /\ MappedPages' = MappedPages \ {page} /\ page \in MappedPages
         /\ \A p \in MappedPages' : VirtualToPhysical(p)' = VirtualToPhysical(p)
         /\ memory' \in [Frame -> [Index -> TableEntry]]
         /\ \A p \in HeapPages : SetUp(p) => SetUp(p)'
<1> DEFINE f == VirtualToPhysical(page)
           e == [EntryOf(page) EXCEPT !.present = FALSE]
<1>1. page \in Page /\ page \notin HeapPages /\ page \in MappedPages
  BY PageFacts DEF FreePage, MappedPages
<1>2. HasTable(page)
  BY DEF FreePage, Mapped
<1>3. f \in Frame /\ f \in UsedFrames
  BY <1>1, UsedFacts DEF UsedFrames
<1>4. /\ owned \in [Frame -> Nat] /\ memory \in [Frame -> [Index -> TableEntry]]
      /\ directory \in [Dir -> DirEntry]
  BY DEF VMMInv, VMMTypeOK, TypeOK
<1>5. f # 0
  BY <1>3 DEF VMMInv, UsedInv, AllocInv
<1>6. FreeBlock(f)
  BY <1>5 DEF FreePage, VirtualToPhysical
<1>7. AllocInv' /\ owned' = [owned EXCEPT ![f] = 0]
  BY <1>3, <1>6, ReleasesOne DEF VMMInv
<1>8. directory[DirOf(page)].frame \in Frame /\ IndexOf(page) \in Index
  BY <1>1, <1>4, PageFacts DEF DirEntry
<1>9. EntryOf(page) \in TableEntry
  BY <1>4, <1>8 DEF EntryOf
<1>10. e \in TableEntry /\ ~e.present /\ e.frame = f
  BY <1>9 DEF TableEntry, VirtualToPhysical
<1>11. /\ memory' = [memory EXCEPT ![directory[DirOf(page)].frame][IndexOf(page)] = e]
       /\ directory' = directory
  BY <1>4, <1>8 DEF FreePage, EntryOf
<1>12. /\ TableDirs' = TableDirs
       /\ TableFrames' = TableFrames
       /\ memory' \in [Frame -> [Index -> TableEntry]]
       /\ \A p \in Page : HasTable(p)' = HasTable(p)
       /\ EntryOf(page)' = e
       /\ \A p \in Page \ {page} : HasTable(p) => EntryOf(p)' = EntryOf(p)
  <2> HIDE DEF e
  <2> QED
    BY <1>1, <1>2, <1>10, <1>11, EntryStored DEF VMMInv
<1>13. MappedPages' = MappedPages \ {page}
  BY <1>10, <1>12 DEF MappedPages, Mapped
<1>14. \A p \in MappedPages' : VirtualToPhysical(p)' = VirtualToPhysical(p)
  BY <1>12, <1>13 DEF MappedPages, Mapped, VirtualToPhysical
<1> HIDE DEF f, e
<1>15. f \notin TableFrames /\ \A p \in MappedPages \ {page} : VirtualToPhysical(p) # f
  BY <1>1 DEF f, VMMInv, TablesInv
<1>16. UsedFrames' = UsedFrames \ {f}
  <2>1. UsedFrames = TableFrames \cup {f} \cup {VirtualToPhysical(p) : p \in MappedPages \ {page}}
    BY <1>1 DEF UsedFrames, f
  <2>2. UsedFrames' = TableFrames \cup {VirtualToPhysical(p) : p \in MappedPages \ {page}}
    BY <1>12, <1>13, <1>14 DEF UsedFrames
  <2> QED
    BY <1>15, <2>1, <2>2
<1>17. UsedInv'
  <2>1. ASSUME NEW g \in Frame PROVE owned'[g] > 0 <=> g \in UsedFrames'
    BY <1>3, <1>4, <1>7, <1>16 DEF VMMInv, UsedInv
  <2> QED
    BY <2>1 DEF UsedInv
<1>18. TablesInv'
  BY <1>11, <1>12, <1>13, <1>14 DEF VMMInv, TablesInv
<1>19. \A p \in HeapPages : SetUp(p) => SetUp(p)'
  BY <1>1, <1>11, <1>12, PageFacts DEF SetUp, KernelMayWrite, Mapped
<1> QED
  BY <1>1, <1>7, <1>12, <1>13, <1>14, <1>17, <1>18, <1>19


-----------------------------------------------------------------------------
(* Every step keeps the invariant. *)

LEMMA VMMInitInv == VMMInit => VMMInv
<1> SUFFICES ASSUME VMMInit PROVE VMMInv
  OBVIOUS
<1>1. /\ Init /\ stage = "boot" /\ next = FirstHeapPage /\ pte = NoEntry
      /\ directory = [d \in Dir |-> IF d = KernelDir THEN LargeDirEntry ELSE EmptyDirEntry]
      /\ memory = [f \in Frame |-> [i \in Index |-> Garbage]]
  BY DEF VMMInit, FirstHeapPage
<1>2. AllocInv /\ TypeOK
  BY <1>1, AllocInit DEF AllocInv, Inv
<1>3. LargeDirEntry \in DirEntry /\ EmptyDirEntry \in DirEntry /\ Garbage \in TableEntry
  BY FrameFacts DEF LargeDirEntry, EmptyDirEntry, Garbage, DirEntry, TableEntry
<1>4. VMMTypeOK
  BY <1>1, <1>2, <1>3, HeapRange DEF VMMTypeOK, Stage
<1>5. \A d \in Dir : /\ directory[d].present => d = KernelDir /\ directory[d].large
                     /\ ~directory[d].user
                     /\ d # KernelDir => ~directory[d].large
  BY <1>1 DEF LargeDirEntry, EmptyDirEntry
<1>6. TableDirs = {} /\ MappedPages = {}
  BY <1>5, PageFacts DEF TableDirs, MappedPages, Mapped, HasTable
<1>7. UsedFrames = {}
  BY <1>6 DEF UsedFrames, TableFrames
<1>8. UsedInv
  BY <1>1, <1>7 DEF UsedInv, Init
<1>9. TablesInv
  BY <1>5, <1>6 DEF TablesInv
<1> QED
  BY <1>1, <1>2, <1>4, <1>5, <1>8, <1>9 DEF VMMInv, PendingInv, StageInv, HeapInv

(* A step in which the manager of virtual memory does nothing. *)
LEMMA QuietKeepsVMM ==
  ASSUME VMMInv, AllocInv', UNCHANGED vmmVars, owned' = owned,
         phase' \in {"running", "panic"} \/ stage = "boot"
  PROVE  VMMInv'
<1>1. UNCHANGED <<stage, next, directory, memory, pte>>
  BY DEF vmmVars
<1>2. /\ TablesInv' /\ UsedInv'
  BY <1>1, WalkUnchanged DEF VMMInv, UsedInv
<1>3. VMMTypeOK'
  BY <1>1, WalkUnchanged DEF VMMInv, VMMTypeOK, AllocInv, Inv
<1>4. PendingInv'
  BY <1>1, WalkUnchanged DEF VMMInv, PendingInv, FoundEntry
<1>5. StageInv'
  BY <1>1 DEF VMMInv, StageInv
<1>6. HeapInv'
  BY <1>1, WalkUnchanged, PageFacts DEF VMMInv, HeapInv
<1> QED
  BY <1>2, <1>3, <1>4, <1>5, <1>6 DEF VMMInv

LEMMA BootKeepsVMM == VMMInv /\ BootPMM => VMMInv'
<1> SUFFICES ASSUME VMMInv, BootPMM PROVE VMMInv'
  OBVIOUS
<1>1. AllocInv' /\ owned' = owned /\ phase \notin {"running", "panic"} /\ UNCHANGED vmmVars
  BY AllocBoot DEF BootPMM, VMMInv
<1>2. stage = "boot"
  BY <1>1 DEF VMMInv, StageInv
<1> QED
  BY <1>1, <1>2, QuietKeepsVMM

LEMMA ExhaustedKeepsVMM == VMMInv /\ Exhausted => VMMInv'
<1> SUFFICES ASSUME VMMInv, Exhausted PROVE VMMInv'
  OBVIOUS
<1>1. AllocInv' /\ owned' = owned /\ phase' = "panic" /\ UNCHANGED vmmVars
  BY PanicKeepsAlloc DEF Exhausted, OutOfMemory, VMMInv
<1> QED
  BY <1>1, QuietKeepsVMM

LEMMA StutterKeepsVMM == VMMInv /\ UNCHANGED allVars => VMMInv'
<1> SUFFICES ASSUME VMMInv, UNCHANGED allVars PROVE VMMInv'
  OBVIOUS
<1>1. UNCHANGED vmmVars /\ UNCHANGED pmmVars /\ owned' = owned /\ phase' = phase
  BY DEF allVars, vmmVars, pmmVars
<1>2. AllocInv'
  BY <1>1, StutterKeepsInv DEF VMMInv, AllocInv, pmmVars
<1>3. phase \notin {"running", "panic"} => stage = "boot"
  BY DEF VMMInv, StageInv
<1> QED
  BY <1>1, <1>2, <1>3, QuietKeepsVMM

(* The constructor writes directory entries no page goes through. *)
LEMMA EntryInstalled ==
  ASSUME VMMInv, NEW d \in {0, SelfDir}, NEW e \in DirEntry,
         d = SelfDir \/ e.large,
         directory' = [directory EXCEPT ![d] = e],
         memory' = memory, \A c \in TableDirs : c # d
  PROVE  /\ TableDirs' = TableDirs /\ TableFrames' = TableFrames
         /\ MappedPages' = MappedPages /\ UsedFrames' = UsedFrames
         /\ TablesInv' /\ directory' \in [Dir -> DirEntry]
         /\ \A p \in Page : /\ HasTable(p)' = HasTable(p) /\ EntryOf(p)' = EntryOf(p)
                            /\ SetUp(p)' = SetUp(p) /\ Mapped(p)' = Mapped(p)
                            /\ VirtualToPhysical(p)' = VirtualToPhysical(p)
<1>1. directory \in [Dir -> DirEntry] /\ d \in Dir
  BY PagesAssumption DEF VMMInv, VMMTypeOK, Dir, SelfDir
<1>2. /\ directory' \in [Dir -> DirEntry] /\ directory'[d] = e
      /\ \A c \in Dir \ {d} : directory'[c] = directory[c]
  BY <1>1
<1>3. TableDirs' = TableDirs
  BY <1>1, <1>2 DEF TableDirs
<1>4. TableFrames' = TableFrames
  BY <1>2, <1>3 DEF TableFrames, TableDirs
<1>5. \A p \in Page : directory'[DirOf(p)] = directory[DirOf(p)]
  BY <1>2, PageFacts
<1>6. \A p \in Page : /\ HasTable(p)' = HasTable(p) /\ EntryOf(p)' = EntryOf(p)
                      /\ SetUp(p)' = SetUp(p) /\ Mapped(p)' = Mapped(p)
                      /\ VirtualToPhysical(p)' = VirtualToPhysical(p)
  BY <1>5 DEF HasTable, EntryOf, SetUp, KernelMayWrite, Mapped, VirtualToPhysical
<1>7. MappedPages' = MappedPages
  BY <1>6 DEF MappedPages
<1>8. \A p \in MappedPages : VirtualToPhysical(p)' = VirtualToPhysical(p)
  BY <1>6 DEF MappedPages
<1>9. UsedFrames' = UsedFrames
  BY <1>4, <1>7, <1>8 DEF UsedFrames
<1>10. TablesInv'
  <2>1. \A c \in TableDirs : directory'[c] = directory[c]
    BY <1>2 DEF TableDirs
  <2> QED
    BY <1>2, <1>3, <1>4, <1>7, <1>8, <2>1 DEF VMMInv, TablesInv
<1> QED
  BY <1>2, <1>3, <1>4, <1>6, <1>7, <1>9, <1>10

LEMMA InstallKeepsVMM == VMMInv /\ InstallSelf => VMMInv'
<1> SUFFICES ASSUME VMMInv, InstallSelf PROVE VMMInv'
  OBVIOUS
<1> DEFINE e == [present |-> TRUE, write |-> TRUE, user |-> FALSE, large |-> FALSE,
                 frame |-> DirFrame]
<1>1. /\ stage = "boot" /\ phase = "running" /\ stage' = "heap"
      /\ directory' = [directory EXCEPT ![SelfDir] =
           [present |-> TRUE, write |-> TRUE, user |-> FALSE, large |-> FALSE, frame |-> DirFrame]]
      /\ UNCHANGED <<next, memory, pte>> /\ UNCHANGED pmmVars
  BY DEF InstallSelf
<1>2. e \in DirEntry
  BY RangesAssumption DEF DirEntry
<1>3. /\ pte = NoEntry /\ next = FirstHeapPage
      /\ \A d \in Dir : (directory[d].present => directory[d].large) /\ ~directory[d].user
  BY <1>1 DEF VMMInv, StageInv
<1>4. TableDirs = {} /\ MappedPages = {}
  BY <1>3, PageFacts DEF TableDirs, MappedPages, Mapped, HasTable, VMMInv, TablesInv
<1>5. /\ TablesInv' /\ directory' \in [Dir -> DirEntry]
      /\ MappedPages' = {} /\ UsedFrames' = UsedFrames
  BY <1>1, <1>2, <1>4, EntryInstalled
<1>6. AllocInv' /\ owned' = owned /\ phase' = phase
  BY <1>1, StutterKeepsInv DEF VMMInv, AllocInv, pmmVars
<1>7. UsedInv'
  BY <1>5, <1>6 DEF VMMInv, UsedInv
<1>8. VMMTypeOK'
  BY <1>1, <1>3, <1>5, <1>6 DEF VMMInv, VMMTypeOK, Stage, AllocInv, Inv
<1>9. PendingInv'
  BY <1>1, <1>3 DEF PendingInv
<1>10. StageInv'
  <2>1. \A d \in Dir : ~directory'[d].user
    BY <1>1, <1>3 DEF VMMInv, VMMTypeOK
  <2> QED
    BY <1>1, <1>6, <2>1 DEF StageInv
<1>11. HeapInv'
  <2>1. \A p \in Page : ~Mapped(p)'
    BY <1>5 DEF MappedPages
  <2> QED
    BY <1>1, <1>3, <2>1, HeapRange, PageFacts DEF HeapInv
<1> QED
  BY <1>5, <1>6, <1>7, <1>8, <1>9, <1>10, <1>11 DEF VMMInv

LEMMA IdentityKeepsVMM == VMMInv /\ MapIdentity => VMMInv'
<1> SUFFICES ASSUME VMMInv, MapIdentity PROVE VMMInv'
  OBVIOUS
<1>1. /\ stage = "heap" /\ phase = "running" /\ stage' = "ready" /\ pte = NoEntry
      /\ next \notin HeapPages
      /\ directory' = [directory EXCEPT ![0] = LargeDirEntry]
      /\ UNCHANGED <<next, memory, pte>> /\ UNCHANGED pmmVars
  BY DEF MapIdentity
<1>2. LargeDirEntry \in DirEntry /\ LargeDirEntry.large
  BY FrameFacts DEF LargeDirEntry, EmptyDirEntry, DirEntry
<1>3. \A c \in TableDirs : c # 0
  BY DEF VMMInv, TablesInv
<1>5. /\ TablesInv' /\ directory' \in [Dir -> DirEntry] /\ UsedFrames' = UsedFrames
      /\ \A p \in Page : SetUp(p)' = SetUp(p)
  BY <1>1, <1>2, <1>3, EntryInstalled
<1>6. AllocInv' /\ owned' = owned /\ phase' = phase
  BY <1>1, StutterKeepsInv DEF VMMInv, AllocInv, pmmVars
<1>7. UsedInv'
  BY <1>5, <1>6 DEF VMMInv, UsedInv
<1>8. VMMTypeOK'
  BY <1>1, <1>5, <1>6 DEF VMMInv, VMMTypeOK, Stage, AllocInv, Inv
<1>9. PendingInv'
  BY <1>1 DEF PendingInv
<1>10. StageInv'
  BY <1>1, <1>6 DEF StageInv
<1>11. HeapInv'
  <2>1. \A p \in HeapPages : p < next
    BY <1>1, HeapRange DEF VMMInv, HeapInv, VMMTypeOK
  <2> QED
    BY <1>1, <1>5, <2>1, PageFacts DEF VMMInv, HeapInv
<1> QED
  BY <1>5, <1>6, <1>7, <1>8, <1>9, <1>10, <1>11 DEF VMMInv


(* getPageForAddress, called for a page that is not mapped. *)
LEMMA GetKeepsVMM ==
  ASSUME VMMInv, NEW page \in Page, NEW user \in BOOLEAN, GetPageForAddress(page, user),
         stage \in {"heap", "ready"}, UNCHANGED <<stage, next>>, ~Mapped(page),
         stage = "heap" => page = next /\ ~user
  PROVE  VMMInv'
<1>1. CASE ~HasTable(page) /\ CreateTable(page, user)
  <2>1. /\ AllocInv' /\ TablesInv' /\ UsedInv'
        /\ TableFrames' = TableFrames \cup {TakenFrame}
        /\ MappedPages' = MappedPages
        /\ directory' \in [Dir -> DirEntry]
        /\ memory' \in [Frame -> [Index -> TableEntry]]
        /\ ~user => \A d \in Dir : directory'[d].user => directory[d].user
        /\ \A p \in Page : SetUp(p) => SetUp(p)'
        /\ HasTable(page)' /\ ~EntryOf(page).present'
        /\ pte' = FoundEntry(page)'
        /\ phase = "running" /\ phase' = "running"
    BY <1>1, TableCreated DEF CreateTable, TakeFrame, GetPageForAddress
  <2>2. VMMTypeOK'
    <3>1. pte'.table \in Frame /\ pte'.table \in TableFrames' /\ pte' \in [table : Frame, index : Index]
      <4>1. DirOf(page) \in TableDirs'
        BY <2>1, PageFacts DEF TablesInv, TableDirs, HasTable
      <4>2. directory'[DirOf(page)].frame \in Frame
        BY <2>1, PageFacts DEF DirEntry
      <4> QED
        BY <2>1, <4>1, <4>2, PageFacts DEF FoundEntry, TableFrames
    <3> QED
      BY <2>1, <3>1 DEF VMMInv, VMMTypeOK, AllocInv, Inv
  <2>3. PendingInv'
    BY <2>1 DEF PendingInv
  <2>4. StageInv'
    BY <2>1 DEF VMMInv, StageInv
  <2>5. HeapInv'
    BY <2>1, PageFacts DEF VMMInv, HeapInv, MappedPages
  <2> QED
    BY <2>1, <2>2, <2>3, <2>4, <2>5 DEF VMMInv
<1>2. CASE HasTable(page) /\ pte' = FoundEntry(page) /\ UNCHANGED <<directory, memory>>
           /\ UNCHANGED pmmVars
  <2>1. AllocInv' /\ owned' = owned /\ phase' = phase /\ phase = "running"
    BY <1>2, StutterKeepsInv DEF VMMInv, AllocInv, pmmVars, GetPageForAddress
  <2>2. /\ TablesInv' /\ UsedInv' /\ TableFrames' = TableFrames
        /\ \A p \in Page : /\ HasTable(p)' = HasTable(p) /\ EntryOf(p)' = EntryOf(p)
                           /\ Mapped(p)' = Mapped(p) /\ SetUp(p)' = SetUp(p)
    BY <1>2, <2>1, WalkUnchanged DEF VMMInv, UsedInv
  <2>3. VMMTypeOK'
    <3>1. DirOf(page) \in TableDirs
      BY <1>2, UsedFacts
    <3>2. directory[DirOf(page)].frame \in Frame
      BY PageFacts DEF VMMInv, VMMTypeOK, DirEntry
    <3>3. pte'.table \in TableFrames' /\ pte' \in [table : Frame, index : Index]
      BY <1>2, <2>2, <3>1, <3>2, PageFacts DEF FoundEntry, TableFrames
    <3> QED
      BY <1>2, <2>1, <3>3 DEF VMMInv, VMMTypeOK, AllocInv, Inv
  <2>4. PendingInv'
    BY <1>2, <2>2 DEF PendingInv, FoundEntry, Mapped
  <2>5. StageInv'
    BY <1>2, <2>1 DEF VMMInv, StageInv
  <2>6. HeapInv'
    BY <2>2, PageFacts DEF VMMInv, HeapInv
  <2> QED
    BY <2>1, <2>2, <2>3, <2>4, <2>5, <2>6 DEF VMMInv
<1> QED
  BY <1>1, <1>2 DEF GetPageForAddress

LEMMA HeapGetKeepsVMM == VMMInv /\ HeapGetPage => VMMInv'
<1> SUFFICES ASSUME VMMInv, HeapGetPage PROVE VMMInv'
  OBVIOUS
<1>1. /\ stage = "heap" /\ next \in HeapPages /\ next \in Page /\ UNCHANGED <<stage, next>>
      /\ GetPageForAddress(next, FALSE)
  BY PageFacts DEF HeapGetPage
<1>2. PICK page \in Page : page = next
  BY <1>1
<1>3. ~Mapped(page)
  BY <1>1, <1>2, PageFacts DEF VMMInv, HeapInv
<1> QED
  BY <1>1, <1>2, <1>3, GetKeepsVMM

LEMMA RequestKeepsVMM ==
  ASSUME VMMInv, NEW page \in OtherPages, NEW user \in BOOLEAN, RequestPage(page, user)
  PROVE  VMMInv'
BY PageFacts, GetKeepsVMM DEF RequestPage

(* allocPage, in the constructor and later. *)
LEMMA FillKeepsVMM ==
  ASSUME VMMInv, NEW kernel \in BOOLEAN, AllocPage(kernel), stage' = stage,
         \/ stage = "heap" /\ next' = next + 1
         \/ stage = "ready" /\ next' = next
  PROVE  VMMInv'
<1>1. PICK page \in Page : /\ HasTable(page) /\ pte = FoundEntry(page) /\ ~EntryOf(page).present
                           /\ stage = "heap" => page = next
  BY DEF VMMInv, PendingInv, AllocPage
<1>2. /\ AllocInv' /\ TablesInv' /\ UsedInv'
      /\ TableFrames' = TableFrames
      /\ MappedPages' = MappedPages \cup {page}
      /\ memory' \in [Frame -> [Index -> TableEntry]]
      /\ \A p \in Page : SetUp(p) => SetUp(p)'
      /\ ~directory[DirOf(page)].user => SetUp(page)'
  BY <1>1, PageFilled
<1>3. pte' = NoEntry /\ directory' = directory /\ phase' = "running"
  BY DEF AllocPage, TakeFrame
<1>4. next \in Nat /\ next' \in Nat
  BY DEF VMMInv, VMMTypeOK
<1>5. VMMTypeOK'
  BY <1>2, <1>3, <1>4 DEF VMMInv, VMMTypeOK, AllocInv, Inv
<1>6. PendingInv' /\ StageInv'
  BY <1>3 DEF VMMInv, PendingInv, StageInv
<1>7. HeapInv'
  <2>1. CASE stage = "ready"
    BY <1>2, <2>1, PageFacts DEF VMMInv, HeapInv
  <2>2. CASE stage = "heap"
    <3>1. page = next /\ next' = next + 1
      BY <1>1, <2>2
    <3>2. ~directory[DirOf(page)].user
      BY <2>2, PageFacts DEF VMMInv, StageInv
    <3>3. FirstHeapPage <= next' /\ FirstHeapPage <= next
      BY <1>4, <2>2, <3>1, HeapRange DEF VMMInv, HeapInv
    <3>4. ASSUME NEW p \in HeapPages PROVE IF p < next' THEN SetUp(p)' ELSE ~Mapped(p)'
      <4>1. p \in Page /\ p \in Nat
        BY PageFacts
      <4>2. CASE p < next
        BY <1>2, <1>4, <2>2, <3>1, <4>1, <4>2 DEF VMMInv, HeapInv
      <4>3. CASE p = next
        BY <1>2, <1>4, <3>1, <3>2, <4>1, <4>3
      <4>4. CASE p > next
        <5>1. ~Mapped(p) /\ p # page /\ ~(p < next')
          BY <1>4, <2>2, <3>1, <4>1, <4>4 DEF VMMInv, HeapInv
        <5>2. ~Mapped(p)'
          BY <1>2, <4>1, <5>1 DEF MappedPages
        <5> QED
          BY <5>1, <5>2
      <4> QED
        BY <1>4, <4>1, <4>2, <4>3, <4>4
    <3> QED
      BY <2>2, <3>3, <3>4 DEF HeapInv
  <2> QED
    BY <2>1, <2>2
<1> QED
  BY <1>2, <1>5, <1>6, <1>7 DEF VMMInv

LEMMA FreeKeepsVMM ==
  ASSUME VMMInv, NEW page \in OtherPages, FreePage(page)
  PROVE  VMMInv'
<1>1. /\ AllocInv' /\ TablesInv' /\ UsedInv' /\ TableFrames' = TableFrames
      /\ memory' \in [Frame -> [Index -> TableEntry]]
      /\ \A p \in HeapPages : SetUp(p) => SetUp(p)'
  BY PageFreed
<1>2. /\ stage = "ready" /\ pte = NoEntry /\ UNCHANGED <<stage, next, directory, pte>>
      /\ phase' = phase
  BY DEF FreePage, FreeBlock, pmmVars
<1> QED
  BY <1>1, <1>2 DEF VMMInv, VMMTypeOK, AllocInv, Inv, PendingInv, StageInv, HeapInv

LEMMA VMMNextKeeps == VMMInv /\ [VMMNext]_allVars => VMMInv'
<1> SUFFICES ASSUME VMMInv, [VMMNext]_allVars PROVE VMMInv'
  OBVIOUS
<1>1. CASE HeapAllocPage
  BY <1>1, FillKeepsVMM DEF HeapAllocPage
<1>2. ASSUME NEW kernel \in BOOLEAN, FillPage(kernel) PROVE VMMInv'
  BY <1>2, FillKeepsVMM DEF FillPage
<1> QED
  BY <1>1, <1>2, BootKeepsVMM, InstallKeepsVMM, HeapGetKeepsVMM, IdentityKeepsVMM,
     RequestKeepsVMM, FreeKeepsVMM, ExhaustedKeepsVMM, StutterKeepsVMM DEF VMMNext

-----------------------------------------------------------------------------
(* The invariant is inductive. *)
THEOREM VMMInductive == VMMSpec => []VMMInv
BY VMMInitInv, VMMNextKeeps, PTL DEF VMMSpec

(* Directory, tables and the entry handed from one call to the other keep  *)
(* their types, and that entry lies in a page table.                       *)
THEOREM VMMTypeCorrect == VMMSpec => []VMMTypeOK
<1>1. VMMInv => VMMTypeOK
  BY DEF VMMInv
<1> QED
  BY <1>1, VMMInductive, PTL

(* The physical manager holds a frame as often as the page tables use it:  *)
(* no sequence of requests, failures and frees leaks a frame or leaves one *)
(* mapped after it was given back.                                         *)
THEOREM BooksAgree == VMMSpec => []FramesAccounted
<1>1. ASSUME VMMInv, NEW f \in Frame
      PROVE  owned[f] = Cardinality({page \in Page : Mapped(page) /\ VirtualToPhysical(page) = f})
                        + Cardinality({d \in TableDirs : directory[d].frame = f})
  <2> DEFINE P == {page \in Page : Mapped(page) /\ VirtualToPhysical(page) = f}
             D == {d \in TableDirs : directory[d].frame = f}
  <2>1. owned[f] \in Nat /\ (owned[f] > 0 => owned[f] = 1) /\ (owned[f] > 0 <=> f \in UsedFrames)
    BY <1>1 DEF VMMInv, AllocInv, Inv, TypeOK, HeldInv, UsedInv
  <2>2. CASE f \notin UsedFrames
    <3>1. P = {} /\ D = {}
      BY <2>2 DEF UsedFrames, TableFrames, MappedPages
    <3>2. Cardinality(D) = 0 /\ Cardinality(P) = 0
      BY <3>1, FS_EmptySet
    <3>3. owned[f] = 0
      BY <2>1, <2>2
    <3> QED
      BY <3>2, <3>3
  <2>3. CASE f \in TableFrames
    <3>1. PICK d \in TableDirs : directory[d].frame = f
      BY <2>3 DEF TableFrames
    <3>2. D = {d}
      BY <1>1, <3>1 DEF VMMInv, TablesInv
    <3>3. P = {}
      BY <1>1, <2>3 DEF VMMInv, TablesInv, MappedPages
    <3>4. owned[f] = 1
      BY <2>1, <2>3 DEF UsedFrames
    <3>5. Cardinality(D) = 1 /\ Cardinality(P) = 0
      BY <3>2, <3>3, FS_EmptySet, FS_Singleton
    <3> QED
      BY <3>4, <3>5
  <2>4. CASE f \in UsedFrames /\ f \notin TableFrames
    <3>1. PICK p \in MappedPages : VirtualToPhysical(p) = f
      BY <2>4 DEF UsedFrames
    <3>2. P = {p}
      BY <1>1, <3>1 DEF VMMInv, TablesInv, MappedPages
    <3>3. D = {}
      BY <2>4 DEF TableFrames
    <3>4. owned[f] = 1
      BY <2>1, <2>4
    <3>5. Cardinality(D) = 0 /\ Cardinality(P) = 1
      BY <3>2, <3>3, FS_EmptySet, FS_Singleton
    <3> QED
      BY <3>4, <3>5
  <2> QED
    BY <2>2, <2>3, <2>4
<1>2. VMMInv => FramesAccounted
  BY <1>1 DEF FramesAccounted
<1> QED
  BY <1>2, VMMInductive, PTL

(* No mapping of a page reaches a page table, the kernel's image, the      *)
(* bitmap or low memory.                                                   *)
THEOREM TablesOutOfReach == VMMSpec => []TablesUnreachable
<1>1. ASSUME VMMInv, NEW page \in Page, Mapped(page)
      PROVE  VirtualToPhysical(page) \notin TableFrames \cup Protected
  <2>1. page \in MappedPages /\ VirtualToPhysical(page) \in Frame \cap UsedFrames
    BY <1>1, UsedFacts DEF MappedPages, UsedFrames
  <2>2. VirtualToPhysical(page) \notin TableFrames
    BY <1>1, <2>1 DEF VMMInv, TablesInv
  <2>3. VirtualToPhysical(page) \notin Protected
    BY <1>1, <2>1 DEF VMMInv, UsedInv, AllocInv, Inv, HeldInv
  <2> QED
    BY <2>2, <2>3
<1>2. VMMInv => TablesUnreachable
  BY <1>1 DEF TablesUnreachable
<1> QED
  BY <1>2, VMMInductive, PTL

(* The heap stays mapped, writable for the kernel and out of reach for     *)
(* user code, whatever pages share its table.                              *)
THEOREM HeapProtected == VMMSpec => []HeapSupervisorOnly
<1>1. VMMInv => HeapSupervisorOnly
  BY DEF VMMInv, HeapInv, SetUp, HeapSupervisorOnly, UserMayAccess
<1> QED
  BY <1>1, VMMInductive, PTL


-----------------------------------------------------------------------------
(* The two managers implement the abstract address space. *)

Space == [page \in Page |-> IF Mapped(page) THEN VirtualToPhysical(page) ELSE NoFrame]

LEMMA SpaceInit == VMMInv /\ VMMInit => Abstract!Init
<1> SUFFICES ASSUME VMMInv, VMMInit PROVE Abstract!Init
  OBVIOUS
<1>1. \A d \in Dir : directory[d].present => directory[d].large
  BY DEF VMMInit, VMMInv, StageInv
<1>2. TableDirs = {}
  BY <1>1 DEF TableDirs
<1>3. \A page \in Page : ~Mapped(page)
  BY <1>1, <1>2, UsedFacts DEF Mapped
<1> QED
  BY <1>2, <1>3 DEF Abstract!Init, TableFrames

(* A step that changes neither a mapping nor the set of tables. *)
LEMMA SpaceUnchanged ==
  ASSUME TableFrames' = TableFrames, MappedPages' = MappedPages,
         \A p \in MappedPages : VirtualToPhysical(p)' = VirtualToPhysical(p)
  PROVE  UNCHANGED <<Space, TableFrames>>
<1>1. \A p \in Page : /\ Mapped(p)' <=> Mapped(p)
                      /\ Mapped(p) => VirtualToPhysical(p)' = VirtualToPhysical(p)
  BY DEF MappedPages
<1> QED
  BY <1>1 DEF Space

LEMMA SpaceInUse ==
  ASSUME VMMInv, NEW f \in Frame \ UsedFrames PROVE f \in Frame \ Abstract!InUse
<1>1. f # NoFrame
  BY FrameFacts DEF NoFrame
<1> QED
  BY <1>1 DEF Abstract!InUse, UsedFrames, MappedPages

(* A page table is made. *)
LEMMA GetMapsToSpace ==
  ASSUME VMMInv, NEW page \in Page, NEW user \in BOOLEAN, GetPageForAddress(page, user)
  PROVE  Abstract!Next \/ UNCHANGED <<Space, TableFrames>>
<1>1. CASE ~HasTable(page) /\ CreateTable(page, user)
  <2>1. /\ TakenFrame \in Frame \ UsedFrames
        /\ TableFrames' = TableFrames \cup {TakenFrame}
        /\ MappedPages' = MappedPages
        /\ \A p \in MappedPages : VirtualToPhysical(p)' = VirtualToPhysical(p)
    BY <1>1, TableCreated
  <2>2. UNCHANGED Space
    <3>1. \A p \in Page : /\ Mapped(p)' <=> Mapped(p)
                          /\ Mapped(p) => VirtualToPhysical(p)' = VirtualToPhysical(p)
      BY <2>1 DEF MappedPages
    <3> QED
      BY <3>1 DEF Space
  <2>3. PICK f \in Frame \ UsedFrames : f = TakenFrame
    BY <2>1
  <2>4. f \in Frame \ Abstract!InUse
    BY SpaceInUse
  <2>5. Abstract!AddTable
    BY <2>1, <2>2, <2>3, <2>4 DEF Abstract!AddTable, Space
  <2> QED
    BY <2>5 DEF Abstract!Next
<1>2. CASE UNCHANGED <<directory, memory>>
  BY <1>2, WalkUnchanged, SpaceUnchanged DEF MappedPages
<1> QED
  BY <1>1, <1>2 DEF GetPageForAddress

(* A page is mapped. *)
LEMMA FillMapsToSpace ==
  ASSUME VMMInv, NEW kernel \in BOOLEAN, AllocPage(kernel)
  PROVE  Abstract!Next
<1>1. PICK page \in Page : HasTable(page) /\ pte = FoundEntry(page) /\ ~EntryOf(page).present
  BY DEF VMMInv, PendingInv, AllocPage
<1>2. /\ TakenFrame \in Frame \ UsedFrames
      /\ TableFrames' = TableFrames
      /\ MappedPages' = MappedPages \cup {page} /\ page \notin MappedPages
      /\ VirtualToPhysical(page)' = TakenFrame
      /\ \A p \in MappedPages : VirtualToPhysical(p)' = VirtualToPhysical(p)
  BY <1>1, PageFilled
<1>3. PICK f \in Frame \ UsedFrames : f = TakenFrame
  BY <1>2
<1>4. f \in Frame \ Abstract!InUse
  BY SpaceInUse
<1>5. Space' = [Space EXCEPT ![page] = f]
  <2>1. \A p \in Page : /\ Mapped(p)' <=> Mapped(p) \/ p = page
                        /\ Mapped(p) => p # page /\ VirtualToPhysical(p)' = VirtualToPhysical(p)
    BY <1>2 DEF MappedPages
  <2>2. \A p \in Page : (IF Mapped(p)' THEN VirtualToPhysical(p)' ELSE NoFrame)
                        = IF p = page THEN f ELSE Space[p]
    BY <1>2, <1>3, <2>1 DEF Space
  <2> QED
    BY <2>2 DEF Space
<1>6. Space[page] = NoFrame
  BY <1>2 DEF Space, MappedPages
<1>7. Abstract!Map(page)
  BY <1>2, <1>4, <1>5, <1>6 DEF Abstract!Map, Space
<1> QED
  BY <1>7 DEF Abstract!Next

(* A page is no longer mapped. *)
LEMMA FreeMapsToSpace ==
  ASSUME VMMInv, NEW page \in OtherPages, FreePage(page)
  PROVE  Abstract!Next
<1>1. /\ TableFrames' = TableFrames
      /\ MappedPages' = MappedPages \ {page} /\ page \in MappedPages
      /\ \A p \in MappedPages' : VirtualToPhysical(p)' = VirtualToPhysical(p)
  BY PageFreed
<1>2. page \in Page /\ VirtualToPhysical(page) \in Frame
  BY <1>1, UsedFacts, PageFacts
<1>3. Space' = [Space EXCEPT ![page] = NoFrame]
  <2>1. \A p \in Page : /\ Mapped(p)' <=> Mapped(p) /\ p # page
                        /\ Mapped(p)' => VirtualToPhysical(p)' = VirtualToPhysical(p)
    BY <1>1 DEF MappedPages
  <2>2. \A p \in Page : (IF Mapped(p)' THEN VirtualToPhysical(p)' ELSE NoFrame)
                        = IF p = page THEN NoFrame ELSE Space[p]
    BY <2>1 DEF Space
  <2> QED
    BY <2>2 DEF Space
<1>4. Space[page] # NoFrame
  BY <1>1, <1>2, FrameFacts DEF Space, MappedPages, NoFrame
<1>5. Abstract!Unmap(page)
  BY <1>1, <1>3, <1>4 DEF Abstract!Unmap, Space
<1> QED
  BY <1>2, <1>5 DEF Abstract!Next

LEMMA SpaceStep == VMMInv /\ [VMMNext]_allVars => [Abstract!Next]_(Abstract!vars)
<1> SUFFICES ASSUME VMMInv, [VMMNext]_allVars
             PROVE  Abstract!Next \/ UNCHANGED <<Space, TableFrames>>
  BY DEF Abstract!vars, Space
<1>1. ASSUME UNCHANGED <<directory, memory>> PROVE UNCHANGED <<Space, TableFrames>>
  BY <1>1, WalkUnchanged, SpaceUnchanged DEF MappedPages
<1>2. CASE BootPMM \/ Exhausted \/ UNCHANGED allVars
  BY <1>1, <1>2 DEF BootPMM, Exhausted, OutOfMemory, vmmVars, allVars
<1>3. CASE InstallSelf
  <2>1. /\ stage = "boot" /\ memory' = memory
        /\ directory' = [directory EXCEPT ![SelfDir] =
             [present |-> TRUE, write |-> TRUE, user |-> FALSE, large |-> FALSE, frame |-> DirFrame]]
    BY <1>3 DEF InstallSelf
  <2>2. TableDirs = {}
    BY <2>1 DEF VMMInv, StageInv, TableDirs
  <2>3. [present |-> TRUE, write |-> TRUE, user |-> FALSE, large |-> FALSE, frame |-> DirFrame]
          \in DirEntry
    BY RangesAssumption DEF DirEntry
  <2>4. /\ TableFrames' = TableFrames /\ MappedPages' = MappedPages
        /\ \A p \in Page : VirtualToPhysical(p)' = VirtualToPhysical(p)
    BY <2>1, <2>2, <2>3, EntryInstalled
  <2> QED
    BY <2>4, SpaceUnchanged DEF MappedPages
<1>4. CASE MapIdentity
  <2>1. memory' = memory /\ directory' = [directory EXCEPT ![0] = LargeDirEntry]
    BY <1>4 DEF MapIdentity
  <2>2. LargeDirEntry \in DirEntry /\ LargeDirEntry.large
    BY FrameFacts DEF LargeDirEntry, EmptyDirEntry, DirEntry
  <2>3. \A c \in TableDirs : c # 0
    BY DEF VMMInv, TablesInv
  <2>4. /\ TableFrames' = TableFrames /\ MappedPages' = MappedPages
        /\ \A p \in Page : VirtualToPhysical(p)' = VirtualToPhysical(p)
    BY <2>1, <2>2, <2>3, EntryInstalled
  <2> QED
    BY <2>4, SpaceUnchanged DEF MappedPages
<1>5. CASE HeapGetPage
  <2>1. PICK page \in Page : page = next
    BY <1>5, PageFacts DEF HeapGetPage
  <2>2. GetPageForAddress(page, FALSE)
    BY <1>5, <2>1 DEF HeapGetPage
  <2> QED
    BY <2>2, GetMapsToSpace
<1>6. ASSUME NEW page \in OtherPages, NEW user \in BOOLEAN, RequestPage(page, user)
      PROVE  Abstract!Next \/ UNCHANGED <<Space, TableFrames>>
  BY <1>6, PageFacts, GetMapsToSpace DEF RequestPage
<1>7. CASE HeapAllocPage \/ \E kernel \in BOOLEAN : FillPage(kernel)
  BY <1>7, FillMapsToSpace DEF HeapAllocPage, FillPage
<1>8. ASSUME NEW page \in OtherPages, FreePage(page) PROVE Abstract!Next
  BY <1>8, FreeMapsToSpace
<1> QED
  BY <1>2, <1>3, <1>4, <1>5, <1>6, <1>7, <1>8 DEF VMMNext

(* One page has one frame: the two managers implement the address space    *)
(* step by step, also where a request fails in the middle.                 *)
THEOREM AddressSpaceKept == VMMSpec => ImplementsAddressSpace
<1>1. VMMInit => Abstract!Init
  BY VMMInitInv, SpaceInit
<1> QED
  BY <1>1, VMMInductive, SpaceStep, PTL DEF VMMSpec, ImplementsAddressSpace, Abstract!Spec

=============================================================================
