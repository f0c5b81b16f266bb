-------------------------------- MODULE VMM --------------------------------
(***************************************************************************)
(* The virtual memory manager on top of the physical one: the constructor  *)
(* maps the kernel heap page by page, then pages are requested and given   *)
(* back one at a time.  A request is the two calls the code makes,         *)
(* allocPage(getPageForAddress(...)), each a step of its own.              *)
(*                                                                         *)
(* A page is named by its number; directory and table index are its        *)
(* quotient and remainder by PagesPerTable.                                *)
(***************************************************************************)
EXTENDS PMM

CONSTANTS
  PagesPerDir,    \* PAGES_PER_DIR, the entries of the page directory
  PagesPerTable,  \* PAGES_PER_TABLE, the entries of a page table
  KernelDir,      \* KERNEL_PTNUM, the entry that maps the kernel image
  DirFrame,       \* the frame of bootPageDirectory
  HeapPages,      \* the page numbers of the kernel heap
  OtherPages,     \* the pages requested after boot
  NoEntry         \* the null pointer to a table entry

VARIABLES
  stage,     \* how far the constructor is
  next,      \* the heap page its loop is at
  directory, \* bootPageDirectory
  memory,    \* what each frame holds, read as a page table
  pte        \* the entry getPageForAddress returned and allocPage is to fill

vmmVars == <<stage, next, directory, memory, pte>>
allVars == <<stage, next, directory, memory, pte,
             mmap, phase, entry, memoryMap, maxBlocks, usedBlocks, owned, multi>>

Stage == {"boot", "heap", "ready"}
Dir == 0 .. PagesPerDir - 1
Index == 0 .. PagesPerTable - 1
Page == HeapPages \cup OtherPages
SelfDir == PagesPerDir - 1

DirEntry == [present : BOOLEAN, write : BOOLEAN, user : BOOLEAN, large : BOOLEAN, frame : Frame]
TableEntry == [present : BOOLEAN, write : BOOLEAN, user : BOOLEAN, frame : Frame]

DirOf(page) == page \div PagesPerTable
IndexOf(page) == page % PagesPerTable

EmptyDirEntry ==
  [present |-> FALSE, write |-> FALSE, user |-> FALSE, large |-> FALSE, frame |-> 0]
EmptyTableEntry == [present |-> FALSE, write |-> FALSE, user |-> FALSE, frame |-> 0]
LargeDirEntry == [EmptyDirEntry EXCEPT !.present = TRUE, !.write = TRUE, !.large = TRUE]

(* What a frame holds before anything is written to it: taken for a page    *)
(* table, every entry maps frame 0 for everybody.                           *)
Garbage == [present |-> TRUE, write |-> TRUE, user |-> TRUE, frame |-> 0]

ASSUME PagesAssumption ==
  /\ {PagesPerDir, PagesPerTable} \subseteq Nat \ {0}
  /\ \A page \in Page : DirOf(page) \in Dir \ {0, KernelDir, SelfDir}
  /\ HeapPages \cap OtherPages = {}

(* The constructor's loop runs over a range of pages. *)
ASSUME RangesAssumption ==
  /\ Page \subseteq Nat
  /\ \E first, last \in HeapPages : HeapPages = first .. last
  /\ DirFrame \in Frame

-----------------------------------------------------------------------------
(* The page table walk of the processor. *)

HasTable(page) == directory[DirOf(page)].present

EntryOf(page) == memory[directory[DirOf(page)].frame][IndexOf(page)]

Mapped(page) == HasTable(page) /\ EntryOf(page).present

(* User code reaches a page when both levels allow it. *)
UserMayAccess(page) ==
  Mapped(page) /\ directory[DirOf(page)].user /\ EntryOf(page).user

KernelMayWrite(page) ==
  Mapped(page) /\ directory[DirOf(page)].write /\ EntryOf(page).write

(* virtualToPhysical, without the offset in the page. *)
VirtualToPhysical(page) == EntryOf(page).frame

(* The frames getPageForAddress took for page tables. *)
TableDirs == {d \in Dir : directory[d].present /\ ~directory[d].large /\ d # SelfDir}
TableFrames == {directory[d].frame : d \in TableDirs}

-----------------------------------------------------------------------------
(* The calls into the physical memory manager. *)

TakeFrame == AllocBlock /\ phase' = "running"

(* The frame a step takes. *)
TakenFrame == CHOOSE f \in Frame : owned'[f] > owned[f]

OutOfMemory ==
  /\ AllocBlock
  /\ phase' = "panic"
  /\ UNCHANGED vmmVars

-----------------------------------------------------------------------------
(* The operations. *)

FoundEntry(page) ==
  [table |-> directory[DirOf(page)].frame, index |-> IndexOf(page)]

(* The entry of a new page table in the directory. *)
EnterTable(page, user, frame) ==
  directory' = [directory EXCEPT ![DirOf(page)] =
    [present |-> TRUE, write |-> TRUE, user |-> user, large |-> FALSE, frame |-> frame]]

(* Variant: a fresh page table keeps what its frame held before. *)
CreateTableUncleared(page, user) ==
  /\ TakeFrame
  /\ EnterTable(page, user, TakenFrame)
  /\ pte' = [table |-> TakenFrame, index |-> IndexOf(page)]
  /\ UNCHANGED memory

(* Variant: a fresh page table is not entered in the directory. *)
CreateTableUnlinked(page, user) ==
  /\ TakeFrame
  /\ memory' = [memory EXCEPT ![TakenFrame] = [i \in Index |-> EmptyTableEntry]]
  /\ pte' = [table |-> TakenFrame, index |-> IndexOf(page)]
  /\ UNCHANGED directory

(* A missing page table is allocated, entered and cleared. *)
CreateTable(page, user) ==
  /\ TakeFrame
  /\ EnterTable(page, user, TakenFrame)
  /\ memory' = [memory EXCEPT ![TakenFrame] = [i \in Index |-> EmptyTableEntry]]
  /\ pte' = [table |-> TakenFrame, index |-> IndexOf(page)]

(* getPageForAddress(address, true, true, user): the entry of the page.    *)
GetPageForAddress(page, user) ==
  /\ phase = "running"
  /\ pte = NoEntry
  /\ \/ ~HasTable(page) /\ CreateTable(page, user)
     \/ /\ HasTable(page)
        /\ pte' = FoundEntry(page)
        /\ UNCHANGED <<directory, memory>>
        /\ UNCHANGED pmmVars

(* allocPage(pte, kernel, true): bits that are set already stay set. *)
AllocPage(kernel) ==
  /\ pte # NoEntry
  /\ TakeFrame
  /\ memory' = [memory EXCEPT ![pte.table][pte.index] =
       [present |-> TRUE, write |-> TRUE, user |-> @.user \/ ~kernel, frame |-> TakenFrame]]
  /\ pte' = NoEntry
  /\ UNCHANGED directory

(* Variant: the frame goes back, the entry keeps it mapped. *)
FreePageStillMapped(page) ==
  /\ stage = "ready" /\ pte = NoEntry
  /\ Mapped(page)
  /\ EntryOf(page).frame # 0
  /\ FreeBlock(EntryOf(page).frame)
  /\ UNCHANGED <<memory, stage, next, directory, pte>>

(* freePage of a mapped page: the entry keeps the frame number, but is no  *)
(* longer present.                                                         *)
FreePage(page) ==
  /\ stage = "ready" /\ pte = NoEntry
  /\ Mapped(page)
  /\ IF EntryOf(page).frame # 0
       THEN FreeBlock(EntryOf(page).frame)
       ELSE UNCHANGED pmmVars
  /\ memory' = [memory EXCEPT ![directory[DirOf(page)].frame][IndexOf(page)].present = FALSE]
  /\ UNCHANGED <<stage, next, directory, pte>>

-----------------------------------------------------------------------------
(* The constructor. *)

(* The directory of the boot loader code: the kernel's entry is present,   *)
(* the identity mapping it started with has been cleared.                  *)
VMMInit ==
  /\ Init
  /\ stage = "boot"
  /\ next = CHOOSE p \in HeapPages : \A q \in HeapPages : p <= q
  /\ directory = [d \in Dir |-> IF d = KernelDir THEN LargeDirEntry ELSE EmptyDirEntry]
  /\ memory = [f \in Frame |-> [i \in Index |-> Garbage]]
  /\ pte = NoEntry

(* kmain sets up the physical memory manager first. *)
BootPMM == Boot /\ UNCHANGED vmmVars

(* The last entry of the directory maps the directory itself. *)
InstallSelf ==
  /\ phase = "running"
  /\ stage = "boot"
  /\ directory' = [directory EXCEPT ![SelfDir] =
       [present |-> TRUE, write |-> TRUE, user |-> FALSE, large |-> FALSE, frame |-> DirFrame]]
  /\ stage' = "heap"
  /\ UNCHANGED <<next, memory, pte>> /\ UNCHANGED pmmVars

(* Variant: the table of the heap is created for user code as well. *)
HeapGetUserPage ==
  /\ stage = "heap"
  /\ next \in HeapPages
  /\ GetPageForAddress(next, TRUE)
  /\ UNCHANGED <<stage, next>>

HeapGetPage ==
  /\ stage = "heap"
  /\ next \in HeapPages
  /\ GetPageForAddress(next, FALSE)
  /\ UNCHANGED <<stage, next>>

HeapAllocPage ==
  /\ stage = "heap"
  /\ AllocPage(FALSE)
  /\ next' = next + 1
  /\ UNCHANGED stage

(* The loop is over: the first 4 MB are mapped one to one. *)
MapIdentity ==
  /\ phase = "running"
  /\ stage = "heap" /\ pte = NoEntry
  /\ next \notin HeapPages
  /\ directory' = [directory EXCEPT ![0] = LargeDirEntry]
  /\ stage' = "ready"
  /\ UNCHANGED <<next, memory, pte>> /\ UNCHANGED pmmVars

(* After boot: a page that is not mapped is requested. *)
RequestPage(page, user) ==
  /\ stage = "ready"
  /\ ~Mapped(page)
  /\ GetPageForAddress(page, user)
  /\ UNCHANGED <<stage, next>>

FillPage(kernel) ==
  /\ stage = "ready"
  /\ AllocPage(kernel)
  /\ UNCHANGED <<stage, next>>

(* Any of the calls may find the physical memory exhausted. *)
Exhausted ==
  /\ stage \in {"heap", "ready"}
  /\ \/ pte # NoEntry
     \/ \E page \in Page : /\ ~HasTable(page)
                           /\ stage = "heap" => page = next
  /\ OutOfMemory

VMMNext ==
  \/ BootPMM
  \/ InstallSelf
  \/ HeapGetPage
  \/ HeapAllocPage
  \/ MapIdentity
  \/ \E page \in OtherPages, user \in BOOLEAN : RequestPage(page, user)
  \/ \E kernel \in BOOLEAN : FillPage(kernel)
  \/ \E page \in OtherPages : FreePage(page)
  \/ Exhausted

VMMSpec == VMMInit /\ [][VMMNext]_allVars

-----------------------------------------------------------------------------
(* Properties. *)

(* Directory, tables and the pending entry keep their types; a pending     *)
(* entry always lies in a frame that is a page table.                      *)
VMMTypeOK ==
  /\ TypeOK
  /\ stage \in Stage
  /\ next \in Nat
  /\ directory \in [Dir -> DirEntry]
  /\ memory \in [Frame -> [Index -> TableEntry]]
  /\ pte = NoEntry \/ (pte \in [table : Frame, index : Index] /\ pte.table \in TableFrames)

(* The two managers agree on every frame: it is held in the physical one   *)
(* exactly as often as the page tables use it, as a page or as a table.    *)
(* Nothing leaks and nothing dangles across request, fill and free.        *)
FramesAccounted ==
  \A f \in Frame :
    owned[f] = Cardinality({page \in Page : Mapped(page) /\ VirtualToPhysical(page) = f})
               + Cardinality({d \in TableDirs : directory[d].frame = f})

(* No page of the kernel, and no page table, can be written through the    *)
(* mapping of another page: mapped frames are neither tables nor frames of *)
(* the image, the bitmap or low memory.                                    *)
TablesUnreachable ==
  \A page \in Page :
    Mapped(page) => VirtualToPhysical(page) \notin TableFrames \cup Protected

(* The heap is ready when the constructor returns, every page of it stays  *)
(* writable for the kernel and out of reach for user code, although its    *)
(* entries are marked user pages: only the directory entry protects it.    *)
HeapSupervisorOnly ==
  stage = "ready" =>
    \A page \in HeapPages : KernelMayWrite(page) /\ ~UserMayAccess(page)

NoFrame == -1

(* The address space the kernel sees: every step of the two managers is a  *)
(* step of the abstract one, or changes nothing in it.                     *)
Abstract == INSTANCE AddressSpace
  WITH space <- [page \in Page |-> IF Mapped(page) THEN VirtualToPhysical(page) ELSE NoFrame],
       tables <- TableFrames

ImplementsAddressSpace == Abstract!Spec

=============================================================================
