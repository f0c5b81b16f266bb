-------------------------------- MODULE Heap --------------------------------
(***************************************************************************)
(* The kernel heap: a doubly linked list of chunks in address order, each  *)
(* a header followed by its bytes.  malloc walks the list to the first     *)
(* free chunk that is large enough and splits it, free merges chunks.      *)
(*                                                                         *)
(* free() gives a chunk to its predecessor when that predecessor is in     *)
(* use, and links the successor of a merged chunk to the wrong             *)
(* predecessor; both are modelled as they are written.  The variable       *)
(* relinked records that the wrong link has been made.                     *)
(***************************************************************************)
EXTENDS Integers, FiniteSets, FiniteSetsExt

CONSTANTS
  Start,    \* KERNEL_HEAP_START
  Mapped,   \* KERNEL_HEAP_SIZE, the bytes the virtual memory manager maps
  Size,     \* the size kmain passes: KERNEL_HEAP_START + KERNEL_HEAP_SIZE
  Header,   \* sizeof(MemoryChunk)
  U32,      \* the number of u32 values
  Requests  \* the sizes malloc is called with

VARIABLES
  hdr,         \* the headers in memory, by address
  usedMemory,  \* the counter malloc asks first
  pc,          \* what the heap is doing: see Pc
  request,     \* the size malloc is looking for
  cursor,      \* the chunk malloc looks at
  live,        \* history: the blocks malloc returned and nobody freed
  chain,       \* history: the chunks that were split off and not merged
  relinked     \* history: a chunk was linked to the wrong predecessor

heapVars == <<hdr, usedMemory, pc, request, cursor, live, chain, relinked>>

Null == 0
Pc == {"idle", "search", "panic", "fault", "wild"}
Chunk == [next : Nat, prev : Nat, allocated : BOOLEAN, size : Nat]

(* A request either keeps the addresses malloc computes from wrapping      *)
(* around, or is larger than every chunk.                                  *)
ASSUME HeapAssumption ==
  /\ {Start, Header, U32} \subseteq Nat \ {0}
  /\ {Mapped, Size} \subseteq Nat
  /\ Header <= Mapped
  /\ Mapped <= Size
  /\ Size < U32
  /\ Requests \subseteq 0 .. U32 - 1
  /\ \A r \in Requests : Start + Mapped + Header + r < U32 \/ r >= Size

(* A request that fits into the heap at all is smaller than what malloc    *)
(* believes in behind the mapped memory, which is KERNEL_HEAP_START bytes  *)
(* (main.cpp:81).                                                          *)
ASSUME RequestsSmall == \A r \in Requests : r + Header < Size - Mapped \/ r >= Size

(* The bytes [from, to) are written over: headers there are gone. *)
Overwrite(h, from, to) ==
  [a \in {x \in DOMAIN h : x + Header <= from \/ to <= x} |-> h[a]]

-----------------------------------------------------------------------------
(* The constructor: one free chunk. *)
Init ==
  /\ hdr = [a \in {Start} |-> [next |-> Null, prev |-> Null,
                               allocated |-> FALSE, size |-> Size - Header]]
  /\ usedMemory = 0
  /\ pc = "idle"
  /\ request = 0
  /\ cursor = Null
  /\ live = {}
  /\ chain = {Start}
  /\ relinked = FALSE

(* The kernel stops: KPANIC, or the outcome of an access to memory that is *)
(* not mapped (fault) or does not hold a header any more (wild).           *)
Stop(how) ==
  /\ pc' = how
  /\ UNCHANGED <<hdr, usedMemory, request, cursor, live, chain, relinked>>

-----------------------------------------------------------------------------
(* internalMalloc. *)

Malloc(size) ==
  /\ pc = "idle"
  /\ (usedMemory + size + Header) % U32 < Size
  /\ pc' = "search"
  /\ request' = size
  /\ cursor' = Start
  /\ UNCHANGED <<hdr, usedMemory, live, chain, relinked>>

MallocExhausted(size) ==
  /\ pc = "idle"
  /\ (usedMemory + size + Header) % U32 >= Size
  /\ request' = size
  /\ pc' = "panic"
  /\ UNCHANGED <<hdr, usedMemory, cursor, live, chain, relinked>>

(* Variant: a chunk in use fits as well. *)
FitsInUse(a) == hdr[a].size > request

Fits(a) == hdr[a].size > request /\ ~hdr[a].allocated

(* The loop goes on to the next chunk. *)
SearchNext ==
  /\ pc = "search"
  /\ cursor \in DOMAIN hdr
  /\ ~Fits(cursor)
  /\ cursor' = hdr[cursor].next
  /\ UNCHANGED <<hdr, usedMemory, pc, request, live, chain, relinked>>

(* The end of the list; a pointer to something that is no header any more  *)
(* leads anywhere.                                                         *)
SearchFailed ==
  /\ pc = "search"
  /\ cursor \notin DOMAIN hdr
  /\ Stop(IF cursor = Null THEN "panic" ELSE "wild")

(* malloc returns the bytes of the chunk at cursor. *)
Return(headers) ==
  /\ hdr' = headers
  /\ usedMemory' = (usedMemory + request + Header) % U32
  /\ live' = live \cup {[addr |-> cursor + Header, size |-> request]}
  /\ pc' = "idle"
  /\ request' = 0
  /\ cursor' = Null
  /\ UNCHANGED relinked

Splits(a) == hdr[a].size >= request + Header + 1

(* The chunk is used as it is. *)
TakeWhole ==
  /\ pc = "search"
  /\ cursor \in DOMAIN hdr
  /\ Fits(cursor)
  /\ ~Splits(cursor)
  /\ LET h == Overwrite(hdr, cursor + Header, cursor + Header + request)
     IN  Return([h EXCEPT ![cursor].allocated = TRUE])
  /\ UNCHANGED chain

(* Where the header behind the block goes, and what is left of the others. *)
Temp == cursor + Header + request
Kept == Overwrite(hdr, cursor + Header, Temp + Header)

(* Variant: the header may lie outside mapped memory. *)
SplitStopsUnmapped ==
  {how \in {"wild"} : hdr[cursor].next \notin DOMAIN Kept \cup {Null}}

(* What goes wrong when the chunk at cursor is split. *)
SplitStops ==
  IF Temp + Header > Start + Mapped THEN {"fault"}
  ELSE {how \in {"wild"} : hdr[cursor].next \notin DOMAIN Kept \cup {Null}}

(* Variant: the chunk behind the new one keeps its predecessor. *)
SplitAtOneWay(h, temp) ==
  [a \in DOMAIN h \cup {temp} |->
     IF a = temp THEN [next |-> h[cursor].next, prev |-> cursor, allocated |-> FALSE,
                       size |-> h[cursor].size - request - Header]
     ELSE [next      |-> IF a = cursor THEN temp ELSE h[a].next,
           prev      |-> h[a].prev,
           allocated |-> h[a].allocated \/ a = cursor,
           size      |-> IF a = cursor THEN request ELSE h[a].size]]

(* Variant: the new chunk is taken to be larger than it is by its header. *)
SplitAtTooLarge(h, temp) ==
  [a \in DOMAIN h \cup {temp} |->
     IF a = temp THEN [next |-> h[cursor].next, prev |-> cursor, allocated |-> FALSE,
                       size |-> h[cursor].size - request]
     ELSE [next      |-> IF a = cursor THEN temp ELSE h[a].next,
           prev      |-> IF a = h[cursor].next THEN temp ELSE h[a].prev,
           allocated |-> h[a].allocated \/ a = cursor,
           size      |-> IF a = cursor THEN request ELSE h[a].size]]

(* The list with a free chunk temp split off the chunk at cursor. *)
SplitAt(h, temp) ==
  [a \in DOMAIN h \cup {temp} |->
     IF a = temp THEN [next |-> h[cursor].next, prev |-> cursor, allocated |-> FALSE,
                       size |-> h[cursor].size - request - Header]
     ELSE [next      |-> IF a = cursor THEN temp ELSE h[a].next,
           prev      |-> IF a = h[cursor].next THEN temp ELSE h[a].prev,
           allocated |-> h[a].allocated \/ a = cursor,
           size      |-> IF a = cursor THEN request ELSE h[a].size]]

(* The rest of the chunk becomes a chunk of its own. *)
TakeSplit ==
  /\ pc = "search"
  /\ cursor \in DOMAIN hdr
  /\ Fits(cursor)
  /\ Splits(cursor)
  /\ SplitStops = {}
  /\ Return(SplitAt(Kept, Temp))
  /\ chain' = chain \cup {Temp}

(* The header behind the block cannot be written, or the next chunk, whose *)
(* link changes, is no chunk any more.                                     *)
SplitFails ==
  /\ pc = "search"
  /\ cursor \in DOMAIN hdr
  /\ Fits(cursor)
  /\ Splits(cursor)
  /\ \E how \in SplitStops : Stop(how)

-----------------------------------------------------------------------------
(* free. *)

(* Chunk a takes over chunk n: its bytes, its header and its successor,    *)
(* which is linked back to the chunk called back.                          *)
Absorb(h, a, n, back) ==
  [x \in DOMAIN h |->
     [next      |-> IF x = a THEN h[n].next ELSE h[x].next,
      prev      |-> IF x = h[n].next THEN back ELSE h[x].prev,
      allocated |-> h[x].allocated,
      size      |-> IF x = a THEN (h[a].size + h[n].size + Header) % U32 ELSE h[x].size]]

(* The steps of free(c + Header): the chunk is marked free, its           *)
(* predecessor takes it over if that is in use, and what results takes     *)
(* over its successor if that is free.                                     *)
Marked(c) == [hdr EXCEPT ![c].allocated = FALSE]

GoesBack(c) == hdr[c].prev # Null /\ Marked(c)[hdr[c].prev].allocated

Merged(c) ==
  IF GoesBack(c) THEN Absorb(Marked(c), hdr[c].prev, c, hdr[c].prev) ELSE Marked(c)

Owner(c) == IF GoesBack(c) THEN hdr[c].prev ELSE c

Follower(c) == Merged(c)[Owner(c)].next

TakesNext(c) == Follower(c) # Null /\ ~Merged(c)[Follower(c)].allocated

Freed(c) ==
  IF TakesNext(c)
    THEN Absorb(Merged(c), Owner(c), Follower(c), Merged(c)[Owner(c)].prev)
    ELSE Merged(c)

(* Every pointer free() follows leads to a header. *)
FreeIsSafe(c) ==
  LET ok(a) == a \in DOMAIN hdr \cup {Null}
  IN  /\ c \in DOMAIN hdr
      /\ ok(hdr[c].prev) /\ ok(hdr[c].next)
      /\ ok(Follower(c))
      /\ TakesNext(c) => ok(Merged(c)[Follower(c)].next)

Free(block) ==
  LET c == block.addr - Header
  IN  /\ pc = "idle"
      /\ FreeIsSafe(c)
      /\ hdr' = Freed(c)
      /\ live' = live \ {block}
      /\ chain' = chain \ ({x \in {c} : GoesBack(c)} \cup {x \in {Follower(c)} : TakesNext(c)})
      /\ relinked' = (relinked \/ (TakesNext(c) /\ Merged(c)[Follower(c)].next # Null))
      /\ UNCHANGED <<usedMemory, pc, request, cursor>>

FreeWild(block) ==
  /\ pc = "idle"
  /\ ~FreeIsSafe(block.addr - Header)
  /\ Stop("wild")

Next ==
  \/ \E size \in Requests : Malloc(size) \/ MallocExhausted(size)
  \/ SearchNext \/ SearchFailed
  \/ TakeWhole \/ TakeSplit \/ SplitFails
  \/ \E block \in live : Free(block) \/ FreeWild(block)

Spec == Init /\ [][Next]_heapVars

-----------------------------------------------------------------------------
(* Properties. *)

(* Headers lie in mapped memory, and every variable keeps its type. *)
HeadersOK(h) ==
  /\ DOMAIN h \subseteq Start .. Start + Mapped - Header
  /\ \A a \in DOMAIN h : h[a] \in Chunk

TypeOK ==
  /\ HeadersOK(hdr)
  /\ usedMemory \in 0 .. U32 - 1
  /\ pc \in Pc
  /\ request \in 0 .. U32 - 1
  /\ cursor \in Nat
  /\ live \subseteq [addr : Nat, size : Nat]
  /\ chain \subseteq Nat
  /\ relinked \in BOOLEAN

End(h, a) == a + Header + h[a].size

(* The chunks in C, with the headers h, tile the heap: forward and backward *)
(* links agree, and there is no gap and no overlap.                         *)
Tiles(h, C) ==
  /\ Start \in C
  /\ C \subseteq DOMAIN h
  /\ h[Start].prev = Null
  /\ \A a \in C \ {Start} : h[a].prev \in C /\ h[h[a].prev].next = a
  /\ \A a \in C :
       \/ h[a].next = Null /\ End(h, a) = Start + Size
       \/ h[a].next \in C /\ End(h, a) = h[a].next /\ h[h[a].next].prev = a
  /\ \A a, b \in C : a < b => End(h, a) <= b

(* Until a chunk is linked to the wrong predecessor, the list is what it   *)
(* should be whatever the order of malloc and free, although free() gives  *)
(* chunks to predecessors that are in use.                                 *)
Tiling == ~relinked => Tiles(hdr, chain)

(* Until then no two blocks in use overlap, and none reaches into a header *)
(* of the list: free() taking a chunk for one in use does not endanger it. *)
LiveDisjoint ==
  ~relinked =>
    /\ \A b \in live : /\ b.addr - Header \in chain
                       /\ hdr[b.addr - Header].allocated
                       /\ b.size <= hdr[b.addr - Header].size
    /\ \A b, c \in live : b # c => b.addr + b.size <= c.addr \/ c.addr + c.size <= b.addr

(* Until then malloc and free follow no pointer to memory that is not a    *)
(* header.                                                                 *)
NoWildAccess == pc = "wild" => relinked

(* A block malloc returns lies in memory the virtual memory manager has    *)
(* mapped, although malloc believes in a heap of START + SIZE bytes: it    *)
(* touches the header behind the block before it returns, and a chunk that *)
(* is used as it is has a header behind it already.  That needs            *)
(* RequestsSmall: a request that just fits into the last chunk would be    *)
(* served without a header behind it.                                      *)
LiveMapped == \A b \in live : b.addr + b.size <= Start + Mapped

(* KPANIC("Out of memory") at Heap.cpp:38 and :52: malloc gives up only if *)
(* the blocks in use and the request do not fit into the heap together.    *)
LiveBytes == MapThenSumSet(LAMBDA b : b.size + Header, live)

PanicMeansFull == pc = "panic" => LiveBytes + request + Header > Mapped

(* main.cpp:82 logs a heap of KERNEL_HEAP_SIZE bytes, and malloc panics    *)
(* when they are used up: it does not run into unmapped memory.            *)
NeverFaults == pc # "fault"

=============================================================================
