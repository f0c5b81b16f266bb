---------------------------- MODULE Heap_proofs ----------------------------
(***************************************************************************)
(* What the heap guarantees for every heap size, header size and sequence  *)
(* of requests: as long as free() has not linked a chunk to the wrong      *)
(* predecessor, the chunks tile the heap, blocks in use do not overlap and *)
(* no pointer leads astray.                                                *)
(***************************************************************************)
EXTENDS Heap, TLAPS

(* malloc looks at a chunk of the list, or has come to its end. *)
SearchInv == ~relinked /\ pc = "search" => cursor \in chain \cup {Null}

(* Every block in use fills a chunk of its own that is marked as in use. *)
LiveInv ==
  ~relinked =>
    /\ \A b \in live : /\ b.addr - Header \in chain
                       /\ hdr[b.addr - Header].allocated
                       /\ b.size <= hdr[b.addr - Header].size
    /\ \A b, c \in live : b.addr = c.addr => b = c

Inv == TypeOK /\ Tiling /\ SearchInv /\ LiveInv /\ NoWildAccess

(* The numbers the proofs calculate with. *)
LEMMA Numbers ==
  /\ Start \in Nat /\ Start > 0
  /\ Header \in Nat /\ Header > 0
  /\ U32 \in Nat /\ U32 > 0
  /\ Mapped \in Nat /\ Size \in Nat
  /\ Header <= Mapped /\ Mapped <= Size /\ Size < U32
BY HeapAssumption

(* A remainder lies below its modulus, and is the number itself if that    *)
(* lies below it already.                                                  *)
LEMMA ModFacts ==
  ASSUME NEW x \in Nat, NEW m \in Nat \ {0}
  PROVE  /\ x % m \in 0 .. m - 1
         /\ x < m => x % m = x
OBVIOUS

-----------------------------------------------------------------------------
(* Lists of chunks. *)

(* A chunk of a tiling starts and ends within the heap. *)
LEMMA TilesBounds ==
  ASSUME NEW h, NEW C, HeadersOK(h), Tiles(h, C), NEW a \in C
  PROVE  /\ a \in DOMAIN h /\ a \in Nat /\ a >= Start
         /\ a + Header <= Start + Mapped
         /\ h[a].size \in Nat /\ h[a].next \in Nat /\ h[a].prev \in Nat
         /\ h[a].allocated \in BOOLEAN
         /\ End(h, a) \in Nat /\ End(h, a) > a
         /\ End(h, a) <= Start + Size
<1>1. a \in DOMAIN h /\ h[a] \in Chunk /\ a \in Start .. Start + Mapped - Header
  BY DEF HeadersOK, Tiles
<1>2. /\ a \in Nat /\ a >= Start /\ a + Header <= Start + Mapped
      /\ h[a].size \in Nat /\ h[a].next \in Nat /\ h[a].prev \in Nat
      /\ h[a].allocated \in BOOLEAN
  BY <1>1, Numbers DEF Chunk
<1>3. End(h, a) \in Nat /\ End(h, a) > a
  BY <1>2, Numbers DEF End
<1>4. CASE h[a].next = Null /\ End(h, a) = Start + Size
  BY <1>1, <1>2, <1>3, <1>4
<1>5. CASE h[a].next \in C /\ End(h, a) = h[a].next
  <2>1. h[a].next \in Start .. Start + Mapped - Header
    BY <1>5 DEF HeadersOK, Tiles
  <2> QED
    BY <1>1, <1>2, <1>3, <1>5, <2>1, Numbers
<1> QED
  BY <1>4, <1>5 DEF Tiles

(* The successor of a chunk of a tiling. *)
LEMMA TilesNext ==
  ASSUME NEW h, NEW C, Tiles(h, C), NEW a \in C, h[a].next # Null
  PROVE  h[a].next \in C /\ End(h, a) = h[a].next /\ h[h[a].next].prev = a
BY DEF Tiles

(* The last chunk of a tiling reaches to the end of the heap. *)
LEMMA TilesLast ==
  ASSUME NEW h, NEW C, HeadersOK(h), Tiles(h, C), NEW a \in C, h[a].next = Null
  PROVE  End(h, a) = Start + Size
<1>1. Null \notin C
  <2> SUFFICES ASSUME Null \in C PROVE FALSE
    OBVIOUS
  <2>1. Null >= Start
    BY TilesBounds
  <2> QED
    BY <2>1, Numbers DEF Null
<1> QED
  BY <1>1 DEF Tiles

(* A chunk that takes over its successor leaves a tiling, provided the     *)
(* chunk behind the two is linked back to it or does not exist; no other   *)
(* chunk changes.                                                          *)
LEMMA AbsorbTiles ==
  ASSUME NEW h, NEW C, HeadersOK(h), Tiles(h, C),
         NEW a \in C, NEW n, n = h[a].next, n # Null,
         NEW back \in Nat, back = a \/ h[n].next = Null
  PROVE  LET g == Absorb(h, a, n, back)
         IN  /\ Tiles(g, C \ {n})
             /\ \A x \in C \ {n} : g[x].allocated = h[x].allocated /\ g[x].size >= h[x].size
<1> DEFINE g == Absorb(h, a, n, back)
           m == h[n].next
<1>1. n \in C /\ End(h, a) = n /\ h[n].prev = a
  BY TilesNext
<1>2. C \subseteq DOMAIN h /\ DOMAIN g = DOMAIN h
  BY DEF Tiles, Absorb
<1>3. n \in Nat /\ a \in Nat /\ n > a /\ a >= Start
  BY <1>1, TilesBounds
<1>4. m = Null \/ (m \in C /\ End(h, n) = m /\ h[m].prev = n)
  BY <1>1, TilesNext
<1>5. m # n /\ m # a /\ m # Start
  <2>1. End(h, n) > n /\ End(h, n) \in Nat
    BY <1>1, TilesBounds
  <2> QED
    BY <1>3, <1>4, <2>1, Numbers DEF Null
<1>6. g[a].size = h[a].size + h[n].size + Header
  <2>1. h[a].size \in Nat /\ h[n].size \in Nat /\ End(h, n) <= Start + Size
    BY <1>1, TilesBounds
  <2>2. h[a].size + h[n].size + Header \in Nat
    BY <2>1, Numbers
  <2>3. a + Header + h[a].size = n /\ n + Header + h[n].size <= Start + Size
    BY <1>1, <2>1 DEF End
  <2>4. h[a].size + h[n].size + Header < U32
    BY <1>3, <2>1, <2>3, Numbers
  <2>5. (h[a].size + h[n].size + Header) % U32 = h[a].size + h[n].size + Header
    <3> DEFINE sum == h[a].size + h[n].size + Header
    <3> HIDE DEF sum
    <3>1. sum \in Nat /\ sum < U32
      BY <2>2, <2>4 DEF sum
    <3>2. U32 \in Nat \ {0}
      BY Numbers
    <3>3. sum % U32 = sum
      BY <3>1, <3>2, ModFacts
    <3> QED
      BY <3>3 DEF sum
  <2> QED
    BY <1>2, <2>5 DEF Absorb
<1>7. g[a].next = m /\ (m # Null => g[m].prev = back)
  BY <1>2, <1>4 DEF Absorb
<1>8. \A x \in C \ {a} : g[x].next = h[x].next /\ g[x].size = h[x].size
  BY <1>2 DEF Absorb
<1>9. \A x \in C : /\ g[x].allocated = h[x].allocated
                   /\ x # m => g[x].prev = h[x].prev
  BY <1>2 DEF Absorb
<1>10. End(g, a) = End(h, n) /\ \A x \in C \ {a} : End(g, x) = End(h, x)
  <2>1. h[a].size \in Nat /\ h[n].size \in Nat
    BY <1>1, TilesBounds
  <2> QED
    BY <1>1, <1>3, <1>6, <1>8, <2>1, Numbers DEF End
<1> HIDE DEF g, m
<1>11. Start \in C \ {n} /\ C \ {n} \subseteq DOMAIN g /\ g[Start].prev = Null
  <2>1. Start \in C /\ h[Start].prev = Null
    BY DEF Tiles
  <2>2. Start # n
    BY <1>3, Numbers
  <2> QED
    BY <1>2, <1>5, <1>9, <2>1, <2>2
<1>12. \A x \in (C \ {n}) \ {Start} : g[x].prev \in C \ {n} /\ g[g[x].prev].next = x
  <2> SUFFICES ASSUME NEW x \in C, x # n, x # Start
               PROVE  g[x].prev \in C \ {n} /\ g[g[x].prev].next = x
    OBVIOUS
  <2>1. h[x].prev \in C /\ h[h[x].prev].next = x
    BY DEF Tiles
  <2>2. CASE x = m
    <3>1. m # Null
      BY <2>2, TilesBounds, Numbers DEF Null
    <3>2. back = a
      BY <3>1 DEF m
    <3> QED
      BY <1>3, <1>7, <2>2, <3>1, <3>2
  <2>3. CASE x # m
    <3>1. h[x].prev # n /\ h[x].prev # a
      BY <2>1, <2>3 DEF m
    <3> QED
      BY <1>8, <1>9, <2>1, <2>3, <3>1
  <2> QED
    BY <2>2, <2>3
<1>13. \A x \in C \ {n} :
         \/ g[x].next = Null /\ End(g, x) = Start + Size
         \/ g[x].next \in C \ {n} /\ End(g, x) = g[x].next /\ g[g[x].next].prev = x
  <2> SUFFICES ASSUME NEW x \in C, x # n
               PROVE  \/ g[x].next = Null /\ End(g, x) = Start + Size
                      \/ g[x].next \in C \ {n} /\ End(g, x) = g[x].next /\ g[g[x].next].prev = x
    OBVIOUS
  <2>1. CASE x = a /\ m = Null
    <3>1. End(h, n) = Start + Size
      BY <1>1, <2>1, TilesLast DEF m
    <3> QED
      BY <1>7, <1>10, <2>1, <3>1
  <2>2. CASE x = a /\ m # Null
    <3>1. back = a
      BY <2>2 DEF m
    <3> QED
      BY <1>4, <1>5, <1>7, <1>10, <2>2, <3>1
  <2>3. CASE x # a /\ h[x].next = Null
    <3>1. End(h, x) = Start + Size
      BY <2>3, TilesLast
    <3> QED
      BY <1>8, <1>10, <2>3, <3>1
  <2>4. CASE x # a /\ h[x].next # Null
    <3>1. h[x].next \in C /\ End(h, x) = h[x].next /\ h[h[x].next].prev = x
      BY <2>4, TilesNext
    <3>2. h[x].next # n
      BY <1>1, <2>4, <3>1
    <3>3. h[x].next # m
      BY <1>4, <2>4, <3>1
    <3> QED
      BY <1>8, <1>9, <1>10, <2>4, <3>1, <3>2, <3>3
  <2> QED
    BY <2>1, <2>2, <2>3, <2>4
<1>14. \A x, y \in C \ {n} : x < y => End(g, x) <= y
  <2> SUFFICES ASSUME NEW x \in C, NEW y \in C, x # n, y # n, x < y
               PROVE  End(g, x) <= y
    OBVIOUS
  <2>1. End(h, x) <= y
    BY DEF Tiles
  <2>2. CASE x = a
    <3>1. n < y
      BY <1>1, <1>3, <2>1, <2>2, TilesBounds
    <3>2. End(h, n) <= y
      BY <1>1, <3>1 DEF Tiles
    <3> QED
      BY <1>10, <2>2, <3>2
  <2>3. CASE x # a
    BY <1>10, <2>1, <2>3
  <2> QED
    BY <2>2, <2>3
<1>15. Tiles(g, C \ {n})
  BY <1>11, <1>12, <1>13, <1>14 DEF Tiles
<1>16. \A x \in C \ {n} : g[x].allocated = h[x].allocated /\ g[x].size >= h[x].size
  <2> SUFFICES ASSUME NEW x \in C, x # n PROVE g[x].size >= h[x].size
    BY <1>9
  <2>1. h[x].size \in Nat /\ h[n].size \in Nat
    BY <1>1, TilesBounds
  <2> QED
    BY <1>6, <1>8, <2>1, Numbers
<1> QED
  BY <1>15, <1>16 DEF g

(* A chunk that takes over another is a chunk still. *)
LEMMA AbsorbChunk ==
  ASSUME NEW h, NEW a, NEW n, NEW back \in Nat, NEW x \in DOMAIN h,
         h[x] \in Chunk, h[n] \in Chunk, h[a] \in Chunk
  PROVE  Absorb(h, a, n, back)[x] \in Chunk
<1> DEFINE nx == IF x = a THEN h[n].next ELSE h[x].next
           pv == IF x = h[n].next THEN back ELSE h[x].prev
           sz == IF x = a THEN (h[a].size + h[n].size + Header) % U32 ELSE h[x].size
<1>1. nx \in Nat /\ pv \in Nat /\ h[x].allocated \in BOOLEAN
  BY DEF Chunk
<1>2. sz \in Nat
  <2>1. h[a].size + h[n].size + Header \in Nat
    BY Numbers DEF Chunk
  <2>2. U32 \in Nat \ {0}
    BY Numbers
  <2>3. (h[a].size + h[n].size + Header) % U32 \in 0 .. U32 - 1
    BY <2>1, <2>2, ModFacts
  <2> QED
    BY <2>3 DEF Chunk
<1>3. Absorb(h, a, n, back)[x] =
        [next |-> nx, prev |-> pv, allocated |-> h[x].allocated, size |-> sz]
  BY DEF Absorb
<1> HIDE DEF nx, pv, sz
<1> QED
  BY <1>1, <1>2, <1>3 DEF Chunk

-----------------------------------------------------------------------------
(* The actions. *)

(* The invariant holds of the one chunk the constructor makes. *)
LEMMA InitInv == Init => Inv
<1> SUFFICES ASSUME Init PROVE Inv
  OBVIOUS
<1> USE Numbers
<1>1. hdr = [a \in {Start} |-> [next |-> Null, prev |-> Null,
                                allocated |-> FALSE, size |-> Size - Header]]
  BY DEF Init
<1>2. DOMAIN hdr = {Start} /\ hdr[Start].next = Null /\ hdr[Start].prev = Null
      /\ hdr[Start].size = Size - Header /\ hdr[Start] \in Chunk
  BY <1>1 DEF Chunk, Null
<1>3. HeadersOK(hdr)
  BY <1>2 DEF HeadersOK
<1>4. TypeOK
  <2>1. usedMemory \in 0 .. U32 - 1 /\ request \in 0 .. U32 - 1
    BY DEF Init
  <2> QED
    BY <1>3, <2>1 DEF Init, TypeOK, Pc, Null
<1>5. End(hdr, Start) = Start + Size
  BY <1>2 DEF End
<1>6. Tiles(hdr, {Start})
  BY <1>2, <1>5 DEF Tiles
<1> QED
  BY <1>4, <1>6 DEF Init, Inv, Tiling, SearchInv, LiveInv, NoWildAccess

(* Starting a search changes nothing of the heap. *)
LEMMA MallocKeepsInv ==
  ASSUME NEW size \in Requests, Inv, Malloc(size) \/ MallocExhausted(size)
  PROVE  Inv'
<1>1. size \in 0 .. U32 - 1
  BY HeapAssumption
<1>2. UNCHANGED <<hdr, usedMemory, live, chain, relinked>>
  BY DEF Malloc, MallocExhausted
<1>3. pc' \in {"search", "panic"} /\ request' = size
  BY DEF Malloc, MallocExhausted
<1>4. (cursor' = cursor /\ pc' = "panic") \/ cursor' = Start
  BY DEF Malloc, MallocExhausted
<1>5. TypeOK'
  BY <1>1, <1>2, <1>3, <1>4, Numbers DEF Inv, TypeOK, Pc
<1>6. Tiling'
  BY <1>2 DEF Inv, Tiling
<1>7. SearchInv'
  BY <1>2, <1>3, <1>4, <1>6 DEF SearchInv, Tiling, Tiles
<1>8. LiveInv' /\ NoWildAccess'
  BY <1>2, <1>3 DEF Inv, LiveInv, NoWildAccess
<1> QED
  BY <1>5, <1>6, <1>7, <1>8 DEF Inv

(* Stopping changes nothing but pc. *)
LEMMA StopKeepsInv ==
  ASSUME NEW how \in {"panic", "fault", "wild"}, Inv, Stop(how), how = "wild" => relinked
  PROVE  Inv'
BY DEF Stop, Inv, TypeOK, Pc, Tiling, SearchInv, LiveInv, NoWildAccess

(* The walk goes from chunk to chunk of the list. *)
LEMMA SearchNextKeepsInv == Inv /\ SearchNext => Inv'
<1> SUFFICES ASSUME Inv, SearchNext PROVE Inv'
  OBVIOUS
<1>1. UNCHANGED <<hdr, usedMemory, pc, request, live, chain, relinked>>
      /\ pc = "search" /\ cursor \in DOMAIN hdr /\ cursor' = hdr[cursor].next
  BY DEF SearchNext
<1>2. TypeOK'
  BY <1>1 DEF Inv, TypeOK, HeadersOK, Chunk
<1>3. SearchInv'
  <2> SUFFICES ASSUME ~relinked PROVE cursor' \in chain \cup {Null}
    BY <1>1 DEF SearchInv
  <2>1. cursor \in chain
    <3>1. Null \notin DOMAIN hdr
      BY Numbers DEF Inv, TypeOK, HeadersOK, Null
    <3> QED
      BY <1>1, <3>1 DEF Inv, SearchInv
  <2> QED
    BY <1>1, <2>1 DEF Inv, Tiling, Tiles
<1> QED
  BY <1>1, <1>2, <1>3 DEF Inv, Tiling, LiveInv, NoWildAccess

(* The walk ends at the end of the list. *)
LEMMA SearchFailedKeepsInv == Inv /\ SearchFailed => Inv'
<1> SUFFICES ASSUME Inv, SearchFailed PROVE Inv'
  OBVIOUS
<1> DEFINE how == IF cursor = Null THEN "panic" ELSE "wild"
<1>1. Stop(how) /\ cursor \notin DOMAIN hdr /\ pc = "search"
  BY DEF SearchFailed
<1>2. how = "wild" => relinked
  <2> SUFFICES ASSUME cursor # Null, ~relinked PROVE FALSE
    BY DEF Inv, TypeOK
  <2>1. cursor \in chain
    BY <1>1 DEF Inv, SearchInv
  <2> QED
    BY <1>1, <2>1 DEF Inv, Tiling, Tiles
<1> QED
  BY <1>1, <1>2, StopKeepsInv

(* Handing out a whole chunk marks it and touches no other header. *)
LEMMA TakeWholeKeepsInv == Inv /\ TakeWhole => Inv'
<1> SUFFICES ASSUME Inv, TakeWhole PROVE Inv'
  OBVIOUS
<1> DEFINE h == Overwrite(hdr, cursor + Header, cursor + Header + request)
           g == [h EXCEPT ![cursor].allocated = TRUE]
           new == [addr |-> cursor + Header, size |-> request]
<1>1. /\ pc = "search" /\ cursor \in DOMAIN hdr
      /\ hdr[cursor].size > request /\ ~hdr[cursor].allocated
      /\ hdr' = g
      /\ usedMemory' = (usedMemory + request + Header) % U32
      /\ live' = live \cup {new}
      /\ pc' = "idle" /\ request' = 0 /\ cursor' = Null
      /\ relinked' = relinked /\ chain' = chain
  BY DEF TakeWhole, Fits, Return
<1>2. /\ HeadersOK(hdr) /\ cursor \in Nat /\ request \in Nat /\ usedMemory \in Nat
      /\ hdr[cursor] \in Chunk /\ hdr[cursor].size \in Nat
  BY <1>1, Numbers DEF Inv, TypeOK, HeadersOK, Chunk
<1>3. /\ DOMAIN h = {x \in DOMAIN hdr : x + Header <= cursor + Header
                                        \/ cursor + Header + request <= x}
      /\ \A x \in DOMAIN h : h[x] = hdr[x]
  BY DEF Overwrite
<1>4. cursor \in DOMAIN h
  BY <1>1, <1>2, <1>3, Numbers
<1>5. /\ DOMAIN g = DOMAIN h
      /\ \A x \in DOMAIN g : /\ g[x].next = hdr[x].next
                             /\ g[x].prev = hdr[x].prev
                             /\ g[x].size = hdr[x].size
                             /\ g[x].allocated = (hdr[x].allocated \/ x = cursor)
                             /\ g[x] \in Chunk
  <2> SUFFICES ASSUME NEW x \in DOMAIN h
               PROVE  /\ g[x].next = hdr[x].next
                      /\ g[x].prev = hdr[x].prev
                      /\ g[x].size = hdr[x].size
                      /\ g[x].allocated = (hdr[x].allocated \/ x = cursor)
                      /\ g[x] \in Chunk
    OBVIOUS
  <2>1. h[x] = hdr[x] /\ hdr[x] \in Chunk
    BY <1>2, <1>3 DEF HeadersOK
  <2>2. CASE x = cursor
    BY <1>4, <2>1, <2>2 DEF Chunk
  <2>3. CASE x # cursor
    BY <2>1, <2>3 DEF Chunk
  <2> QED
    BY <2>2, <2>3
<1> HIDE DEF g, h
<1>6. HeadersOK(g)
  BY <1>2, <1>3, <1>5 DEF HeadersOK
<1>7. TypeOK'
  <2>1. usedMemory' \in 0 .. U32 - 1 /\ 0 \in 0 .. U32 - 1
    <3>1. usedMemory + request + Header \in Nat
      BY <1>2, Numbers
    <3>2. U32 \in Nat \ {0}
      BY Numbers
    <3> QED
      BY <1>1, <3>1, <3>2, ModFacts
  <2>2. new \in [addr : Nat, size : Nat]
    BY <1>2, Numbers
  <2> QED
    BY <1>1, <1>6, <2>1, <2>2 DEF Inv, TypeOK, Pc, Null
<1>8. CASE relinked
  BY <1>1, <1>7, <1>8 DEF Inv, Tiling, SearchInv, LiveInv, NoWildAccess
<1>9. CASE ~relinked
  <2>1. Tiles(hdr, chain)
    BY <1>9 DEF Inv, Tiling
  <2>2. cursor \in chain
    <3>1. cursor # Null
      BY <1>1, <1>2, Numbers DEF HeadersOK, Null
    <3> QED
      BY <1>1, <1>9, <3>1 DEF Inv, SearchInv
  <2>3. chain \subseteq DOMAIN g
    <3> SUFFICES ASSUME NEW x \in chain PROVE x \in DOMAIN h
      BY <1>5
    <3>1. x \in DOMAIN hdr /\ x \in Nat
      BY <1>2, <2>1, TilesBounds
    <3>2. CASE x <= cursor
      BY <1>2, <1>3, <3>1, <3>2, Numbers
    <3>3. CASE x > cursor
      <4>1. End(hdr, cursor) <= x
        BY <1>2, <2>1, <2>2, <3>1, <3>3 DEF Tiles
      <4> QED
        BY <1>1, <1>2, <1>3, <3>1, <4>1, Numbers DEF End
    <3> QED
      BY <1>2, <3>1, <3>2, <3>3
  <2>4. \A x \in chain : End(g, x) = End(hdr, x)
    BY <1>5, <2>3 DEF End
  <2>5. Tiles(g, chain)
    BY <1>5, <2>1, <2>3, <2>4 DEF Tiles
  <2>6. \A b \in live : b.addr # cursor + Header
    <3> SUFFICES ASSUME NEW b \in live, b.addr = cursor + Header PROVE FALSE
      OBVIOUS
    <3>1. b.addr - Header = cursor
      BY <1>2, Numbers
    <3> QED
      BY <1>1, <1>9, <3>1 DEF Inv, LiveInv
  <2>7. LiveInv'
    <3>1. \A b \in live : /\ b.addr - Header \in chain
                          /\ g[b.addr - Header].allocated
                          /\ b.size <= g[b.addr - Header].size
      BY <1>5, <1>9, <2>3 DEF Inv, LiveInv
    <3>2. new.addr - Header = cursor /\ new.size = request /\ new.addr = cursor + Header
      BY <1>2, Numbers
    <3>3. new.size <= g[cursor].size /\ g[cursor].allocated
      <4>1. g[cursor].size = hdr[cursor].size
        BY <1>4, <1>5
      <4>2. g[cursor].allocated
        BY <1>4, <1>5
      <4> HIDE DEF new
      <4> QED
        BY <1>1, <1>2, <3>2, <4>1, <4>2
    <3>4. \A b, c \in live : b.addr = c.addr => b = c
      BY <1>9 DEF Inv, LiveInv
    <3> HIDE DEF new
    <3> QED
      BY <1>1, <2>2, <2>6, <3>1, <3>2, <3>3, <3>4 DEF LiveInv
  <2> QED
    BY <1>1, <1>7, <2>5, <2>7 DEF Inv, Tiling, SearchInv, NoWildAccess
<1> QED
  BY <1>8, <1>9

(* Splitting a chunk writes behind it and before the next one, and inserts *)
(* the new chunk between the two.                                          *)
LEMMA TakeSplitKeepsInv == Inv /\ TakeSplit => Inv'
<1> SUFFICES ASSUME Inv, TakeSplit PROVE Inv'
  OBVIOUS
<1> DEFINE g == SplitAt(Kept, Temp)
           new == [addr |-> cursor + Header, size |-> request]
           n == hdr[cursor].next
<1>1. /\ pc = "search" /\ cursor \in DOMAIN hdr
      /\ hdr[cursor].size >= request + Header + 1 /\ ~hdr[cursor].allocated
      /\ SplitStops = {}
      /\ hdr' = g
      /\ usedMemory' = (usedMemory + request + Header) % U32
      /\ live' = live \cup {new}
      /\ pc' = "idle" /\ request' = 0 /\ cursor' = Null
      /\ relinked' = relinked /\ chain' = chain \cup {Temp}
  BY DEF TakeSplit, Fits, Splits, Return
<1>2. /\ HeadersOK(hdr) /\ cursor \in Nat /\ request \in Nat /\ usedMemory \in Nat
      /\ hdr[cursor] \in Chunk /\ hdr[cursor].size \in Nat /\ n \in Nat
      /\ cursor >= Start
  BY <1>1, Numbers DEF Inv, TypeOK, HeadersOK, Chunk
<1>3. /\ Temp + Header <= Start + Mapped
      /\ n \in DOMAIN Kept \cup {Null}
  <2>1. Temp \in Nat
    BY <1>2, Numbers DEF Temp
  <2>2. ~(Temp + Header > Start + Mapped)
    BY <1>1 DEF SplitStops
  <2> QED
    BY <1>1, <2>1, <2>2, Numbers DEF SplitStops
<1>4. Temp \in Nat /\ Temp = cursor + Header + request /\ Temp > cursor
  BY <1>2, Numbers DEF Temp
<1>5. /\ DOMAIN Kept = {x \in DOMAIN hdr : x + Header <= cursor + Header \/ Temp + Header <= x}
      /\ \A x \in DOMAIN Kept : Kept[x] = hdr[x]
  BY DEF Kept, Overwrite
<1>6. cursor \in DOMAIN Kept /\ Temp \notin DOMAIN Kept
  BY <1>1, <1>2, <1>4, <1>5, Numbers
<1>7. /\ DOMAIN g = DOMAIN Kept \cup {Temp}
      /\ g[Temp] = [next |-> n, prev |-> cursor, allocated |-> FALSE,
                    size |-> hdr[cursor].size - request - Header]
      /\ \A x \in DOMAIN Kept :
           g[x] = [next      |-> IF x = cursor THEN Temp ELSE hdr[x].next,
                   prev      |-> IF x = n THEN Temp ELSE hdr[x].prev,
                   allocated |-> hdr[x].allocated \/ x = cursor,
                   size      |-> IF x = cursor THEN request ELSE hdr[x].size]
  BY <1>5, <1>6 DEF SplitAt
<1>71. /\ g[Temp].next = n /\ g[Temp].prev = cursor /\ g[Temp].allocated = FALSE
       /\ g[Temp].size = hdr[cursor].size - request - Header
       /\ \A x \in DOMAIN Kept :
            /\ g[x].next = IF x = cursor THEN Temp ELSE hdr[x].next
            /\ g[x].prev = IF x = n THEN Temp ELSE hdr[x].prev
            /\ g[x].size = IF x = cursor THEN request ELSE hdr[x].size
  BY <1>7
<1>72. \A x \in DOMAIN Kept : (hdr[x].allocated \/ x = cursor) => g[x].allocated
  <2> SUFFICES ASSUME NEW x \in DOMAIN Kept, hdr[x].allocated \/ x = cursor
               PROVE  g[x].allocated
    OBVIOUS
  <2> DEFINE al == hdr[x].allocated \/ x = cursor
  <2>1. al
    OBVIOUS
  <2>2. g[x] = [next      |-> IF x = cursor THEN Temp ELSE hdr[x].next,
                prev      |-> IF x = n THEN Temp ELSE hdr[x].prev,
                allocated |-> al,
                size      |-> IF x = cursor THEN request ELSE hdr[x].size]
    BY <1>7
  <2> HIDE DEF al
  <2>3. g[x].allocated = al
    BY <2>2
  <2> QED
    BY <2>1, <2>3
<1> HIDE DEF g
<1>8. hdr[cursor].size - request - Header \in Nat
  BY <1>1, <1>2, Numbers
<1>9. HeadersOK(g)
  <2>1. DOMAIN g \subseteq Start .. Start + Mapped - Header
    BY <1>2, <1>3, <1>4, <1>5, <1>7, Numbers DEF HeadersOK
  <2>2. g[Temp] \in Chunk
    BY <1>2, <1>7, <1>8 DEF Chunk
  <2>3. \A x \in DOMAIN Kept : g[x] \in Chunk
    <3> SUFFICES ASSUME NEW x \in DOMAIN Kept PROVE g[x] \in Chunk
      OBVIOUS
    <3>1. hdr[x] \in Chunk
      BY <1>2, <1>5 DEF HeadersOK
    <3> DEFINE nx == IF x = cursor THEN Temp ELSE hdr[x].next
               pv == IF x = n THEN Temp ELSE hdr[x].prev
               al == hdr[x].allocated \/ x = cursor
               sz == IF x = cursor THEN request ELSE hdr[x].size
    <3>2. nx \in Nat /\ pv \in Nat /\ sz \in Nat
      BY <1>2, <1>4, <3>1 DEF Chunk
    <3>3. al \in BOOLEAN
      OBVIOUS
    <3>4. g[x] = [next |-> nx, prev |-> pv, allocated |-> al, size |-> sz]
      BY <1>7
    <3> HIDE DEF nx, pv, al, sz
    <3> QED
      BY <3>2, <3>3, <3>4 DEF Chunk
  <2> QED
    BY <1>7, <2>1, <2>2, <2>3 DEF HeadersOK
<1>10. TypeOK'
  <2>1. usedMemory' \in 0 .. U32 - 1 /\ 0 \in 0 .. U32 - 1
    <3>1. usedMemory + request + Header \in Nat
      BY <1>2, Numbers
    <3>2. U32 \in Nat \ {0}
      BY Numbers
    <3> QED
      BY <1>1, <3>1, <3>2, ModFacts
  <2>2. new \in [addr : Nat, size : Nat]
    BY <1>2, Numbers
  <2> QED
    BY <1>1, <1>4, <1>9, <2>1, <2>2 DEF Inv, TypeOK, Pc, Null
<1>11. CASE relinked
  BY <1>1, <1>10, <1>11 DEF Inv, Tiling, SearchInv, LiveInv, NoWildAccess
<1>12. CASE ~relinked
  <2>1. Tiles(hdr, chain)
    BY <1>12 DEF Inv, Tiling
  <2>2. cursor \in chain
    <3>1. cursor # Null
      BY <1>2, Numbers DEF Null
    <3> QED
      BY <1>1, <1>12, <3>1 DEF Inv, SearchInv
  <2>3. /\ n = Null \/ (n \in chain /\ End(hdr, cursor) = n /\ hdr[n].prev = cursor)
        /\ n = Null => End(hdr, cursor) = Start + Size
    BY <1>2, <2>1, <2>2, TilesNext, TilesLast
  <2>4. End(hdr, cursor) = cursor + Header + hdr[cursor].size
        /\ End(hdr, cursor) >= Temp + Header + 1
    BY <1>1, <1>2, <1>4, Numbers DEF End
  <2>5. \A x \in chain : x \in DOMAIN hdr /\ x \in Nat /\ x >= Start
                         /\ hdr[x].size \in Nat /\ End(hdr, x) \in Nat
    BY <1>2, <2>1, TilesBounds
  <2>6. /\ \A x \in chain : x > cursor => End(hdr, cursor) <= x
        /\ \A x \in chain : x < cursor => End(hdr, x) <= cursor
    BY <2>1, <2>2 DEF Tiles
  <2>7. chain \subseteq DOMAIN Kept
    <3> SUFFICES ASSUME NEW x \in chain PROVE x \in DOMAIN Kept
      OBVIOUS
    <3>1. CASE x <= cursor
      BY <1>2, <1>5, <2>5, <3>1, Numbers
    <3>2. CASE x > cursor
      BY <1>2, <1>4, <1>5, <2>4, <2>5, <2>6, <3>2, Numbers
    <3> QED
      BY <1>2, <2>5, <3>1, <3>2
  <2>8. Temp \notin chain
    BY <1>6, <2>7
  <2>9. /\ g[Temp].next = n /\ g[Temp].prev = cursor /\ ~g[Temp].allocated
        /\ g[cursor].next = Temp /\ g[cursor].size = request
        /\ g[cursor].allocated
    BY <1>6, <1>71, <1>72
  <2>10. \A x \in chain : /\ x # cursor => g[x].next = hdr[x].next /\ g[x].size = hdr[x].size
                          /\ x # n => g[x].prev = hdr[x].prev
                          /\ x = n => g[x].prev = Temp
                          /\ hdr[x].allocated => g[x].allocated
    BY <1>71, <1>72, <2>7
  <2>11. /\ End(g, Temp) = End(hdr, cursor)
         /\ End(g, cursor) = Temp
         /\ \A x \in chain : x # cursor => End(g, x) = End(hdr, x)
    <3>1. g[Temp].size = hdr[cursor].size - request - Header
      BY <1>7
    <3> QED
      BY <1>2, <1>4, <2>4, <2>9, <2>10, <3>1, Numbers DEF End
  <2>12. n # cursor /\ n # Start
    <3>1. CASE n = Null
      BY <1>2, <3>1, Numbers DEF Null
    <3>2. CASE n # Null
      BY <1>2, <1>4, <2>3, <2>4, <3>2, Numbers
    <3> QED
      BY <3>1, <3>2
  <2> HIDE DEF n
  <2>13. Start \in chain' /\ chain' \subseteq DOMAIN g /\ g[Start].prev = Null
    BY <1>1, <1>7, <2>1, <2>7, <2>10, <2>12 DEF Tiles
  <2>14. \A x \in chain' \ {Start} : g[x].prev \in chain' /\ g[g[x].prev].next = x
    <3> SUFFICES ASSUME NEW x \in chain \cup {Temp}, x # Start
                 PROVE  g[x].prev \in chain \cup {Temp} /\ g[g[x].prev].next = x
      BY <1>1
    <3>1. CASE x = Temp
      BY <2>2, <2>9, <3>1
    <3>2. CASE x \in chain /\ x = n
      BY <2>9, <2>10, <3>2
    <3>3. CASE x \in chain /\ x # n
      <4>1. hdr[x].prev \in chain /\ hdr[hdr[x].prev].next = x
        BY <2>1, <3>3 DEF Tiles
      <4>2. hdr[x].prev # cursor
        BY <3>3, <4>1 DEF n
      <4> QED
        BY <2>10, <3>3, <4>1, <4>2
    <3> QED
      BY <3>1, <3>2, <3>3
  <2>15. \A x \in chain' :
           \/ g[x].next = Null /\ End(g, x) = Start + Size
           \/ g[x].next \in chain' /\ End(g, x) = g[x].next /\ g[g[x].next].prev = x
    <3> SUFFICES ASSUME NEW x \in chain \cup {Temp}
                 PROVE  \/ g[x].next = Null /\ End(g, x) = Start + Size
                        \/ /\ g[x].next \in chain \cup {Temp}
                           /\ End(g, x) = g[x].next /\ g[g[x].next].prev = x
      BY <1>1
    <3>1. CASE x = Temp
      <4>1. CASE n = Null
        BY <2>3, <2>9, <2>11, <3>1, <4>1
      <4>2. CASE n # Null
        BY <2>3, <2>9, <2>10, <2>11, <3>1, <4>2
      <4> QED
        BY <4>1, <4>2
    <3>2. CASE x = cursor
      BY <2>9, <2>11, <3>2
    <3>3. CASE x \in chain /\ x # cursor /\ hdr[x].next = Null
      <4>1. End(hdr, x) = Start + Size
        BY <1>2, <2>1, <3>3, TilesLast
      <4> QED
        BY <2>10, <2>11, <3>3, <4>1
    <3>4. CASE x \in chain /\ x # cursor /\ hdr[x].next # Null
      <4>1. hdr[x].next \in chain /\ End(hdr, x) = hdr[x].next /\ hdr[hdr[x].next].prev = x
        BY <2>1, <3>4, TilesNext
      <4>2. hdr[x].next # n
        <5> SUFFICES ASSUME hdr[x].next = n PROVE FALSE
          OBVIOUS
        <5>1. n # Null /\ hdr[n].prev = x
          BY <3>4, <4>1
        <5> QED
          BY <2>3, <3>4, <5>1
      <4> QED
        BY <2>10, <2>11, <3>4, <4>1, <4>2
    <3> QED
      BY <3>1, <3>2, <3>3, <3>4
  <2>16. \A x, y \in chain' : x < y => End(g, x) <= y
    <3> SUFFICES ASSUME NEW x \in chain \cup {Temp}, NEW y \in chain \cup {Temp}, x < y
                 PROVE  End(g, x) <= y
      BY <1>1
    <3>0. x \in Nat /\ y \in Nat
      BY <1>4, <2>5
    <3>1. CASE x = Temp
      BY <1>2, <1>4, <2>5, <2>6, <2>11, <3>0, <3>1
    <3>2. CASE x = cursor
      <4>1. CASE y = Temp
        BY <1>4, <2>11, <3>2, <4>1
      <4>2. CASE y \in chain
        BY <1>2, <1>4, <2>4, <2>6, <2>11, <3>0, <3>2, <4>2, Numbers
      <4> QED
        BY <4>1, <4>2
    <3>3. CASE x \in chain /\ x # cursor /\ y = Temp
      <4>1. x < cursor
        BY <1>2, <1>4, <2>4, <2>6, <3>0, <3>3, Numbers
      <4> QED
        BY <1>2, <1>4, <2>5, <2>6, <2>11, <3>3, <4>1
    <3>4. CASE x \in chain /\ x # cursor /\ y \in chain
      BY <2>1, <2>11, <3>4 DEF Tiles
    <3> QED
      BY <3>1, <3>2, <3>3, <3>4
  <2>17. Tiles(g, chain')
    BY <2>13, <2>14, <2>15, <2>16 DEF Tiles
  <2>18. \A b \in live : b.addr # cursor + Header
    <3> SUFFICES ASSUME NEW b \in live, b.addr = cursor + Header PROVE FALSE
      OBVIOUS
    <3>1. b.addr - Header = cursor
      BY <1>2, Numbers
    <3> QED
      BY <1>1, <1>12, <3>1 DEF Inv, LiveInv
  <2>19. LiveInv'
    <3>1. \A b \in live : b.addr - Header \in chain /\ b.addr - Header # cursor
      <4> SUFFICES ASSUME NEW b \in live
                   PROVE  b.addr - Header \in chain /\ b.addr - Header # cursor
        OBVIOUS
      <4>1. b.addr - Header \in chain /\ hdr[b.addr - Header].allocated
        BY <1>12 DEF Inv, LiveInv
      <4> QED
        BY <1>1, <4>1
    <3>2. \A b \in live : /\ g[b.addr - Header].allocated
                          /\ b.size <= g[b.addr - Header].size
      <4> SUFFICES ASSUME NEW b \in live
                   PROVE  /\ g[b.addr - Header].allocated
                          /\ b.size <= g[b.addr - Header].size
        OBVIOUS
      <4>1. hdr[b.addr - Header].allocated /\ b.size <= hdr[b.addr - Header].size
        BY <1>12 DEF Inv, LiveInv
      <4> QED
        BY <2>10, <3>1, <4>1
    <3>3. new.addr - Header = cursor /\ new.size = request /\ new.addr = cursor + Header
      BY <1>2, Numbers
    <3>4. request <= g[cursor].size
      BY <1>2, <2>9
    <3>5. \A b, c \in live : b.addr = c.addr => b = c
      BY <1>12 DEF Inv, LiveInv
    <3> HIDE DEF new
    <3> QED
      BY <1>1, <2>2, <2>9, <2>18, <3>1, <3>2, <3>3, <3>4, <3>5 DEF LiveInv
  <2> QED
    BY <1>1, <1>10, <2>17, <2>19 DEF Inv, Tiling, SearchInv, NoWildAccess
<1> QED
  BY <1>11, <1>12

(* A split that fails stops the kernel: by a fault, never by a wild access *)
(* as long as the list is intact.                                          *)
LEMMA SplitFailsKeepsInv == Inv /\ SplitFails => Inv'
<1> SUFFICES ASSUME Inv, SplitFails PROVE Inv'
  OBVIOUS
<1>1. PICK how \in SplitStops : Stop(how)
  BY DEF SplitFails
<1>2. how \in {"fault", "wild"}
  BY DEF SplitStops
<1>3. how = "wild" => relinked
  <2> SUFFICES ASSUME how = "wild", ~relinked PROVE FALSE
    BY DEF Inv, TypeOK
  <2> DEFINE n == hdr[cursor].next
  <2>1. ~(Temp + Header > Start + Mapped) /\ n \notin DOMAIN Kept \cup {Null}
    BY DEF SplitStops
  <2>2. /\ pc = "search" /\ cursor \in DOMAIN hdr
        /\ hdr[cursor].size >= request + Header + 1
    BY DEF SplitFails, Splits
  <2>3. HeadersOK(hdr) /\ Tiles(hdr, chain) /\ request \in Nat
    BY Numbers DEF Inv, TypeOK, Tiling
  <2>4. cursor \in chain
    <3>1. cursor # Null
      BY <2>2, <2>3, Numbers DEF HeadersOK, Null
    <3> QED
      BY <2>2, <3>1 DEF Inv, SearchInv
  <2>5. n \in chain /\ End(hdr, cursor) = n
    BY <2>1, <2>3, <2>4, TilesNext
  <2>6. /\ n \in DOMAIN hdr /\ n \in Nat /\ cursor \in Nat /\ hdr[cursor].size \in Nat
    BY <2>3, <2>4, <2>5, TilesBounds
  <2>7. Temp + Header <= n
    BY <2>2, <2>3, <2>5, <2>6, Numbers DEF End, Temp
  <2> QED
    BY <2>1, <2>6, <2>7 DEF Kept, Overwrite
<1> QED
  BY <1>1, <1>2, <1>3, StopKeepsInv

-----------------------------------------------------------------------------
(* free(). *)

(* What free(c + Header) finds in a heap whose list is intact: the chunk   *)
(* may go to its predecessor, the result still tiles the heap, and nobody  *)
(* else's chunk changes.                                                   *)
LEMMA MergedTiles ==
  ASSUME HeadersOK(hdr), Tiles(hdr, chain), NEW c \in chain
  PROVE  LET rest == chain \ {x \in {c} : GoesBack(c)}
         IN  /\ HeadersOK(Merged(c)) /\ DOMAIN Merged(c) = DOMAIN hdr
             /\ Tiles(Merged(c), rest)
             /\ Owner(c) \in rest
             /\ \A x \in chain \ {c} : /\ x \in rest
                                       /\ Merged(c)[x].allocated = hdr[x].allocated
                                       /\ Merged(c)[x].size >= hdr[x].size
<1> DEFINE rest == chain \ {x \in {c} : GoesBack(c)}
           p == hdr[c].prev
           k == Marked(c)
<1>1. /\ c \in DOMAIN hdr /\ p \in Nat
      /\ \A x \in chain : x \in DOMAIN hdr /\ hdr[x].size \in Nat
  BY TilesBounds
<1>2. /\ DOMAIN k = DOMAIN hdr
      /\ \A x \in DOMAIN hdr : /\ k[x].next = hdr[x].next /\ k[x].prev = hdr[x].prev
                               /\ k[x].size = hdr[x].size
                               /\ x # c => k[x].allocated = hdr[x].allocated
                               /\ k[x] \in Chunk
  <2>1. \A x \in DOMAIN hdr : hdr[x] \in Chunk
    BY DEF HeadersOK
  <2> SUFFICES ASSUME NEW x \in DOMAIN hdr
               PROVE  /\ k[x].next = hdr[x].next /\ k[x].prev = hdr[x].prev
                      /\ k[x].size = hdr[x].size
                      /\ x # c => k[x].allocated = hdr[x].allocated
                      /\ k[x] \in Chunk
    BY DEF Marked
  <2>2. CASE x = c
    BY <1>1, <2>1, <2>2 DEF Marked, Chunk
  <2>3. CASE x # c
    BY <2>1, <2>3 DEF Marked, Chunk
  <2> QED
    BY <2>2, <2>3
<1> HIDE DEF k
<1>3. HeadersOK(k)
  BY <1>2 DEF HeadersOK
<1>4. \A x \in chain : End(k, x) = End(hdr, x)
  BY <1>1, <1>2 DEF End
<1>5. Tiles(k, chain)
  BY <1>1, <1>2, <1>4 DEF Tiles
<1>6. CASE GoesBack(c)
  <2>1. p # Null /\ k[p].allocated
    BY <1>6 DEF GoesBack, k
  <2>2. p \in chain /\ hdr[p].next = c
    BY <2>1 DEF Tiles
  <2>3. c # Null /\ k[p].next = c /\ p # c
    <3>1. c \in Nat /\ c >= Start
      BY TilesBounds
    <3>2. p \in Nat /\ End(hdr, p) = c /\ End(hdr, p) > p
      BY <2>2, <3>1, TilesBounds, TilesNext, Numbers DEF Null
    <3> QED
      BY <1>1, <1>2, <2>2, <3>1, <3>2, Numbers DEF Null
  <2>4. Merged(c) = Absorb(k, p, c, p) /\ Owner(c) = p /\ rest = chain \ {c}
    BY <1>6 DEF Merged, Owner, k
  <2>5. /\ Tiles(Merged(c), rest)
        /\ \A x \in rest : /\ Merged(c)[x].allocated = k[x].allocated
                           /\ Merged(c)[x].size >= k[x].size
    <3>1. c = k[p].next /\ p \in Nat /\ p \in chain /\ c # Null
      BY <1>1, <2>2, <2>3
    <3>2. /\ Tiles(Absorb(k, p, c, p), chain \ {c})
          /\ \A x \in chain \ {c} : /\ Absorb(k, p, c, p)[x].allocated = k[x].allocated
                                    /\ Absorb(k, p, c, p)[x].size >= k[x].size
      BY <1>3, <1>5, <3>1, AbsorbTiles
    <3> QED
      BY <2>4, <3>2
  <2>6. HeadersOK(Merged(c)) /\ DOMAIN Merged(c) = DOMAIN hdr
    <3>1. \A x \in DOMAIN k : Absorb(k, p, c, p)[x] \in Chunk
      <4> SUFFICES ASSUME NEW x \in DOMAIN k PROVE Absorb(k, p, c, p)[x] \in Chunk
        OBVIOUS
      <4>1. k[x] \in Chunk /\ k[c] \in Chunk /\ k[p] \in Chunk
        BY <1>1, <1>2, <2>2
      <4> QED
        BY <1>1, <4>1, AbsorbChunk
    <3> QED
      BY <1>2, <1>3, <2>4, <3>1 DEF HeadersOK, Absorb
  <2> QED
    BY <1>1, <1>2, <2>2, <2>3, <2>4, <2>5, <2>6
<1>7. CASE ~GoesBack(c)
  <2>1. Merged(c) = k /\ Owner(c) = c /\ rest = chain
    BY <1>7 DEF Merged, Owner, k
  <2> QED
    BY <1>1, <1>2, <1>3, <1>5, <2>1
<1> QED
  BY <1>6, <1>7

(* On an intact list free() follows only pointers to chunks.               *)
LEMMA FreeFindsChunks ==
  ASSUME HeadersOK(hdr), Tiles(hdr, chain), NEW c \in chain
  PROVE  FreeIsSafe(c)
<1> DEFINE rest == chain \ {x \in {c} : GoesBack(c)}
<1>1. /\ HeadersOK(Merged(c)) /\ DOMAIN Merged(c) = DOMAIN hdr
      /\ Tiles(Merged(c), rest)
      /\ Owner(c) \in rest
  BY MergedTiles
<1>2. c \in DOMAIN hdr /\ chain \subseteq DOMAIN hdr
  BY DEF Tiles
<1>3. hdr[c].prev \in DOMAIN hdr \cup {Null}
  BY <1>2 DEF Tiles
<1>4. hdr[c].next \in DOMAIN hdr \cup {Null}
  BY <1>2 DEF Tiles
<1>5. Follower(c) \in rest \cup {Null}
  BY <1>1 DEF Tiles, Follower
<1>6. TakesNext(c) => Merged(c)[Follower(c)].next \in rest \cup {Null}
  BY <1>1, <1>5 DEF Tiles, TakesNext
<1> HIDE DEF rest
<1>7. rest \subseteq DOMAIN hdr
  BY <1>1 DEF Tiles
<1> QED
  BY <1>2, <1>3, <1>4, <1>5, <1>6, <1>7 DEF FreeIsSafe

(* A block in use is found at a chunk of the list. *)
LEMMA LiveChunk ==
  ASSUME Inv, ~relinked, NEW block \in live
  PROVE  /\ HeadersOK(hdr) /\ Tiles(hdr, chain)
         /\ block.addr - Header \in chain
BY DEF Inv, TypeOK, Tiling, LiveInv

(* free() follows no wild pointer as long as the list is intact. *)
LEMMA FreeWildKeepsInv ==
  ASSUME NEW block \in live, Inv, FreeWild(block)
  PROVE  Inv'
<1>1. Stop("wild") /\ ~FreeIsSafe(block.addr - Header)
  BY DEF FreeWild
<1>2. relinked
  <2> SUFFICES ASSUME ~relinked PROVE FALSE
    BY DEF Inv, TypeOK
  <2> QED
    BY <1>1, LiveChunk, FreeFindsChunks
<1> QED
  BY <1>1, <1>2, StopKeepsInv

(* free() leaves the headers headers, intact list or not. *)
LEMMA FreedHeaders ==
  ASSUME HeadersOK(hdr), NEW c, FreeIsSafe(c)
  PROVE  HeadersOK(Freed(c))
<1> DEFINE k == Marked(c)
           p == hdr[c].prev
           f == Follower(c)
           o == Owner(c)
<1>1. c \in DOMAIN hdr /\ p \in DOMAIN hdr \cup {Null} /\ f \in DOMAIN hdr \cup {Null}
  BY DEF FreeIsSafe
<1>2. Null \notin DOMAIN hdr
  BY Numbers DEF HeadersOK, Null
<1>3. HeadersOK(k) /\ DOMAIN k = DOMAIN hdr
  <2>1. \A x \in DOMAIN hdr : k[x] \in Chunk
    <3> SUFFICES ASSUME NEW x \in DOMAIN hdr PROVE k[x] \in Chunk
      OBVIOUS
    <3>1. hdr[x] \in Chunk
      BY DEF HeadersOK
    <3> QED
      BY <3>1 DEF Marked, Chunk
  <2>2. DOMAIN k = DOMAIN hdr
    BY DEF Marked
  <2> HIDE DEF k
  <2> QED
    BY <2>1, <2>2 DEF HeadersOK
<1>4. HeadersOK(Merged(c)) /\ DOMAIN Merged(c) = DOMAIN hdr /\ o \in DOMAIN hdr
  <2>1. CASE GoesBack(c)
    <3>1. p \in DOMAIN hdr /\ p \in Nat
      BY <1>1, <2>1, Numbers DEF GoesBack, HeadersOK
    <3>2. Merged(c) = Absorb(k, p, c, p) /\ o = p
      BY <2>1 DEF Merged, Owner
    <3> HIDE DEF k
    <3>3. \A x \in DOMAIN k : Absorb(k, p, c, p)[x] \in Chunk
      <4> SUFFICES ASSUME NEW x \in DOMAIN k PROVE Absorb(k, p, c, p)[x] \in Chunk
        OBVIOUS
      <4>1. k[x] \in Chunk /\ k[c] \in Chunk /\ k[p] \in Chunk
        BY <1>1, <1>3, <3>1 DEF HeadersOK
      <4> QED
        BY <3>1, <4>1, AbsorbChunk
    <3> QED
      BY <1>3, <3>1, <3>2, <3>3 DEF HeadersOK, Absorb
  <2>2. CASE ~GoesBack(c)
    BY <1>1, <1>3, <2>2 DEF Merged, Owner
  <2> QED
    BY <2>1, <2>2
<1>5. CASE TakesNext(c)
  <2> DEFINE h == Merged(c)
             back == h[o].prev
  <2>1. f \in DOMAIN hdr
    BY <1>1, <1>5 DEF TakesNext
  <2>2. Freed(c) = Absorb(h, o, f, back)
    BY <1>5 DEF Freed
  <2> HIDE DEF h, o, f
  <2>3. HeadersOK(h) /\ DOMAIN h = DOMAIN hdr /\ o \in DOMAIN hdr
    BY <1>4 DEF h
  <2>4. back \in Nat
    BY <2>3 DEF HeadersOK, Chunk
  <2> HIDE DEF back
  <2>5. \A x \in DOMAIN h : Absorb(h, o, f, back)[x] \in Chunk
    <3> SUFFICES ASSUME NEW x \in DOMAIN h PROVE Absorb(h, o, f, back)[x] \in Chunk
      OBVIOUS
    <3>1. h[x] \in Chunk /\ h[f] \in Chunk /\ h[o] \in Chunk
      BY <2>1, <2>3 DEF HeadersOK
    <3> QED
      BY <2>4, <3>1, AbsorbChunk
  <2> QED
    BY <2>2, <2>3, <2>5 DEF HeadersOK, Absorb
<1>6. CASE ~TakesNext(c)
  BY <1>4, <1>6 DEF Freed
<1> QED
  BY <1>5, <1>6

(* free() keeps the heap intact unless it links a chunk to the wrong       *)
(* predecessor, which relinked records.                                    *)
LEMMA FreeKeepsInv ==
  ASSUME NEW block \in live, Inv, Free(block)
  PROVE  Inv'
<1> DEFINE c == block.addr - Header
           rest == chain \ {x \in {c} : GoesBack(c)}
           f == Follower(c)
<1>1. /\ pc = "idle" /\ FreeIsSafe(c)
      /\ hdr' = Freed(c)
      /\ live' = live \ {block}
      /\ chain' = chain \ ({x \in {c} : GoesBack(c)} \cup {x \in {f} : TakesNext(c)})
      /\ relinked' = (relinked \/ (TakesNext(c) /\ Merged(c)[f].next # Null))
      /\ UNCHANGED <<usedMemory, pc, request, cursor>>
  BY DEF Free
<1> HIDE DEF c
<1>2. TypeOK'
  <2>1. HeadersOK(hdr')
    BY <1>1, FreedHeaders DEF Inv, TypeOK
  <2>2. relinked' \in BOOLEAN
    BY <1>1 DEF Inv, TypeOK
  <2> QED
    BY <1>1, <2>1, <2>2 DEF Inv, TypeOK
<1>3. CASE relinked'
  BY <1>1, <1>2, <1>3 DEF Inv, Tiling, SearchInv, LiveInv, NoWildAccess
<1>4. CASE ~relinked'
  <2>1. ~relinked /\ (TakesNext(c) => Merged(c)[f].next = Null)
    BY <1>1, <1>4
  <2>2. HeadersOK(hdr) /\ Tiles(hdr, chain) /\ c \in chain
    BY <2>1, LiveChunk DEF c
  <2>3. /\ HeadersOK(Merged(c))
        /\ Tiles(Merged(c), rest)
        /\ Owner(c) \in rest
        /\ \A x \in chain \ {c} : /\ x \in rest
                                  /\ Merged(c)[x].allocated = hdr[x].allocated
                                  /\ Merged(c)[x].size >= hdr[x].size
    BY <2>2, MergedTiles
  <2>4. \A b \in live \ {block} : b.addr - Header \in chain \ {c}
    <3> SUFFICES ASSUME NEW b \in live \ {block} PROVE b.addr - Header \in chain \ {c}
      OBVIOUS
    <3>1. b.addr - Header \in chain /\ b.addr # block.addr
      BY <2>1 DEF Inv, LiveInv
    <3>2. b.addr \in Nat /\ block.addr \in Nat
      BY DEF Inv, TypeOK
    <3> QED
      BY <3>1, <3>2, Numbers DEF c
  <2>5. CASE TakesNext(c)
    <3> DEFINE o == Owner(c)
               h == Merged(c)
               g == Absorb(h, o, f, h[o].prev)
    <3>1. hdr' = g /\ chain' = rest \ {f}
      BY <1>1, <2>5 DEF Freed
    <3>2. f = h[o].next /\ f # Null /\ ~h[f].allocated /\ h[f].next = Null
      BY <2>1, <2>5 DEF TakesNext, Follower
    <3> HIDE DEF f, o, h, rest
    <3>3. HeadersOK(h) /\ Tiles(h, rest) /\ o \in rest
      BY <2>3 DEF h, o
    <3>4. h[o].prev \in Nat
      BY <3>3, TilesBounds
    <3>5. /\ Tiles(g, rest \ {f})
          /\ \A x \in rest \ {f} : g[x].allocated = h[x].allocated /\ g[x].size >= h[x].size
      <4> DEFINE back == h[o].prev
      <4>1. back \in Nat /\ (back = o \/ h[f].next = Null)
        BY <3>2, <3>4
      <4>2. f = h[o].next /\ f # Null
        BY <3>2
      <4> HIDE DEF back
      <4>3. /\ Tiles(Absorb(h, o, f, back), rest \ {f})
            /\ \A x \in rest \ {f} : /\ Absorb(h, o, f, back)[x].allocated = h[x].allocated
                                    /\ Absorb(h, o, f, back)[x].size >= h[x].size
        BY <3>3, <4>1, <4>2, AbsorbTiles, SMTT(20)
      <4> QED
        BY <4>3 DEF back
    <3> HIDE DEF g
    <3>6. \A b \in live \ {block} :
            /\ b.addr - Header \in rest \ {f}
            /\ g[b.addr - Header].allocated
            /\ b.size <= g[b.addr - Header].size
      <4> SUFFICES ASSUME NEW b \in live \ {block}
                   PROVE  /\ b.addr - Header \in rest \ {f}
                          /\ g[b.addr - Header].allocated
                          /\ b.size <= g[b.addr - Header].size
        OBVIOUS
      <4> DEFINE x == b.addr - Header
      <4>1. x \in chain \ {c} /\ hdr[x].allocated /\ b.size <= hdr[x].size
        BY <2>1, <2>4 DEF Inv, LiveInv
      <4> HIDE DEF x
      <4>2. x \in rest /\ h[x].allocated /\ h[x].size >= hdr[x].size
        BY <2>3, <4>1 DEF h
      <4>3. x # f
        BY <3>2, <4>2
      <4>4. g[x].allocated /\ g[x].size >= h[x].size
        BY <3>5, <4>2, <4>3
      <4>5. b.size \in Nat /\ hdr[x].size \in Nat /\ h[x].size \in Nat /\ g[x].size \in Nat
        <5>1. HeadersOK(g)
          BY <1>2, <3>1 DEF TypeOK
        <5>2. h[x].size \in Nat /\ g[x].size \in Nat
          BY <3>3, <3>5, <4>2, <4>3, <5>1, TilesBounds
        <5>3. hdr[x].size \in Nat
          BY <2>2, <4>1, TilesBounds
        <5> QED
          BY <5>2, <5>3 DEF Inv, TypeOK
      <4> QED
        BY <4>1, <4>2, <4>3, <4>4, <4>5 DEF x
    <3>7. LiveInv'
      BY <1>1, <2>1, <3>1, <3>6 DEF Inv, LiveInv
    <3> QED
      BY <1>1, <1>2, <3>1, <3>5, <3>7 DEF Inv, Tiling, SearchInv, NoWildAccess
  <2>6. CASE ~TakesNext(c)
    <3> DEFINE h == Merged(c)
    <3>1. hdr' = h /\ chain' = rest
      BY <1>1, <2>6 DEF Freed
    <3> HIDE DEF h, rest
    <3>2. \A b \in live \ {block} :
            /\ b.addr - Header \in rest
            /\ h[b.addr - Header].allocated
            /\ b.size <= h[b.addr - Header].size
      <4> SUFFICES ASSUME NEW b \in live \ {block}
                   PROVE  /\ b.addr - Header \in rest
                          /\ h[b.addr - Header].allocated
                          /\ b.size <= h[b.addr - Header].size
        OBVIOUS
      <4> DEFINE x == b.addr - Header
      <4>1. x \in chain \ {c} /\ hdr[x].allocated /\ b.size <= hdr[x].size
        BY <2>1, <2>4 DEF Inv, LiveInv
      <4> HIDE DEF x
      <4>2. x \in rest /\ h[x].allocated /\ h[x].size >= hdr[x].size
        BY <2>3, <4>1 DEF h
      <4>3. b.size \in Nat /\ hdr[x].size \in Nat /\ h[x].size \in Nat
        <5>1. h[x].size \in Nat
          BY <2>3, <4>2, TilesBounds DEF h
        <5>2. hdr[x].size \in Nat
          BY <2>2, <4>1, TilesBounds
        <5> QED
          BY <5>1, <5>2 DEF Inv, TypeOK
      <4> QED
        BY <4>1, <4>2, <4>3 DEF x
    <3>3. Tiles(h, rest)
      BY <2>3 DEF h
    <3>4. LiveInv'
      BY <1>1, <2>1, <3>1, <3>2 DEF Inv, LiveInv
    <3> QED
      BY <1>1, <1>2, <3>1, <3>3, <3>4 DEF Inv, Tiling, SearchInv, NoWildAccess
  <2> QED
    BY <2>5, <2>6
<1> QED
  BY <1>3, <1>4

(* A step that changes nothing keeps the invariant. *)
LEMMA StutterKeepsInv == Inv /\ UNCHANGED heapVars => Inv'
BY DEF heapVars, Inv, TypeOK, Tiling, SearchInv, LiveInv, NoWildAccess

(* The invariant is inductive. *)
THEOREM HeapInductive == Spec => []Inv
<1>1. Inv /\ [Next]_heapVars => Inv'
  BY MallocKeepsInv, SearchNextKeepsInv, SearchFailedKeepsInv, TakeWholeKeepsInv,
     TakeSplitKeepsInv, SplitFailsKeepsInv, FreeKeepsInv, FreeWildKeepsInv,
     StutterKeepsInv DEF Next
<1> QED
  BY <1>1, InitInv, PTL DEF Spec

-----------------------------------------------------------------------------
(* Headers stay inside mapped memory and keep their types, corrupt list or *)
(* not.                                                                    *)
THEOREM HeapTypeCorrect == Spec => []TypeOK
BY HeapInductive, PTL DEF Inv

(* The chunks tile the heap until a chunk is linked to the wrong           *)
(* predecessor.                                                            *)
THEOREM HeapTiled == Spec => []Tiling
BY HeapInductive, PTL DEF Inv

(* Blocks in use never overlap until then. *)
THEOREM BlocksDisjoint == Spec => []LiveDisjoint
<1>1. Inv => LiveDisjoint
  <2> SUFFICES ASSUME Inv, ~relinked,
                      NEW b \in live, NEW d \in live, b # d
               PROVE  b.addr + b.size <= d.addr \/ d.addr + d.size <= b.addr
    BY DEF LiveDisjoint, Inv, LiveInv
  <2> DEFINE x == b.addr - Header
             y == d.addr - Header
  <2>1. /\ HeadersOK(hdr) /\ Tiles(hdr, chain) /\ x \in chain /\ y \in chain
        /\ b.size <= hdr[x].size /\ d.size <= hdr[y].size
        /\ b.addr # d.addr
    BY DEF Inv, TypeOK, Tiling, LiveInv
  <2>2. b.addr \in Nat /\ d.addr \in Nat /\ b.size \in Nat /\ d.size \in Nat
    BY DEF Inv, TypeOK
  <2>3. b.addr = x + Header /\ d.addr = y + Header
    BY <2>2, Numbers
  <2> HIDE DEF x, y
  <2>4. x \in Nat /\ y \in Nat /\ hdr[x].size \in Nat /\ hdr[y].size \in Nat
    BY <2>1, TilesBounds
  <2>5. CASE x < y
    <3>1. End(hdr, x) <= y
      BY <2>1, <2>5 DEF Tiles
    <3> QED
      BY <2>1, <2>2, <2>3, <2>4, <3>1, Numbers DEF End
  <2>6. CASE y < x
    <3>1. End(hdr, y) <= x
      BY <2>1, <2>6 DEF Tiles
    <3> QED
      BY <2>1, <2>2, <2>3, <2>4, <3>1, Numbers DEF End
  <2> QED
    BY <2>1, <2>3, <2>4, <2>5, <2>6
<1> QED
  BY <1>1, HeapInductive, PTL

(* And no pointer leads to memory that is not a header. *)
THEOREM NeverWild == Spec => []NoWildAccess
BY HeapInductive, PTL DEF Inv

-----------------------------------------------------------------------------
(* Blocks in mapped memory. *)

(* malloc looks for a size it was asked for, and until a chunk is relinked *)
(* every block lies in mapped memory.                                      *)
MappedInv ==
  /\ pc = "search" => request \in Requests
  /\ ~relinked => LiveMapped

(* A chunk that is no larger than a request and a header is not the last   *)
(* one: that one reaches from mapped memory to the end of what malloc      *)
(* believes in.  So there is a header behind it.                           *)
LEMMA WholeChunkMapped ==
  ASSUME Inv, ~relinked, request \in Requests,
         cursor \in chain, Fits(cursor), ~Splits(cursor)
  PROVE  cursor + Header + request <= Start + Mapped
<1>1. HeadersOK(hdr) /\ Tiles(hdr, chain)
  BY DEF Inv, TypeOK, Tiling
<1>2. /\ cursor \in Nat /\ cursor >= Start /\ cursor + Header <= Start + Mapped
      /\ hdr[cursor].size \in Nat
      /\ End(hdr, cursor) <= Start + Size
  BY <1>1, TilesBounds
<1>3. request \in Nat /\ request < hdr[cursor].size /\ hdr[cursor].size <= request + Header
  BY <1>2, Numbers DEF Fits, Splits, Inv, TypeOK
<1>4. End(hdr, cursor) = cursor + Header + hdr[cursor].size
  BY DEF End
<1>5. request + Header < Size - Mapped
  <2>1. request < Size
    BY <1>2, <1>3, <1>4, Numbers
  <2> QED
    BY <1>3, <2>1, RequestsSmall, Numbers
<1>6. hdr[cursor].next # Null
  <2> SUFFICES ASSUME hdr[cursor].next = Null PROVE FALSE
    OBVIOUS
  <2>1. End(hdr, cursor) = Start + Size
    BY <1>1, TilesLast
  <2> QED
    BY <1>2, <1>3, <1>4, <1>5, <2>1, Numbers
<1>7. hdr[cursor].next \in chain /\ End(hdr, cursor) = hdr[cursor].next
  BY <1>1, <1>6, TilesNext
<1>8. hdr[cursor].next \in Nat /\ hdr[cursor].next + Header <= Start + Mapped
  BY <1>1, <1>7, TilesBounds
<1> QED
  BY <1>2, <1>3, <1>4, <1>7, <1>8, Numbers

(* The chunk a search takes is one of the list. *)
LEMMA FoundChunk ==
  ASSUME Inv, ~relinked, pc = "search", cursor \in DOMAIN hdr
  PROVE  cursor \in chain
<1>1. Null \notin DOMAIN hdr
  BY Numbers DEF Inv, TypeOK, HeadersOK, Null
<1> QED
  BY <1>1 DEF Inv, SearchInv

(* Only the two ways to take a chunk add a block. *)
LEMMA TakeKeepsMapped ==
  ASSUME Inv, MappedInv, TakeWhole \/ TakeSplit
  PROVE  MappedInv'
<1> DEFINE new == [addr |-> cursor + Header, size |-> request]
<1>1. /\ pc = "search" /\ pc' = "idle" /\ cursor \in DOMAIN hdr /\ Fits(cursor)
      /\ live' = live \cup {new} /\ relinked' = relinked
  BY DEF TakeWhole, TakeSplit, Return
<1> SUFFICES ASSUME ~relinked PROVE \A b \in live' : b.addr + b.size <= Start + Mapped
  BY <1>1 DEF MappedInv, LiveMapped
<1>2. cursor \in Nat /\ request \in Nat
  BY Numbers DEF Inv, TypeOK
<1>3. cursor + Header + request <= Start + Mapped
  <2>1. CASE TakeWhole
    <3>1. cursor \in chain
      BY <1>1, FoundChunk
    <3>2. request \in Requests /\ ~Splits(cursor)
      BY <1>1, <2>1 DEF MappedInv, TakeWhole
    <3> QED
      BY <1>1, <3>1, <3>2, WholeChunkMapped
  <2>2. CASE TakeSplit
    <3>1. Temp + Header <= Start + Mapped
      BY <1>2, <2>2, Numbers DEF TakeSplit, SplitStops, Temp
    <3> QED
      BY <1>2, <3>1, Numbers DEF Temp
  <2> QED
    BY <2>1, <2>2
<1>4. new.addr + new.size <= Start + Mapped
  BY <1>3
<1> QED
  BY <1>1, <1>4 DEF MappedInv, LiveMapped

(* The other steps keep the blocks, or free one. *)
LEMMA OthersKeepMapped ==
  ASSUME Inv, MappedInv,
         \/ \E size \in Requests : Malloc(size) \/ MallocExhausted(size)
         \/ SearchNext \/ SearchFailed \/ SplitFails
         \/ \E block \in live : Free(block) \/ FreeWild(block)
         \/ UNCHANGED heapVars
  PROVE  MappedInv'
<1>1. ASSUME NEW size \in Requests, Malloc(size) \/ MallocExhausted(size)
      PROVE  MappedInv'
  BY <1>1 DEF Malloc, MallocExhausted, MappedInv, LiveMapped
<1>2. CASE SearchNext \/ UNCHANGED heapVars
  BY <1>2 DEF SearchNext, heapVars, MappedInv, LiveMapped
<1>3. ASSUME NEW how \in {"panic", "fault", "wild"}, Stop(how)
      PROVE  MappedInv'
  BY <1>3 DEF Stop, MappedInv, LiveMapped
<1>4. CASE SearchFailed \/ SplitFails
  BY <1>3, <1>4 DEF SearchFailed, SplitFails, SplitStops
<1>5. ASSUME NEW block \in live, Free(block)
      PROVE  MappedInv'
  BY <1>5 DEF Free, MappedInv, LiveMapped, Inv, TypeOK
<1>6. ASSUME NEW block \in live, FreeWild(block)
      PROVE  MappedInv'
  BY <1>3, <1>6 DEF FreeWild
<1> QED
  BY <1>1, <1>2, <1>4, <1>5, <1>6

(* Until a chunk is relinked every block malloc returned lies in memory    *)
(* the virtual memory manager has mapped.                                  *)
THEOREM BlocksMapped == Spec => [](~relinked => LiveMapped)
<1>1. Init => MappedInv
  BY DEF Init, MappedInv, LiveMapped
<1>2. Inv /\ MappedInv /\ [Next]_heapVars => MappedInv'
  BY TakeKeepsMapped, OthersKeepMapped DEF Next
<1>3. MappedInv => (~relinked => LiveMapped)
  BY DEF MappedInv
<1> QED
  BY <1>1, <1>2, <1>3, HeapInductive, PTL DEF Spec

=============================================================================
