----------------------------- MODULE PMM_proofs -----------------------------
(***************************************************************************)
(* What the physical memory manager guarantees for every memory map and    *)
(* every size: the inductive invariant and the safety properties that      *)
(* follow from it.                                                         *)
(***************************************************************************)
EXTENDS PMM, DataInduction, FiniteSetTheorems, TLAPS

(* The frames kmain reserves after it has freed the usable regions. *)
LowBlocks == Blocks(0, LowMemory)
KernelBlocks == Blocks(KernelStart, KernelSizeAddr)

(* The frames released by the entries kmain has visited so far. *)
ReleasedSoFar == UNION {Blocks(mmap[i].addr, mmap[i].len) :
                          i \in {j \in DOMAIN mmap : j < entry /\ Usable(mmap[j])}}

(* Nobody holds a frame before the allocator runs. *)
BootInv ==
  phase \notin {"running", "panic"} =>
    /\ ~multi
    /\ \A f \in Frame : owned[f] = 0

(* How far the bitmap has come, phase by phase. *)
BitmapInv ==
  /\ phase = "construct" => entry = 1
  /\ phase = "regions" => ReleasedSoFar \cap memoryMap \subseteq {0}
  /\ phase = "low" => Released \cap memoryMap \subseteq {0}
  /\ phase = "kernel" => /\ LowBlocks \subseteq memoryMap
                         /\ Released \cap memoryMap \subseteq LowBlocks
  /\ phase \in {"running", "panic"} /\ ~multi => Protected \subseteq memoryMap

(* A frame that is held is held once, and its bit is set. *)
HeldInv ==
  ~multi => \A f \in Frame : owned[f] > 0 =>
              /\ owned[f] = 1
              /\ f \in memoryMap
              /\ f \notin Protected

Inv == TypeOK /\ BootInv /\ BitmapInv /\ HeldInv /\ NoFrameLost

-----------------------------------------------------------------------------
(* Arithmetic of the counters. *)

(* A remainder lies below its modulus: the u32 counters keep their type. *)
LEMMA ModRange ==
  ASSUME NEW x \in Int, NEW m \in Nat \ {0}
  PROVE  x % m \in 0 .. m - 1
OBVIOUS

(* A quotient of naturals is a natural. *)
LEMMA DivNat ==
  ASSUME NEW x \in Nat, NEW m \in Nat \ {0}
  PROVE  x \div m \in Nat
OBVIOUS

(* Division keeps an order. *)
LEMMA DivMonotonic ==
  ASSUME NEW m \in Nat \ {0}, NEW a \in Nat, NEW b \in Nat, a <= b
  PROVE  a \div m <= b \div m
OBVIOUS

(* Frame numbers are naturals. *)
LEMMA FrameNat == Frame \subseteq Nat
BY SizesAssumption DEF Frame

(* What the constructor computes of the memory map is the number of a      *)
(* frame, whatever the lengths add up to.                                  *)
LEMMA MaxBlocksFrame ==
  ASSUME NEW map \in MemoryMaps
  PROVE  MaxBlocks(map) \in Frame /\ MaxBlocks(map) \in 0 .. U32 - 1
<1> DEFINE n == Len(map)
           sum[i \in 0 .. n] == IF i = 0 THEN 0 ELSE (sum[i - 1] + map[i].len) % U32
           step == [i \in 1 .. n |-> [x \in Nat |-> (x + map[i].len) % U32]]
<1>1. /\ n \in Nat /\ U32 \in Nat \ {0} /\ BlockSize \in Nat \ {0} /\ KB \in Nat
      /\ \A i \in 1 .. n : map[i].len \in Nat
  <2>1. map \in Seq(Region)
    BY MapsAssumption
  <2>2. \A i \in 1 .. n : map[i] \in Region
    BY <2>1
  <2>3. n \in Nat
    BY <2>1
  <2> HIDE DEF n
  <2>4. \A i \in 1 .. n : map[i].len \in Nat
    BY <2>2 DEF Region
  <2> QED
    BY <2>3, <2>4, SizesAssumption
<1>2. \A i \in 1 .. n, x \in Nat : (x + map[i].len) % U32 \in Nat
  <2> SUFFICES ASSUME NEW i \in 1 .. n, NEW x \in Nat
               PROVE  (x + map[i].len) % U32 \in Nat
    OBVIOUS
  <2> DEFINE y == x + map[i].len
  <2>1. y \in Int
    BY <1>1
  <2> HIDE DEF y
  <2>2. y % U32 \in Nat
    BY <1>1, <2>1
  <2> QED
    BY <2>2 DEF y
<1>3. step \in [1 .. n -> [Nat -> Nat]]
  BY <1>2
<1>4. \E f \in [0 .. n -> Nat] : StepsThrough(f, n, 0, step)
  <2> HIDE DEF n, step, sum
  <2>1. 0 \in Nat
    OBVIOUS
  <2> QED
    BY <1>1, <1>3, <2>1, RecursionSolved
<1>5. PICK f \in [0 .. n -> Nat] :
        f = [i \in 0 .. n |-> IF i = 0 THEN 0 ELSE step[i][f[i - 1]]]
  BY <1>4 DEF StepsThrough
<1>6. \A i \in 0 .. n : f[i] = IF i = 0 THEN 0 ELSE (f[i - 1] + map[i].len) % U32
  <2> SUFFICES ASSUME NEW i \in 0 .. n
               PROVE  f[i] = IF i = 0 THEN 0 ELSE (f[i - 1] + map[i].len) % U32
    OBVIOUS
  <2>1. CASE i = 0
    BY <1>5, <2>1
  <2>2. CASE i # 0
    <3>1. i \in 1 .. n /\ i - 1 \in 0 .. n
      BY <1>1, <2>2
    <3> HIDE DEF n, step, sum
    <3>3. f[i - 1] \in Nat
      BY <3>1
    <3> USE DEF step
    <3>2. f[i] = step[i][f[i - 1]]
      BY <1>5, <2>2
    <3> QED
      BY <2>2, <3>1, <3>2, <3>3
  <2> QED
    BY <2>1, <2>2
<1>7. f = [i \in 0 .. n |-> IF i = 0 THEN 0 ELSE (f[i - 1] + map[i].len) % U32]
  BY <1>5, <1>6
<1>8. sum = [i \in 0 .. n |-> IF i = 0 THEN 0 ELSE (sum[i - 1] + map[i].len) % U32]
  <2> HIDE DEF n, step
  <2> QED
    BY <1>7
<1> DEFINE S == {m \in Nat : m <= n => sum[m] \in Nat}
<1> HIDE DEF sum
<1>9. 0 \in S
  BY <1>1, <1>8
<1>10. \A m \in Nat : m \in S => m + 1 \in S
  <2> SUFFICES ASSUME NEW m \in Nat, sum[m] \in Nat, m + 1 <= n PROVE sum[m + 1] \in Nat
    BY <1>1
  <2>1. m + 1 \in 1 .. n /\ m + 1 \in 0 .. n /\ m + 1 # 0 /\ m + 1 - 1 = m
    BY <1>1
  <2>2. sum[m + 1] = (sum[m] + map[m + 1].len) % U32
    BY <1>8, <2>1
  <2> QED
    BY <1>2, <2>1, <2>2
<1>11. sum[n] \in Nat
  <2> HIDE DEF S, n
  <2>1. n \in S
    BY <1>1, <1>9, <1>10, NatSetInduction
  <2> QED
    BY <1>1, <2>1 DEF S
<1>12. MemorySize(map) \in Nat
  BY <1>11 DEF MemorySize, sum
<1> DEFINE bytes == (MemorySize(map) * KB) % U32
<1>13. bytes \in 0 .. U32 - 1
  <2> DEFINE kb == MemorySize(map) * KB
  <2>1. kb \in Int
    BY <1>1, <1>12
  <2> HIDE DEF kb
  <2>2. kb % U32 \in 0 .. U32 - 1
    BY <1>1, <2>1, ModRange
  <2> QED
    BY <2>2 DEF kb
<1> HIDE DEF bytes
<1>14. bytes \in Nat /\ bytes <= U32 /\ bytes \div BlockSize \in Nat
  <2>1. bytes \in Nat /\ bytes <= U32
    BY <1>1, <1>13
  <2> QED
    BY <1>1, <2>1, DivNat
<1>15. bytes \div BlockSize <= U32 \div BlockSize /\ U32 \div BlockSize \in Nat
  BY <1>1, <1>14, DivMonotonic, DivNat
<1>16. bytes \div BlockSize <= bytes
  BY <1>1, <1>14
<1>17. MaxBlocks(map) = bytes \div BlockSize
  BY DEF MaxBlocks, bytes
<1> QED
  BY <1>1, <1>13, <1>14, <1>15, <1>16, <1>17 DEF Frame

(* The regions kmain reserves consist of frames and cover what must be     *)
(* protected.                                                              *)
LEMMA ReservedCover ==
  ASSUME mmap \in MemoryMaps
  PROVE  /\ LowBlocks \subseteq Frame
         /\ KernelBlocks \subseteq Frame
         /\ Protected \subseteq LowBlocks \cup KernelBlocks
         /\ 0 \in LowBlocks
BY ReservedAssumption DEF Protected, LowBlocks, KernelBlocks

(* The regions of the memory map consist of frames as well. *)
LEMMA MapFacts ==
  ASSUME mmap \in MemoryMaps
  PROVE  /\ Len(mmap) \in Nat
         /\ DOMAIN mmap = 1 .. Len(mmap)
         /\ MaxBlocks(mmap) \in 0 .. U32 - 1
         /\ Released \subseteq Frame
         /\ \A i \in DOMAIN mmap : /\ mmap[i].addr \in Nat
                                   /\ mmap[i].len \in Nat
                                   /\ Blocks(mmap[i].addr, mmap[i].len) \subseteq Frame
<1>1. mmap \in Seq(Region)
  BY MapsAssumption
<1>2. \A i \in DOMAIN mmap : mmap[i] \in Region
  BY <1>1
<1>3. /\ MaxBlocks(mmap) \in 0 .. U32 - 1
      /\ \A i \in DOMAIN mmap : Blocks(mmap[i].addr, mmap[i].len) \subseteq Frame
  BY MapsAssumption, MaxBlocksFrame
<1>4. Released \subseteq Frame
  BY <1>3 DEF Released
<1>5. Len(mmap) \in Nat /\ DOMAIN mmap = 1 .. Len(mmap)
  BY <1>1
<1> QED
  BY <1>2, <1>3, <1>4, <1>5 DEF Region

-----------------------------------------------------------------------------
(* The invariant holds when kmain starts. *)
LEMMA InitInv == Init => Inv
<1> SUFFICES ASSUME Init PROVE Inv
  OBVIOUS
<1>1. U32 \in Nat \ {0}
  BY SizesAssumption
<1>2. mmap \in MemoryMaps /\ Len(mmap) \in Nat
  BY MapFacts DEF Init
<1>3. 0 \in 0 .. U32 - 1 /\ 1 \in 1 .. Len(mmap) + 1
  BY <1>1, <1>2
<1>4. TypeOK
  BY <1>2, <1>3 DEF Init, TypeOK, Phase
<1> QED
  BY <1>4 DEF Init, Inv, BootInv, BitmapInv, HeldInv, NoFrameLost

(* Each step of kmain keeps the invariant. *)
LEMMA BootKeepsInv == Inv /\ Boot => Inv'
<1> SUFFICES ASSUME Inv, Boot PROVE Inv'
  OBVIOUS
<1> USE DEF Inv
<1>1. /\ mmap \in MemoryMaps
      /\ mmap' = mmap
      /\ owned' = owned
      /\ multi' = multi
      /\ phase \notin {"running", "panic"}
  BY DEF TypeOK, Boot, Construct, VisitRegion, RegionsDone, ReserveLow, ReserveKernel
<1>2. /\ ~multi
      /\ \A f \in Frame : owned[f] = 0
  BY <1>1 DEF BootInv
<1>3. BootInv' /\ HeldInv'
  BY <1>1, <1>2 DEF BootInv, HeldInv
<1>4. /\ U32 \in Nat \ {0}
      /\ BlockSize \in Nat \ {0}
      /\ BlocksPerByte \in Nat \ {0}
      /\ LowMemory \in Nat
      /\ KernelSizeAddr \in Nat
  BY SizesAssumption
<1>5. usedBlocks \in Int /\ maxBlocks \in 0 .. U32 - 1 /\ memoryMap \subseteq Nat
  BY DEF TypeOK
<1>6. owned \in [Frame -> Nat] /\ multi \in BOOLEAN /\ entry \in 1 .. Len(mmap) + 1
  BY DEF TypeOK
<1>7. CASE Construct
  <2>1. TypeOK'
    BY <1>1, <1>4, <1>6, <1>7, MapFacts DEF Construct, TypeOK, Phase
  <2>2. entry' = 1 /\ phase' = "regions"
    BY <1>7 DEF Construct, BitmapInv
  <2>3. ReleasedSoFar' = {}
    BY <1>1, <2>2, MapFacts DEF ReleasedSoFar
  <2> QED
    BY <1>3, <2>1, <2>2, <2>3 DEF BitmapInv, NoFrameLost
<1>8. CASE VisitRegion
  <2>1. /\ phase' = "regions" /\ phase = "regions"
        /\ entry \in DOMAIN mmap
        /\ entry' = entry + 1
        /\ entry' \in 1 .. Len(mmap) + 1
        /\ maxBlocks' = maxBlocks
    BY <1>1, <1>6, <1>8, MapFacts DEF VisitRegion
  <2>2. CASE Usable(mmap[entry])
    <3> DEFINE B == Blocks(mmap[entry].addr, mmap[entry].len)
    <3>1. SetRegionFree(mmap[entry].addr, mmap[entry].len)
      BY <1>8, <2>2 DEF VisitRegion
    <3>2. memoryMap' = (memoryMap \ B) \cup {0}
      BY <3>1 DEF SetRegionFree
    <3>3. usedBlocks' \in 0 .. U32 - 1
      <4>1. mmap[entry].len \div BlockSize \in Nat
        BY <1>1, <1>4, <2>1, MapFacts, DivNat
      <4>2. usedBlocks - (mmap[entry].len \div BlockSize + 1) \in Int
        BY <1>5, <4>1
      <4> QED
        BY <1>4, <3>1, <4>2, ModRange DEF SetRegionFree
    <3>4. ReleasedSoFar' = ReleasedSoFar \cup B
      BY <1>1, <1>6, <2>1, <2>2, MapFacts, SMTT(20) DEF ReleasedSoFar
    <3>5. memoryMap' \subseteq Nat
      <4>1. memoryMap \subseteq Nat /\ 0 \in Nat
        BY <1>5
      <4> QED
        BY <3>2, <4>1, Zenon
    <3>6. TypeOK'
      BY <1>1, <1>5, <1>6, <2>1, <3>3, <3>5 DEF TypeOK, Phase
    <3> QED
      BY <1>3, <2>1, <3>2, <3>4, <3>6 DEF BitmapInv, NoFrameLost
  <2>3. CASE ~Usable(mmap[entry])
    <3>1. memoryMap' = memoryMap /\ usedBlocks' = usedBlocks
      BY <1>8, <2>3 DEF VisitRegion
    <3>2. ReleasedSoFar' = ReleasedSoFar
      BY <1>1, <1>6, <2>1, <2>3, MapFacts DEF ReleasedSoFar
    <3>3. TypeOK'
      BY <1>1, <1>6, <2>1, <3>1 DEF TypeOK, Phase
    <3> QED
      BY <1>3, <2>1, <3>1, <3>2, <3>3 DEF BitmapInv, NoFrameLost
  <2> QED
    BY <2>2, <2>3
<1>9. CASE RegionsDone
  <2>1. /\ phase' = "low" /\ phase = "regions"
        /\ memoryMap' = memoryMap
        /\ entry > Len(mmap)
    BY <1>9 DEF RegionsDone
  <2>2. Released' = Released
    BY <1>1 DEF Released
  <2>3. ReleasedSoFar = Released
    BY <1>1, <1>6, <2>1, MapFacts DEF ReleasedSoFar, Released
  <2>4. TypeOK'
    BY <1>1, <1>9 DEF RegionsDone, TypeOK, Phase
  <2> QED
    BY <1>3, <2>1, <2>2, <2>3, <2>4 DEF BitmapInv, NoFrameLost
<1>10. CASE ReserveLow
  <2>1. /\ phase' = "kernel" /\ phase = "low"
        /\ memoryMap' = memoryMap \cup LowBlocks
        /\ entry' = entry /\ maxBlocks' = maxBlocks
    BY <1>10 DEF ReserveLow, SetRegionUsed, LowBlocks
  <2>2. Released' = Released
    BY <1>1 DEF Released
  <2>3. usedBlocks' \in 0 .. U32 - 1
    BY <1>4, <1>5, <1>10, ModRange, DivNat DEF ReserveLow, SetRegionUsed
  <2>4. LowBlocks \subseteq Nat /\ 0 \in LowBlocks
    BY <1>1, ReservedCover, FrameNat
  <2>5. TypeOK'
    BY <1>1, <1>5, <1>6, <2>1, <2>3, <2>4 DEF TypeOK, Phase
  <2> QED
    BY <1>3, <2>1, <2>2, <2>4, <2>5 DEF BitmapInv, NoFrameLost
<1>11. CASE ReserveKernel
  <2>1. /\ phase' = "running" /\ phase = "kernel"
        /\ memoryMap' = memoryMap \cup KernelBlocks
        /\ entry' = entry /\ maxBlocks' = maxBlocks
    BY <1>11 DEF ReserveKernel, SetRegionUsed, KernelBlocks
  <2>2. Released' = Released /\ Protected' = Protected
    BY <1>1 DEF Released, Protected
  <2>3. usedBlocks' \in 0 .. U32 - 1
    BY <1>4, <1>5, <1>11, ModRange, DivNat DEF ReserveKernel, SetRegionUsed
  <2>4. KernelBlocks \subseteq Nat /\ Protected \subseteq LowBlocks \cup KernelBlocks
    BY <1>1, ReservedCover, FrameNat
  <2>5. TypeOK'
    BY <1>1, <1>5, <1>6, <2>1, <2>3, <2>4 DEF TypeOK, Phase
  <2>6. Released \cap memoryMap \subseteq LowBlocks /\ LowBlocks \subseteq memoryMap
    BY <2>1 DEF BitmapInv
  <2>7. NoFrameLost'
    BY <2>1, <2>2, <2>6 DEF NoFrameLost, LowBlocks, KernelBlocks
  <2>8. BitmapInv'
    BY <2>1, <2>2, <2>4, <2>6 DEF BitmapInv
  <2> QED
    BY <1>3, <2>5, <2>7, <2>8
<1> QED
  BY <1>7, <1>8, <1>9, <1>10, <1>11 DEF Boot

(* Handing out frames keeps it: a single frame comes from the clear bits,  *)
(* which are neither held nor protected, and a panic changes nothing else. *)
LEMMA AllocKeepsInv ==
  ASSUME NEW count \in Nat, Inv, AllocBlocks(count)
  PROVE  Inv'
<1> USE DEF Inv
<1>1. phase = "running"
  BY DEF AllocBlocks
<1>2. CASE Panic
  <2>1. /\ phase' = "panic"
        /\ UNCHANGED <<mmap, entry, memoryMap, maxBlocks, usedBlocks, owned, multi>>
    BY <1>2 DEF Panic
  <2>2. Protected' = Protected
    BY <2>1 DEF Protected
  <2>3. TypeOK'
    BY <2>1 DEF TypeOK, Phase
  <2>4. BootInv' /\ BitmapInv' /\ HeldInv' /\ NoFrameLost'
    BY <1>1, <2>1, <2>2 DEF BootInv, BitmapInv, HeldInv, NoFrameLost
  <2> QED
    BY <2>3, <2>4
<1>3. CASE ~Panic
  <2>1. PICK frame \in Searchable : frame \notin memoryMap /\ Grant(frame, count)
    BY <1>3 DEF AllocBlocks, Fits
  <2> DEFINE G == frame .. frame + count - 1
  <2>2. /\ memoryMap' = memoryMap \cup G
        /\ usedBlocks' = (usedBlocks + count) % U32
        /\ owned' = [f \in Frame |-> IF f \in G THEN owned[f] + 1 ELSE owned[f]]
        /\ multi' = (multi \/ count > 1)
        /\ UNCHANGED <<mmap, phase, entry, maxBlocks>>
    BY <2>1 DEF Grant
  <2>3. Protected' = Protected /\ Released' = Released
    BY <2>2 DEF Protected, Released
  <2>4. frame \in Nat
    BY DEF Searchable
  <2>5. TypeOK'
    <3>1. usedBlocks' \in 0 .. U32 - 1
      <4>1. usedBlocks \in Int /\ count \in Int
        BY <1>1 DEF TypeOK
      <4>2. usedBlocks + count \in Int
        BY <4>1
      <4> QED
        BY <2>2, <4>2, SizesAssumption, ModRange
    <3>2. owned' \in [Frame -> Nat]
      BY <2>2 DEF TypeOK
    <3>3. memoryMap' \subseteq Nat
      BY <1>1, <2>2, <2>4 DEF TypeOK
    <3> QED
      BY <2>2, <3>1, <3>2, <3>3 DEF TypeOK
  <2>6. BootInv'
    BY <1>1, <2>2 DEF BootInv
  <2>7. BitmapInv'
    BY <1>1, <2>2, <2>3 DEF BitmapInv
  <2>8. HeldInv'
    <3> SUFFICES ASSUME ~multi', NEW f \in Frame, owned'[f] > 0
                 PROVE  owned'[f] = 1 /\ f \in memoryMap' /\ f \notin Protected'
      BY DEF HeldInv
    <3>1. ~multi /\ ~(count > 1)
      BY <2>2, Zenon
    <3>2. count \in {0, 1}
      BY <1>1, <3>1
    <3>3. G \subseteq {frame}
      BY <2>4, <3>2
    <3>4. Protected \subseteq memoryMap
      BY <1>1, <3>1 DEF BitmapInv
    <3>5. owned[f] \in Nat
      BY DEF TypeOK
    <3>6. CASE f \in G
      <4>1. f = frame /\ f \notin memoryMap
        BY <2>1, <3>3, <3>6
      <4>2. owned[f] = 0
        BY <3>1, <3>5, <4>1 DEF HeldInv
      <4> QED
        BY <2>2, <2>3, <3>4, <3>6, <4>1, <4>2
    <3>7. CASE f \notin G
      BY <2>2, <2>3, <3>1, <3>7 DEF HeldInv
    <3> QED
      BY <3>6, <3>7
  <2>9. NoFrameLost'
    <3> SUFFICES ASSUME NEW f \in Released \ (LowBlocks \cup KernelBlocks),
                        f \in memoryMap'
                 PROVE  owned'[f] > 0
      BY <2>3 DEF NoFrameLost, LowBlocks, KernelBlocks
    <3>1. f \in Frame
      BY MapFacts DEF TypeOK
    <3>2. owned[f] \in Nat
      BY <3>1 DEF TypeOK
    <3>3. f \in memoryMap => owned[f] > 0
      BY <1>1 DEF NoFrameLost, LowBlocks, KernelBlocks
    <3> QED
      BY <2>2, <3>1, <3>2, <3>3
  <2> QED
    BY <2>5, <2>6, <2>7, <2>8, <2>9
<1> QED
  BY <1>2, <1>3

(* Taking a frame back keeps it: the frame had one holder and loses it     *)
(* together with its bit.                                                  *)
LEMMA FreeKeepsInv ==
  ASSUME NEW frame \in Frame, Inv, FreeBlock(frame)
  PROVE  Inv'
<1> USE DEF Inv
<1>1. /\ phase = "running" /\ owned[frame] > 0
      /\ memoryMap' = memoryMap \ {frame}
      /\ usedBlocks' = (usedBlocks - 1) % U32
      /\ owned' = [owned EXCEPT ![frame] = @ - 1]
      /\ UNCHANGED <<mmap, phase, entry, maxBlocks, multi>>
  BY DEF FreeBlock
<1>2. Protected' = Protected /\ Released' = Released
  BY <1>1 DEF Protected, Released
<1>3. owned \in [Frame -> Nat] /\ owned[frame] \in Nat
  BY DEF TypeOK
<1>4. /\ owned' \in [Frame -> Nat]
      /\ owned'[frame] = owned[frame] - 1
      /\ \A f \in Frame \ {frame} : owned'[f] = owned[f]
  BY <1>1, <1>3
<1>5. TypeOK'
  <2>1. usedBlocks' \in 0 .. U32 - 1
    <3>1. usedBlocks - 1 \in Int
      BY DEF TypeOK
    <3> QED
      BY <1>1, <3>1, SizesAssumption, ModRange
  <2> QED
    BY <1>1, <1>4, <2>1 DEF TypeOK
<1>6. BootInv'
  BY <1>1 DEF BootInv
<1>7. BitmapInv'
  BY <1>1, <1>2 DEF BitmapInv, HeldInv
<1>8. HeldInv'
  BY <1>1, <1>2, <1>3, <1>4 DEF HeldInv
<1>9. NoFrameLost'
  <2> SUFFICES ASSUME NEW f \in Released \ (LowBlocks \cup KernelBlocks),
                      f \in memoryMap'
               PROVE  owned'[f] > 0
    BY <1>2 DEF NoFrameLost, LowBlocks, KernelBlocks
  <2>1. f \in Frame \ {frame} /\ f \in memoryMap
    BY <1>1, MapFacts DEF TypeOK
  <2> QED
    BY <1>1, <1>4, <2>1 DEF NoFrameLost, LowBlocks, KernelBlocks
<1> QED
  BY <1>5, <1>6, <1>7, <1>8, <1>9

(* A step that changes nothing keeps it. *)
LEMMA StutterKeepsInv == Inv /\ UNCHANGED pmmVars => Inv'
BY DEF pmmVars, Inv, TypeOK, BootInv, BitmapInv, HeldInv, NoFrameLost,
       ReleasedSoFar, Released, Protected

(* The invariant is inductive. *)
THEOREM Inductive == Spec => []Inv
<1>1. Inv /\ [Next]_pmmVars => Inv'
  BY SizesAssumption, BootKeepsInv, AllocKeepsInv, FreeKeepsInv, StutterKeepsInv DEF Next
<1> QED
  BY <1>1, InitInv, PTL DEF Spec

-----------------------------------------------------------------------------
(* The variables of the allocator keep their types: the counters stay u32  *)
(* values through every miscount of kmain.                                 *)
THEOREM TypeCorrect == Spec => []TypeOK
BY Inductive, PTL DEF Inv

(* While frames are asked for one at a time, no frame has two holders.     *)
THEOREM NeverGivenTwice == Spec => []NoFrameGivenTwice
<1>1. Inv => NoFrameGivenTwice
  <2> SUFFICES ASSUME Inv, ~multi, NEW f \in Frame PROVE owned[f] <= 1
    BY DEF NoFrameGivenTwice
  <2>1. owned[f] \in Nat
    BY DEF Inv, TypeOK
  <2> QED
    BY <2>1 DEF Inv, HeldInv
<1> QED
  BY <1>1, Inductive, PTL

(* Low memory, the kernel image and the bitmap are never handed out.       *)
THEOREM ProtectedKept == Spec => []ProtectedNeverGiven
<1>1. Inv => ProtectedNeverGiven
  <2> SUFFICES ASSUME Inv, ~multi, NEW f \in Protected PROVE owned[f] = 0
    BY DEF ProtectedNeverGiven
  <2>1. f \in Frame
    BY ReservedCover DEF Inv, TypeOK
  <2>2. owned[f] \in Nat
    BY <2>1 DEF Inv, TypeOK
  <2> QED
    BY <2>1, <2>2 DEF Inv, HeldInv
<1> QED
  BY <1>1, Inductive, PTL

(* A frame of usable memory is reserved, held, or found by firstFree.      *)
THEOREM NothingLost == Spec => []NoFrameLost
BY Inductive, PTL DEF Inv

-----------------------------------------------------------------------------
(* Counting: the counter of free frames, the bits and the holders.         *)

(* A counter that runs once around at most. *)
LEMMA ModAround ==
  ASSUME NEW m \in Nat \ {0}, NEW x \in Int
  PROVE  /\ x \in 0 .. m - 1 => x % m = x
         /\ x \in -m .. -1 => x % m = x + m
         /\ x \in m .. 2 * m - 1 => x % m = x - m
OBVIOUS

LEMMA DivSum ==
  ASSUME NEW m \in Nat \ {0}, NEW a \in Nat, NEW b \in Nat
  PROVE  (a \div m) + (b \div m) <= (a + b) \div m
OBVIOUS

(* What is left by a counter of used frames that moves by d. *)
LEMMA CounterMoves ==
  ASSUME NEW m \in Nat \ {0}, NEW max \in 0 .. m - 1, NEW used \in 0 .. m - 1, NEW d \in Int,
         ((max - used) % m) - d \in 0 .. m - 1
  PROVE  (max - ((used + d) % m)) % m = ((max - used) % m) - d
<1> DEFINE c == (max - used) % m
<1>1. c = IF used <= max THEN max - used ELSE max - used + m
  <2>1. used <= max => max - used \in 0 .. m - 1
    OBVIOUS
  <2>2. ~(used <= max) => max - used \in -m .. -1
    OBVIOUS
  <2>3. max - used \in Int
    OBVIOUS
  <2> QED
    BY <2>1, <2>2, <2>3, ModAround
<1>2. c - d \in 0 .. m - 1
  OBVIOUS
<1> HIDE DEF c
<1>3. used + d \in -m .. 2 * m - 1
  BY <1>1, <1>2
<1> DEFINE e == used + d
           u == e % m
<1> HIDE DEF e
<1>4. u = IF e < 0 THEN e + m ELSE IF e < m THEN e ELSE e - m
  <2>1. e \in Int /\ e \in -m .. 2 * m - 1
    BY <1>3 DEF e
  <2>2. e < 0 => e \in -m .. -1
    BY <2>1
  <2>3. ~(e < 0) /\ e < m => e \in 0 .. m - 1
    BY <2>1
  <2>4. ~(e < m) => e \in m .. 2 * m - 1
    BY <2>1
  <2> QED
    BY <2>1, <2>2, <2>3, <2>4, ModAround
<1> HIDE DEF u
<1>5. u \in 0 .. m - 1 /\ e = used + d
  BY <1>3, <1>4 DEF e
<1>6. (max - u) % m = IF u <= max THEN max - u ELSE max - u + m
  <2>1. u <= max => max - u \in 0 .. m - 1
    BY <1>5
  <2>2. ~(u <= max) => max - u \in -m .. -1
    BY <1>5
  <2>3. max - u \in Int
    BY <1>5
  <2> QED
    BY <2>1, <2>2, <2>3, ModAround
<1>7. (max - u) % m = c - d
  BY <1>1, <1>2, <1>3, <1>4, <1>5, <1>6
<1> QED
  BY <1>7 DEF u, c, e

LEMMA BlocksCount ==
  ASSUME NEW start \in Nat, NEW size \in Nat
  PROVE  /\ IsFiniteSet(Blocks(start, size))
         /\ Cardinality(Blocks(start, size)) = size \div BlockSize + 1
         /\ size \div BlockSize \in Nat
<1> DEFINE a == start \div BlockSize
           n == size \div BlockSize
<1>1. a \in Nat /\ n \in Nat
  BY SizesAssumption, DivNat
<1> HIDE DEF a, n
<1>2. IsFiniteSet(a .. a + n) /\ Cardinality(a .. a + n) = IF a > a + n THEN 0 ELSE a + n - a + 1
  BY <1>1, FS_Interval
<1>3. Cardinality(a .. a + n) = n + 1
  BY <1>1, <1>2
<1> QED
  BY <1>1, <1>2, <1>3 DEF Blocks, a, n

LEMMA FrameFinite == IsFiniteSet(Frame)
<1>1. U32 \div BlockSize \in Int /\ 0 \in Int
  BY SizesAssumption, DivNat
<1> QED
  BY <1>1, FS_Interval DEF Frame

-----------------------------------------------------------------------------
(* What the memory map offers. *)

LEMMA OfferedIs ==
  ASSUME mmap \in MemoryMaps
  PROVE  /\ Released = Offered(mmap, Len(mmap))
         /\ \A n \in 0 .. Len(mmap) : Offered(mmap, n) \subseteq Frame /\ IsFiniteSet(Offered(mmap, n))
<1>1. DOMAIN mmap = 1 .. Len(mmap) /\ Len(mmap) \in Nat
  BY MapFacts
<1>2. Released = Offered(mmap, Len(mmap))
  BY <1>1 DEF Released, Offered
<1>3. ASSUME NEW n \in 0 .. Len(mmap)
      PROVE  Offered(mmap, n) \subseteq Frame /\ IsFiniteSet(Offered(mmap, n))
  <2>1. 1 .. n \subseteq DOMAIN mmap
    BY <1>1
  <2>2. Offered(mmap, n) \subseteq Frame
    BY <2>1, MapFacts DEF Offered
  <2> QED
    BY <2>2, FrameFinite, FS_Subset
<1> QED
  BY <1>2, <1>3

LEMMA OfferedNext ==
  ASSUME mmap \in MemoryMaps, NEW n \in DOMAIN mmap
  PROVE  Offered(mmap, n) =
           IF Usable(mmap[n]) THEN Offered(mmap, n - 1) \cup Blocks(mmap[n].addr, mmap[n].len)
           ELSE Offered(mmap, n - 1)
<1>1. n \in Nat /\ 1 .. n = (1 .. n - 1) \cup {n}
  BY MapFacts
<1>2. {j \in 1 .. n : Usable(mmap[j])} =
        {j \in 1 .. n - 1 : Usable(mmap[j])} \cup (IF Usable(mmap[n]) THEN {n} ELSE {})
  BY <1>1
<1> QED
  BY <1>2 DEF Offered

(* A region shares at most the frame it begins in with those before it. *)
LEMMA OfferedOnce ==
  ASSUME mmap \in MemoryMaps, NEW n \in DOMAIN mmap, Usable(mmap[n])
  PROVE  Cardinality(Offered(mmap, n - 1) \cap Blocks(mmap[n].addr, mmap[n].len)) \in
           0 .. IF n \in Again(mmap) THEN 1 ELSE 0
<1> DEFINE B == Blocks(mmap[n].addr, mmap[n].len)
           O == Offered(mmap, n - 1)
           a == mmap[n].addr \div BlockSize
<1>1. CASE O \cap B = {}
  <2>1. Cardinality(O \cap B) = 0
    BY <1>1, FS_EmptySet
  <2> HIDE DEF O, B
  <2>2. Cardinality(O \cap B) \in 0 .. IF n \in Again(mmap) THEN 1 ELSE 0
    BY <2>1
  <2> QED
    BY <2>2 DEF O, B
<1>2. CASE O \cap B # {}
  <2>1. n \in Again(mmap)
    BY <1>2 DEF Again
  <2>2. \A f \in O \cap B : f = a
    <3> SUFFICES ASSUME NEW f \in O, f \in B PROVE f = a
      OBVIOUS
    <3>1. PICK i \in 1 .. n - 1 : Usable(mmap[i]) /\ f \in Blocks(mmap[i].addr, mmap[i].len)
      BY DEF Offered
    <3>2. i \in DOMAIN mmap /\ i < n
      BY MapFacts
    <3>3. /\ mmap[i].addr \in Nat /\ mmap[i].len \in Nat /\ mmap[n].addr \in Nat /\ mmap[n].len \in Nat
          /\ BlockSize \in Nat \ {0}
      BY <3>2, MapFacts, SizesAssumption
    <3>4. mmap[i].addr + mmap[i].len <= mmap[n].addr
      BY <3>1, <3>2, MemoryAssumption
    <3> DEFINE x == mmap[i].addr
               y == mmap[i].len
               z == mmap[n].addr
    <3>5. f \in x \div BlockSize .. (x \div BlockSize + y \div BlockSize)
      BY <3>1 DEF Blocks
    <3>6. f \in z \div BlockSize .. (z \div BlockSize + mmap[n].len \div BlockSize)
      BY DEF Blocks
    <3>7. x \in Nat /\ y \in Nat /\ z \in Nat /\ x + y <= z
      BY <3>3, <3>4
    <3> HIDE DEF x, y, z
    <3>8. (x + y) \in Nat
      BY <3>7
    <3>9. x \div BlockSize + y \div BlockSize <= (x + y) \div BlockSize
      BY <3>3, <3>7, DivSum
    <3>10. (x + y) \div BlockSize <= z \div BlockSize
      BY <3>3, <3>7, <3>8, DivMonotonic
    <3>11. /\ x \div BlockSize \in Nat /\ y \div BlockSize \in Nat
           /\ z \div BlockSize \in Nat /\ (x + y) \div BlockSize \in Nat
      BY <3>3, <3>7, <3>8, DivNat
    <3>12. f = z \div BlockSize
      BY <3>5, <3>6, <3>9, <3>10, <3>11
    <3> QED
      BY <3>12 DEF z
  <2>3. O \cap B = {a}
    BY <1>2, <2>2
  <2>4. Cardinality(O \cap B) = 1
    BY <2>3, FS_Singleton
  <2> HIDE DEF O, B
  <2>5. Cardinality(O \cap B) \in 0 .. IF n \in Again(mmap) THEN 1 ELSE 0
    BY <2>1, <2>4
  <2> QED
    BY <2>5 DEF O, B
<1> QED
  BY <1>1, <1>2

-----------------------------------------------------------------------------
(* The counter is right at boot, up to the frames that are offered twice,  *)
(* and then follows the holders: a frame with two holders counts twice.    *)

AgainSoFar == {i \in Again(mmap) : i < entry}
BootFree == Released \ (LowBlocks \cup KernelBlocks)
Held == {h \in Frame \X Nat : 1 <= h[2] /\ h[2] <= owned[h[1]]}

(* n lies between the size of a set of frames and that and the size of a   *)
(* set of entries.                                                         *)
Promises(n, frames, entries) ==
  /\ n >= Cardinality(frames)
  /\ n <= Cardinality(frames) + Cardinality(entries)

CountInv ==
  /\ phase = "regions" => Promises(FreeBlocksCount, ReleasedSoFar, AgainSoFar)
  /\ phase = "low" => Promises(FreeBlocksCount, Released, Again(mmap))
  /\ phase = "kernel" =>
       Promises(FreeBlocksCount + Cardinality(LowBlocks), Released, Again(mmap))
  /\ phase = "running" =>
       IsFiniteSet(Held) /\ FreeBlocksCount + Cardinality(Held) <= Cardinality(BootFree)

(* The sizes the memory map gives, and what is assumed of them. *)
LEMMA Sizes ==
  ASSUME mmap \in MemoryMaps
  PROVE  /\ IsFiniteSet(Released) /\ IsFiniteSet(Again(mmap))
         /\ IsFiniteSet(LowBlocks) /\ IsFiniteSet(KernelBlocks)
         /\ Cardinality(Released) \in Nat /\ Cardinality(Again(mmap)) \in Nat
         /\ Cardinality(LowBlocks) = LowMemory \div BlockSize + 1
         /\ Cardinality(KernelBlocks) = KernelSizeAddr \div BlockSize + 1
         /\ Cardinality(LowBlocks) \in Nat /\ Cardinality(KernelBlocks) \in Nat
         /\ Cardinality(Again(mmap)) <= Cardinality(LowBlocks \ Released)
         /\ Cardinality(LowBlocks) + Cardinality(KernelBlocks) <= Cardinality(Released)
         /\ Cardinality(Released) + Cardinality(Again(mmap)) < U32
<1>1. IsFiniteSet(Released) /\ Released = Offered(mmap, Len(mmap))
  <2>1. Len(mmap) \in 0 .. Len(mmap)
    BY MapFacts
  <2> QED
    BY <2>1, OfferedIs
<1>2. IsFiniteSet(Again(mmap))
  <2>1. IsFiniteSet(1 .. Len(mmap)) /\ Again(mmap) \subseteq 1 .. Len(mmap)
    BY MapFacts, FS_Interval DEF Again
  <2> QED
    BY <2>1, FS_Subset
<1>3. /\ IsFiniteSet(LowBlocks) /\ Cardinality(LowBlocks) = LowMemory \div BlockSize + 1
      /\ IsFiniteSet(KernelBlocks) /\ Cardinality(KernelBlocks) = KernelSizeAddr \div BlockSize + 1
  BY BlocksCount, SizesAssumption DEF LowBlocks, KernelBlocks
<1>4. /\ Cardinality(Again(mmap)) <= Cardinality(LowBlocks \ Released)
      /\ Cardinality(LowBlocks) + Cardinality(KernelBlocks) <= Cardinality(Released)
      /\ Cardinality(Released) + Cardinality(Again(mmap)) < U32
  BY <1>1, MemoryAssumption DEF LowBlocks, KernelBlocks
<1>5. /\ Cardinality(Released) \in Nat /\ Cardinality(Again(mmap)) \in Nat
      /\ Cardinality(LowBlocks) \in Nat /\ Cardinality(KernelBlocks) \in Nat
  BY <1>1, <1>2, <1>3, FS_CardinalityType
<1> QED
  BY <1>1, <1>2, <1>3, <1>4, <1>5

(* The frames that are free after boot are at least those that are counted *)
(* then: what is offered twice is outweighed by the hole in low memory.    *)
LEMMA BootFreeCount ==
  ASSUME mmap \in MemoryMaps
  PROVE  /\ IsFiniteSet(BootFree) /\ Cardinality(BootFree) \in Nat
         /\ Cardinality(Released) + Cardinality(Again(mmap))
              <= Cardinality(BootFree) + Cardinality(LowBlocks) + Cardinality(KernelBlocks)
<1> DEFINE R == Released
           L == LowBlocks
           K == KernelBlocks
           A == Cardinality(Again(mmap))
<1>1. /\ IsFiniteSet(R) /\ IsFiniteSet(L) /\ IsFiniteSet(K) /\ A \in Nat
      /\ Cardinality(R) \in Nat /\ Cardinality(L) \in Nat /\ Cardinality(K) \in Nat
      /\ A <= Cardinality(L \ R)
  BY Sizes
<1> HIDE DEF R, L, K, A
<1>2. Cardinality(L \ R) = Cardinality(L) - Cardinality(L \cap R)
  BY <1>1, FS_Difference
<1>3. IsFiniteSet(R \ L) /\ Cardinality(R \ L) = Cardinality(R) - Cardinality(R \cap L)
  BY <1>1, FS_Difference
<1>4. R \cap L = L \cap R
  OBVIOUS
<1>5. /\ IsFiniteSet((R \ L) \ K)
      /\ Cardinality((R \ L) \ K) = Cardinality(R \ L) - Cardinality((R \ L) \cap K)
  BY <1>3, FS_Difference
<1>6. (R \ L) \cap K \in SUBSET K
  OBVIOUS
<1>7. IsFiniteSet((R \ L) \cap K) /\ Cardinality((R \ L) \cap K) <= Cardinality(K)
  BY <1>1, <1>6, FS_Subset
<1>8. IsFiniteSet(L \cap R)
  <2>1. L \cap R \in SUBSET L
    OBVIOUS
  <2> QED
    BY <1>1, <2>1, FS_Subset
<1>9. /\ Cardinality((R \ L) \ K) \in Nat /\ Cardinality((R \ L) \cap K) \in Nat
      /\ Cardinality(L \cap R) \in Nat /\ Cardinality(R \ L) \in Nat
  BY <1>3, <1>5, <1>7, <1>8, FS_CardinalityType
<1>10. BootFree = (R \ L) \ K
  BY DEF BootFree, R, L, K
<1>11. Cardinality(R) + A <= Cardinality((R \ L) \ K) + Cardinality(L) + Cardinality(K)
  <2> DEFINE r == Cardinality(R)
             l == Cardinality(L)
             k == Cardinality(K)
             rl == Cardinality(R \ L)
             both == Cardinality(L \cap R)
             lost == Cardinality((R \ L) \cap K)
             free == Cardinality((R \ L) \ K)
  <2>1. A <= l - both /\ rl = r - both /\ free = rl - lost /\ lost <= k
    BY <1>1, <1>2, <1>3, <1>4, <1>5, <1>7
  <2>2. /\ r \in Nat /\ l \in Nat /\ k \in Nat /\ rl \in Nat /\ both \in Nat
        /\ lost \in Nat /\ free \in Nat /\ A \in Nat
    BY <1>1, <1>9
  <2> HIDE DEF r, l, k, rl, both, lost, free
  <2>3. r + A <= free + l + k
    BY <2>1, <2>2
  <2> QED
    BY <2>3 DEF r, l, k, free
<1> QED
  BY <1>5, <1>9, <1>10, <1>11 DEF R, L, K, A

(* The counter of free frames after it moved. *)
LEMMA FreeMoves ==
  ASSUME TypeOK, NEW d \in Int, usedBlocks' = (usedBlocks + d) % U32, maxBlocks' = maxBlocks,
         FreeBlocksCount - d \in 0 .. U32 - 1
  PROVE  FreeBlocksCount' = FreeBlocksCount - d
<1>1. U32 \in Nat \ {0} /\ maxBlocks \in 0 .. U32 - 1 /\ usedBlocks \in 0 .. U32 - 1
  BY SizesAssumption DEF TypeOK
<1>2. ((maxBlocks - usedBlocks) % U32) - d \in 0 .. U32 - 1
  BY DEF FreeBlocksCount
<1>3. (maxBlocks - ((usedBlocks + d) % U32)) % U32 = ((maxBlocks - usedBlocks) % U32) - d
  BY <1>1, <1>2, CounterMoves
<1> QED
  BY <1>3 DEF FreeBlocksCount

LEMMA FreeType ==
  ASSUME TypeOK
  PROVE  FreeBlocksCount \in 0 .. U32 - 1
<1>1. U32 \in Nat \ {0} /\ maxBlocks - usedBlocks \in Int
  BY SizesAssumption DEF TypeOK
<1> QED
  BY <1>1, ModRange DEF FreeBlocksCount

(* Every step of kmain keeps the counter right. *)
LEMMA BootCounts == Inv /\ CountInv /\ Boot => CountInv'
<1> SUFFICES ASSUME Inv, CountInv, Boot PROVE CountInv'
  OBVIOUS
<1> DEFINE F == FreeBlocksCount
           R == Cardinality(Released)
           A == Cardinality(Again(mmap))
           L == Cardinality(LowBlocks)
           K == Cardinality(KernelBlocks)
<1>1. TypeOK /\ mmap \in MemoryMaps /\ mmap' = mmap /\ owned' = owned
  BY DEF Inv, TypeOK, Boot, Construct, VisitRegion, RegionsDone, ReserveLow, ReserveKernel
<1>2. /\ R \in Nat /\ A \in Nat /\ L \in Nat /\ K \in Nat
      /\ L + K <= R /\ R + A < U32 /\ U32 \in Nat \ {0}
      /\ L = LowMemory \div BlockSize + 1 /\ K = KernelSizeAddr \div BlockSize + 1
  BY <1>1, Sizes, SizesAssumption
<1>3. F \in 0 .. U32 - 1 /\ F \in Int
  BY <1>1, <1>2, FreeType
<1>4. /\ Released' = Released /\ LowBlocks' = LowBlocks /\ KernelBlocks' = KernelBlocks
      /\ Again(mmap)' = Again(mmap) /\ BootFree' = BootFree /\ Held' = Held
  BY <1>1 DEF Released, LowBlocks, KernelBlocks, BootFree, Held
<1>5. ASSUME NEW d \in Int, usedBlocks' = (usedBlocks + d) % U32, maxBlocks' = maxBlocks,
             F - d \in 0 .. U32 - 1
      PROVE  F' = F - d
  BY <1>1, <1>5, FreeMoves
<1>6. LowMemory \div BlockSize \in Nat /\ KernelSizeAddr \div BlockSize \in Nat
  BY SizesAssumption, DivNat
<1> HIDE DEF F, R, A, L, K
<1>7. CASE Construct
  <2>1. phase' = "regions" /\ entry' = 1 /\ maxBlocks' = usedBlocks' /\ maxBlocks' \in Int
    BY <1>1, <1>7, MapFacts DEF Construct, Inv, BitmapInv
  <2>2. F' = 0
    <3> DEFINE m == maxBlocks'
    <3>1. m \in Int /\ F' = (m - m) % U32
      BY <2>1 DEF F, FreeBlocksCount
    <3> HIDE DEF m
    <3>2. m - m = 0
      BY <3>1
    <3>3. 0 % U32 = 0
      BY <1>2
    <3> QED
      BY <3>1, <3>2, <3>3
  <2>3. ReleasedSoFar' = {} /\ AgainSoFar' = {}
    <3>1. \A i \in DOMAIN mmap : ~(i < 1)
      BY <1>1, MapFacts
    <3> QED
      BY <1>1, <2>1, <3>1 DEF ReleasedSoFar, AgainSoFar, Again
  <2>4. Promises(F, ReleasedSoFar, AgainSoFar)'
    BY <2>2, <2>3, FS_EmptySet DEF Promises
  <2> QED
    BY <2>1, <2>4 DEF CountInv, F
<1>8. CASE VisitRegion
  <2> DEFINE B == Blocks(mmap[entry].addr, mmap[entry].len)
             S == ReleasedSoFar
             T == AgainSoFar
  <2>1. phase = "regions" /\ phase' = "regions" /\ entry' = entry + 1 /\ entry \in DOMAIN mmap /\ maxBlocks' = maxBlocks
    BY <1>1, <1>8, MapFacts DEF VisitRegion, TypeOK
  <2>2. F >= Cardinality(S) /\ F <= Cardinality(S) + Cardinality(T)
    BY <2>1 DEF CountInv, Promises, F
  <2>3. entry \in 1 .. Len(mmap) /\ Len(mmap) \in Nat
    BY <1>1, <2>1, MapFacts
  <2>4. /\ S = Offered(mmap, entry - 1) /\ S' = Offered(mmap, entry)
        /\ S' \subseteq Released
    <3>1. {j \in DOMAIN mmap : j < entry /\ Usable(mmap[j])} = {j \in 1 .. entry - 1 : Usable(mmap[j])}
      BY <1>1, <2>3, MapFacts
    <3>2. {j \in DOMAIN mmap : j < entry + 1 /\ Usable(mmap[j])} = {j \in 1 .. entry : Usable(mmap[j])}
      BY <1>1, <2>3, MapFacts
    <3>3. S = Offered(mmap, entry - 1)
      BY <3>1 DEF ReleasedSoFar, Offered
    <3>4. S' = Offered(mmap, entry)
      BY <1>1, <2>1, <3>2 DEF ReleasedSoFar, Offered
    <3>5. S' \subseteq Released
      BY <1>1, <2>1 DEF ReleasedSoFar, Released
    <3> QED
      BY <3>3, <3>4, <3>5
  <2>5. /\ IsFiniteSet(S) /\ IsFiniteSet(S') /\ Cardinality(S) \in Nat /\ Cardinality(S') \in Nat
        /\ Cardinality(S') <= R
    <3>1. entry - 1 \in 0 .. Len(mmap) /\ entry \in 0 .. Len(mmap)
      BY <2>3
    <3>2. IsFiniteSet(S) /\ IsFiniteSet(S')
      BY <1>1, <2>4, <3>1, OfferedIs
    <3>3. Cardinality(S') <= R
      BY <1>1, <2>4, Sizes, FS_Subset DEF R
    <3> QED
      BY <3>2, <3>3, FS_CardinalityType
  <2>6. /\ IsFiniteSet(T) /\ IsFiniteSet(T') /\ Cardinality(T) \in Nat /\ Cardinality(T') \in Nat
        /\ Cardinality(T') <= A
        /\ T' = IF entry \in Again(mmap) THEN T \cup {entry} ELSE T
        /\ entry \notin T
    <3>1. \A i \in Again(mmap) : i \in Nat
      BY <1>1, MapFacts DEF Again
    <3>2. T' = IF entry \in Again(mmap) THEN T \cup {entry} ELSE T
      <4>1. \A i \in Again(mmap) : i < entry + 1 <=> (i < entry \/ i = entry)
        BY <2>3, <3>1
      <4>2. T' = {i \in Again(mmap) : i < entry + 1}
        BY <1>1, <2>1 DEF AgainSoFar
      <4> QED
        BY <4>1, <4>2 DEF AgainSoFar
    <3>3. entry \notin T
      BY <2>3 DEF AgainSoFar
    <3>4. T \subseteq Again(mmap) /\ T' \subseteq Again(mmap)
      BY <1>1 DEF AgainSoFar
    <3>5. IsFiniteSet(T) /\ IsFiniteSet(T') /\ Cardinality(T') <= A
      BY <1>1, <3>4, Sizes, FS_Subset DEF A
    <3> QED
      BY <3>2, <3>3, <3>5, FS_CardinalityType
  <2>7. Cardinality(T') = IF entry \in Again(mmap) THEN Cardinality(T) + 1 ELSE Cardinality(T)
    <3> HIDE DEF T
    <3>1. Cardinality(T \cup {entry}) = Cardinality(T) + 1
      BY <2>6, FS_AddElement
    <3> QED
      BY <2>6, <3>1
  <2>8. CASE Usable(mmap[entry])
    <3>1. SetRegionFree(mmap[entry].addr, mmap[entry].len)
      BY <1>8, <2>8 DEF VisitRegion
    <3>2. IsFiniteSet(B) /\ Cardinality(B) = mmap[entry].len \div BlockSize + 1 /\ Cardinality(B) \in Nat
      <4>1. mmap[entry].addr \in Nat /\ mmap[entry].len \in Nat
        BY <1>1, <2>1, MapFacts
      <4> QED
        BY <4>1, BlocksCount, FS_CardinalityType
    <3>3. S' = S \cup B
      BY <1>1, <2>1, <2>4, <2>8, OfferedNext
    <3> DEFINE b == Cardinality(B)
               shared == Cardinality(S \cap B)
    <3>4. shared \in 0 .. IF entry \in Again(mmap) THEN 1 ELSE 0
      BY <1>1, <2>1, <2>4, <2>8, OfferedOnce
    <3>5. Cardinality(S') = Cardinality(S) + b - shared
      <4> HIDE DEF S, B
      <4>1. Cardinality(S \cup B) = Cardinality(S) + Cardinality(B) - Cardinality(S \cap B)
        BY <2>5, <3>2, FS_Union
      <4> QED
        BY <3>3, <4>1
    <3>6. usedBlocks' = (usedBlocks - b) % U32 /\ b \in Nat
      BY <3>1, <3>2 DEF SetRegionFree
    <3> HIDE DEF S, T, B
    <3> DEFINE s == Cardinality(S)
               t == Cardinality(T)
               s2 == Cardinality(S')
               t2 == Cardinality(T')
    <3>7. /\ s \in Nat /\ t \in Nat /\ s2 \in Nat /\ t2 \in Nat /\ b \in Nat /\ shared \in Nat
          /\ s2 = s + b - shared /\ t2 >= t + shared /\ s2 <= R /\ t2 <= A
          /\ s <= F /\ F <= s + t
      BY <2>2, <2>5, <2>6, <2>7, <3>4, <3>5, <3>6
    <3> HIDE DEF s, t, s2, t2, b, shared
    <3>8. F + b \in 0 .. U32 - 1 /\ s2 <= F + b /\ F + b <= s2 + t2
      BY <1>2, <1>3, <3>7
    <3> DEFINE d == -b
    <3>9. d \in Int /\ F - d = F + b /\ usedBlocks + d = usedBlocks - b
      <4>1. usedBlocks \in Int
        BY <1>1, SizesAssumption DEF TypeOK
      <4> QED
        BY <1>3, <3>7, <4>1
    <3> HIDE DEF d
    <3>10. F' = F - d
      BY <1>5, <2>1, <3>6, <3>8, <3>9
    <3>11. Promises(F, S, T)'
      BY <3>8, <3>9, <3>10 DEF Promises, s2, t2
    <3> QED
      BY <2>1, <3>11 DEF CountInv, F, S, T
  <2>9. CASE ~Usable(mmap[entry])
    <3>1. F' = F
      BY <1>8, <2>1, <2>9 DEF VisitRegion, F, FreeBlocksCount
    <3>2. S' = S /\ T' = T
      <4>1. entry \notin Again(mmap)
        BY <2>9 DEF Again
      <4> QED
        BY <1>1, <2>1, <2>4, <2>6, <2>9, <4>1, OfferedNext
    <3>3. Promises(F, S, T)'
      BY <2>2, <3>1, <3>2 DEF Promises
    <3> QED
      BY <2>1, <3>3 DEF CountInv, F
  <2> QED
    BY <2>8, <2>9
<1>9. CASE RegionsDone
  <2>1. phase = "regions" /\ phase' = "low" /\ entry > Len(mmap) /\ F' = F
    BY <1>9 DEF RegionsDone, F, FreeBlocksCount
  <2>2. Promises(F, ReleasedSoFar, AgainSoFar)
    BY <2>1 DEF CountInv, F
  <2>3. \A i \in DOMAIN mmap : i < entry
    BY <1>1, <2>1, MapFacts DEF TypeOK
  <2>4. ReleasedSoFar = Released /\ AgainSoFar = Again(mmap)
    BY <2>3 DEF ReleasedSoFar, Released, AgainSoFar, Again
  <2>5. Promises(F, Released, Again(mmap))'
    BY <1>4, <2>1, <2>2, <2>4 DEF Promises
  <2> QED
    BY <2>1, <2>5 DEF CountInv, F
<1>10. CASE ReserveLow
  <2>1. phase = "low" /\ phase' = "kernel" /\ maxBlocks' = maxBlocks
        /\ usedBlocks' = (usedBlocks + L) % U32
    <3>1. usedBlocks' = (usedBlocks + LowMemory \div BlockSize + 1) % U32
      BY <1>10 DEF ReserveLow, SetRegionUsed
    <3>2. usedBlocks + LowMemory \div BlockSize + 1 = usedBlocks + L
      <4>1. usedBlocks \in Int
        BY <1>1, SizesAssumption DEF TypeOK
      <4> QED
        BY <1>2, <1>6, <4>1
    <3> QED
      BY <1>10, <3>1, <3>2 DEF ReserveLow
  <2>2. F >= R /\ F <= R + A
    BY <2>1 DEF CountInv, Promises, F, R, A
  <2>3. F - L \in 0 .. U32 - 1 /\ L \in Int
    BY <1>2, <1>3, <2>2
  <2>4. F' = F - L
    BY <1>5, <2>1, <2>3
  <2>5. F' + L >= R /\ F' + L <= R + A
    BY <1>2, <1>3, <2>2, <2>4
  <2>6. Promises(F + Cardinality(LowBlocks), Released, Again(mmap))'
    BY <1>4, <2>5 DEF Promises, R, A, L
  <2> QED
    BY <2>1, <2>6 DEF CountInv, F
<1>11. CASE ReserveKernel
  <2>1. phase = "kernel" /\ phase' = "running" /\ maxBlocks' = maxBlocks
        /\ usedBlocks' = (usedBlocks + K) % U32
    <3>1. usedBlocks' = (usedBlocks + KernelSizeAddr \div BlockSize + 1) % U32
      BY <1>11 DEF ReserveKernel, SetRegionUsed
    <3>2. usedBlocks + KernelSizeAddr \div BlockSize + 1 = usedBlocks + K
      <4>1. usedBlocks \in Int
        BY <1>1, SizesAssumption DEF TypeOK
      <4> QED
        BY <1>2, <1>6, <4>1
    <3> QED
      BY <1>11, <3>1, <3>2 DEF ReserveKernel
  <2>2. F + L >= R /\ F + L <= R + A
    BY <2>1 DEF CountInv, Promises, F, R, A, L
  <2>3. F - K \in 0 .. U32 - 1 /\ K \in Int
    BY <1>2, <1>3, <2>2
  <2>4. F' = F - K
    BY <1>5, <2>1, <2>3
  <2>5. Cardinality(BootFree) \in Nat /\ R + A <= Cardinality(BootFree) + L + K
    BY <1>1, BootFreeCount DEF R, A, L, K
  <2>6. F' <= Cardinality(BootFree)
    BY <1>2, <1>3, <2>2, <2>4, <2>5
  <2>7. Held = {}
    <3>1. \A f \in Frame : owned[f] = 0
      BY <2>1 DEF Inv, BootInv
    <3> QED
      BY <3>1 DEF Held
  <2>8. IsFiniteSet(Held) /\ Cardinality(Held) = 0
    BY <2>7, FS_EmptySet
  <2>9. (IsFiniteSet(Held) /\ F + Cardinality(Held) <= Cardinality(BootFree))'
    <3> DEFINE n == F - K
    <3>1. n \in Int /\ F' = n
      BY <1>3, <2>3, <2>4
    <3> HIDE DEF n
    <3>2. n + 0 = n
      BY <3>1
    <3> QED
      BY <1>4, <2>6, <2>8, <3>1, <3>2
  <2> QED
    BY <2>1, <2>9 DEF CountInv, F
<1> QED
  BY <1>7, <1>8, <1>9, <1>10, <1>11 DEF Boot

(* A frame is counted as often as it is held: a grant adds at most count.  *)
LEMMA AllocCounts ==
  ASSUME NEW count \in Nat, Inv, CountInv, AllocBlocks(count)
  PROVE  CountInv'
<1> DEFINE F == FreeBlocksCount
<1>1. phase = "running" /\ TypeOK /\ mmap \in MemoryMaps
  BY DEF AllocBlocks, Inv, TypeOK
<1>2. CASE Panic
  <2>1. phase' = "panic"
    BY <1>2 DEF Panic
  <2> QED
    BY <2>1 DEF CountInv
<1>3. CASE ~Panic
  <2>1. PICK frame \in Searchable : Grant(frame, count)
    BY <1>3 DEF AllocBlocks
  <2>2. F > count
    BY <1>3 DEF AllocBlocks
  <2> DEFINE G == frame .. frame + count - 1
             New == {h \in Frame \X Nat : h[1] \in G /\ h[2] = owned[h[1]] + 1}
  <2>3. /\ owned' = [f \in Frame |-> IF f \in G THEN owned[f] + 1 ELSE owned[f]]
        /\ usedBlocks' = (usedBlocks + count) % U32
        /\ mmap' = mmap /\ phase' = phase /\ maxBlocks' = maxBlocks
    BY <2>1 DEF Grant
  <2>4. IsFiniteSet(G) /\ Cardinality(G) = count
    <3>1. frame \in Int /\ frame + count - 1 \in Int
      BY DEF Searchable
    <3>2. frame + count - 1 - frame + 1 = count /\ (frame > frame + count - 1 => count = 0)
      BY <3>1
    <3> QED
      BY <3>1, <3>2, FS_Interval
  <2>5. IsFiniteSet(New) /\ Cardinality(New) <= count
    <3> DEFINE first == [h \in New |-> h[1]]
    <3>1. first \in Injection(New, G)
      <4>1. first \in [New -> G]
        OBVIOUS
      <4>2. \A g, h \in New : first[g] = first[h] => g = h
        OBVIOUS
      <4> QED
        BY <4>1, <4>2 DEF Injection, IsInjective
    <3> HIDE DEF G, New, first
    <3> QED
      BY <2>4, <3>1, FS_Injection
  <2>6. Held' \subseteq Held \cup New
    <3> SUFFICES ASSUME NEW f \in Frame, NEW n \in Nat, 1 <= n, n <= owned'[f],
                        ~(n <= owned[f])
                 PROVE  f \in G /\ n = owned[f] + 1
      BY DEF Held
    <3>1. owned[f] \in Nat
      BY <1>1 DEF TypeOK
    <3> QED
      BY <2>3, <3>1
  <2>7. F - count \in 0 .. U32 - 1 /\ count \in Int
    <3>1. F \in 0 .. U32 - 1 /\ U32 \in Nat
      BY <1>1, FreeType, SizesAssumption
    <3> HIDE DEF F
    <3> QED
      BY <2>2, <3>1
  <2>8. F' = F - count
    BY <1>1, <2>3, <2>7, FreeMoves
  <2>9. IsFiniteSet(Held) /\ F + Cardinality(Held) <= Cardinality(BootFree)
    BY <1>1 DEF CountInv
  <2>10. BootFree' = BootFree
    BY <2>3 DEF BootFree, Released, LowBlocks, KernelBlocks
  <2>11. IsFiniteSet(Held') /\ Cardinality(Held') <= Cardinality(Held) + count
    <3> DEFINE U == Held \cup New
               both == Cardinality(Held \cap New)
               old == Cardinality(Held)
               new == Cardinality(New)
    <3>1. IsFiniteSet(U) /\ Cardinality(U) = old + new - both
      BY <2>5, <2>9, FS_Union
    <3>2. IsFiniteSet(Held \cap New)
      <4>1. Held \cap New \in SUBSET Held
        OBVIOUS
      <4> QED
        BY <2>9, <4>1, FS_Subset
    <3>3. both \in Nat /\ old \in Nat /\ new \in Nat /\ new <= count
      BY <2>5, <2>9, <3>2, FS_CardinalityType
    <3>4. IsFiniteSet(Held') /\ Cardinality(Held') <= Cardinality(U)
      <4> HIDE DEF New
      <4>1. Held' \in SUBSET U
        BY <2>6
      <4> HIDE DEF U
      <4> QED
        BY <3>1, <4>1, FS_Subset
    <3>5. Cardinality(Held') \in Nat
      BY <3>4, FS_CardinalityType
    <3> HIDE DEF U, both, old, new
    <3>6. Cardinality(Held') <= old + count
      BY <3>1, <3>3, <3>4, <3>5
    <3> QED
      BY <3>4, <3>6 DEF old
  <2>12. F' + Cardinality(Held') <= Cardinality(BootFree)
    <3> DEFINE old == Cardinality(Held)
               new == Cardinality(Held')
               free == Cardinality(BootFree)
    <3>1. old \in Nat /\ new \in Nat /\ free \in Nat /\ F \in Int
      BY <1>1, <2>9, <2>11, BootFreeCount, FreeType, SizesAssumption, FS_CardinalityType
    <3>2. new <= old + count /\ F + old <= free
      BY <2>9, <2>11
    <3> HIDE DEF old, new, free, F
    <3>3. (F - count) + new <= free
      BY <3>1, <3>2
    <3> QED
      BY <2>8, <3>3 DEF new, free
  <2> QED
    BY <1>1, <2>3, <2>10, <2>11, <2>12 DEF CountInv
<1> QED
  BY <1>2, <1>3

(* A frame given back is counted as free once more and held once less.     *)
LEMMA FreeCounts ==
  ASSUME NEW frame \in Frame, Inv, CountInv, FreeBlock(frame)
  PROVE  CountInv'
<1> DEFINE F == FreeBlocksCount
           H == Cardinality(Held)
           B == Cardinality(BootFree)
           last == <<frame, owned[frame]>>
<1>1. /\ phase = "running" /\ TypeOK /\ mmap \in MemoryMaps
      /\ owned \in [Frame -> Nat] /\ owned[frame] \in Nat /\ owned[frame] > 0
      /\ owned' = [owned EXCEPT ![frame] = @ - 1]
      /\ usedBlocks' = (usedBlocks - 1) % U32
      /\ mmap' = mmap /\ phase' = phase /\ maxBlocks' = maxBlocks
  BY DEF FreeBlock, Inv, TypeOK
<1>2. IsFiniteSet(Held) /\ F + H <= B
  BY <1>1 DEF CountInv
<1>3. last \in Held
  BY <1>1 DEF Held
<1>4. Held' = Held \ {last}
  <2> SUFFICES ASSUME NEW f \in Frame, NEW n \in Nat
               PROVE  (1 <= n /\ n <= owned'[f]) <=>
                        ((1 <= n /\ n <= owned[f]) /\ <<f, n>> # last)
    BY DEF Held
  <2>1. owned[f] \in Nat
    BY <1>1
  <2>2. CASE f = frame
    <3>1. owned'[f] = owned[f] - 1
      BY <1>1, <2>2
    <3> QED
      BY <2>1, <2>2, <3>1
  <2>3. CASE f # frame
    <3>1. owned'[f] = owned[f] /\ <<f, n>> # last
      BY <1>1, <2>3
    <3> QED
      BY <3>1
  <2> QED
    BY <2>2, <2>3
<1>5. IsFiniteSet(Held') /\ Cardinality(Held') = H - 1
  <2> HIDE DEF last
  <2> QED
    BY <1>2, <1>3, <1>4, FS_RemoveElement
<1>6. H \in Nat /\ H - 1 \in Nat /\ B \in Nat /\ F \in 0 .. U32 - 1 /\ U32 \in Nat
  BY <1>1, <1>2, <1>5, BootFreeCount, FreeType, SizesAssumption, FS_CardinalityType
<1>7. B < U32
  <2> DEFINE R == Cardinality(Released)
             A == Cardinality(Again(mmap))
  <2>1. BootFree \in SUBSET Released
    BY DEF BootFree
  <2>2. B <= R /\ R \in Nat /\ A \in Nat /\ R + A < U32
    BY <1>1, <2>1, Sizes, FS_Subset
  <2> HIDE DEF B, R, A
  <2> QED
    BY <1>6, <2>2
<1> HIDE DEF F, H, B
<1>8. F + 1 \in 0 .. U32 - 1 /\ F \in Int
  BY <1>2, <1>6, <1>7
<1> DEFINE d == -1
<1>9. d \in Int /\ F - d = F + 1 /\ usedBlocks + d = usedBlocks - 1
  <2>1. usedBlocks \in Int
    BY <1>1, SizesAssumption DEF TypeOK
  <2> QED
    BY <1>8, <2>1
<1> HIDE DEF d
<1>10. F' = F - d
  <2>1. usedBlocks' = (usedBlocks + d) % U32 /\ F - d \in 0 .. U32 - 1
    BY <1>1, <1>8, <1>9
  <2> QED
    BY <1>1, <1>9, <2>1, FreeMoves DEF F
<1>11. F' + Cardinality(Held') <= B
  <2>1. (F + 1) + (H - 1) <= B
    BY <1>2, <1>6, <1>8
  <2> QED
    BY <1>5, <1>9, <1>10, <2>1
<1>12. BootFree' = BootFree
  BY <1>1 DEF BootFree, Released, LowBlocks, KernelBlocks
<1> QED
  BY <1>1, <1>5, <1>11, <1>12 DEF CountInv, F, B

LEMMA StutterCounts == CountInv /\ UNCHANGED pmmVars => CountInv'
BY DEF pmmVars, CountInv, Promises, FreeBlocksCount, ReleasedSoFar, Released,
       AgainSoFar, BootFree, Held, LowBlocks, KernelBlocks

(* The bits leave at least as many frames to firstFree as the counter      *)
(* promises: a frame that was free after boot is found or has a holder.    *)
LEMMA CountIsConservative == Inv /\ CountInv => FreeCountConservative
<1> SUFFICES ASSUME Inv, CountInv, phase = "running", Released \subseteq Searchable
             PROVE  FreeBlocksCount <= Cardinality(Searchable \ memoryMap)
  BY DEF FreeCountConservative
<1> DEFINE F == FreeBlocksCount
           Lost == BootFree \cap memoryMap
           Found == BootFree \ memoryMap
           D == Searchable \ memoryMap
<1>1. TypeOK /\ mmap \in MemoryMaps /\ BootFree \subseteq Frame
  BY MapFacts DEF Inv, TypeOK, BootFree
<1>2. IsFiniteSet(Held) /\ F + Cardinality(Held) <= Cardinality(BootFree)
  BY DEF CountInv
<1>3. IsFiniteSet(BootFree)
  BY <1>1, BootFreeCount
<1>4. \A f \in Lost : f \in Frame /\ owned[f] \in Nat /\ owned[f] >= 1
  <2> SUFFICES ASSUME NEW f \in Lost PROVE f \in Frame /\ owned[f] \in Nat /\ owned[f] >= 1
    OBVIOUS
  <2>1. f \in Frame /\ owned[f] \in Nat
    BY <1>1 DEF TypeOK
  <2>2. owned[f] > 0
    BY DEF Inv, NoFrameLost, BootFree, LowBlocks, KernelBlocks
  <2> QED
    BY <2>1, <2>2
<1>5. Cardinality(Lost) <= Cardinality(Held)
  <2> DEFINE holder == [f \in Lost |-> <<f, 1>>]
  <2>1. holder \in [Lost -> Held]
    BY <1>4 DEF Held
  <2>2. \A f, g \in Lost : holder[f] = holder[g] => f = g
    OBVIOUS
  <2>3. holder \in Injection(Lost, Held)
    BY <2>1, <2>2 DEF Injection, IsInjective
  <2> HIDE DEF holder, Lost
  <2> QED
    BY <1>2, <2>3, FS_Injection
<1>6. IsFiniteSet(Found) /\ Cardinality(Found) = Cardinality(BootFree) - Cardinality(Lost)
  BY <1>3, FS_Difference
<1>7. IsFiniteSet(Searchable)
  <2>1. (maxBlocks \div WordBits) * WordBits - 1 \in Int
    <3>1. maxBlocks \in Nat /\ WordBits \in Nat \ {0}
      BY <1>1, SizesAssumption DEF TypeOK
    <3>2. maxBlocks \div WordBits \in Nat
      BY <3>1, DivNat
    <3> DEFINE q == maxBlocks \div WordBits
    <3> HIDE DEF q
    <3>3. q * WordBits - 1 \in Int
      BY <3>1, <3>2 DEF q
    <3> QED
      BY <3>3 DEF q
  <2> QED
    BY <2>1, FS_Interval DEF Searchable
<1>8. IsFiniteSet(D) /\ Cardinality(Found) <= Cardinality(D)
  <2>1. D \in SUBSET Searchable /\ Found \in SUBSET D
    BY DEF BootFree
  <2>2. IsFiniteSet(D)
    BY <1>7, <2>1, FS_Subset
  <2> HIDE DEF D, Found
  <2> QED
    BY <2>1, <2>2, FS_Subset
<1>9. /\ Cardinality(Held) \in Nat /\ Cardinality(BootFree) \in Nat /\ F \in Int
      /\ Cardinality(Lost) \in Nat /\ Cardinality(Found) \in Nat /\ Cardinality(D) \in Nat
  <2>1. IsFiniteSet(Lost)
    <3>1. Lost \in SUBSET BootFree
      OBVIOUS
    <3> QED
      BY <1>3, <3>1, FS_Subset
  <2>2. F \in Int
    BY <1>1, FreeType, SizesAssumption
  <2> QED
    BY <1>2, <1>3, <1>6, <1>8, <2>1, <2>2, FS_CardinalityType
<1> DEFINE held == Cardinality(Held)
           free == Cardinality(BootFree)
           lost == Cardinality(Lost)
           found == Cardinality(Found)
           d == Cardinality(D)
<1>10. /\ F + held <= free /\ lost <= held /\ found = free - lost /\ found <= d
       /\ held \in Nat /\ free \in Nat /\ F \in Int /\ lost \in Nat /\ found \in Nat /\ d \in Nat
  BY <1>2, <1>5, <1>6, <1>8, <1>9
<1> HIDE DEF F, held, free, lost, found, d
<1>11. F <= d
  BY <1>10
<1> QED
  BY <1>11 DEF F, d

(* The counter of allocBlock never promises a frame that firstFree cannot  *)
(* find, whatever the memory map and however many frames are asked for:    *)
(* what boot counts twice is outweighed by the hole below 1 MB.            *)
THEOREM CountConservative == Spec => []FreeCountConservative
<1>1. Inv /\ CountInv /\ [Next]_pmmVars => CountInv'
  BY SizesAssumption, BootCounts, AllocCounts, FreeCounts, StutterCounts DEF Next
<1>2. Init => CountInv
  BY DEF Init, CountInv
<1> QED
  BY <1>1, <1>2, Inductive, CountIsConservative, PTL DEF Spec

=============================================================================
