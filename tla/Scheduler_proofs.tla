-------------------------- MODULE Scheduler_proofs --------------------------
(***************************************************************************)
(* What the scheduler guarantees for any number of threads, any frequency  *)
(* and any width of the counters, wherever a tick interrupts kmain: the    *)
(* types, round robin, the only causes of a wild pointer, and that threads *)
(* do not notice being interrupted.                                        *)
(***************************************************************************)
EXTENDS Scheduler, FiniteSetTheorems, TLAPS

N == Cardinality(Thread)

(* The elements of the vector that are set. *)
Filled == IF kmain \in MidPush THEN size - 1 ELSE size

(* What the handler finds in the vector, wherever kmain was interrupted. *)
VectorInv ==
  /\ kmain \in {"start", "registered"} =>
       size = 0 /\ current = 0 /\ phase = "run" /\ cpu = Kmain
  /\ kmain \notin {"start", "registered"} => -1 <= current /\ current < size
  /\ kmain \in MidPush => size > 0
  /\ released => kmain = "released"
  /\ \A i \in Slot : IF i < Filled THEN data[i] \in Thread ELSE data[i] = Garbage
  /\ \A i, j \in Slot : data[i] = data[j] /\ data[i] \in Thread => i = j
  /\ kmain \in MidPush => \A i \in Slot : data[i] # adding

(* currentThreadNumber is the thread that runs or, in the handler, the one *)
(* it looks at; the registers of the interrupted one are saved.            *)
SwitchInv ==
  /\ phase = "switch" =>
       0 <= current /\ current < size /\ thread = data[current] /\ thread \in Thread
  /\ phase = "run" /\ cpu = Kmain => current = -1 \/ kmain \in {"start", "registered"}
  /\ phase = "run" /\ cpu # Kmain => 0 <= current /\ current < size /\ data[current] = cpu
  /\ phase = "switch" /\ cpu # Kmain /\ cpu \notin deleted => registers[cpu] = work

(* How many dispatches ago a thread has run, if none was skipped since. *)
Distance(n, c, i) == IF i <= c THEN c - i ELSE c + n - i

(* It has not waited longer than the round has come.  In the handler the   *)
(* dispatch it prepares has not been counted yet.                          *)
Limit(i) ==
  IF phase = "run" THEN Distance(size, current, i)
  ELSE IF phase = "switch" /\ i # current THEN Distance(size, current, i) - 1
  ELSE size - 1

WaitInv ==
  /\ cpu = Kmain => \A t \in Thread : waited[t] = 0
  /\ \A i \in Slot : i < size /\ data[i] \in Thread \ deleted => waited[data[i]] <= Limit(i)

Inv == TypeOK /\ VectorInv /\ SwitchInv /\ WaitInv /\ WildExplained

-----------------------------------------------------------------------------
LEMMA Numbers ==
  /\ N \in Nat
  /\ Thread # {} => N > 0
  /\ IsFiniteSet(Thread)
  /\ Slot = 0 .. N - 1
  /\ Kmain \notin Thread /\ Garbage \notin Thread
  /\ U32 \in Nat \ {0} /\ U16 \in Nat \ {0} /\ MaxWork \in Nat
  /\ Frequency \in 1 .. U32 - 1
  /\ MaxWaited = N + 1
<1>1. N \in Nat
  BY SchedulerAssumption, FS_CardinalityType DEF N
<1>2. Thread # {} => N # 0
  BY SchedulerAssumption, FS_EmptySet DEF N
<1> QED
  BY <1>1, <1>2, SchedulerAssumption DEF N, Slot, MaxWaited

(* A remainder lies below its modulus, and that of the modulus is zero. *)
LEMMA ModFacts ==
  ASSUME NEW x \in Int, NEW m \in Nat \ {0}
  PROVE  x % m \in 0 .. m - 1 /\ m % m = 0
OBVIOUS

(* The handler steps to the next index, or begins the round again. *)
LEMMA AdvanceIn ==
  ASSUME size \in Nat, size > 0, current \in Int, -1 <= current, current < size
  PROVE  /\ Advance \in Nat /\ Advance < size
         /\ current + 1 < size => Advance = current + 1
         /\ current + 1 >= size => Advance = 0
<1>1. size % size = 0
  BY ModFacts
<1>2. current + 1 >= size => current + 1 = size
  OBVIOUS
<1> QED
  BY <1>1, <1>2 DEF Advance

(* The step brings every thread one closer to its turn. *)
LEMMA AdvanceLimit ==
  ASSUME size \in Nat, size > 0, current \in Int, -1 <= current, current < size,
         NEW i \in Nat, i < size
  PROVE  (IF i # Advance THEN Distance(size, Advance, i) - 1 ELSE size - 1)
         = Distance(size, current, i)
BY AdvanceIn DEF Distance

LEMMA DistanceRange ==
  ASSUME NEW n \in Nat, NEW c \in Int, NEW i \in Nat, -1 <= c, c < n, i < n
  PROVE  Distance(n, c, i) \in Nat /\ Distance(n, c, i) < n
BY DEF Distance

(* The controllers keep their types. *)
PicOK == raised \subseteq Irq /\ inService \subseteq Irq \cup {Cascade}

LEMMA EndKeeps ==
  ASSUME NEW vector, NEW service
  PROVE  EndOfInterrupt(vector, service) \subseteq service
BY DEF EndOfInterrupt, EndFirst

LEMMA PicKeeps ==
  ASSUME PicOK, NEW irq \in Irq, Raise(irq) \/ Ignore(irq) \/ Accept(irq) \/ Finish(irq)
  PROVE  PicOK'
<1>1. Accepted(irq) \subseteq Irq \cup {Cascade}
  BY DEF PicOK, Accepted, MasterLine
<1>2. CASE Raise(irq)
  BY <1>2 DEF PicOK, Raise
<1>3. CASE Ignore(irq)
  <2>1. inService' \subseteq Accepted(irq)
    BY <1>3, EndKeeps DEF Ignore
  <2> QED
    BY <1>1, <1>3, <2>1 DEF PicOK, Ignore
<1>4. CASE Accept(irq)
  BY <1>1, <1>4 DEF PicOK, Accept
<1>5. CASE Finish(irq)
  <2>1. inService' \subseteq inService
    BY <1>5, EndKeeps DEF Finish
  <2> QED
    BY <1>5, <2>1 DEF PicOK, Finish
<1> QED
  BY <1>2, <1>3, <1>4, <1>5

-----------------------------------------------------------------------------
LEMMA InitInv == Init => Inv
<1> SUFFICES ASSUME Init PROVE Inv
  OBVIOUS
<1> USE DEF Init
<1>1. N \in Nat /\ N > 0
  BY Numbers
<1>2. TypeOK
  <2>1. kmain \in KmainAt /\ phase \in Phase /\ raised = {} /\ inService = {}
    BY DEF KmainAt, Phase, InterruptsInit
  <2>2. size \in 0 .. N /\ current \in -1 .. N - 1
    BY <1>1
  <2>3. tickCount \in 0 .. U32 - 1 /\ esp0 \in 0 .. U16 - 1 /\ work \in 0 .. MaxWork
    BY Numbers
  <2>4. registers \in [Thread -> 0 .. MaxWork] /\ waited \in [Thread -> 0 .. MaxWaited]
    BY <1>1, Numbers
  <2> QED
    BY <2>1, <2>2, <2>3, <2>4 DEF TypeOK, N
<1>3. VectorInv
  BY Numbers DEF VectorInv, MidPush, Filled
<1>4. SwitchInv
  BY DEF SwitchInv
<1>5. WaitInv
  BY Numbers DEF WaitInv
<1>6. WildExplained
  BY DEF WildExplained
<1> QED
  BY <1>2, <1>3, <1>4, <1>5, <1>6 DEF Inv

-----------------------------------------------------------------------------
(* kmain runs, and none of the threads has waited yet. *)
LEMMA KmainWaits ==
  ASSUME Inv, phase = "run", cpu = Kmain, UNCHANGED <<phase, cpu, waited, deleted>>,
         TypeOK', VectorInv', SwitchInv'
  PROVE  WaitInv'
<1>1. \A t \in Thread : waited'[t] = 0
  BY DEF Inv, WaitInv
<1>2. \A i \in Slot : i < size' => Limit(i)' >= 0
  <2> SUFFICES ASSUME NEW i \in Slot, i < size' PROVE Limit(i)' >= 0
    OBVIOUS
  <2>1. size' \in Nat /\ current' \in Int /\ i \in Nat
    BY Numbers DEF TypeOK, N
  <2>2. size' # 0
    BY <2>1
  <2>3. -1 <= current' /\ current' < size'
    BY <2>1, <2>2 DEF VectorInv
  <2>4. Distance(size', current', i) >= 0
    BY <2>1, <2>3, DistanceRange
  <2> QED
    BY <2>4 DEF Limit
<1> QED
  BY <1>1, <1>2 DEF WaitInv

(* The vector has room for a thread that was not added. *)
LEMMA Room ==
  ASSUME Inv, kmain = "ready", NEW t \in Thread, t \notin Added
  PROVE  size + 1 \in 0 .. N
<1>1. size \in 0 .. N
  BY DEF Inv, TypeOK, N
<1>2. ASSUME size = N PROVE FALSE
  <2>1. \A i \in Slot : data[i] \in Thread \ {t}
    <3> SUFFICES ASSUME NEW i \in Slot PROVE data[i] \in Thread \ {t}
      OBVIOUS
    <3>1. i < size /\ Filled = size
      BY <1>2, Numbers DEF Filled, MidPush
    <3>2. data[i] \in Thread
      BY <3>1 DEF Inv, VectorInv
    <3> QED
      BY <3>1, <3>2 DEF Added
  <2>2. data \in [Slot -> Thread \ {t}]
    BY <2>1 DEF Inv, TypeOK
  <2>3. IsFiniteSet(Slot) /\ Cardinality(Slot) = N
    BY Numbers, FS_Interval
  <2>4. IsFiniteSet(Thread \ {t}) /\ Cardinality(Thread \ {t}) = N - 1
    BY Numbers, FS_RemoveElement DEF N
  <2>5. N - 1 < N
    BY Numbers
  <2>6. \E i, j \in Slot : i # j /\ data[i] = data[j]
    BY <2>2, <2>3, <2>4, <2>5, FS_PigeonHole
  <2> QED
    BY <2>1, <2>6 DEF Inv, VectorInv
<1> QED
  BY <1>1, <1>2, Numbers

(* The statements of kmain. *)
LEMMA KmainKeeps ==
  ASSUME Inv,
         \/ Register \/ InitMembers \/ ClearTicks \/ SetFrequency
         \/ \E t \in Thread : AddThread(t)
         \/ Copy \/ Release \/ Swap \/ Store
  PROVE  Inv'
<1> USE DEF MidPush
<1>0. /\ phase = "run" /\ cpu = Kmain
      /\ UNCHANGED <<phase, thread>> /\ UNCHANGED cpuVars /\ UNCHANGED threadVars /\ UNCHANGED picVars
  BY DEF Register, InitMembers, ClearTicks, SetFrequency, AddThread, Copy, Release, Swap, Store,
         KmainStep
<1>a. /\ TypeOK /\ N \in Nat /\ Slot = 0 .. N - 1 /\ size \in Nat /\ size <= N /\ current \in Int
      /\ Garbage \notin Thread
  BY Numbers, SMTT(20) DEF Inv, TypeOK, N
<1>b. kmain \notin {"start", "registered"} => current = -1
  BY <1>0 DEF Inv, SwitchInv
<1>c. UNCHANGED <<thread, cpu, work, cr3, esp0, waited, registers, state, deleted, heapBroken, raised, inService>>
  BY <1>0 DEF cpuVars, threadVars, picVars
<1>1. CASE Register
  <2>1. TypeOK'
    BY <1>1, <1>a, <1>0, <1>c DEF Register, KmainStep, TypeOK, KmainAt, tickVars
  <2>2. VectorInv' /\ SwitchInv'
    BY <1>1, <1>a, <1>0, <1>c DEF Register, KmainStep, Inv, VectorInv, SwitchInv, Filled
  <2> QED
    BY <1>0, <1>c, <2>1, <2>2, KmainWaits DEF Inv, WildExplained
<1>2. CASE InitMembers
  <2>1. TypeOK'
    <3>1. size' \in 0 .. N /\ current' \in -1 .. N - 1
      BY <1>2, <1>a DEF InitMembers
    <3> QED
      BY <1>2, <1>a, <1>0, <1>c, <3>1 DEF InitMembers, KmainStep, TypeOK, KmainAt, tickVars, N
  <2>2. VectorInv' /\ SwitchInv'
    BY <1>2, <1>a, <1>0, <1>c DEF InitMembers, KmainStep, Inv, VectorInv, SwitchInv, Filled
  <2> QED
    BY <1>0, <1>c, <2>1, <2>2, KmainWaits DEF Inv, WildExplained
<1>3. CASE ClearTicks
  <2>1. TypeOK'
    <3>1. tickCount' \in 0 .. U32 - 1
      BY <1>3, Numbers DEF ClearTicks
    <3> QED
      BY <1>3, <1>a, <1>0, <1>c, <3>1 DEF ClearTicks, KmainStep, TypeOK, KmainAt
  <2>2. VectorInv' /\ SwitchInv'
    BY <1>3, <1>a, <1>b, <1>0, <1>c DEF ClearTicks, KmainStep, Inv, VectorInv, SwitchInv, Filled
  <2> QED
    BY <1>0, <1>c, <2>1, <2>2, KmainWaits DEF Inv, WildExplained
<1>4. CASE SetFrequency
  <2>1. TypeOK'
    BY <1>4, <1>a, <1>0, <1>c DEF SetFrequency, KmainStep, TypeOK, KmainAt
  <2>2. VectorInv' /\ SwitchInv'
    BY <1>4, <1>a, <1>b, <1>0, <1>c DEF SetFrequency, KmainStep, Inv, VectorInv, SwitchInv, Filled
  <2> QED
    BY <1>0, <1>c, <2>1, <2>2, KmainWaits DEF Inv, WildExplained
<1>5. ASSUME NEW t \in Thread, AddThread(t) PROVE Inv'
  <2>0. size + 1 \in 0 .. N /\ kmain = "ready"
    BY <1>5, Room DEF AddThread, KmainStep
  <2>1. TypeOK'
    BY <1>5, <1>a, <1>0, <1>c, <2>0 DEF AddThread, KmainStep, TypeOK, KmainAt, tickVars, N
  <2>2. VectorInv'
    <3>1. /\ kmain' = "counted" /\ size' = size + 1 /\ adding' = t
          /\ UNCHANGED <<data, current, released>>
      BY <1>5 DEF AddThread, KmainStep
    <3>2. Filled = size /\ Filled' = size
      BY <1>a, <2>0, <3>1 DEF Filled
    <3>3. \A i \in Slot : IF i < size THEN data[i] \in Thread ELSE data[i] = Garbage
      BY <3>2 DEF Inv, VectorInv
    <3>4. \A i \in Slot : data[i] # t
      BY <1>5, <1>a, <3>3 DEF AddThread, Added
    <3>5. ~released
      BY <2>0 DEF Inv, VectorInv
    <3>6. \A i, j \in Slot : data[i] = data[j] /\ data[i] \in Thread => i = j
      BY DEF Inv, VectorInv
    <3>7. size' > 0 /\ -1 <= current' /\ current' < size'
      BY <1>a, <1>b, <2>0, <3>1
    <3> QED
      BY <3>1, <3>2, <3>3, <3>4, <3>5, <3>6, <3>7 DEF VectorInv
  <2>3. SwitchInv'
    BY <1>5, <1>b, <1>0, <1>c, <2>0 DEF AddThread, SwitchInv
  <2> QED
    BY <1>0, <1>c, <2>1, <2>2, <2>3, KmainWaits DEF Inv, WildExplained
<1>6. CASE Copy
  <2>1. TypeOK'
    BY <1>6, <1>a, <1>0, <1>c DEF Copy, KmainStep, TypeOK, KmainAt, tickVars
  <2>2. VectorInv' /\ SwitchInv'
    BY <1>6, <1>a, <1>b, <1>0, <1>c DEF Copy, KmainStep, Inv, VectorInv, SwitchInv, Filled
  <2> QED
    BY <1>0, <1>c, <2>1, <2>2, KmainWaits DEF Inv, WildExplained
<1>7. CASE Release
  <2>1. TypeOK'
    BY <1>7, <1>a, <1>0, <1>c DEF Release, KmainStep, TypeOK, KmainAt, tickVars
  <2>2. VectorInv' /\ SwitchInv'
    BY <1>7, <1>a, <1>b, <1>0, <1>c DEF Release, KmainStep, Inv, VectorInv, SwitchInv, Filled
  <2> QED
    BY <1>0, <1>c, <2>1, <2>2, KmainWaits DEF Inv, WildExplained
<1>8. CASE Swap
  <2>0. data' = data
    <3>1. kmain = "released" /\ Filled = size - 1
      BY <1>8 DEF Swap, KmainStep, Filled
    <3>2. \A i \in Slot : (IF i < size - 1 THEN data[i] ELSE Garbage) = data[i]
      BY <1>a, <3>1 DEF Inv, VectorInv
    <3>3. data = [i \in Slot |-> data[i]]
      BY <1>a DEF TypeOK
    <3> QED
      BY <1>8, <3>2, <3>3 DEF Swap
  <2>1. TypeOK'
    BY <1>8, <1>a, <1>0, <1>c, <2>0 DEF Swap, KmainStep, TypeOK, KmainAt, tickVars
  <2>2. VectorInv' /\ SwitchInv'
    BY <1>8, <1>a, <1>b, <1>0, <1>c, <2>0 DEF Swap, KmainStep, Inv, VectorInv, SwitchInv, Filled
  <2> QED
    BY <1>0, <1>c, <2>1, <2>2, KmainWaits DEF Inv, WildExplained
<1>9. CASE Store
  <2>0. /\ kmain = "swapped" /\ kmain' = "ready" /\ UNCHANGED <<adding, size, released, current>>
        /\ data' = [data EXCEPT ![size - 1] = adding]
    BY <1>9 DEF Store, KmainStep
  <2>a. size > 0 /\ size - 1 \in Slot /\ adding \in Thread /\ data \in [Slot -> Thread \cup {Garbage}]
    <3>1. size > 0
      BY <2>0 DEF Inv, VectorInv
    <3> QED
      BY <1>a, <3>1 DEF TypeOK
  <2>1. TypeOK'
    <3>1. data' \in [Slot -> Thread \cup {Garbage}]
      BY <2>0, <2>a
    <3> QED
      BY <1>9, <1>a, <1>0, <1>c, <2>0, <3>1 DEF Store, TypeOK, KmainAt, tickVars
  <2>2. VectorInv'
    <3>1. Filled = size - 1 /\ Filled' = size
      BY <2>0 DEF Filled
    <3>2. \A i \in Slot : data'[i] = IF i = size - 1 THEN adding ELSE data[i]
      BY <2>0, <2>a
    <3>3. \A i \in Slot : IF i < size - 1 THEN data[i] \in Thread ELSE data[i] = Garbage
      BY <3>1 DEF Inv, VectorInv
    <3>4. \A i \in Slot : IF i < size THEN data'[i] \in Thread ELSE data'[i] = Garbage
      BY <1>a, <2>a, <3>2, <3>3
    <3>5. \A i \in Slot : data[i] # adding
      BY <2>0 DEF Inv, VectorInv
    <3>6. \A i, j \in Slot : data'[i] = data'[j] /\ data'[i] \in Thread => i = j
      BY <3>2, <3>5 DEF Inv, VectorInv
    <3>7. ~released
      BY <2>0 DEF Inv, VectorInv
    <3>8. -1 <= current' /\ current' < size'
      BY <1>a, <1>b, <2>0, <2>a
    <3> QED
      BY <2>0, <3>1, <3>4, <3>6, <3>7, <3>8 DEF VectorInv
  <2>3. SwitchInv'
    BY <1>b, <1>0, <1>c, <2>0 DEF SwitchInv
  <2> QED
    BY <1>0, <1>c, <2>1, <2>2, <2>3, KmainWaits DEF Inv, WildExplained
<1> QED
  BY <1>1, <1>2, <1>3, <1>4, <1>5, <1>6, <1>7, <1>8, <1>9

-----------------------------------------------------------------------------
(* A step that leaves the vector, the round and the waiting alone, and the *)
(* registers too while the handler runs, keeps everything but the types.   *)
LEMMA QuietKeeps ==
  ASSUME Inv, TypeOK', UNCHANGED kmainVars,
         UNCHANGED <<current, phase, thread, cpu, deleted, waited>>,
         phase = "run" \/ UNCHANGED <<registers, work>>
  PROVE  Inv'
<1>1. VectorInv'
  BY DEF Inv, VectorInv, Filled, kmainVars
<1>2. SwitchInv'
  BY DEF Inv, SwitchInv, kmainVars
<1>3. \A i \in Slot : Limit(i)' = Limit(i)
  BY DEF Limit, Distance, kmainVars
<1>4. WaitInv'
  BY <1>3 DEF Inv, WaitInv, kmainVars
<1>5. WildExplained'
  BY DEF Inv, WildExplained, kmainVars
<1> QED
  BY <1>1, <1>2, <1>4, <1>5 DEF Inv

LEMMA ThreadKeeps ==
  ASSUME Inv, Work \/ \E t \in Thread : StopThread(t)
  PROVE  Inv'
<1>0. TypeOK
  BY DEF Inv
<1>1. CASE Work
  <2>1. work' \in 0 .. MaxWork
    BY <1>0, <1>1, Numbers DEF Work, TypeOK
  <2>2. TypeOK'
    BY <1>0, <1>1, <2>1
       DEF Work, TypeOK, picVars, kmainVars, tickVars, threadVars
  <2> QED
    BY <1>1, <2>2, QuietKeeps DEF Work, threadVars
<1>2. ASSUME NEW t \in Thread, StopThread(t) PROVE Inv'
  <2>1. state' \in [Thread -> {"Ready", "Stopped"}]
    BY <1>0, <1>2 DEF StopThread, TypeOK
  <2>2. TypeOK'
    BY <1>0, <1>2, <2>1
       DEF StopThread, TypeOK, picVars, kmainVars, tickVars, cpuVars
  <2> QED
    BY <1>2, <2>2, QuietKeeps DEF StopThread, cpuVars
<1> QED
  BY <1>1, <1>2

(* Requests, interrupts without a handler, and ticks that only count. *)
LEMMA InterruptKeeps ==
  ASSUME Inv, TickCounts \/ \E irq \in Irq : Request(irq) \/ Unhandled(irq)
  PROVE  Inv'
<1>0. TypeOK
  BY DEF Inv
<1>1. CASE TickCounts
  <2>1. PicOK'
    BY <1>0, <1>1, PicKeeps, SchedulerAssumption DEF TickCounts, TypeOK, PicOK
  <2>2. tickCount' \in 0 .. U32 - 1
    <3>1. NextTick \in 0 .. U32 - 1
      <4>1. tickCount + 1 \in Int /\ U32 \in Nat \ {0}
        BY <1>0, Numbers DEF TypeOK
      <4> QED
        BY <4>1, ModFacts DEF NextTick
    <3> QED
      BY <1>1, <3>1, Numbers DEF TickCounts
  <2>3. TypeOK'
    BY <1>0, <1>1, <2>1, <2>2
       DEF TickCounts, TypeOK, PicOK, kmainVars, cpuVars, threadVars
  <2> QED
    BY <1>1, <2>3, QuietKeeps DEF TickCounts, cpuVars, threadVars
<1>2. ASSUME NEW irq \in Irq, Request(irq) PROVE Inv'
  <2>1. PicOK'
    BY <1>0, <1>2, PicKeeps DEF Request, TypeOK, PicOK
  <2>2. TypeOK'
    BY <1>0, <1>2, <2>1
       DEF Request, TypeOK, PicOK, kmainVars, tickVars, cpuVars, threadVars
  <2> QED
    BY <1>2, <2>2, QuietKeeps DEF Request, cpuVars, threadVars
<1>3. ASSUME NEW irq \in Irq, Unhandled(irq) PROVE Inv'
  <2>1. PicOK'
    BY <1>0, <1>3, PicKeeps DEF Unhandled, TypeOK, PicOK
  <2>2. TypeOK'
    BY <1>0, <1>3, <2>1
       DEF Unhandled, TypeOK, PicOK, kmainVars, tickVars, cpuVars, threadVars
  <2> QED
    BY <1>3, <2>2, QuietKeeps DEF Unhandled, cpuVars, threadVars
<1> QED
  BY <1>1, <1>2, <1>3

-----------------------------------------------------------------------------
(* The vector as the handler finds it: what lies at its indices, and which *)
(* of them may yield no thread.                                            *)
LEMMA HandlerReads ==
  ASSUME Inv, NEW i \in Nat, i < size
  PROVE  /\ i \in Slot
         /\ data[i] \in Thread \cup {Garbage}
         /\ Reads(i) \subseteq {data[i], Garbage}
         /\ kmain \notin MidPush => Reads(i) = {data[i]} /\ data[i] \in Thread
<1>1. size \in Nat /\ size <= N /\ N \in Nat /\ Slot = 0 .. N - 1
  BY Numbers DEF Inv, TypeOK, N
<1>2. i \in Slot
  BY <1>1
<1>3. data[i] \in Thread \cup {Garbage}
  BY <1>2 DEF Inv, TypeOK
<1>4. kmain \notin MidPush => data[i] \in Thread /\ ~released
  BY <1>2 DEF Inv, VectorInv, Filled, MidPush
<1> QED
  BY <1>2, <1>3, <1>4 DEF Reads

(* getNextReadyThread takes the next index and the thread there, or reads  *)
(* a pointer that is none, which it does only when kmain was interrupted   *)
(* in pushBack.  It saves the registers for the thread at current.         *)
LEMMA NextThread ==
  ASSUME Inv, size > 0, -1 <= current, GetNextReadyThread
  PROVE  /\ current' \in Int /\ -1 <= current' /\ current' < size
         /\ thread' \in Thread \cup {Garbage}
         /\ registers' \in [Thread -> 0 .. MaxWork]
         /\ phase' \in {"switch", "wild"}
         /\ phase' = "wild" => kmain \in MidPush
         /\ \A t \in Thread :
              \/ registers'[t] = registers[t]
              \/ current # -1 /\ t = data[current] /\ registers'[t] = work
         /\ phase' = "switch" =>
              /\ current' = Advance
              /\ thread' = data[Advance] /\ thread' \in Thread
              /\ \A t \in Thread : registers'[t] =
                   IF current # -1 /\ t = data[current] THEN work ELSE registers[t]
<1>1. size \in Nat /\ current \in Int /\ current < size /\ work \in 0 .. MaxWork
      /\ registers \in [Thread -> 0 .. MaxWork] /\ thread \in Thread \cup {Garbage}
      /\ Garbage \notin Thread
  <2>1. size \in Nat /\ current \in Int
    BY Numbers DEF Inv, TypeOK, N
  <2>2. ~(kmain \in {"start", "registered"})
    BY <2>1 DEF Inv, VectorInv
  <2> QED
    BY <2>1, <2>2, Numbers DEF Inv, TypeOK, VectorInv
<1>2. Advance \in Nat /\ Advance < size
  BY <1>1, AdvanceIn
<1>3. /\ Advance \in Slot /\ data[Advance] \in Thread \cup {Garbage}
      /\ Reads(Advance) \subseteq {data[Advance], Garbage}
      /\ kmain \notin MidPush => Reads(Advance) = {data[Advance]} /\ data[Advance] \in Thread
  BY <1>2, HandlerReads
<1>4. /\ Saves \subseteq (IF current = -1 THEN {} ELSE {data[current], Garbage})
      /\ kmain \notin MidPush => Garbage \notin Saves
      /\ current # -1 /\ Garbage \notin Saves => Saves = {data[current]}
  <2>1. CASE current = -1
    BY <2>1 DEF Saves
  <2>2. CASE current # -1
    <3>1. current \in Nat
      BY <1>1, <2>2
    <3>2. /\ current \in Slot /\ data[current] \in Thread \cup {Garbage}
          /\ Reads(current) \subseteq {data[current], Garbage}
          /\ kmain \notin MidPush => Reads(current) = {data[current]} /\ data[current] \in Thread
      BY <1>1, <3>1, HandlerReads
    <3>3. data[current] \in Reads(current)
      BY <3>2 DEF Reads
    <3> QED
      BY <1>1, <2>2, <3>2, <3>3 DEF Saves
  <2> QED
    BY <2>1, <2>2
<1>5. CASE Garbage \notin Saves
  <2>1. /\ registers' = [t \in Thread |-> IF t \in Saves THEN work ELSE registers[t]]
        /\ current' = Advance
        /\ thread' \in Reads(Advance)
        /\ phase' = IF thread' = Garbage THEN "wild" ELSE "switch"
    BY <1>5 DEF GetNextReadyThread
  <2>2. registers' \in [Thread -> 0 .. MaxWork]
    BY <1>1, <2>1
  <2>3. \A t \in Thread : registers'[t] =
          IF current # -1 /\ t = data[current] THEN work ELSE registers[t]
    BY <1>4, <1>5, <2>1
  <2>4. thread' \in Thread \cup {Garbage}
    BY <1>3, <2>1
  <2>5. phase' = "wild" => kmain \in MidPush
    BY <1>1, <1>3, <2>1
  <2>6. phase' = "switch" => thread' = data[Advance] /\ thread' \in Thread
    BY <1>3, <2>1
  <2> QED
    BY <1>1, <1>2, <2>1, <2>2, <2>3, <2>4, <2>5, <2>6
<1>6. CASE Garbage \in Saves
  BY <1>1, <1>4, <1>6 DEF GetNextReadyThread
<1> QED
  BY <1>5, <1>6

(* After getNextReadyThread nobody has waited longer than the round has    *)
(* come: whoever was passed over is deleted.                               *)
LEMMA TurnKeeps ==
  ASSUME Inv, size > 0, -1 <= current, GetNextReadyThread,
         UNCHANGED kmainVars, UNCHANGED cpuVars,
         deleted \subseteq deleted', deleted' \subseteq Thread, UNCHANGED state,
         heapBroken' \in BOOLEAN, PicOK',
         tickCount' \in 0 .. U32 - 1, UNCHANGED frequency,
         phase = "run" \/ (phase = "switch" /\ thread \in deleted')
  PROVE  Inv'
<1>0. /\ UNCHANGED <<kmain, adding, size, data, released, cpu, work, cr3, esp0, waited>>
  BY DEF kmainVars, cpuVars
<1>1. /\ current' \in Int /\ -1 <= current' /\ current' < size
      /\ thread' \in Thread \cup {Garbage}
      /\ registers' \in [Thread -> 0 .. MaxWork]
      /\ phase' \in {"switch", "wild"}
      /\ phase' = "wild" => kmain \in MidPush
      /\ phase' = "switch" =>
           /\ current' = Advance
           /\ thread' = data[Advance] /\ thread' \in Thread
           /\ \A t \in Thread : registers'[t] =
                IF current # -1 /\ t = data[current] THEN work ELSE registers[t]
  BY NextThread
<1>2. /\ TypeOK /\ size \in Nat /\ current \in Int /\ size <= N /\ N \in Nat /\ Slot = 0 .. N - 1
      /\ Garbage \notin Thread
  BY Numbers, SMTT(20) DEF Inv, TypeOK, N
<1>3. ~(kmain \in {"start", "registered"}) /\ current < size
  <2>1. ~(kmain \in {"start", "registered"})
    BY <1>2 DEF Inv, VectorInv
  <2> QED
    BY <2>1 DEF Inv, VectorInv
<1>4. Advance \in Nat /\ Advance < size
  BY <1>2, <1>3, AdvanceIn
<1>5. TypeOK'
  <2>1. current' \in -1 .. Cardinality(Thread) - 1
    BY <1>1, <1>2 DEF N
  <2>2. phase' \in Phase /\ (phase' = "switch" => thread' # Garbage)
    BY <1>1, <1>2 DEF Phase
  <2> QED
    BY <1>0, <1>1, <1>2, <2>1, <2>2 DEF TypeOK, PicOK
<1>6. VectorInv'
  BY <1>0, <1>1, <1>3 DEF Inv, VectorInv, Filled
<1>7. SwitchInv'
  <2>1. phase' = "switch" => 0 <= current' /\ current' < size' /\ thread' = data'[current'] /\ thread' \in Thread
    BY <1>0, <1>1, <1>4
  <2>2. ASSUME phase' = "switch", cpu # Kmain, cpu \notin deleted' PROVE registers'[cpu] = work
    <3>1. cpu \in Thread
      BY <1>2, <2>2 DEF TypeOK
    <3>2. CASE phase = "run"
      <4>1. 0 <= current /\ data[current] = cpu
        BY <2>2, <3>2 DEF Inv, SwitchInv
      <4> QED
        BY <1>1, <1>2, <2>2, <3>1, <4>1
    <3>3. CASE phase = "switch"
      <4>1. registers[cpu] = work
        BY <2>2, <3>3 DEF Inv, SwitchInv
      <4> QED
        BY <1>1, <2>2, <3>1, <4>1
    <3> QED
      BY <3>2, <3>3
  <2> QED
    BY <1>0, <1>1, <2>1, <2>2 DEF SwitchInv
<1>8. WaitInv'
  <2>1. ASSUME NEW i \in Slot, i < size, data[i] \in Thread \ deleted'
        PROVE  waited[data[i]] <= Limit(i)'
    <3>1. i \in Nat /\ i < size
      BY <1>2, <2>1
    <3>2. waited[data[i]] <= Limit(i) /\ waited[data[i]] \in Nat
      BY <1>2, <2>1, Numbers DEF Inv, WaitInv, TypeOK
    <3>3. Distance(size, current, i) \in Nat /\ Distance(size, current, i) < size
      BY <1>2, <1>3, <3>1, DistanceRange
    <3>4. Limit(i) <= Distance(size, current, i)
      <4>1. CASE phase = "run"
        BY <3>3, <4>1 DEF Limit
      <4>2. CASE phase = "switch"
        <5>1. i # current
          BY <2>1, <4>2 DEF Inv, SwitchInv
        <5> QED
          BY <3>3, <4>2, <5>1 DEF Limit
      <4> QED
        BY <4>1, <4>2
    <3>5. Distance(size, current, i) <= Limit(i)'
      <4>1. CASE phase' = "switch"
        <5>1. Limit(i)' = IF i # Advance THEN Distance(size, Advance, i) - 1 ELSE size - 1
          BY <1>0, <1>1, <4>1 DEF Limit
        <5>2. Limit(i)' = Distance(size, current, i)
          BY <1>2, <1>3, <3>1, <5>1, AdvanceLimit
        <5> QED
          BY <3>3, <5>2
      <4>2. CASE phase' = "wild"
        BY <1>0, <1>2, <3>3, <4>2 DEF Limit
      <4> QED
        BY <1>1, <4>1, <4>2
    <3>6. Limit(i) \in Int /\ Limit(i)' \in Int
      <4>1. Limit(i) \in Int
        BY <1>2, <3>3 DEF Limit
      <4>2. Limit(i)' \in Int
        <5>1. current' \in Int /\ size' \in Int /\ i \in Int
          BY <1>0, <1>1, <1>2, <3>1
        <5> QED
          BY <5>1 DEF Limit, Distance
      <4> QED
        BY <4>1, <4>2
    <3> QED
      BY <3>2, <3>3, <3>4, <3>5, <3>6
  <2>2. cpu = Kmain => \A t \in Thread : waited[t] = 0
    BY DEF Inv, WaitInv
  <2> QED
    BY <1>0, <2>1, <2>2 DEF WaitInv
<1>9. WildExplained'
  BY <1>0, <1>1 DEF WildExplained
<1> QED
  BY <1>5, <1>6, <1>7, <1>8, <1>9 DEF Inv

(* Nobody is allowed to wait for more than a round. *)
LEMMA LimitRange ==
  ASSUME Inv, NEW i \in Nat, i < size
  PROVE  Limit(i) \in Int /\ Limit(i) < size
<1>1. size \in Nat /\ current \in Int
  BY Numbers DEF Inv, TypeOK, N
<1>2. ~(kmain \in {"start", "registered"})
  BY <1>1 DEF Inv, VectorInv
<1>3. -1 <= current /\ current < size
  BY <1>2 DEF Inv, VectorInv
<1>4. Distance(size, current, i) \in Nat /\ Distance(size, current, i) < size
  BY <1>1, <1>3, DistanceRange
<1> QED
  BY <1>1, <1>4 DEF Limit

(* The handler returns: the thread starts its round, and for the others    *)
(* the dispatch counts.                                                    *)
LEMMA DispatchKeeps == ASSUME Inv, Dispatch PROVE Inv'
<1>0. /\ UNCHANGED <<kmain, adding, size, data, released, current, thread, tickCount, frequency,
                     registers, state, deleted, heapBroken>>
      /\ phase = "switch" /\ phase' = "run" /\ cpu' = thread /\ work' = registers[thread]
      /\ thread \notin deleted
  BY DEF Dispatch, kmainVars, tickVars, threadVars
<1>1. /\ TypeOK /\ size \in Nat /\ current \in Int /\ size <= N /\ N \in Nat /\ Slot = 0 .. N - 1
      /\ Garbage \notin Thread /\ Kmain \notin Thread /\ MaxWaited = N + 1
  BY Numbers DEF Inv, TypeOK, N
<1>2. thread \in Thread /\ thread = data[current] /\ 0 <= current /\ current < size
  BY <1>0 DEF Inv, SwitchInv
<1>3. /\ waited' \in [Thread -> 0 .. MaxWaited]
      /\ waited'[thread] = 0
      /\ \A t \in Thread : waited'[t] <= waited[t] + 1
  <2>1. waited' = [t \in Thread |->
          IF t = thread \/ t \notin Added THEN 0
          ELSE IF waited[t] < MaxWaited THEN waited[t] + 1 ELSE MaxWaited]
    BY DEF Dispatch
  <2>2. \A t \in Thread : waited[t] \in 0 .. MaxWaited
    BY <1>1 DEF TypeOK
  <2>3. \A t \in Thread : waited'[t] \in 0 .. MaxWaited /\ waited'[t] <= waited[t] + 1
    BY <1>1, <2>1, <2>2
  <2> QED
    BY <1>2, <2>1, <2>3
<1>4. TypeOK'
  <2>1. PicOK'
    BY <1>1, PicKeeps, SchedulerAssumption DEF Dispatch, TypeOK, PicOK
  <2>2. esp0' \in 0 .. U16 - 1
    <3>1. StackTop[thread] \in Int /\ U16 \in Nat \ {0}
      BY <1>2, SchedulerAssumption
    <3>2. StackTop[thread] % U16 \in 0 .. U16 - 1
      BY <3>1, ModFacts
    <3> QED
      BY <3>2 DEF Dispatch
  <2>3. work' \in 0 .. MaxWork
    BY <1>0, <1>1, <1>2 DEF TypeOK
  <2> QED
    BY <1>0, <1>1, <1>2, <1>3, <2>1, <2>2, <2>3 DEF TypeOK, PicOK, Phase
<1>5. VectorInv'
  BY <1>0 DEF Inv, VectorInv, Filled
<1>6. SwitchInv'
  BY <1>0, <1>1, <1>2 DEF SwitchInv
<1>7. WaitInv'
  <2>1. ASSUME NEW i \in Slot, i < size, data[i] \in Thread \ deleted
        PROVE  waited'[data[i]] <= Limit(i)'
    <3>1. i \in Nat /\ i < size
      BY <1>1, <2>1
    <3>2. Limit(i)' = Distance(size, current, i)
      BY <1>0 DEF Limit
    <3>3. Distance(size, current, i) \in Nat
      <4>1. -1 <= current
        BY <1>1, <1>2
      <4> QED
        BY <1>1, <1>2, <3>1, <4>1, DistanceRange
    <3>4. CASE i = current
      BY <1>2, <1>3, <3>2, <3>3, <3>4
    <3>5. CASE i # current
      <4>1. Limit(i) = Distance(size, current, i) - 1
        BY <1>0, <3>5 DEF Limit
      <4>2. waited[data[i]] <= Limit(i)
        BY <2>1 DEF Inv, WaitInv
      <4>3. waited[data[i]] \in Int /\ waited'[data[i]] \in Int
        BY <1>1, <1>3, <2>1 DEF TypeOK
      <4>4. waited'[data[i]] <= waited[data[i]] + 1
        BY <1>3, <2>1
      <4> QED
        BY <3>2, <3>3, <4>1, <4>2, <4>3, <4>4
    <3> QED
      BY <3>4, <3>5
  <2> QED
    BY <1>0, <1>1, <1>2, <2>1 DEF WaitInv
<1>8. WildExplained'
  BY <1>0 DEF WildExplained
<1> QED
  BY <1>4, <1>5, <1>6, <1>7, <1>8 DEF Inv

(* The steps of the handler before it returns. *)
LEMMA HandlerKeeps ==
  ASSUME Inv, TickSwitches \/ RemoveStopped \/ RemoveAgain \/ MeetReused
  PROVE  Inv'
<1>0. /\ TypeOK /\ size \in Nat /\ current \in Int /\ U32 \in Nat \ {0} /\ PicOK
      /\ tickCount \in 0 .. U32 - 1 /\ deleted \subseteq Thread /\ heapBroken \in BOOLEAN
  BY Numbers, SMTT(20) DEF Inv, TypeOK, N, PicOK
<1>1. CASE TickSwitches
  <2>1. size > 0 /\ phase = "run" /\ kmain # "start"
    BY <1>1 DEF TickSwitches, Interrupted
  <2>2. -1 <= current
    <3>1. ~(kmain \in {"start", "registered"})
      BY <2>1 DEF Inv, VectorInv
    <3> QED
      BY <3>1 DEF Inv, VectorInv
  <2>3. PicOK'
    BY <1>0, <1>1, PicKeeps, SchedulerAssumption DEF TickSwitches
  <2>4. tickCount' \in 0 .. U32 - 1
    BY <1>0, <1>1 DEF TickSwitches
  <2> QED
    BY <1>0, <1>1, <2>1, <2>2, <2>3, <2>4, TurnKeeps DEF TickSwitches
<1>2. ASSUME phase = "switch"
      PROVE  thread \in Thread /\ size > 0 /\ -1 <= current
  <2>1. 0 <= current /\ current < size /\ thread \in Thread
    BY <1>2 DEF Inv, SwitchInv
  <2> QED
    BY <1>0, <2>1
<1>3. CASE RemoveStopped
  <2>1. phase = "switch"
    BY <1>3 DEF RemoveStopped
  <2>2. deleted \subseteq deleted' /\ deleted' \subseteq Thread /\ thread \in deleted'
    BY <1>0, <1>2, <1>3, <2>1 DEF RemoveStopped
  <2>3. PicOK' /\ tickCount' \in 0 .. U32 - 1 /\ UNCHANGED frequency /\ heapBroken' \in BOOLEAN
    BY <1>0, <1>3 DEF RemoveStopped, picVars, tickVars, PicOK
  <2> QED
    BY <1>2, <1>3, <2>1, <2>2, <2>3, TurnKeeps DEF RemoveStopped
<1>4. CASE RemoveAgain
  <2>1. phase = "switch"
    BY <1>4 DEF RemoveAgain
  <2>2. deleted \subseteq deleted' /\ deleted' \subseteq Thread /\ thread \in deleted'
    BY <1>0, <1>4 DEF RemoveAgain
  <2>3. PicOK' /\ tickCount' \in 0 .. U32 - 1 /\ UNCHANGED frequency /\ heapBroken' \in BOOLEAN
    BY <1>0, <1>4 DEF RemoveAgain, picVars, tickVars, PicOK
  <2> QED
    BY <1>2, <1>4, <2>1, <2>2, <2>3, TurnKeeps DEF RemoveAgain
<1>5. CASE MeetReused
  <2>1. /\ UNCHANGED <<kmain, adding, size, data, released, current, thread, cpu, work, waited,
                       registers, deleted>>
        /\ phase = "switch" /\ phase' = "wild" /\ thread \in deleted
    BY <1>5 DEF MeetReused, kmainVars, cpuVars, threadVars
  <2>2. TypeOK'
    BY <1>0, <1>5
       DEF MeetReused, TypeOK, Phase, kmainVars, cpuVars, threadVars, tickVars, picVars
  <2>3. VectorInv'
    BY <1>0, <1>2, <2>1 DEF Inv, VectorInv, Filled
  <2>4. SwitchInv'
    BY <2>1 DEF SwitchInv
  <2>5. WaitInv'
    <3>1. ASSUME NEW i \in Slot, i < size, data[i] \in Thread \ deleted
          PROVE  waited[data[i]] <= size - 1
      <4>1. i \in Nat
        BY Numbers
      <4>2. Limit(i) \in Int /\ Limit(i) < size
        BY <3>1, <4>1, LimitRange
      <4>3. waited[data[i]] <= Limit(i) /\ waited[data[i]] \in Int
        BY <1>0, <3>1, Numbers DEF Inv, WaitInv, TypeOK
      <4> QED
        BY <1>0, <4>2, <4>3
    <3>2. cpu = Kmain => \A t \in Thread : waited[t] = 0
      BY DEF Inv, WaitInv
    <3>3. \A i \in Slot : Limit(i)' = size - 1
      BY <2>1 DEF Limit
    <3> QED
      BY <2>1, <3>1, <3>2, <3>3 DEF WaitInv
  <2>6. WildExplained'
    BY <2>1 DEF WildExplained
  <2> QED
    BY <2>2, <2>3, <2>4, <2>5, <2>6 DEF Inv
<1> QED
  BY <1>1, <1>3, <1>4, <1>5

LEMMA StutterKeeps == ASSUME Inv, UNCHANGED vars PROVE Inv'
<1>1. TypeOK'
  BY DEF vars, Inv, TypeOK
<1> QED
  BY <1>1, QuietKeeps DEF vars, kmainVars

LEMMA NextKeeps == Inv /\ [Next]_vars => Inv'
BY KmainKeeps, ThreadKeeps, InterruptKeeps, HandlerKeeps, DispatchKeeps, StutterKeeps
   DEF Next, Tick, Handler

-----------------------------------------------------------------------------
THEOREM Inductive == Spec => []Inv
BY InitInv, NextKeeps, PTL DEF Spec

(* The tick counter stays a u32 and the current thread inside the vector,  *)
(* wherever kmain was interrupted.                                         *)
THEOREM TypeCorrect == Spec => []TypeOK
BY Inductive, PTL DEF Inv

(* However many threads are stopped and skipped, no thread that is left    *)
(* waits for more than one turn of every other.                            *)
THEOREM RoundRobin == Spec => []BoundedWait
<1>1. Inv => BoundedWait
  <2> SUFFICES ASSUME Inv, NEW t \in Added \ deleted PROVE waited[t] < size
    BY DEF BoundedWait
  <2>1. PICK i \in Slot : i < size /\ data[i] = t
    BY DEF Added
  <2>2. t \in Thread /\ i \in Nat
    BY Numbers DEF Added
  <2>3. Limit(i) \in Int /\ Limit(i) < size
    BY <2>1, <2>2, LimitRange
  <2>4. waited[t] <= Limit(i) /\ waited[t] \in Int /\ size \in Int
    BY <2>1, <2>2, Numbers DEF Inv, WaitInv, TypeOK
  <2> QED
    BY <2>3, <2>4
<1> QED
  BY <1>1, Inductive, PTL

(* Only a tick inside pushBack or a deleted thread leads to a wild pointer. *)
THEOREM OnlyWildWays == Spec => []WildExplained
BY Inductive, PTL DEF Inv

-----------------------------------------------------------------------------
(* The processors the scheduler implements. *)
Progress == [t \in Thread \ deleted |-> IF cpu = t THEN work ELSE registers[t]]
Stopped == {t \in Thread : state[t] = "Stopped"}

(* The registers that are saved are those of the thread that was running.  *)
LEMMA TurnProgress ==
  ASSUME Inv, size > 0, -1 <= current, GetNextReadyThread, UNCHANGED <<cpu, work>>,
         deleted \subseteq deleted',
         phase = "run" \/ (phase = "switch" /\ thread \in deleted')
  PROVE  Progress' = [t \in Thread \ deleted' |-> Progress[t]]
<1>1. ASSUME NEW t \in Thread \ deleted'
      PROVE  (IF cpu = t THEN work ELSE registers'[t]) = (IF cpu = t THEN work ELSE registers[t])
  <2>1. \/ registers'[t] = registers[t]
        \/ current # -1 /\ t = data[current] /\ registers'[t] = work
    BY NextThread
  <2>2. CASE cpu = t \/ registers'[t] = registers[t]
    BY <2>2
  <2>3. CASE cpu # t /\ current # -1 /\ t = data[current]
    <3>1. CASE phase = "switch"
      BY <1>1, <2>3, <3>1 DEF Inv, SwitchInv
    <3>2. CASE phase = "run"
      <4>1. ~(kmain \in {"start", "registered"})
        <5>1. size \in Nat
          BY Numbers DEF Inv, TypeOK, N
        <5> QED
          BY <5>1 DEF Inv, VectorInv
      <4> QED
        BY <2>3, <3>2, <4>1 DEF Inv, SwitchInv
    <3> QED
      BY <3>1, <3>2
  <2> QED
    BY <2>1, <2>2, <2>3
<1> QED
  BY <1>1 DEF Progress

LEMMA CpusInit == Init => Cpus!Init
<1> SUFFICES ASSUME Init PROVE Cpus!Init
  OBVIOUS
<1>1. Kmain \notin Thread
  BY Numbers
<1>2. Progress = [t \in Thread |-> 0]
  BY <1>1 DEF Init, Progress
<1>3. Stopped = {}
  BY DEF Init, Stopped
<1> QED
  BY <1>2, <1>3 DEF Cpus!Init, Progress, Stopped

(* Every step of the scheduler is one of the processors, or they do not    *)
(* notice it.                                                              *)
LEMMA CpusStep == Inv /\ [Next]_vars => [Cpus!Next]_(Cpus!vars)
<1> SUFFICES ASSUME Inv, [Next]_vars
             PROVE  Cpus!Next \/ UNCHANGED <<Progress, Stopped>>
  BY DEF Cpus!vars, Progress, Stopped
<1>0. /\ TypeOK /\ size \in Nat /\ deleted \subseteq Thread
      /\ registers \in [Thread -> 0 .. MaxWork] /\ work \in 0 .. MaxWork /\ Kmain \notin Thread
  BY Numbers, SMTT(20) DEF Inv, TypeOK, N
<1>a. ASSUME UNCHANGED <<cpu, work, registers, state, deleted>>
      PROVE  UNCHANGED <<Progress, Stopped>>
  BY <1>a DEF Progress, Stopped
<1>b. ASSUME UNCHANGED cpuVars, UNCHANGED threadVars
      PROVE  UNCHANGED <<Progress, Stopped>>
  BY <1>a, <1>b DEF cpuVars, threadVars
<1>1. CASE \/ Register \/ InitMembers \/ ClearTicks \/ SetFrequency
           \/ \E t \in Thread : AddThread(t)
           \/ Copy \/ Release \/ Swap \/ Store
  BY <1>1, <1>b DEF Register, InitMembers, ClearTicks, SetFrequency, AddThread, Copy, Release,
                    Swap, Store, KmainStep
<1>2. CASE Work
  <2>1. /\ work' = work + 1 /\ cpu # Kmain
        /\ UNCHANGED <<cpu, registers, state, deleted>>
    BY <1>2 DEF Work, threadVars
  <2>2. cpu \in Thread /\ UNCHANGED Stopped
    BY <1>0, <2>1 DEF TypeOK, Stopped
  <2>3. CASE cpu \in deleted
    BY <2>1, <2>2, <2>3 DEF Progress
  <2>4. CASE cpu \notin deleted
    <3>1. cpu \in DOMAIN Progress /\ Progress' = [Progress EXCEPT ![cpu] = @ + 1]
      BY <1>0, <2>1, <2>2, <2>4 DEF Progress
    <3>2. PICK t \in Thread : t = cpu
      BY <2>2
    <3>3. Cpus!Step(t)
      BY <2>2, <3>1, <3>2 DEF Cpus!Step, Progress, Stopped
    <3> QED
      BY <3>3 DEF Cpus!Next
  <2> QED
    BY <2>3, <2>4
<1>3. ASSUME NEW t \in Thread, StopThread(t) PROVE Cpus!Next \/ UNCHANGED <<Progress, Stopped>>
  <2>1. state' = [state EXCEPT ![t] = "Stopped"] /\ UNCHANGED <<cpu, work, registers, deleted>>
    BY <1>3 DEF StopThread, cpuVars
  <2>2. Stopped' = Stopped \cup {t} /\ UNCHANGED Progress
    BY <1>0, <2>1 DEF Stopped, Progress, TypeOK
  <2>3. Cpus!Stop(t)
    BY <2>2 DEF Cpus!Stop, Progress, Stopped
  <2> QED
    BY <2>3 DEF Cpus!Next
<1>4. CASE TickCounts \/ \E irq \in Irq : Request(irq) \/ Unhandled(irq)
  BY <1>4, <1>b DEF TickCounts, Request, Unhandled
<1>5. CASE TickSwitches
  <2>1. /\ size > 0 /\ phase = "run" /\ GetNextReadyThread
        /\ UNCHANGED <<cpu, work, state, deleted>>
    BY <1>5 DEF TickSwitches, Interrupted, cpuVars
  <2>2. -1 <= current
    <3>1. ~(kmain \in {"start", "registered"})
      BY <1>0, <2>1 DEF Inv, VectorInv
    <3> QED
      BY <3>1 DEF Inv, VectorInv
  <2>3. Progress' = [t \in Thread \ deleted' |-> Progress[t]]
    BY <2>1, <2>2, TurnProgress
  <2>4. Progress = [t \in Thread \ deleted |-> Progress[t]]
    BY DEF Progress
  <2> QED
    BY <2>1, <2>3, <2>4 DEF Stopped
<1>6. ASSUME phase = "switch"
      PROVE  thread \in Thread /\ size > 0 /\ -1 <= current
  <2>1. 0 <= current /\ current < size /\ thread \in Thread /\ current \in Int
    BY <1>0, <1>6, Numbers DEF Inv, SwitchInv, TypeOK
  <2> QED
    BY <1>0, <2>1
<1>7. CASE RemoveStopped
  <2>1. /\ phase = "switch" /\ state[thread] = "Stopped" /\ deleted' = deleted \cup {thread}
        /\ GetNextReadyThread /\ UNCHANGED <<cpu, work, state>>
    BY <1>7 DEF RemoveStopped, cpuVars
  <2>2. Progress' = [t \in Thread \ deleted' |-> Progress[t]]
    BY <1>6, <2>1, TurnProgress
  <2>3. Thread \ deleted' = DOMAIN Progress \ {thread}
    BY <2>1 DEF Progress
  <2>4. thread \in Stopped /\ UNCHANGED Stopped
    BY <1>6, <2>1 DEF Stopped
  <2>5. PICK t \in Thread : t = thread
    BY <1>6, <2>1
  <2>6. Cpus!End(t)
    BY <2>2, <2>3, <2>4, <2>5 DEF Cpus!End, Progress, Stopped
  <2> QED
    BY <2>6 DEF Cpus!Next
<1>8. CASE RemoveAgain
  <2>1. /\ phase = "switch" /\ thread \in deleted
        /\ GetNextReadyThread /\ UNCHANGED <<cpu, work, state, deleted>>
    BY <1>8 DEF RemoveAgain, cpuVars
  <2>2. Progress' = [t \in Thread \ deleted' |-> Progress[t]]
    BY <1>6, <2>1, TurnProgress
  <2>3. Progress = [t \in Thread \ deleted |-> Progress[t]]
    BY DEF Progress
  <2> QED
    BY <2>1, <2>2, <2>3 DEF Stopped
<1>9. CASE MeetReused
  BY <1>9, <1>b DEF MeetReused
<1>10. CASE Dispatch
  <2>1. /\ phase = "switch" /\ cpu' = thread /\ work' = registers[thread] /\ thread \notin deleted
        /\ UNCHANGED <<registers, state, deleted>>
    BY <1>10 DEF Dispatch, threadVars
  <2>2. cpu # Kmain /\ cpu \notin deleted => registers[cpu] = work
    BY <2>1 DEF Inv, SwitchInv
  <2>3. \A t \in Thread \ deleted :
          (IF thread = t THEN registers[thread] ELSE registers[t]) =
          (IF cpu = t THEN work ELSE registers[t])
    BY <1>0, <2>2
  <2> QED
    BY <2>1, <2>3 DEF Progress, Stopped
<1>11. CASE UNCHANGED vars
  BY <1>11, <1>a DEF vars
<1> QED
  BY <1>1, <1>2, <1>3, <1>4, <1>5, <1>7, <1>8, <1>9, <1>10, <1>11 DEF Next, Tick, Handler

(* Threads find their registers as they left them, and lose their          *)
(* processor only after they were stopped.                                 *)
THEOREM ThreadsUndisturbed == Spec => ImplementsCpus
BY Inductive, CpusInit, CpusStep, PTL DEF Spec, ImplementsCpus, Cpus!Spec

=============================================================================
