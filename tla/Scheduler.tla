----------------------------- MODULE Scheduler -----------------------------
(***************************************************************************)
(* The process scheduler: a handler of the timer interrupt that goes round *)
(* a vector of threads, which kmain fills while the timer is running.      *)
(*                                                                         *)
(* kmain is interruptible between any two of its statements; statements    *)
(* that touch nothing the handler reads are taken together.  The handler   *)
(* runs behind an interrupt gate, so nothing interrupts it, and the timer  *)
(* is in service until it returns, into another thread.  The other lines   *)
(* have no handler.  kmain itself is no thread: the first switch leaves it *)
(* for good, where it was.                                                 *)
(*                                                                         *)
(* The scheduler lies on the boot stack, whose memory is zero until it is  *)
(* constructed: ticks before that find a zero frequency and no threads.    *)
(***************************************************************************)
EXTENDS Interrupts

CONSTANTS
  Thread,     \* the threads kmain creates
  Timer,      \* the line of the timer
  Frequency,  \* SCHEDULER_FREQUENCY
  U32,        \* the number of u32 values
  MaxWork,    \* bound: the instructions a thread executes
  Directory,  \* pageDirPhys of the process of each thread, NoDirectory without
  StackTop,   \* stack + THREAD_STACK_SIZE of each thread
  U16,        \* the number of u16 values: setTSS takes the stack pointer as u16
  Kmain,      \* the processor executes kmain
  NoDirectory,
  Garbage     \* a pointer read from memory that holds none

VARIABLES
  kmain,       \* the statement kmain is at: see KmainAt
  adding,      \* the thread kmain passes to addThread
  size,        \* threads.m_size
  data,        \* what threads.dataPtr points to
  released,    \* that memory is given back to the heap
  tickCount,
  frequency,
  current,     \* currentThreadNumber
  phase,       \* see Phase
  thread,      \* the local variable of handle()
  cpu,         \* whose instructions the processor executes
  work,        \* the processor's registers, as what their owner has done
  registers,   \* the registers saved for each thread
  state,       \* the state of each thread, as far as handle() tells them apart
  deleted,     \* the threads that were deleted
  heapBroken,  \* a thread was deleted twice
  cr3,         \* the page directory in use
  esp0,        \* the stack the TSS names
  waited       \* history: dispatches since a thread ran, at most MaxWaited

kmainVars == <<kmain, adding, size, data, released>>
tickVars == <<tickCount, frequency>>
cpuVars == <<cpu, work, cr3, esp0, waited>>
threadVars == <<registers, state, deleted, heapBroken>>

vars == <<kmain, adding, size, data, released, tickCount, frequency, current, phase,
          thread, cpu, work, registers, state, deleted, heapBroken, cr3, esp0, waited,
          raised, inService>>

MidPush == {"counted", "copied", "released", "swapped"}
KmainAt == {"start", "registered", "members", "counting", "ready"} \cup MidPush
Phase == {"run", "switch", "wild"}

ASSUME SchedulerAssumption ==
  /\ IsFiniteSet(Thread)
  /\ Timer \in Irq
  /\ {Kmain, Garbage} \cap Thread = {}
  /\ Frequency \in 1 .. U32 - 1
  /\ {U32, U16} \subseteq Nat \ {0}
  /\ MaxWork \in Nat
  /\ StackTop \in [Thread -> Nat]
  /\ DOMAIN Directory = Thread

Slot == 0 .. Cardinality(Thread) - 1
MaxWaited == Cardinality(Thread) + 1

(* The threads addThread has been called for and returned. *)
Added == {t \in Thread : \E i \in Slot : i < size /\ data[i] = t}

Init ==
  /\ kmain = "start"
  /\ adding \in Thread
  /\ size = 0
  /\ data = [i \in Slot |-> Garbage]
  /\ released = FALSE
  /\ tickCount = 0
  /\ frequency = 0
  /\ current = 0
  /\ phase = "run"
  /\ thread = Garbage
  /\ cpu = Kmain
  /\ work = 0
  /\ registers = [t \in Thread |-> 0]
  /\ state = [t \in Thread |-> "Ready"]
  /\ deleted = {}
  /\ heapBroken = FALSE
  /\ cr3 = NoDirectory
  /\ esp0 = 0
  /\ waited = [t \in Thread |-> 0]
  /\ InterruptsInit

-----------------------------------------------------------------------------
(* kmain constructs the scheduler and adds threads. *)

KmainStep(from, to) ==
  /\ phase = "run" /\ cpu = Kmain
  /\ kmain = from
  /\ kmain' = to
  /\ UNCHANGED <<phase, thread>> /\ UNCHANGED cpuVars /\ UNCHANGED threadVars
  /\ UNCHANGED picVars

(* The base class constructor enters the handler before the members exist. *)
Register ==
  /\ KmainStep("start", "registered")
  /\ UNCHANGED <<adding, size, data, released, current>> /\ UNCHANGED tickVars

(* Vector(), currentThreadNumber = -1. *)
InitMembers ==
  /\ KmainStep("registered", "members")
  /\ size' = 0
  /\ current' = -1
  /\ UNCHANGED <<adding, data, released>> /\ UNCHANGED tickVars

ClearTicks ==
  /\ KmainStep("members", "counting")
  /\ tickCount' = 0
  /\ UNCHANGED <<adding, size, data, released, current, frequency>>

SetFrequency ==
  /\ KmainStep("counting", "ready")
  /\ frequency' = Frequency
  /\ UNCHANGED <<adding, size, data, released, current, tickCount>>

(* addThread(t), that is threads.pushBack(t): the size is counted first. *)
AddThread(t) ==
  /\ KmainStep("ready", "counted")
  /\ t \notin Added
  /\ adding' = t
  /\ size' = size + 1
  /\ UNCHANGED <<data, released, current>> /\ UNCHANGED tickVars

(* The larger array is allocated and filled, out of the handler's sight.   *)
(* It is always needed: only pushBack changes this vector, so its capacity *)
(* is its size.                                                            *)
Copy ==
  /\ KmainStep("counted", "copied")
  /\ UNCHANGED <<adding, size, data, released, current>> /\ UNCHANGED tickVars

(* delete[] dataPtr *)
Release ==
  /\ KmainStep("copied", "released")
  /\ released' = TRUE
  /\ UNCHANGED <<adding, size, data, current>> /\ UNCHANGED tickVars

(* Variant: the old elements are not copied. *)
SwapUncopied ==
  /\ KmainStep("released", "swapped")
  /\ data' = [i \in Slot |-> Garbage]
  /\ released' = FALSE
  /\ UNCHANGED <<adding, size, current>> /\ UNCHANGED tickVars

(* dataPtr = tmpPtr: the old elements, and an element that is not set. *)
Swap ==
  /\ KmainStep("released", "swapped")
  /\ data' = [i \in Slot |-> IF i < size - 1 THEN data[i] ELSE Garbage]
  /\ released' = FALSE
  /\ UNCHANGED <<adding, size, current>> /\ UNCHANGED tickVars

Store ==
  /\ KmainStep("swapped", "ready")
  /\ data' = [data EXCEPT ![size - 1] = adding]
  /\ UNCHANGED <<adding, size, released, current>> /\ UNCHANGED tickVars

-----------------------------------------------------------------------------
(* Threads. *)

(* The running thread executes an instruction. *)
Work ==
  /\ phase = "run" /\ cpu # Kmain
  /\ work < MaxWork
  /\ work' = work + 1
  /\ UNCHANGED <<current, phase, thread, cpu, cr3, esp0, waited>> /\ UNCHANGED picVars
  /\ UNCHANGED kmainVars /\ UNCHANGED tickVars /\ UNCHANGED threadVars

(* The running thread sets the state of a thread, often its own. *)
StopThread(t) ==
  /\ phase = "run" /\ cpu # Kmain
  /\ t \in Added \ deleted
  /\ state' = [state EXCEPT ![t] = "Stopped"]
  /\ UNCHANGED <<current, phase, thread, registers, deleted, heapBroken>> /\ UNCHANGED picVars
  /\ UNCHANGED kmainVars /\ UNCHANGED tickVars /\ UNCHANGED cpuVars

-----------------------------------------------------------------------------
(* The timer interrupt. *)

(* What threads[i] may yield.  Memory given back to the heap is intact     *)
(* until something else runs.                                              *)
Reads(i) ==
  {IF i \in Slot THEN data[i] ELSE Garbage}
    \cup {g \in {Garbage} : released /\ cpu # Kmain}

(* Variant: the first thread is left out of every round but the first. *)
AdvanceSkipping == IF current + 1 >= size THEN 1 % size ELSE current + 1

(* Variant: a round does not start over. *)
AdvanceUnbounded == current + 1

Advance == IF current + 1 >= size THEN (current + 1) % size ELSE current + 1

(* Variant: the registers are saved for the thread that comes next. *)
SaveLate == IF current = -1 THEN {} ELSE Reads(Advance)

(* The threads the interrupted registers are saved for: one, or none as    *)
(* long as kmain runs.                                                     *)
Saves == IF current = -1 THEN {} ELSE Reads(current)

(* getNextReadyThread *)
GetNextReadyThread ==
  \/ /\ Garbage \notin Saves
     /\ registers' = [t \in Thread |-> IF t \in Saves THEN work ELSE registers[t]]
     /\ current' = Advance
     /\ \E t \in Reads(Advance) :
          /\ thread' = t
          /\ phase' = IF t = Garbage THEN "wild" ELSE "switch"
  \/ /\ Garbage \in Saves
     /\ phase' = "wild"
     /\ UNCHANGED <<registers, current, thread>>

(* Variant: the counter is wider than a u32. *)
NextTickWide == tickCount + 1

NextTick == (tickCount + 1) % U32

Due == NextTick = frequency

Interrupted == phase = "run" /\ kmain # "start"

(* Most ticks only count, and so does one that finds no thread: for the    *)
(* controllers they are over at once.                                      *)
TickCounts ==
  /\ Interrupted
  /\ Ignore(Timer)
  /\ ~Due \/ size = 0
  /\ tickCount' = IF Due THEN 0 ELSE NextTick
  /\ UNCHANGED <<frequency, current, phase, thread>>
  /\ UNCHANGED kmainVars /\ UNCHANGED cpuVars /\ UNCHANGED threadVars

(* handle() starts to switch threads. *)
TickSwitches ==
  /\ Interrupted
  /\ Accept(Timer)
  /\ Due /\ size > 0
  /\ tickCount' = 0
  /\ GetNextReadyThread
  /\ UNCHANGED <<frequency, state, deleted, heapBroken>>
  /\ UNCHANGED kmainVars /\ UNCHANGED cpuVars

Tick == TickCounts \/ TickSwitches

(* A device asks for an interrupt. *)
Request(irq) ==
  /\ Raise(irq)
  /\ UNCHANGED <<current, phase, thread>>
  /\ UNCHANGED kmainVars /\ UNCHANGED tickVars /\ UNCHANGED cpuVars /\ UNCHANGED threadVars

(* One that has no handler, as the timer until the scheduler registers. *)
Unhandled(irq) ==
  /\ phase = "run"
  /\ irq = Timer => kmain = "start"
  /\ Ignore(irq)
  /\ UNCHANGED <<current, phase, thread>>
  /\ UNCHANGED kmainVars /\ UNCHANGED tickVars /\ UNCHANGED cpuVars /\ UNCHANGED threadVars

(* The loop over stopped threads: one is deleted, but stays in the vector. *)
RemoveStopped ==
  /\ phase = "switch"
  /\ thread \notin deleted
  /\ state[thread] = "Stopped"
  /\ deleted' = deleted \cup {thread}
  /\ GetNextReadyThread
  /\ UNCHANGED <<state, heapBroken>>
  /\ UNCHANGED kmainVars /\ UNCHANGED tickVars /\ UNCHANGED cpuVars /\ UNCHANGED picVars

(* A thread that was deleted before still looks stopped and is deleted     *)
(* again.                                                                  *)
RemoveAgain ==
  /\ phase = "switch"
  /\ thread \in deleted
  /\ heapBroken' = TRUE
  /\ GetNextReadyThread
  /\ UNCHANGED <<state, deleted>>
  /\ UNCHANGED kmainVars /\ UNCHANGED tickVars /\ UNCHANGED cpuVars /\ UNCHANGED picVars

(* Its memory has been used for something else in the meantime. *)
MeetReused ==
  /\ phase = "switch"
  /\ thread \in deleted
  /\ phase' = "wild"
  /\ UNCHANGED <<current, thread>> /\ UNCHANGED picVars
  /\ UNCHANGED kmainVars /\ UNCHANGED tickVars /\ UNCHANGED cpuVars /\ UNCHANGED threadVars

(* The handler returns into the thread it has found. *)
Dispatch ==
  /\ phase = "switch"
  /\ thread \notin deleted
  /\ state[thread] # "Stopped"
  /\ phase' = "run"
  /\ Finish(Timer)
  /\ cpu' = thread
  /\ work' = registers[thread]
  /\ cr3' = IF Directory[thread] # NoDirectory THEN Directory[thread] ELSE cr3
  /\ esp0' = StackTop[thread] % U16
  /\ waited' = [t \in Thread |->
       IF t = thread \/ t \notin Added THEN 0
       ELSE IF waited[t] < MaxWaited THEN waited[t] + 1 ELSE MaxWaited]
  /\ UNCHANGED <<current, thread>>
  /\ UNCHANGED kmainVars /\ UNCHANGED tickVars /\ UNCHANGED threadVars

Handler == RemoveStopped \/ RemoveAgain \/ MeetReused \/ Dispatch

Next ==
  \/ Register \/ InitMembers \/ ClearTicks \/ SetFrequency
  \/ \E t \in Thread : AddThread(t)
  \/ Copy \/ Release \/ Swap \/ Store
  \/ Work
  \/ \E t \in Thread : StopThread(t)
  \/ Tick
  \/ Handler
  \/ \E irq \in Irq : Request(irq) \/ Unhandled(irq)

(* The timer never stops ticking, and the processor takes interrupts and   *)
(* goes on inside the handler.  A line behind the timer gets its turn: the *)
(* timer is slower than its handler.  Nothing is assumed of kmain, the     *)
(* threads and the other devices.                                          *)
Fairness ==
  /\ WF_vars(Request(Timer)) /\ WF_vars(Tick) /\ WF_vars(Handler)
  /\ \A irq \in Irq : SF_vars(Unhandled(irq))

Spec == Init /\ [][Next]_vars /\ Fairness

-----------------------------------------------------------------------------
(* Properties. *)

(* Every variable keeps its type; the tick counter is a u32, and the       *)
(* current thread lies inside the vector whenever one is chosen.           *)
TypeOK ==
  /\ kmain \in KmainAt
  /\ adding \in Thread
  /\ size \in 0 .. Cardinality(Thread)
  /\ data \in [Slot -> Thread \cup {Garbage}]
  /\ released \in BOOLEAN
  /\ tickCount \in 0 .. U32 - 1
  /\ frequency \in {0, Frequency}
  /\ current \in -1 .. Cardinality(Thread) - 1
  /\ phase \in Phase
  /\ thread \in Thread \cup {Garbage}
  /\ phase = "switch" => thread # Garbage
  /\ cpu \in Thread \cup {Kmain}
  /\ work \in 0 .. MaxWork
  /\ registers \in [Thread -> 0 .. MaxWork]
  /\ state \in [Thread -> {"Ready", "Stopped"}]
  /\ deleted \subseteq Thread
  /\ heapBroken \in BOOLEAN
  /\ esp0 \in 0 .. U16 - 1
  /\ waited \in [Thread -> 0 .. MaxWaited]
  /\ raised \subseteq Irq /\ inService \subseteq Irq \cup {Cascade}

(* The round robin is fair: between two turns of a thread every other      *)
(* thread has at most one, also when stopped threads are skipped on the    *)
(* way and when kmain was interrupted before all threads were added.       *)
BoundedWait == \A t \in Added \ deleted : waited[t] < size

(* The only ways to a wild pointer are a tick inside pushBack and a thread *)
(* that was deleted: a tick before the members are constructed, or between *)
(* two calls of addThread, is harmless.                                    *)
WildExplained == phase = "wild" => kmain \in MidPush \/ deleted # {}

(* Threads are interrupted and resumed without noticing, and one loses its *)
(* processor for good only after it was stopped, wherever in pushBack the  *)
(* first switch leaves kmain.                                              *)
Cpus == INSTANCE VirtualCpus
  WITH progress <- [t \in Thread \ deleted |-> IF cpu = t THEN work ELSE registers[t]],
       stopped <- {t \in Thread : state[t] = "Stopped"}

ImplementsCpus == Cpus!Spec

(* Every thread in the vector runs again and again until it stops, unless  *)
(* the kernel follows a wild pointer or deletes a thread twice.            *)
EveryThreadRuns ==
  \A t \in Thread :
    t \in Added ~> (cpu = t \/ state[t] = "Stopped" \/ phase = "wild" \/ heapBroken)

(* The handler comes back from its search as long as there is a thread     *)
(* that was not stopped, also past threads it deletes for the second time. *)
HandlerReturns ==
  (phase = "switch" /\ \E t \in Added : state[t] # "Stopped") ~> phase # "switch"

(* No device is forgotten: a request is accepted in the end, whichever     *)
(* thread or interrupt comes before it, unless the kernel follows a wild   *)
(* pointer or has no thread left.                                          *)
Acknowledged ==
  \A irq \in Irq :
    irq \in raised ~>
      \/ irq \notin raised \/ phase = "wild"
      \/ Added # {} /\ \A t \in Added : state[t] = "Stopped"

(* Scheduler.cpp:39 logs "Removing thread %x from system": a thread that   *)
(* has been deleted is no longer in the vector.                            *)
RemovedStaysOut == deleted \cap Added = {}

=============================================================================
