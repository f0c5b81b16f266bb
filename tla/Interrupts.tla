----------------------------- MODULE Interrupts -----------------------------
(***************************************************************************)
(* The two interrupt controllers as InterruptManager sets them up, and the *)
(* part of doHandleInterrupt that tells them an interrupt is over.  The    *)
(* slave is behind line Cascade of the master.  A request that has been    *)
(* accepted is in service until then, and holds back those after it.       *)
(***************************************************************************)
EXTENDS Integers, FiniteSetsExt

CONSTANT Irq  \* the lines devices use

VARIABLES
  raised,    \* requests that were not accepted yet
  inService

picVars == <<raised, inService>>

Cascade == 2
Slave == 8 .. 15
Lines == 0 .. 15

ASSUME InterruptsAssumption == Irq \subseteq Lines \ {Cascade}

(* The constructor leaves every line unmasked. *)
InterruptsInit == raised = {} /\ inService = {}

(* The line of the master a request comes in by. *)
MasterLine(irq) == IF irq \in Slave THEN Cascade ELSE irq

Precedes(a, b) == MasterLine(a) < MasterLine(b) \/ (MasterLine(a) = MasterLine(b) /\ a < b)

HeldBack(irq) ==
  \/ \E s \in inService \ Slave : s <= MasterLine(irq)
  \/ irq \in Slave /\ \E s \in inService \cap Slave : s <= irq

Deliverable(irq) ==
  /\ irq \in raised /\ ~HeldBack(irq)
  /\ \A other \in raised : Precedes(other, irq) => HeldBack(other)

Raise(irq) ==
  /\ raised' = raised \cup {irq}
  /\ UNCHANGED inService

Accepted(irq) == inService \cup {MasterLine(irq), irq}

(* The end-of-interrupt command: the first line in service is done. *)
EndFirst(lines) == lines \ {line \in lines : \A other \in lines : line <= other}

(* HARDWARE_INTERRUPT_OFFSET, and the vector of a line. *)
Offset == 32
VectorOf(irq) == Offset + irq

(* Variant: the slave is not told. *)
EndOfInterruptMasterOnly(interrupt, service) ==
  IF Offset <= interrupt /\ interrupt < Offset + 16
  THEN EndFirst(service \ Slave) \cup (service \cap Slave)
  ELSE service

(* What stays in service after doHandleInterrupt(interrupt). *)
EndOfInterrupt(interrupt, service) ==
  LET master == service \ Slave
      slave == service \cap Slave
  IN IF interrupt < Offset \/ interrupt >= Offset + 16 THEN service
     ELSE EndFirst(master) \cup (IF Offset + 8 <= interrupt THEN EndFirst(slave) ELSE slave)

(* An interrupt without a handler: accepted, and over. *)
Ignore(irq) ==
  /\ Deliverable(irq)
  /\ raised' = raised \ {irq}
  /\ inService' = EndOfInterrupt(VectorOf(irq), Accepted(irq))

(* One with a handler starts; when that has returned it is over. *)
Accept(irq) ==
  /\ Deliverable(irq)
  /\ raised' = raised \ {irq}
  /\ inService' = Accepted(irq)

Finish(irq) ==
  /\ inService' = EndOfInterrupt(VectorOf(irq), inService)
  /\ UNCHANGED raised

=============================================================================
