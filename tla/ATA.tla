-------------------------------- MODULE ATA --------------------------------
(***************************************************************************)
(* The ATA driver and the two drives of its channel.  The driver moves     *)
(* bytes without looking at them, so a byte is named after where it lies:  *)
(* <<s, k>> is byte k of sector s.  Junk is whatever the data port or      *)
(* memory holds otherwise.                                                 *)
(*                                                                         *)
(* The drive is the environment: it answers a command some time later,     *)
(* reports an error instead, or shows that it is busy too late.            *)
(***************************************************************************)
EXTENDS Integers

CONSTANTS
  BytesPerSector,
  MaxLba,     \* 0x0FFFFFFF
  MaxFaults,  \* bound: how often a drive misbehaves
  Junk

VARIABLES
  present,   \* the drives that are connected
  drive,     \* the registers of the drive the last command went to
  pc,        \* where the driver is: see Pc
  request,   \* the arguments of the call
  index,     \* i, the local variable of both loops
  buffer,    \* the caller's buffer
  faults,    \* how often a drive misbehaved
  disturbed  \* history: it did so since the caller last cleared this

ataVars == <<present, drive, pc, request, index, buffer, faults, disturbed>>

Drives == {"master", "slave"}
Pc == {"idle", "poll", "copy", "drain", "done"}
Offset == 0 .. BytesPerSector - 1
Request == [drive : Drives, op : {"identify", "read", "refused"}, sector : Nat, count : 0 .. BytesPerSector]

ASSUME ATAAssumption ==
  /\ BytesPerSector \in Nat \ {0}
  /\ BytesPerSector % 2 = 0
  /\ {MaxLba, MaxFaults} \subseteq Nat

ATAInit ==
  /\ present \in {{"master"}, Drives}
  /\ drive = [status |-> "ready", next |-> BytesPerSector]
  /\ pc = "idle"
  /\ request = [drive |-> "master", op |-> "identify", sector |-> 0, count |-> 0]
  /\ index = 0
  /\ buffer = [k \in Offset |-> Junk]
  /\ faults = 0
  /\ disturbed = FALSE

-----------------------------------------------------------------------------
(* The driver. *)

(* What the status register reads as: zero if there is no drive. *)
Status == IF request.drive \in present THEN drive.status ELSE "none"

(* The registers are written, the command last.  A drive that is there     *)
(* becomes busy at once, or, a fault, only later; words of an earlier      *)
(* command that nobody fetched are gone.                                   *)
Command(r) ==
  /\ pc' = "poll"
  /\ request' = r
  /\ index' = 0
  /\ buffer' = [k \in Offset |-> Junk]
  /\ \/ /\ drive' = [status |-> "busy", next |-> BytesPerSector]
        /\ UNCHANGED <<faults, disturbed>>
     \/ /\ r.drive \in present
        /\ faults < MaxFaults
        /\ drive' = [status |-> "late", next |-> BytesPerSector]
        /\ faults' = faults + 1
        /\ disturbed' = TRUE
  /\ UNCHANGED present

Identify(d) ==
  /\ pc = "idle"
  /\ Command([drive |-> d, op |-> "identify", sector |-> 0, count |-> 0])

(* A sector or a count that is out of range is refused silently: the       *)
(* buffer stays as it is.                                                  *)
Refused(s, n) == s > MaxLba \/ n > BytesPerSector

Read28(d, s, n) ==
  /\ pc = "idle"
  /\ \/ /\ Refused(s, n)
        /\ pc' = "done"
        /\ request' = [drive |-> d, op |-> "refused", sector |-> s, count |-> 0]
        /\ buffer' = [k \in Offset |-> Junk]
        /\ UNCHANGED <<present, drive, index, faults, disturbed>>
     \/ /\ ~Refused(s, n)
        /\ Command([drive |-> d, op |-> "read", sector |-> s, count |-> n])

(* Variant: an error bit does not end the polling. *)
PolledForData == Status \in {"ready", "late", "none"}

(* The loop ends once the drive is not busy; an error is logged and the    *)
(* words are fetched all the same.                                         *)
Polled == Status # "busy"

Poll ==
  /\ pc = "poll"
  /\ Polled
  /\ pc' = IF request.op = "identify" /\ Status = "none" THEN "done" ELSE "copy"
  /\ UNCHANGED <<present, drive, request, index, buffer, faults, disturbed>>

(* One read of the data port. *)
HasWord == Status = "ready" /\ drive.next < BytesPerSector
Fetched(half) == IF HasWord THEN <<request.sector, drive.next + half>> ELSE Junk
FetchWord == drive' = [drive EXCEPT !.next = IF HasWord THEN @ + 2 ELSE @]

CopyWord ==
  /\ pc = "copy"
  /\ index < request.count
  /\ buffer' = [k \in Offset |->
       IF k = index THEN Fetched(0)
       ELSE IF k = index + 1 /\ index + 1 < request.count THEN Fetched(1)
       ELSE buffer[k]]
  /\ FetchWord
  /\ index' = index + 2
  /\ UNCHANGED <<present, pc, request, faults, disturbed>>

(* Variant: the rest of the sector stays in the drive. *)
DrainFromEnd == BytesPerSector

(* Where the second loop starts. *)
DrainFrom == request.count + (request.count % 2)

CopyEnds ==
  /\ pc = "copy"
  /\ index >= request.count
  /\ pc' = "drain"
  /\ index' = DrainFrom
  /\ UNCHANGED <<present, drive, request, buffer, faults, disturbed>>

DrainWord ==
  /\ pc = "drain"
  /\ index < BytesPerSector
  /\ FetchWord
  /\ index' = index + 2
  /\ UNCHANGED <<present, pc, request, buffer, faults, disturbed>>

DrainEnds ==
  /\ pc = "drain"
  /\ index >= BytesPerSector
  /\ pc' = "done"
  /\ UNCHANGED <<present, drive, request, index, buffer, faults, disturbed>>

Driver == Poll \/ CopyWord \/ CopyEnds \/ DrainWord \/ DrainEnds

-----------------------------------------------------------------------------
(* The drive. *)

Answer ==
  /\ request.drive \in present
  /\ \/ drive.status = "busy" /\ drive' = [status |-> "ready", next |-> 0]
     \/ drive.status = "late" /\ drive' = [drive EXCEPT !.status = "busy"]
  /\ UNCHANGED <<present, pc, request, index, buffer, faults, disturbed>>

Fail ==
  /\ request.drive \in present
  /\ drive.status = "busy"
  /\ faults < MaxFaults
  /\ drive' = [drive EXCEPT !.status = "error"]
  /\ faults' = faults + 1
  /\ disturbed' = TRUE
  /\ UNCHANGED <<present, pc, request, index, buffer>>

-----------------------------------------------------------------------------
(* Properties. *)

(* Every variable keeps its type: both loops together take no more than    *)
(* one sector from the data port.                                          *)
ATATypeOK ==
  /\ present \in SUBSET Drives
  /\ drive \in [status : {"ready", "late", "busy", "error"}, next : 0 .. BytesPerSector]
  /\ pc \in Pc
  /\ request \in Request
  /\ index \in 0 .. BytesPerSector
  /\ \A k \in Offset : buffer[k] # Junk => buffer[k] \in {<<request.sector, j>> : j \in Offset}
  /\ faults \in 0 .. MaxFaults
  /\ disturbed \in BOOLEAN

(* A sector that was asked for: the bytes that were read, and no others. *)
Delivered == \A k \in Offset :
  buffer[k] = IF k < request.count THEN <<request.sector, k>> ELSE Junk

(* The drive's words end up in the buffer at their places, an odd number   *)
(* of bytes included, and none is left in the drive to be taken for the    *)
(* start of the next sector (ATA.cpp:77-89), also after an earlier call    *)
(* that a fault left in the middle of a sector.                            *)
SectorDelivered ==
  /\ pc = "done" /\ request.op = "read"
  /\ request.drive \in present /\ ~disturbed
  => Delivered /\ drive.next = BytesPerSector

=============================================================================
