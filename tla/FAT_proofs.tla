----------------------------- MODULE FAT_proofs -----------------------------
(***************************************************************************)
(* The storage stack, from the data port to the caller of readFile.        *)
(*                                                                         *)
(* First the driver under any caller: identify and read28 are called in    *)
(* any order with any arguments, one call at a time.  Then the kernel as   *)
(* its caller: what it asks the driver for, the types, and the walk along  *)
(* a path and the copying of a file against what the disk says.            *)
(***************************************************************************)
EXTENDS FAT, DataInduction, FiniteSetTheorems, SequenceTheorems, TLAPS

(* The call returns; before the next one the caller may forget what        *)
(* disturbed the last.                                                     *)
CallReturns ==
  /\ pc = "done" /\ pc' = "idle"
  /\ UNCHANGED <<present, drive, request, index, buffer, faults, disturbed>>

Forget ==
  /\ pc = "idle" /\ disturbed' = FALSE
  /\ UNCHANGED <<present, drive, pc, request, index, buffer, faults>>

ATANext ==
  \/ \E d \in Drives : Identify(d)
  \/ \E d \in Drives, s, n \in Nat : Read28(d, s, n)
  \/ Driver \/ Answer \/ Fail
  \/ CallReturns \/ Forget

ATASpec == ATAInit /\ [][ATANext]_ataVars

(* The words that were fetched are those in front of the index. *)
Copied == \A k \in Offset :
  buffer[k] = IF k < index /\ k < request.count THEN <<request.sector, k>> ELSE Junk

(* How far a read that nothing disturbed is.  The drive is at the word the *)
(* driver fetches next.                                                    *)
ReadInv ==
  pc # "idle" /\ request.op = "read" /\ request.drive \in present /\ ~disturbed =>
    /\ drive.status \in {"busy", "ready"}
    /\ drive.status = "busy" => pc = "poll"
    /\ pc \in {"poll", "copy"} => Copied
    /\ pc = "poll" => index = 0 /\ drive.next = IF drive.status = "ready" THEN 0 ELSE BytesPerSector
    /\ pc \in {"copy", "drain"} => drive.next = index
    /\ pc \in {"drain", "done"} => Delivered
    /\ pc = "done" => drive.next = BytesPerSector

(* Words have two bytes. *)
EvenInv ==
  /\ index % 2 = 0 /\ drive.next % 2 = 0
  /\ pc = "poll" => index = 0
  /\ pc = "copy" => index <= request.count + 1

DriverInv == ATATypeOK /\ ReadInv /\ EvenInv

DriverConstants ==
  /\ BytesPerSector \in Nat \ {0} /\ BytesPerSector % 2 = 0
  /\ MaxLba \in Nat /\ MaxFaults \in Nat

-----------------------------------------------------------------------------
LEMMA DriverSizes == DriverConstants
BY ATAAssumption DEF DriverConstants

LEMMA DriverInit == ATAInit => DriverInv
<1> SUFFICES ASSUME ATAInit PROVE DriverInv
  OBVIOUS
<1> USE DriverSizes DEF DriverConstants
<1>1. ATATypeOK
  <2>1. present \in SUBSET Drives /\ pc \in Pc
    BY DEF ATAInit, Drives, Pc
  <2>2. request \in Request
    BY DEF ATAInit, Request, Drives
  <2>3. drive \in [status : {"ready", "late", "busy", "error"}, next : 0 .. BytesPerSector]
    BY DEF ATAInit
  <2>4. \A k \in Offset : buffer[k] = Junk
    BY DEF ATAInit
  <2>5. index \in 0 .. BytesPerSector /\ faults \in 0 .. MaxFaults /\ disturbed \in BOOLEAN
    <3>1. index = 0 /\ faults = 0
      BY DEF ATAInit
    <3>2. disturbed \in BOOLEAN
      BY Zenon DEF ATAInit
    <3> QED
      BY <3>1, <3>2
  <2> QED
    BY <2>1, <2>2, <2>3, <2>4, <2>5 DEF ATATypeOK
<1>2. ReadInv /\ EvenInv
  BY DEF ATAInit, ReadInv, EvenInv
<1> QED
  BY <1>1, <1>2 DEF DriverInv

(* A command sets the drive up for one sector, whatever was left in it. *)
LEMMA CommandKeeps ==
  ASSUME DriverInv, NEW r \in Request, r.op # "refused", Command(r)
  PROVE  DriverInv'
<1> USE DriverSizes DEF DriverConstants
<1>1. /\ pc' = "poll" /\ request' = r /\ index' = 0 /\ present' = present
      /\ buffer' = [k \in Offset |-> Junk]
      /\ drive'.next = BytesPerSector
      /\ drive' \in [status : {"ready", "late", "busy", "error"}, next : 0 .. BytesPerSector]
  BY DEF Command
<1>2. /\ faults' \in 0 .. MaxFaults /\ disturbed' \in BOOLEAN
      /\ ~disturbed' => drive'.status = "busy"
  <2>1. faults \in 0 .. MaxFaults /\ disturbed \in BOOLEAN
    BY DEF DriverInv, ATATypeOK
  <2>2. CASE drive' = [status |-> "busy", next |-> BytesPerSector] /\ UNCHANGED <<faults, disturbed>>
    BY <2>1, <2>2
  <2>3. CASE faults < MaxFaults /\ faults' = faults + 1 /\ disturbed' = TRUE
    BY <2>1, <2>3
  <2> QED
    BY <2>2, <2>3 DEF Command
<1>3. ATATypeOK'
  BY <1>1, <1>2 DEF DriverInv, ATATypeOK, Pc
<1>4. EvenInv'
  BY <1>1 DEF EvenInv
<1>5. Copied'
  BY <1>1 DEF Copied, Offset
<1>6. ReadInv'
  BY <1>1, <1>2, <1>5 DEF ReadInv
<1> QED
  BY <1>3, <1>4, <1>6 DEF DriverInv

LEMMA CallKeeps ==
  ASSUME DriverInv, NEW d \in Drives, NEW s \in Nat, NEW n \in Nat, Read28(d, s, n) \/ Identify(d)
  PROVE  DriverInv'
<1> USE DriverSizes DEF DriverConstants
<1>1. CASE Identify(d)
  <2>1. [drive |-> d, op |-> "identify", sector |-> 0, count |-> 0] \in Request
    BY DEF Request
  <2> QED
    BY <1>1, <2>1, CommandKeeps DEF Identify
<1>2. CASE ~Refused(s, n) /\ Command([drive |-> d, op |-> "read", sector |-> s, count |-> n])
  <2>1. [drive |-> d, op |-> "read", sector |-> s, count |-> n] \in Request
    BY <1>2 DEF Request, Refused
  <2> QED
    BY <1>2, <2>1, CommandKeeps
<1>3. CASE /\ pc' = "done"
           /\ request' = [drive |-> d, op |-> "refused", sector |-> s, count |-> 0]
           /\ buffer' = [k \in Offset |-> Junk]
           /\ UNCHANGED <<present, drive, index, faults, disturbed>>
  <2>1. request' \in Request /\ request'.op = "refused"
    BY <1>3 DEF Request
  <2> QED
    BY <1>3, <2>1 DEF DriverInv, ATATypeOK, ReadInv, EvenInv, Pc
<1> QED
  BY <1>1, <1>2, <1>3 DEF Read28

(* Fetching a word advances a drive that has one. *)
LEMMA FetchFacts ==
  ASSUME DriverInv, FetchWord, index < BytesPerSector
  PROVE  /\ drive' \in [status : {"ready", "late", "busy", "error"}, next : 0 .. BytesPerSector]
         /\ drive'.status = drive.status /\ drive'.next % 2 = 0
         /\ HasWord => drive'.next = drive.next + 2
         /\ index + 2 \in 0 .. BytesPerSector /\ (index + 2) % 2 = 0
<1> USE DriverSizes DEF DriverConstants
<1>1. /\ drive \in [status : {"ready", "late", "busy", "error"}, next : 0 .. BytesPerSector]
      /\ drive.next % 2 = 0 /\ index \in 0 .. BytesPerSector /\ index % 2 = 0
  BY DEF DriverInv, ATATypeOK, EvenInv
<1>2. HasWord => drive.next + 2 \in 0 .. BytesPerSector /\ (drive.next + 2) % 2 = 0
  BY <1>1 DEF HasWord
<1>3. drive' = [drive EXCEPT !.next = IF HasWord THEN drive.next + 2 ELSE drive.next]
  BY DEF FetchWord
<1> QED
  BY <1>1, <1>2, <1>3

LEMMA CopyKeeps == DriverInv /\ CopyWord => DriverInv'
<1> SUFFICES ASSUME DriverInv, CopyWord PROVE DriverInv'
  OBVIOUS
<1> USE DriverSizes DEF DriverConstants
<1>1. /\ pc = "copy" /\ index < request.count /\ FetchWord /\ index' = index + 2
      /\ buffer' = [k \in Offset |->
           IF k = index THEN Fetched(0)
           ELSE IF k = index + 1 /\ index + 1 < request.count THEN Fetched(1)
           ELSE buffer[k]]
      /\ UNCHANGED <<present, pc, request, faults, disturbed>>
  BY DEF CopyWord
<1>2. request \in Request /\ request.count \in 0 .. BytesPerSector
      /\ index \in 0 .. BytesPerSector /\ index % 2 = 0 /\ drive.next \in 0 .. BytesPerSector
      /\ drive.next % 2 = 0
  BY DEF DriverInv, ATATypeOK, Request, EvenInv
<1>3. /\ drive' \in [status : {"ready", "late", "busy", "error"}, next : 0 .. BytesPerSector]
      /\ drive'.status = drive.status /\ drive'.next % 2 = 0
      /\ HasWord => drive'.next = drive.next + 2
      /\ index' \in 0 .. BytesPerSector /\ index' % 2 = 0
  BY <1>1, <1>2, FetchFacts
<1>4. ATATypeOK'
  <2>1. HasWord => drive.next \in Offset /\ drive.next + 1 \in Offset
    BY <1>2 DEF HasWord, Offset
  <2>2. ASSUME NEW half \in {0, 1}
        PROVE  Fetched(half) # Junk => Fetched(half) \in {<<request.sector, j>> : j \in Offset}
    BY <1>2, <2>1 DEF Fetched
  <2>3. \A k \in Offset : buffer'[k] # Junk => buffer'[k] \in {<<request.sector, j>> : j \in Offset}
    BY <1>1, <2>2 DEF DriverInv, ATATypeOK
  <2> QED
    BY <1>1, <1>3, <2>3 DEF DriverInv, ATATypeOK
<1>5. EvenInv'
  BY <1>1, <1>2, <1>3 DEF DriverInv, EvenInv
<1>6. ReadInv'
  <2> SUFFICES ASSUME request.op = "read", request.drive \in present, ~disturbed
               PROVE  drive.status = "ready" /\ Copied' /\ drive'.next = index'
    BY <1>1, <1>3 DEF ReadInv
  <2>1. drive.status = "ready" /\ drive.next = index /\ Copied
    BY <1>1 DEF DriverInv, ReadInv
  <2>2. HasWord
    BY <1>1, <1>2, <2>1 DEF HasWord, Status
  <2>3. Fetched(0) = <<request.sector, index>> /\ Fetched(1) = <<request.sector, index + 1>>
    BY <1>2, <2>1, <2>2 DEF Fetched
  <2>4. Copied'
    BY <1>1, <1>2, <2>1, <2>3 DEF Copied, Offset
  <2> QED
    BY <1>1, <1>3, <2>1, <2>2, <2>4
<1> QED
  BY <1>4, <1>5, <1>6 DEF DriverInv

LEMMA DriverKeeps == DriverInv /\ Driver => DriverInv'
<1> SUFFICES ASSUME DriverInv, Driver PROVE DriverInv'
  OBVIOUS
<1> USE DriverSizes DEF DriverConstants
<1>1. /\ request \in Request /\ request.count \in 0 .. BytesPerSector
      /\ index \in 0 .. BytesPerSector /\ index % 2 = 0
  BY DEF DriverInv, ATATypeOK, Request, EvenInv
<1>2. CASE Poll
  <2>1. /\ pc = "poll" /\ Polled /\ pc' \in {"done", "copy"}
        /\ pc' = "done" => request.op = "identify"
        /\ UNCHANGED <<present, drive, request, index, buffer, faults, disturbed>>
    BY <1>2 DEF Poll
  <2>2. ATATypeOK'
    BY <2>1 DEF DriverInv, ATATypeOK, Pc
  <2>3. ReadInv'
    BY <2>1 DEF DriverInv, ReadInv, Polled, Status, Copied
  <2>4. EvenInv'
    BY <1>1, <2>1 DEF DriverInv, EvenInv
  <2> QED
    BY <2>2, <2>3, <2>4 DEF DriverInv
<1>3. CASE CopyEnds
  <2>1. /\ pc = "copy" /\ index >= request.count /\ pc' = "drain" /\ index' = DrainFrom
        /\ UNCHANGED <<present, drive, request, buffer, faults, disturbed>>
    BY <1>3 DEF CopyEnds
  <2>2. DrainFrom \in 0 .. BytesPerSector /\ DrainFrom % 2 = 0 /\ DrainFrom = index
    BY <1>1, <2>1 DEF DrainFrom, DriverInv, EvenInv
  <2>3. ATATypeOK' /\ EvenInv'
    BY <2>1, <2>2 DEF DriverInv, ATATypeOK, EvenInv, Pc
  <2>4. Copied => Delivered
    BY <1>1, <2>1 DEF Copied, Delivered, Offset
  <2>5. Delivered => Delivered'
    BY <2>1 DEF Delivered
  <2>6. ReadInv'
    BY <2>1, <2>2, <2>4, <2>5 DEF DriverInv, ReadInv
  <2> QED
    BY <2>3, <2>6 DEF DriverInv
<1>4. CASE DrainWord
  <2>1. /\ pc = "drain" /\ index < BytesPerSector /\ FetchWord /\ index' = index + 2
        /\ UNCHANGED <<present, pc, request, buffer, faults, disturbed>>
    BY <1>4 DEF DrainWord
  <2>2. /\ drive' \in [status : {"ready", "late", "busy", "error"}, next : 0 .. BytesPerSector]
        /\ drive'.status = drive.status /\ drive'.next % 2 = 0
        /\ HasWord => drive'.next = drive.next + 2
        /\ index' \in 0 .. BytesPerSector /\ index' % 2 = 0
    BY <2>1, FetchFacts
  <2>3. ATATypeOK' /\ EvenInv'
    BY <2>1, <2>2 DEF DriverInv, ATATypeOK, EvenInv
  <2>4. Delivered' <=> Delivered
    BY <2>1 DEF Delivered
  <2>5. ReadInv'
    <3> SUFFICES ASSUME request.op = "read", request.drive \in present, ~disturbed
                 PROVE  drive.status = "ready" /\ Delivered /\ drive'.next = index'
      BY <2>1, <2>2, <2>4 DEF ReadInv
    <3>1. drive.status = "ready" /\ drive.next = index /\ Delivered
      BY <2>1 DEF DriverInv, ReadInv, ATATypeOK
    <3>2. HasWord
      BY <2>1, <3>1 DEF HasWord, Status
    <3> QED
      BY <2>1, <2>2, <3>1, <3>2
  <2> QED
    BY <2>3, <2>5 DEF DriverInv
<1>5. CASE DrainEnds
  <2>1. /\ pc = "drain" /\ index >= BytesPerSector /\ pc' = "done"
        /\ UNCHANGED <<present, drive, request, index, buffer, faults, disturbed>>
    BY <1>5 DEF DrainEnds
  <2>2. index = BytesPerSector
    BY <1>1, <2>1
  <2>3. Delivered' <=> Delivered
    BY <2>1 DEF Delivered
  <2> QED
    BY <2>1, <2>2, <2>3 DEF DriverInv, ATATypeOK, ReadInv, EvenInv, Pc
<1> QED
  BY <1>2, <1>3, <1>4, <1>5, CopyKeeps DEF Driver

(* The drive answers or fails; both happen while it is busy, or too late.  *)
LEMMA DriveKeeps == DriverInv /\ (Answer \/ Fail) => DriverInv'
<1> SUFFICES ASSUME DriverInv, Answer \/ Fail PROVE DriverInv'
  OBVIOUS
<1> USE DriverSizes DEF DriverConstants
<1>1. /\ UNCHANGED <<present, pc, request, index, buffer>>
      /\ drive' \in [status : {"ready", "late", "busy", "error"}, next : 0 .. BytesPerSector]
      /\ drive'.next % 2 = 0
      /\ faults' \in 0 .. MaxFaults /\ disturbed' \in BOOLEAN
      /\ ~disturbed' => ~disturbed
  <2>1. /\ drive \in [status : {"ready", "late", "busy", "error"}, next : 0 .. BytesPerSector]
        /\ drive.next % 2 = 0 /\ faults \in 0 .. MaxFaults /\ disturbed \in BOOLEAN
    BY DEF DriverInv, ATATypeOK, EvenInv
  <2>2. CASE Answer
    <3>1. /\ UNCHANGED <<present, pc, request, index, buffer, faults, disturbed>>
          /\ \/ drive' = [status |-> "ready", next |-> 0]
             \/ drive' = [drive EXCEPT !.status = "busy"]
      BY <2>2 DEF Answer
    <3> QED
      BY <2>1, <3>1
  <2>3. CASE Fail
    <3>1. /\ UNCHANGED <<present, pc, request, index, buffer>>
          /\ drive' = [drive EXCEPT !.status = "error"]
          /\ faults < MaxFaults /\ faults' = faults + 1 /\ disturbed' = TRUE
      BY <2>3 DEF Fail
    <3> QED
      BY <2>1, <3>1
  <2> QED
    BY <2>2, <2>3
<1>2. ATATypeOK' /\ EvenInv'
  BY <1>1 DEF DriverInv, ATATypeOK, EvenInv
<1>3. (Copied' <=> Copied) /\ (Delivered' <=> Delivered)
  BY <1>1 DEF Copied, Delivered
<1>4. ReadInv'
  BY <1>1, <1>3 DEF DriverInv, ReadInv, Answer, Fail
<1> QED
  BY <1>2, <1>4 DEF DriverInv

LEMMA DriverNextKeeps == DriverInv /\ [ATANext]_ataVars => DriverInv'
<1> SUFFICES ASSUME DriverInv, [ATANext]_ataVars PROVE DriverInv'
  OBVIOUS
<1>1. CASE CallReturns \/ Forget
  BY <1>1 DEF CallReturns, Forget, DriverInv, ATATypeOK, ReadInv, EvenInv, Pc
<1>2. CASE UNCHANGED ataVars
  BY <1>2 DEF ataVars, DriverInv, ATATypeOK, ReadInv, EvenInv, Copied, Delivered
<1>3. ASSUME NEW d \in Drives, Identify(d) PROVE DriverInv'
  <2>1. 0 \in Nat
    OBVIOUS
  <2> QED
    BY <1>3, <2>1, CallKeeps
<1> QED
  BY <1>1, <1>2, <1>3, CallKeeps, DriverKeeps, DriveKeeps DEF ATANext

-----------------------------------------------------------------------------
(* Whatever faults left behind in the drive, the words of a read end up at *)
(* their places and none stays in the drive for the next one               *)
(* (ATA.cpp:48-90).                                                        *)
THEOREM SectorsArrive == ATASpec => []SectorDelivered
<1>1. DriverInv => SectorDelivered
  BY DEF DriverInv, ReadInv, SectorDelivered
<1> QED
  BY <1>1, DriverInit, DriverNextKeeps, PTL DEF ATASpec

(* Every variable of the driver keeps its type: neither loop leaves the    *)
(* sector (ATA.cpp:77-89).                                                 *)
THEOREM DriverTypes == ATASpec => []ATATypeOK
<1>1. DriverInv => ATATypeOK
  BY DEF DriverInv
<1> QED
  BY <1>1, DriverInit, DriverNextKeeps, PTL DEF ATASpec

-----------------------------------------------------------------------------
(* Types. *)

Booting == {"off", "identified", "partitions", "mounting"}
KeptEntry == {e \in DirectoryEntryFat : Kept(e)}

CallTypes ==
  /\ phase \in Phase /\ clean \in BOOLEAN
  /\ call.op # "none" => call \in Calls
  /\ phase \notin Booting \cup {"idle"} => call \in Calls
  /\ phase \in Booting => call.op = "none" /\ entry = NoEntry /\ i = 0

VolumeTypes == partitionOffset \in Word /\ bpb \in {s.bpb : s \in Views}

(* The loops stay inside the cluster. *)
WalkTypes ==
  /\ parts \in Seq(Name) /\ cluster \in Word /\ first \in Word
  /\ i \in 0 .. bpb.sectorsPerCluster
  /\ phase \in {"list", "copy"} => i < bpb.sectorsPerCluster
  /\ results \in Seq(KeptEntry) /\ entry \in DirectoryEntryFat \cup {NoEntry}

Bound == IF call.size >= 0 THEN call.size ELSE entry.size

CopyTypes ==
  /\ fileSize \in Word /\ out \in Seq(Nat)
  /\ terminator \in {-1} \cup Word /\ reply \in {-1} \cup Word
  /\ phase \notin {"copy", "copyNext", "idle"} => fileSize = 0
  /\ bpb = Bpb /\ entry # NoEntry => fileSize <= Bound

(* What the driver was asked for, and that it is at rest otherwise. *)
Asked(s, n) ==
  pc # "idle" =>
    /\ request.drive = Disk /\ request.sector = s
    /\ request.op \in {"read", "refused"}
    /\ request.op = "read" => request.count = n
    /\ request.op = "refused" => Refused(s, n)

RequestInv ==
  /\ phase = "partitions" => Asked(0, BytesPerSector)
  /\ phase = "mounting" => Asked(partitionOffset, BpbSize)
  /\ phase = "list" => Asked((ClusterToLBA(first) + i) % U32, bpb.bytesPerSector)
  /\ phase \in {"next", "copyNext"} => Asked(NextSector(cluster), BytesPerSector)
  /\ phase = "copy" => Asked((ClusterToLBA(cluster) + i) % U32, Chunk)
  /\ phase \in {"idle", "walk", "listed", "found", "wild"} => pc = "idle"

FATTypes == CallTypes /\ VolumeTypes /\ WalkTypes /\ CopyTypes
FATInv == DriverInv /\ FATTypes /\ RequestInv

-----------------------------------------------------------------------------
(* The constants and the operators on them. *)

LEMMA Widths ==
  /\ U32 \in Nat /\ U32 > 2 /\ EntrySize \in Nat \ {0} /\ NextsPerSector \in Nat \ {0}
  /\ ClusterEnd \in Nat /\ BytesPerSector \in Nat \ {0} /\ BpbSize \in 0 .. BytesPerSector
  /\ Volume \in Nat /\ MaxLba \in Nat /\ MaxLba < U32 /\ ClusterEnd <= U32
  /\ LinkValues \in Nat \ {0} /\ LinkValues <= U32
<1>1. /\ {EntrySize, NextsPerSector, ClusterEnd, U32, LinkValues} \subseteq Nat \ {0}
      /\ LinkValues <= U32
      /\ BpbSize \in 0 .. BytesPerSector /\ Volume \in Nat
  BY FATAssumption
<1>2. Bpb.rootCluster \in Clusters /\ ClusterEnd <= LinkValues /\ MaxLba < U32
      /\ NextsPerSector * Bpb.fatSize <= ClusterEnd
  BY VolumeAssumption
<1>3. Blank \in View /\ Sector[Volume] \in Views /\ Sector[Volume] \in View
  BY FATAssumption DEF Views
<1>4. Bpb \in BiosParameterBlock
  BY <1>3, FATAssumption DEF View
<1>5. Bpb.fatSize \in Nat /\ NextsPerSector \in Nat
  BY <1>1, <1>4 DEF BiosParameterBlock
<1> DEFINE m == NextsPerSector * Bpb.fatSize
<1>6. m \in Nat
  BY <1>5
<1>7. Bpb.rootCluster \in 2 .. m - 1 /\ m <= ClusterEnd
  BY <1>2 DEF Clusters
<1> HIDE DEF m
<1>8. U32 > 2
  BY <1>1, <1>2, <1>6, <1>7
<1> QED
  BY <1>1, <1>2, <1>8, DriverSizes DEF DriverConstants

LEMMA ViewFields ==
  ASSUME NEW s \in Views
  PROVE  /\ s \in View /\ s.startLba \in Word /\ s.bpb \in BiosParameterBlock
         /\ s.nexts \in [1 .. NextsPerSector -> Word]
         /\ s.entries \in Seq(DirectoryEntryFat) /\ s.data \in Seq(Nat)
         /\ Len(s.data) = BytesPerSector
         /\ Len(s.entries) >= EntriesPer(BytesPerSector)
         /\ s \in Garbage => \A t \in Views : Len(s.entries) >= EntriesPer(t.bpb.bytesPerSector)
<1>1. s \in View
  BY FATAssumption
<1> QED
  BY <1>1, FATAssumption DEF View

LEMMA BpbIsOne == Bpb \in {s.bpb : s \in Views} /\ Bpb \in BiosParameterBlock /\ Volume \in Word
<1>1. Sector[Volume] \in Views /\ Sector[Volume].bpb = Bpb /\ Sector[0] \in Views
      /\ Sector[0].startLba = Volume
  BY FATAssumption DEF Views
<1> QED
  BY <1>1, ViewFields

LEMMA AtView ==
  ASSUME NEW s
  PROVE  At(s) \in Views
BY FATAssumption DEF At, Views

(* Whatever a read returns is a view of some sector or of garbage. *)
LEMMA SeenViews == Seen \subseteq Views
BY AtView DEF Seen, At, Views

LEMMA SizesOf ==
  ASSUME NEW b \in {s.bpb : s \in Views}
  PROVE  /\ b.bytesPerSector \in Nat /\ b.sectorsPerCluster \in Nat /\ b.reservedSectors \in Nat
         /\ b.fatCopies \in Nat /\ b.fatSize \in Nat /\ b.rootDirectoryEntries \in Nat
         /\ b.rootCluster \in Word
<1>1. b \in BiosParameterBlock
  BY ViewFields
<1> QED
  BY <1>1 DEF BiosParameterBlock

LEMMA EntriesPerType ==
  ASSUME NEW n \in Nat
  PROVE  EntriesPer(n) \in Nat
BY Widths DEF EntriesPer

LEMMA ModWord ==
  ASSUME NEW n \in Int
  PROVE  n % U32 \in Word
BY Widths DEF Word

LEMMA WordFacts ==
  /\ Word \subseteq Nat
  /\ {0, 1} \subseteq Word
BY Widths DEF Word

(* The entries that are kept, one by one. *)
LEMMA CollectedType ==
  ASSUME NEW es \in Seq(DirectoryEntryFat)
  PROVE  Collected(es) \in Seq(KeptEntry)
<1> DEFINE W == Seq(KeptEntry)
           ss == [k \in DOMAIN es |-> IF k \in BeforeEnd(es) /\ Kept(es[k]) THEN <<es[k]>> ELSE <<>>]
<1>1. <<>> \in W /\ \A s, t \in W : s \o t \in W
  BY ConcatType
<1>2. ASSUME NEW k \in 1 .. Len(es)
      PROVE  (IF k \in BeforeEnd(es) /\ Kept(es[k]) THEN <<es[k]>> ELSE <<>>) \in W
  <2>1. es[k] \in DirectoryEntryFat
    OBVIOUS
  <2>2. CASE k \in BeforeEnd(es) /\ Kept(es[k])
    <3>1. es[k] \in KeptEntry
      BY <2>1, <2>2 DEF KeptEntry
    <3>2. <<es[k]>> \in Seq(KeptEntry)
      BY <3>1
    <3> QED
      BY <2>2, <3>2
  <2>3. CASE ~(k \in BeforeEnd(es) /\ Kept(es[k]))
    BY <2>3
  <2> QED
    BY <2>2, <2>3
<1>3. ss \in Seq(W)
  <2>1. DOMAIN es = 1 .. Len(es) /\ Len(es) \in Nat
    OBVIOUS
  <2>2. ss \in [1 .. Len(es) -> W]
    BY <1>2, <2>1
  <2> HIDE DEF ss, W
  <2> QED
    BY <2>1, <2>2
<1>4. FlattenSeq(ss) \in W
  <2> HIDE DEF ss, W
  <2> QED
    BY <1>1, <1>3, FlattenSeqClosed
<1> QED
  BY <1>4 DEF Collected

-----------------------------------------------------------------------------
(* What the driver sees of a step. *)

LEMMA ReadArguments ==
  ASSUME FATTypes
  PROVE  /\ partitionOffset \in Nat /\ bpb.bytesPerSector \in Nat /\ Chunk \in Nat
         /\ (ClusterToLBA(first) + i) % U32 \in Nat /\ (ClusterToLBA(cluster) + i) % U32 \in Nat
         /\ NextSector(cluster) \in Nat
<1> USE Widths, WordFacts
<1>1. /\ partitionOffset \in Nat /\ first \in Nat /\ cluster \in Nat /\ i \in Int /\ fileSize \in Nat
      /\ bpb.bytesPerSector \in Nat /\ bpb.sectorsPerCluster \in Nat /\ bpb.reservedSectors \in Nat
      /\ bpb.fatCopies \in Nat /\ bpb.fatSize \in Nat /\ bpb.rootDirectoryEntries \in Nat
  <2>1. bpb.sectorsPerCluster \in Nat
    BY SizesOf DEF FATTypes, VolumeTypes
  <2> QED
    BY SMTT(20), <2>1, SizesOf DEF FATTypes, VolumeTypes, WalkTypes, CopyTypes
<1>2. DataStart \in Int
  <2>1. bpb.fatSize * bpb.fatCopies \in Int
    BY <1>1
  <2> QED
    BY <1>1, <2>1 DEF DataStart
<1>3. ASSUME NEW c \in Nat
      PROVE  ClusterToLBA(c) \in Nat
  <2>1. c * bpb.sectorsPerCluster \in Int /\ 2 * bpb.sectorsPerCluster \in Int
    BY <1>1
  <2>2. DataStart + c * bpb.sectorsPerCluster - 2 * bpb.sectorsPerCluster \in Int
    BY <1>2, <2>1
  <2> QED
    BY <2>2, ModWord DEF ClusterToLBA
<1>4. ASSUME NEW c \in Nat
      PROVE  (ClusterToLBA(c) + i) % U32 \in Nat
  <2>1. ClusterToLBA(c) + i \in Int
    BY <1>1, <1>3
  <2> QED
    BY <2>1, ModWord
<1>5. NextSector(cluster) \in Nat
  <2>1. cluster \div NextsPerSector \in Int
    BY <1>1
  <2>2. partitionOffset + bpb.reservedSectors + (cluster \div NextsPerSector) \in Int
    BY <1>1, <2>1
  <2> QED
    BY <2>2, ModWord DEF NextSector
<1>6. Chunk \in Nat
  BY <1>1 DEF Chunk
<1> QED
  BY <1>1, <1>4, <1>5, <1>6

LEMMA ReadsCalls ==
  ASSUME NEW at, NEW s \in Nat, NEW n \in Nat, Reads(at, s, n)
  PROVE  ATANext
BY DEF Reads, ATANext, Drives, Disk

LEMMA ReturnsCalls ==
  ASSUME NEW from, NEW to, Returns(from, to)
  PROVE  ATANext
BY DEF Returns, ATANext, CallReturns

LEMMA GoesStutters ==
  ASSUME NEW from, NEW to, Goes(from, to)
  PROVE  UNCHANGED ataVars
BY DEF Goes

(* A step of the storage stack is a step the driver may meet. *)
LEMMA StepCalls ==
  ASSUME FATTypes, [Next]_vars
  PROVE  [ATANext]_ataVars
<1> USE ReadArguments
<1>1. CASE UNCHANGED vars
  BY <1>1 DEF vars
<1>2. CASE Boot
  <2>1. CASE IdentifyMaster
    BY <2>1 DEF IdentifyMaster, ATANext, Drives
  <2>2. CASE IdentifySlave
    BY <2>2 DEF IdentifySlave, ATANext, Drives
  <2>3. CASE ReadPartitions
    <3>1. 0 \in Nat /\ BytesPerSector \in Nat
      BY Widths
    <3> QED
      BY <2>3, <3>1, ReadsCalls DEF ReadPartitions
  <2>4. CASE ReadBpb
    <3>1. BpbSize \in Nat
      BY Widths
    <3> QED
      BY <2>4, <3>1, ReadsCalls DEF ReadBpb
  <2>5. CASE MasterIdentified \/ SlaveIdentified \/ PartitionsRead \/ Mounted
    BY <2>5, ReturnsCalls DEF MasterIdentified, SlaveIdentified, PartitionsRead, Mounted
  <2> QED
    BY <1>2, <2>1, <2>2, <2>3, <2>4, <2>5 DEF Boot
<1>3. CASE Lookup
  <2>1. CASE ReadEntries \/ ReadNext
    <3>1. BytesPerSector \in Nat
      BY Widths
    <3> QED
      BY <2>1, <3>1, ReadsCalls DEF ReadEntries, ReadNext
  <2>2. CASE EntriesRead \/ NextRead
    BY <2>2, ReturnsCalls DEF EntriesRead, NextRead
  <2>3. CASE WalkRoot \/ GetEntries \/ EnterDirectory \/ GetEntry \/ Wild
    BY <2>3, GoesStutters DEF WalkRoot, GetEntries, EnterDirectory, GetEntry, Wild
  <2> QED
    BY <1>3, <2>1, <2>2, <2>3 DEF Lookup
<1>4. CASE Return
  BY <1>4, GoesStutters DEF Return
<1>5. CASE Copy
  <2>1. CASE ReadData \/ ReadFileNext
    <3>1. BytesPerSector \in Nat
      BY Widths
    <3> QED
      BY <2>1, <3>1, ReadsCalls DEF ReadData, ReadFileNext
  <2>2. CASE DataRead \/ FileNextRead
    BY <2>2, ReturnsCalls DEF DataRead, FileNextRead
  <2>3. CASE ReadFile
    BY <2>3, GoesStutters DEF ReadFile
  <2> QED
    BY <1>5, <2>1, <2>2, <2>3 DEF Copy
<1>6. CASE (Driver \/ Answer \/ Fail) /\ UNCHANGED fatVars
  BY <1>6 DEF ATANext
<1>7. ASSUME NEW c \in Calls, Call(c)
      PROVE  ATANext
  <2>1. Forget
    BY <1>7 DEF Call, Forget
  <2> QED
    BY <2>1 DEF ATANext
<1> QED
  BY <1>1, <1>2, <1>3, <1>4, <1>5, <1>6, <1>7 DEF Next, Kernel

-----------------------------------------------------------------------------
(* What was asked for. *)

LEMMA RestAsksNothing ==
  ASSUME pc' = "idle"
  PROVE  RequestInv'
BY DEF RequestInv, Asked

LEMMA ReadsAsk ==
  ASSUME NEW at, NEW s, NEW n, Reads(at, s, n)
  PROVE  /\ request'.drive = Disk /\ request'.sector = s
         /\ request'.op \in {"read", "refused"}
         /\ request'.op = "read" => request'.count = n
         /\ request'.op = "refused" => Refused(s, n)
         /\ phase = at /\ phase' = at /\ UNCHANGED fatVars
<1>1. Read28(Disk, s, n) /\ phase = at /\ UNCHANGED fatVars
  BY DEF Reads
<1>2. phase' = at
  BY <1>1 DEF fatVars
<1>3. \/ request' = [drive |-> Disk, op |-> "refused", sector |-> s, count |-> 0] /\ Refused(s, n)
      \/ request' = [drive |-> Disk, op |-> "read", sector |-> s, count |-> n]
  BY <1>1 DEF Read28, Command
<1> QED
  BY <1>1, <1>2, <1>3

LEMMA RequestKeeps ==
  ASSUME RequestInv, [Next]_vars
  PROVE  RequestInv'
<1>1. ASSUME UNCHANGED fatVars, pc' # "idle" => pc # "idle", UNCHANGED request
      PROVE  RequestInv'
  BY <1>1 DEF RequestInv, Asked, fatVars, Refused, ClusterToLBA, DataStart, NextSector, Chunk
<1>2. CASE UNCHANGED vars
  BY <1>1, <1>2 DEF vars, ataVars
<1>3. CASE (Driver \/ Answer \/ Fail) /\ UNCHANGED fatVars
  <2>1. (pc' # "idle" => pc # "idle") /\ UNCHANGED request
    BY <1>3 DEF Driver, Poll, CopyWord, CopyEnds, DrainWord, DrainEnds, Answer, Fail
  <2> QED
    BY <1>1, <1>3, <2>1
<1>4. CASE IdentifyMaster \/ IdentifySlave
  <2>1. phase' \in {"off", "identified"}
    BY <1>4 DEF IdentifyMaster, IdentifySlave, fatVars
  <2> QED
    BY <2>1 DEF RequestInv
<1>5. CASE MasterIdentified \/ SlaveIdentified \/ PartitionsRead \/ Mounted \/ EntriesRead
           \/ NextRead \/ DataRead \/ FileNextRead
  <2>1. pc' = "idle"
    BY <1>5 DEF MasterIdentified, SlaveIdentified, PartitionsRead, Mounted, EntriesRead, NextRead,
                DataRead, FileNextRead, Returns
  <2> QED
    BY <2>1, RestAsksNothing
<1>6. CASE WalkRoot \/ GetEntries \/ EnterDirectory \/ GetEntry \/ Wild \/ Return \/ ReadFile
  <2>1. pc' = "idle"
    BY <1>6 DEF WalkRoot, GetEntries, EnterDirectory, GetEntry, Wild, Return, ReadFile, Goes, ataVars
  <2> QED
    BY <2>1, RestAsksNothing
<1>7. ASSUME NEW c \in Calls, Call(c) PROVE RequestInv'
  BY <1>7, RestAsksNothing DEF Call
<1>8. CASE ReadPartitions
  BY <1>8, ReadsAsk DEF ReadPartitions, RequestInv, Asked
<1>9. CASE ReadBpb
  <2>1. UNCHANGED partitionOffset
    BY <1>9 DEF ReadBpb, Reads, fatVars
  <2> QED
    BY <1>9, <2>1, ReadsAsk DEF ReadBpb, RequestInv, Asked, Refused
<1>10. CASE ReadEntries
  <2> DEFINE s == (ClusterToLBA(first) + i) % U32
             n == bpb.bytesPerSector
  <2>1. Reads("list", s, n)
    BY <1>10 DEF ReadEntries
  <2>2. UNCHANGED <<s, n>>
    BY <2>1 DEF Reads, fatVars, ClusterToLBA, DataStart
  <2> HIDE DEF s, n
  <2>3. Asked(s, n)' /\ phase' = "list"
    BY <2>1, <2>2, ReadsAsk DEF Asked, Refused
  <2> QED
    BY <2>3 DEF RequestInv, s, n
<1>11. CASE ReadNext \/ ReadFileNext
  <2> DEFINE s == NextSector(cluster)
  <2>1. Reads("next", s, BytesPerSector) \/ Reads("copyNext", s, BytesPerSector)
    BY <1>11 DEF ReadNext, ReadFileNext
  <2>2. UNCHANGED s
    BY <2>1 DEF Reads, fatVars, NextSector
  <2> HIDE DEF s
  <2>3. Asked(s, BytesPerSector)' /\ phase' \in {"next", "copyNext"}
    BY <2>1, <2>2, ReadsAsk DEF Asked, Refused
  <2> QED
    BY <2>3 DEF RequestInv, s
<1>12. CASE ReadData
  <2> DEFINE s == (ClusterToLBA(cluster) + i) % U32
             n == Chunk
  <2>1. Reads("copy", s, n)
    BY <1>12 DEF ReadData
  <2>2. UNCHANGED <<s, n>>
    BY <2>1 DEF Reads, fatVars, ClusterToLBA, DataStart, Chunk
  <2> HIDE DEF s, n
  <2>3. Asked(s, n)' /\ phase' = "copy"
    BY <2>1, <2>2, ReadsAsk DEF Asked, Refused
  <2> QED
    BY <2>3 DEF RequestInv, s, n
<1> QED
  BY <1>2, <1>3, <1>4, <1>5, <1>6, <1>7, <1>8, <1>9, <1>10, <1>11, <1>12
     DEF Next, Kernel, Boot, Lookup, Copy

-----------------------------------------------------------------------------
(* The types are kept. *)

LEMMA FATTypesInit == FATInit => FATTypes /\ RequestInv
<1> SUFFICES ASSUME FATInit PROVE FATTypes /\ RequestInv
  OBVIOUS
<1>1. /\ phase = "off" /\ partitionOffset = 0 /\ bpb = Blank.bpb /\ call.op = "none"
      /\ parts = <<>> /\ cluster = 0 /\ first = 0 /\ i = 0 /\ results = <<>>
      /\ entry = NoEntry /\ fileSize = 0 /\ out = <<>> /\ terminator = -1 /\ reply = -1
      /\ clean = TRUE
  BY DEF FATInit
<1>2. Blank \in Views /\ 0 \in Word
  BY FATAssumption, WordFacts DEF Views
<1>3. bpb.sectorsPerCluster \in Nat
  BY <1>1, <1>2, SizesOf
<1>4. CallTypes
  BY <1>1 DEF CallTypes, Phase, Booting
<1>5. VolumeTypes
  BY <1>1, <1>2 DEF VolumeTypes
<1>6. WalkTypes
  BY <1>1, <1>2, <1>3 DEF WalkTypes
<1>7. CopyTypes
  BY <1>1, <1>2 DEF CopyTypes
<1>8. RequestInv
  BY <1>1 DEF RequestInv
<1> QED
  BY <1>4, <1>5, <1>6, <1>7, <1>8 DEF FATTypes

LEMMA LoopFacts ==
  ASSUME NEW c, NEW body, NEW after, NEW end
  PROVE  /\ Loop(c, body, after, end) \in {body, after, end}
         /\ Loop(c, body, after, end) = body /\ body # after /\ body # end => bpb.sectorsPerCluster > 0
BY DEF Loop

LEMMA BootTypes ==
  ASSUME FATTypes, Boot
  PROVE  FATTypes'
<1>1. CASE UNCHANGED fatVars
  BY <1>1 DEF fatVars, FATTypes, CallTypes, VolumeTypes, WalkTypes, CopyTypes, Bound
<1>2. CASE MasterIdentified \/ SlaveIdentified \/ PartitionsRead \/ Mounted
  <2>1. /\ phase \in Booting /\ phase' \in Booting \cup {"idle"}
        /\ UNCHANGED <<call, clean, walkVars, copyVars>>
    BY <1>2 DEF MasterIdentified, SlaveIdentified, PartitionsRead, Mounted, Returns, Booting
  <2>2. VolumeTypes'
    <3>1. partitionOffset' = partitionOffset \/ \E s \in Seen : partitionOffset' = s.startLba
      BY <1>2 DEF MasterIdentified, SlaveIdentified, PartitionsRead, Mounted, volumeVars
    <3>2. bpb' = bpb \/ \E s \in Seen : bpb' = s.bpb
      BY <1>2 DEF MasterIdentified, SlaveIdentified, PartitionsRead, Mounted, volumeVars
    <3>3. partitionOffset' \in Word
      BY <3>1, SeenViews, ViewFields DEF FATTypes, VolumeTypes
    <3>4. bpb' \in {s.bpb : s \in Views}
      BY <3>2, SeenViews DEF FATTypes, VolumeTypes
    <3> QED
      BY <3>3, <3>4 DEF VolumeTypes
  <2>3. CallTypes'
    BY <2>1 DEF FATTypes, CallTypes, Booting, Phase, walkVars
  <2>4. WalkTypes'
    <3>1. bpb'.sectorsPerCluster \in Nat
      BY <2>2, SizesOf DEF VolumeTypes
    <3>2. i' = 0 /\ phase' \notin {"list", "copy"}
      BY <2>1 DEF FATTypes, CallTypes, walkVars, Booting
    <3> QED
      BY <2>1, <3>1, <3>2 DEF FATTypes, WalkTypes, walkVars
  <2>5. CopyTypes'
    BY <2>1 DEF FATTypes, CallTypes, CopyTypes, Booting, walkVars, copyVars, Bound
  <2> QED
    BY <2>2, <2>3, <2>4, <2>5 DEF FATTypes
<1> QED
  BY <1>1, <1>2 DEF Boot, IdentifyMaster, IdentifySlave, ReadPartitions, ReadBpb, Reads

-----------------------------------------------------------------------------
LEMMA DivMonotone ==
  ASSUME NEW m \in Nat \ {0}, NEW a \in Nat, NEW b \in Nat, a <= b
  PROVE  a \div m <= b \div m
<1> DEFINE q == a \div m
           r == b \div m
<1>1. q \in Int /\ r \in Int /\ a = m * q + (a % m) /\ b = m * r + (b % m)
      /\ a % m \in 0 .. m - 1 /\ b % m \in 0 .. m - 1
  OBVIOUS
<1> HIDE DEF q, r
<1>2. CASE q >= r + 1
  <2>1. m * q >= m * (r + 1) /\ m * (r + 1) = m * r + m
    BY <1>1, <1>2
  <2>2. m * q \in Int /\ m * r \in Int
    BY <1>1
  <2> QED
    BY <1>1, <2>1, <2>2
<1> QED
  BY <1>1, <1>2 DEF q, r

(* The buffer holds as many entries as getEntries looks at. *)
LEMMA EntriesThere ==
  ASSUME FATInv, phase = "list", pc = "done", NEW s \in Seen
  PROVE  /\ EntriesOf(s) \in Seq(DirectoryEntryFat)
         /\ Len(EntriesOf(s)) = EntriesPer(bpb.bytesPerSector)
<1>1. s \in Views /\ bpb \in {t.bpb : t \in Views} /\ bpb.bytesPerSector \in Nat
  BY SeenViews, SizesOf DEF FATInv, FATTypes, VolumeTypes
<1> DEFINE n == EntriesPer(bpb.bytesPerSector)
<1>2. n \in Nat
  BY <1>1, EntriesPerType
<1>3. Len(s.entries) >= n /\ s.entries \in Seq(DirectoryEntryFat)
  <2>1. CASE s \in Garbage
    BY <1>1, <2>1, ViewFields
  <2>2. CASE s \notin Garbage
    <3>1. request.op = "read"
      BY <2>2 DEF Seen
    <3>2. request.count = bpb.bytesPerSector
      BY <3>1 DEF FATInv, RequestInv, Asked
    <3>3. request.count <= BytesPerSector
      BY DEF FATInv, DriverInv, ATATypeOK, Request
    <3>4. n <= EntriesPer(BytesPerSector) /\ EntriesPer(BytesPerSector) \in Nat
      BY <1>1, <3>2, <3>3, DivMonotone, EntriesPerType, Widths DEF EntriesPer
    <3> HIDE DEF n
    <3>5. Len(s.entries) \in Nat /\ Len(s.entries) >= EntriesPer(BytesPerSector)
          /\ s.entries \in Seq(DirectoryEntryFat)
      BY <1>1, ViewFields
    <3> QED
      BY <1>2, <3>4, <3>5
  <2> QED
    BY <2>1, <2>2
<1> HIDE DEF n
<1>4. \A k \in 1 .. n : s.entries[k] \in DirectoryEntryFat
  BY <1>2, <1>3
<1>5. EntriesOf(s) = [k \in 1 .. n |-> s.entries[k]]
  BY <1>2 DEF EntriesOf, EntriesIn, n
<1> QED
  BY <1>2, <1>4, <1>5 DEF n

LEMMA CallFacts ==
  ASSUME NEW c \in Calls
  PROVE  /\ c.op \in {"fileExists", "directoryExists", "getFileSize", "readFile"}
         /\ c.path \in Seq(Name) /\ Len(c.path) \in Nat \ {0}
         /\ c.size \in Int /\ c.size < U32
<1>1. c \in [op : {"fileExists", "directoryExists", "getFileSize", "readFile"}, path : Seq(Name), size : Int]
  BY FATAssumption
<1>2. c.path \in Seq(Name) /\ Len(c.path) > 0 /\ c.size < U32
  BY <1>1, FATAssumption
<1> QED
  BY <1>1, <1>2

LEMMA NextType ==
  ASSUME NEW c \in Word, NEW s \in Views
  PROVE  NextOf(s, c) \in Word
<1>1. NextsPerSector \in Nat \ {0} /\ c \in Nat
  BY Widths, WordFacts
<1>2. (c % NextsPerSector) + 1 \in 1 .. NextsPerSector
  BY <1>1
<1> DEFINE k == (c % NextsPerSector) + 1
<1> HIDE DEF k
<1>3. k \in 1 .. NextsPerSector
  BY <1>2 DEF k
<1>4. s.nexts[k] \in Word
  BY <1>3, ViewFields
<1>5. s.nexts[k] % LinkValues \in Word
  <2> DEFINE v == s.nexts[k]
  <2>1. v \in Nat /\ LinkValues \in Nat \ {0} /\ LinkValues <= U32 /\ U32 \in Nat
    BY <1>4, WordFacts, Widths
  <2> HIDE DEF v
  <2>2. v % LinkValues \in 0 .. LinkValues - 1
    BY <2>1
  <2>3. v % LinkValues \in 0 .. U32 - 1
    BY <2>1, <2>2
  <2> QED
    BY <2>3 DEF v, Word
<1> QED
  BY <1>5 DEF NextOf, k

LEMMA FoundTypes ==
  ASSUME WalkTypes, NEW name
  PROVE  Found(name) \subseteq KeptEntry \cup {NoEntry}
<1>1. DOMAIN results \subseteq 1 .. Len(results) /\ \A k \in DOMAIN results : results[k] \in KeptEntry
  BY DEF WalkTypes
<1>2. Len(results) \in Nat /\ DOMAIN results = 1 .. Len(results)
  BY DEF WalkTypes
<1>3. Matching(name) # {} => FirstMatch(name) \in DOMAIN results
  <2>1. Matching(name) \subseteq Nat /\ Matching(name) \subseteq DOMAIN results
    BY <1>2 DEF Matching
  <2>2. Matching(name) # {} =>
          \E k \in Matching(name) : \A j \in Matching(name) : k <= j
    BY <2>1, LeastNatural
  <2> QED
    BY <2>1, <2>2 DEF FirstMatch
<1> QED
  BY <1>1, <1>3 DEF Found

(* Looking for an entry. *)
LEMMA LookupTypes ==
  ASSUME FATInv, Lookup
  PROVE  FATTypes'
<1>0. CallTypes /\ VolumeTypes /\ WalkTypes /\ CopyTypes
  BY DEF FATInv, FATTypes
<1>1. CASE UNCHANGED fatVars
  BY <1>0, <1>1 DEF fatVars, FATTypes, CallTypes, VolumeTypes, WalkTypes, CopyTypes, Bound
<1>2. SUFFICES ASSUME ~UNCHANGED fatVars,
                      /\ phase \in {"walk", "list", "next", "listed"}
                      /\ phase' \in {"walk", "list", "next", "listed", "found", "wild"}
                      /\ UNCHANGED <<call, clean, volumeVars, copyVars>>
               PROVE  FATTypes'
  BY <1>1, LoopFacts DEF Lookup, WalkRoot, GetEntries, ReadEntries, EntriesRead, ReadNext, NextRead,
     EnterDirectory, GetEntry, Wild, SplitBreaks, Goes, Returns, Reads, AfterSector
<1>3. CallTypes' /\ VolumeTypes'
  BY <1>0, <1>2 DEF CallTypes, VolumeTypes, volumeVars, Phase, Booting
<1>4. ASSUME WalkTypes'
      PROVE  FATTypes'
  <2>1. fileSize' = 0 /\ call \in Calls /\ call' = call
    BY <1>0, <1>2 DEF CopyTypes, copyVars, CallTypes, Booting
  <2>2. entry' \in DirectoryEntryFat => entry'.size \in Nat
    BY WordFacts DEF DirectoryEntryFat
  <2>3. call'.size \in Int
    BY <2>1, CallFacts
  <2>4. entry' # NoEntry => fileSize' <= Bound'
    BY <1>4, <2>1, <2>2, <2>3 DEF Bound, WalkTypes
  <2>5. CopyTypes'
    BY <1>0, <1>2, <2>1, <2>4 DEF CopyTypes, copyVars
  <2> QED
    BY <1>3, <1>4, <2>5 DEF FATTypes
<1> SUFFICES WalkTypes'
  BY <1>4
<1>5. bpb' = bpb /\ bpb.sectorsPerCluster \in Nat /\ bpb.rootCluster \in Word
  BY <1>0, <1>2, SizesOf DEF volumeVars, VolumeTypes
<1>6. CASE WalkRoot
  BY <1>0, <1>5, <1>6 DEF WalkRoot, Goes, WalkTypes, AtRoot
<1>7. CASE GetEntries
  <2>1. Start \in Word /\ first' = Start /\ cluster' = Start /\ i' = 0 /\ results' = <<>>
        /\ UNCHANGED <<parts, entry>>
    BY <1>0, <1>5, <1>7 DEF GetEntries, Start, WalkTypes
  <2>2. phase' = "list" => 0 < bpb.sectorsPerCluster
    BY <1>7, LoopFacts DEF GetEntries, Goes
  <2>3. phase' # "copy"
    BY <1>2
  <2> QED
    BY <1>0, <1>5, <2>1, <2>2, <2>3 DEF WalkTypes
<1>8. CASE EntriesRead
  <2>1. PICK s \in Seen :
          /\ Returns("list", IF Ends(EntriesOf(s)) THEN "listed" ELSE AfterSector)
          /\ results' = results \o Collected(EntriesOf(s))
          /\ i' = i + 1
          /\ UNCHANGED <<parts, cluster, first, entry>>
    BY <1>8 DEF EntriesRead
  <2>2. phase = "list" /\ pc = "done" /\ i < bpb.sectorsPerCluster
    BY <1>0, <2>1 DEF Returns, WalkTypes
  <2>3. Collected(EntriesOf(s)) \in Seq(KeptEntry)
    BY <2>2, EntriesThere, CollectedType
  <2>4. results' \in Seq(KeptEntry)
    BY <1>0, <2>1, <2>3, ConcatType DEF WalkTypes
  <2>5. phase' = "list" => i + 1 < bpb.sectorsPerCluster
    BY <2>1 DEF Returns, AfterSector
  <2>6. phase' # "copy"
    BY <1>2
  <2> QED
    BY <1>0, <1>5, <2>1, <2>2, <2>4, <2>5, <2>6 DEF WalkTypes
<1>9. CASE NextRead
  <2>1. PICK s \in Seen :
          /\ Returns("next", Loop(NextOf(s, cluster), "list", "next", "listed"))
          /\ cluster' = NextOf(s, cluster)
          /\ i' = 0
          /\ UNCHANGED <<parts, first, results, entry>>
    BY <1>9 DEF NextRead
  <2>2. NextOf(s, cluster) \in Word
    BY <1>0, NextType, SeenViews DEF WalkTypes
  <2>3. phase' = "list" => 0 < bpb.sectorsPerCluster
    BY <2>1, LoopFacts DEF Returns
  <2>4. phase' # "copy"
    BY <1>2
  <2> QED
    BY <1>0, <1>5, <2>1, <2>2, <2>3, <2>4 DEF WalkTypes
<1>10. CASE EnterDirectory
  <2>1. PICK e \in Found(Head(parts)) :
          /\ phase' \notin {"list", "copy"}
          /\ cluster' = IF e = NoEntry THEN cluster ELSE e.cluster
          /\ parts' = Tail(parts)
          /\ UNCHANGED <<first, i, results, entry>>
    BY <1>10 DEF EnterDirectory, Goes
  <2>2. e \in KeptEntry \cup {NoEntry}
    BY <1>0, FoundTypes
  <2>3. e # NoEntry => e.cluster \in Word
    BY <2>2 DEF KeptEntry, DirectoryEntryFat
  <2>4. parts # <<>>
    BY <1>10 DEF EnterDirectory
  <2> QED
    BY <1>0, <1>5, <2>1, <2>3, <2>4 DEF WalkTypes
<1>11. CASE GetEntry
  <2>1. PICK e \in Found(Last(call.path)) :
          /\ phase' = "found" /\ entry' = e
          /\ UNCHANGED <<parts, cluster, first, i, results>>
    BY <1>11 DEF GetEntry, Goes
  <2>2. e \in DirectoryEntryFat \cup {NoEntry}
    BY <1>0, FoundTypes DEF KeptEntry
  <2> QED
    BY <1>0, <1>5, <2>1, <2>2 DEF WalkTypes
<1>12. CASE Wild
  BY <1>0, <1>5, <1>12 DEF Wild, Goes, WalkTypes, walkVars
<1>13. CASE ReadEntries \/ ReadNext
  BY <1>2, <1>13 DEF ReadEntries, ReadNext, Reads
<1> QED
  BY <1>6, <1>7, <1>8, <1>9, <1>10, <1>11, <1>12, <1>13 DEF Lookup

-----------------------------------------------------------------------------
LEMMA EntryFields ==
  ASSUME NEW e \in DirectoryEntryFat
  PROVE  e.base \in Name /\ e.ext \in Name /\ e.kind \in Kind /\ e.archive \in BOOLEAN
         /\ e.cluster \in Word /\ e.size \in Word
BY DEF DirectoryEntryFat

LEMMA DifferenceModWord ==
  ASSUME NEW a \in Word, NEW b \in Nat, b <= a
  PROVE  (a - b) % U32 = a - b
BY Widths DEF Word

(* Leaving readClusterChain. *)
LEMMA FinishedTypes ==
  ASSUME CopyTypes, NEW c, NEW copied \in Seq(Nat), NEW left \in Int, Finished(c, copied, left)
  PROVE  terminator' \in {-1} \cup Word /\ reply' \in {-1} \cup Word
<1>1. Len(copied) + left \in Int
  OBVIOUS
<1>2. (Len(copied) + left) % U32 \in Word /\ 0 \in Word
  BY <1>1, ModWord, WordFacts
<1> QED
  BY <1>2 DEF CopyTypes, Finished

(* The bytes of a sector that are copied are there. *)
LEMMA ChunkThere ==
  ASSUME FATTypes, NEW s \in Views
  PROVE  /\ SubSeq(s.data, 1, Chunk) \in Seq(Nat) /\ Len(SubSeq(s.data, 1, Chunk)) = Chunk
         /\ Chunk \in 0 .. BytesPerSector /\ Chunk <= fileSize
<1>1. fileSize \in Nat /\ BytesPerSector \in Nat /\ s.data \in Seq(Nat) /\ Len(s.data) = BytesPerSector
  BY WordFacts, Widths, ViewFields DEF FATTypes, CopyTypes
<1>2. Chunk \in 0 .. BytesPerSector /\ Chunk <= fileSize
  BY <1>1 DEF Chunk
<1> DEFINE n == Chunk
<1> HIDE DEF n
<1>3. n \in 0 .. BytesPerSector
  BY <1>2 DEF n
<1>4. SubSeq(s.data, 1, n) \in Seq(Nat) /\ Len(SubSeq(s.data, 1, n)) = n
  BY <1>1, <1>3
<1> QED
  BY <1>2, <1>4 DEF n

(* Copying a file. *)
LEMMA CopyingTypes ==
  ASSUME FATInv, Copy \/ Return
  PROVE  FATTypes'
<1>0. CallTypes /\ VolumeTypes /\ WalkTypes /\ CopyTypes
  BY DEF FATInv, FATTypes
<1>1. CASE UNCHANGED fatVars
  BY <1>0, <1>1 DEF fatVars, FATTypes, CallTypes, VolumeTypes, WalkTypes, CopyTypes, Bound
<1>2. SUFFICES ASSUME ~UNCHANGED fatVars,
                      /\ phase \in {"found", "copy", "copyNext"}
                      /\ phase' \in {"copy", "copyNext", "idle"}
                      /\ UNCHANGED <<call, clean, parts, first, results, entry, volumeVars>>
               PROVE  FATTypes'
  BY <1>1, LoopFacts DEF Copy, Return, ReadFile, ReadData, DataRead, ReadFileNext, FileNextRead,
     Goes, Returns, Reads, Copying, walkVars
<1>3. CallTypes' /\ VolumeTypes'
  BY <1>0, <1>2 DEF CallTypes, VolumeTypes, volumeVars, Phase, Booting
<1>4. /\ bpb' = bpb /\ bpb.sectorsPerCluster \in Nat /\ bpb.bytesPerSector \in Nat
      /\ fileSize \in Nat /\ call \in Calls /\ call.size \in Int /\ call.size < U32
  BY <1>0, <1>2, SizesOf, CallFacts, WordFacts
     DEF volumeVars, VolumeTypes, CopyTypes, CallTypes, Booting
<1>5. CASE Return
  <2>1. reply' = Answered /\ UNCHANGED <<walkVars, fileSize, out, terminator>> /\ phase' = "idle"
    BY <1>5 DEF Return, Goes
  <2>2. call.op \in {"fileExists", "directoryExists", "getFileSize", "readFile"}
    BY <1>4, CallFacts
  <2>3. entry # NoEntry => entry.size \in Word
    BY <1>0, EntryFields DEF WalkTypes
  <2>4. Answered \in {-1} \cup Word
    BY <2>2, <2>3, WordFacts DEF Answered, Truth
  <2>5. WalkTypes'
    BY <1>0, <1>2, <1>4, <2>1 DEF WalkTypes, walkVars
  <2>6. CopyTypes'
    BY <1>0, <1>2, <1>4, <2>1, <2>4 DEF CopyTypes, Bound
  <2> QED
    BY <1>3, <2>5, <2>6 DEF FATTypes
<1>6. CASE ReadFile
  <2> DEFINE size == IF call.size < 0 THEN entry.size ELSE call.size
  <2>1. /\ entry # NoEntry /\ cluster' = entry.cluster /\ i' = 0 /\ fileSize' = size
        /\ phase' = Copying(entry.cluster)
        /\ Finished(entry.cluster, out, size) /\ out' = out
    BY <1>6 DEF ReadFile, Goes, Readable
  <2>2. entry \in DirectoryEntryFat
    BY <1>0, <2>1 DEF WalkTypes
  <2>3. size \in Word /\ size = Bound
    BY <1>4, <2>2, EntryFields, Widths DEF Word, Bound
  <2>4. WalkTypes'
    <3>1. entry.cluster \in Word
      BY <2>2, EntryFields
    <3>2. phase' = "copy" => bpb.sectorsPerCluster > 0
      BY <2>1, LoopFacts DEF Copying
    <3>3. phase' # "list"
      BY <1>2
    <3> QED
      BY <1>0, <1>2, <1>4, <2>1, <3>1, <3>2, <3>3 DEF WalkTypes
  <2>5. terminator' \in {-1} \cup Word /\ reply' \in {-1} \cup Word
    <3> HIDE DEF size
    <3>1. out \in Seq(Nat) /\ size \in Int
      BY <1>0, <2>3, WordFacts DEF CopyTypes
    <3> QED
      BY <1>0, <2>1, <3>1, FinishedTypes
  <2>6. Bound' = Bound
    BY <1>2 DEF Bound
  <2>7. CopyTypes'
    <3> HIDE DEF size
    <3>1. size <= Bound' /\ size \in Word
      BY <2>3, <2>6, WordFacts
    <3> QED
      BY <1>0, <1>2, <2>1, <2>5, <3>1 DEF CopyTypes
  <2> QED
    BY <1>3, <2>4, <2>7 DEF FATTypes
<1>7. CASE DataRead
  <2>1. PICK s \in Seen :
          /\ phase' = (IF i + 1 < bpb.sectorsPerCluster THEN "copy" ELSE "copyNext")
          /\ phase = "copy"
          /\ out' = out \o SubSeq(s.data, 1, Chunk)
          /\ fileSize' = Left /\ i' = i + 1
          /\ UNCHANGED <<cluster, terminator, reply>>
    BY <1>7 DEF DataRead, Returns
  <2>2. out' \in Seq(Nat)
    <3>1. SubSeq(s.data, 1, Chunk) \in Seq(Nat)
      BY SeenViews, ChunkThere DEF FATInv
    <3> QED
      BY <1>0, <2>1, <3>1, ConcatType DEF CopyTypes
  <2>3. Left \in Word
    BY <1>4, ModWord, Widths DEF Left
  <2>4. bpb = Bpb => Left <= fileSize
    <3> SUFFICES ASSUME bpb = Bpb PROVE Left <= fileSize
      OBVIOUS
    <3> DEFINE n == IF fileSize < BytesPerSector THEN fileSize ELSE bpb.bytesPerSector
    <3>1. n \in Nat /\ n <= fileSize
      BY <1>4, Widths, VolumeAssumption
    <3> HIDE DEF n
    <3>2. (fileSize - n) % U32 = fileSize - n
      BY <1>0, <3>1, DifferenceModWord DEF CopyTypes
    <3>3. Left = (fileSize - n) % U32
      BY DEF Left, n
    <3> QED
      BY <1>4, <3>1, <3>2, <3>3
  <2>5. WalkTypes'
    BY <1>0, <1>2, <1>4, <2>1 DEF WalkTypes
  <2>6. Bound' = Bound /\ bpb' = bpb /\ entry' = entry
    BY <1>2, <1>4 DEF Bound
  <2>7. bpb = Bpb /\ entry # NoEntry => Left <= Bound
    <3> DEFINE left == Left
               most == Bound
    <3>1. entry # NoEntry => entry.size \in Nat
      BY <1>0, EntryFields, WordFacts DEF WalkTypes
    <3>2. entry # NoEntry => most \in Int
      BY <1>4, <3>1 DEF Bound
    <3>3. left \in Int
      BY <2>3, WordFacts
    <3>4. (bpb = Bpb => left <= fileSize) /\ (bpb = Bpb /\ entry # NoEntry => fileSize <= most)
      BY <1>0, <2>4 DEF CopyTypes
    <3> HIDE DEF left, most
    <3>5. bpb = Bpb /\ entry # NoEntry => left <= most
      BY <1>4, <3>2, <3>3, <3>4
    <3> QED
      BY <3>5 DEF left, most
  <2>8. CopyTypes'
    BY <1>0, <1>2, <2>1, <2>2, <2>3, <2>6, <2>7 DEF CopyTypes
  <2> QED
    BY <1>3, <2>5, <2>8 DEF FATTypes
<1>8. CASE FileNextRead
  <2>1. PICK s \in Seen :
          /\ phase' = Copying(NextOf(s, cluster))
          /\ cluster' = NextOf(s, cluster) /\ i' = 0
          /\ Finished(NextOf(s, cluster), out, fileSize)
          /\ UNCHANGED <<fileSize, out>>
    BY <1>8 DEF FileNextRead, Returns
  <2>2. NextOf(s, cluster) \in Word
    BY <1>0, NextType, SeenViews DEF WalkTypes
  <2>3. WalkTypes'
    <3>1. phase' = "copy" => bpb.sectorsPerCluster > 0
      BY <2>1, LoopFacts DEF Copying
    <3>2. phase' # "list"
      BY <1>2
    <3> QED
      BY <1>0, <1>2, <1>4, <2>1, <2>2, <3>1, <3>2 DEF WalkTypes
  <2>4. terminator' \in {-1} \cup Word /\ reply' \in {-1} \cup Word
    <3>1. out \in Seq(Nat) /\ fileSize \in Int
      BY <1>0, <1>4 DEF CopyTypes
    <3> QED
      BY <1>0, <2>1, <3>1, FinishedTypes
  <2>5. CopyTypes'
    BY <1>0, <1>2, <1>4, <2>1, <2>4 DEF CopyTypes, Bound
  <2> QED
    BY <1>3, <2>3, <2>5 DEF FATTypes
<1>9. CASE ReadData \/ ReadFileNext
  BY <1>2, <1>9 DEF ReadData, ReadFileNext, Reads
<1> QED
  BY <1>5, <1>6, <1>7, <1>8, <1>9 DEF Copy

(* A path is a sequence of names, also where more characters follow it. *)
LEMMA DirectoryNames ==
  ASSUME NEW c \in Calls
  PROVE  /\ Directory(c.path) \in Seq(Name)
         /\ Continued(Directory(c.path)) \subseteq Seq(Name)
<1>1. c.path \in Seq(Name) /\ Len(c.path) \in Nat \ {0}
  BY CallFacts
<1>2. ASSUME NEW s \in Seq(Name), s # <<>>
      PROVE  Front(s) \in Seq(Name)
  <2>1. Len(s) \in Nat \ {0}
    BY <1>2
  <2> QED
    BY <2>1 DEF Front
<1>3. Names \subseteq Name
  <2>1. \A d \in Calls : ToSet(d.path) \subseteq Name
    BY CallFacts DEF ToSet
  <2> QED
    BY <2>1 DEF Names
<1>4. Directory(c.path) \in Seq(Name)
  <2>1. Front(c.path) \in Seq(Name)
    BY <1>1, <1>2
  <2>2. <<<<>>>> \in Seq(Name)
    BY DEF Name
  <2> QED
    BY <2>1, <2>2, ConcatType DEF Directory
<1> DEFINE dir == Directory(c.path)
<1> HIDE DEF dir
<1>5. ASSUME NEW d \in Continued(dir)
      PROVE  d \in Seq(Name)
  <2>1. CASE d = dir
    BY <1>4, <2>1 DEF dir
  <2>2. ASSUME NEW n \in Names, d = <<<<>>, n>>
        PROVE  d \in Seq(Name)
    <3>1. <<>> \in Name /\ n \in Name
      BY <1>3 DEF Name
    <3> QED
      BY <2>2, <3>1
  <2>3. ASSUME dir # <<>>, NEW n \in Names, d = Append(Front(dir), n)
        PROVE  d \in Seq(Name)
    BY <1>2, <1>3, <1>4, <2>3 DEF dir
  <2> QED
    BY <2>1, <2>2, <2>3 DEF Continued
<1> QED
  BY <1>4, <1>5 DEF dir

LEMMA CallTypesKeep ==
  ASSUME FATInv, NEW c \in Calls, Call(c)
  PROVE  FATTypes'
<1>0. CallTypes /\ VolumeTypes /\ WalkTypes /\ CopyTypes
  BY DEF FATInv, FATTypes
<1>1. /\ phase' = "walk" /\ call' = c /\ clean' \in BOOLEAN
      /\ parts' \in IF clean' THEN {Directory(c.path)} ELSE Continued(Directory(c.path))
      /\ cluster' = 0 /\ first' = 0 /\ i' = 0
      /\ results' = <<>> /\ entry' = NoEntry
      /\ fileSize' = 0 /\ out' = <<>> /\ terminator' = -1 /\ reply' = -1
      /\ UNCHANGED <<partitionOffset, bpb>>
  BY DEF Call, volumeVars
<1>2. parts' \in Seq(Name)
  BY <1>1, DirectoryNames
<1>3. CallTypes' /\ VolumeTypes'
  BY <1>0, <1>1 DEF CallTypes, VolumeTypes, Phase, Booting
<1>4. WalkTypes'
  <2>1. bpb.sectorsPerCluster \in Nat
    BY <1>0, SizesOf DEF VolumeTypes
  <2> QED
    BY <1>1, <1>2, <2>1, WordFacts DEF WalkTypes
<1>5. CopyTypes'
  BY <1>1, WordFacts DEF CopyTypes
<1> QED
  BY <1>3, <1>4, <1>5 DEF FATTypes

(* Every step keeps the types and what the driver was asked for. *)
LEMMA FATInvKeeps ==
  ASSUME FATInv, [Next]_vars
  PROVE  FATInv'
<1>1. DriverInv' /\ RequestInv'
  BY StepCalls, DriverNextKeeps, RequestKeeps DEF FATInv
<1>2. FATTypes'
  <2>1. CASE UNCHANGED fatVars
    BY <2>1 DEF fatVars, FATInv, FATTypes, CallTypes, VolumeTypes, WalkTypes, CopyTypes, Bound
  <2>2. UNCHANGED fatVars \/ Boot \/ Lookup \/ Copy \/ Return \/ \E c \in Calls : Call(c)
    BY DEF Next, Kernel, vars
  <2> QED
    BY <2>1, <2>2, BootTypes, LookupTypes, CopyingTypes, CallTypesKeep DEF FATInv
<1> QED
  BY <1>1, <1>2 DEF FATInv

LEMMA FATInvInit == FATInit => FATInv
BY FATTypesInit, DriverInit DEF FATInit, FATInv

LEMMA FATInvTypes == FATInv => TypeOK
<1> SUFFICES ASSUME FATInv PROVE TypeOK
  OBVIOUS
<1>1. bpb \in BiosParameterBlock
  BY ViewFields DEF FATInv, FATTypes, VolumeTypes
<1>2. KeptEntry = {e \in DirectoryEntryFat : Kept(e)}
  BY DEF KeptEntry
<1> QED
  BY <1>1, <1>2 DEF FATInv, FATTypes, CallTypes, VolumeTypes, WalkTypes, CopyTypes, TypeOK, DriverInv, Bound

(* Every variable of the kernel and of the driver keeps its type: no loop  *)
(* of FAT.cpp leaves its cluster, also if the BIOS parameter block or an   *)
(* entry was read from garbage, and if the block is the volume's, never    *)
(* is more left to copy than was asked for (FAT.cpp:80, 216-238).          *)
THEOREM TypeCorrect == Spec => []TypeOK
BY FATInvInit, FATInvKeeps, FATInvTypes, PTL DEF Spec

(* Under the kernel as under any other caller, a read that no fault hit    *)
(* delivers its sector (ATA.cpp:48-90, from FAT.cpp:9, 62, 84, 225).       *)
THEOREM SectorsReachCallers == Spec => []SectorDelivered
<1>1. FATInv => SectorDelivered
  BY DEF FATInv, DriverInv, ReadInv, SectorDelivered
<1> QED
  BY <1>1, FATInvInit, FATInvKeeps, PTL DEF Spec

-----------------------------------------------------------------------------
(* The volume. *)

LEMMA VolumeFacts ==
  /\ Bpb.bytesPerSector = BytesPerSector
  /\ Bpb.sectorsPerCluster \in Nat \ {0} /\ Bpb.fatCopies \in Nat \ {0} /\ Bpb.fatSize \in Nat
  /\ Bpb.reservedSectors \in Nat /\ Bpb.rootDirectoryEntries = 0 /\ Bpb.rootCluster \in Clusters
  /\ Clusters \subseteq Word /\ \A c \in Clusters : c >= 2 /\ InChain(c)
  /\ Clusters = 2 .. NextsPerSector * Bpb.fatSize - 1
  /\ NextsPerSector * Bpb.fatSize \in Nat
<1>1. /\ Bpb.sectorsPerCluster \in Nat /\ Bpb.fatCopies \in Nat /\ Bpb.fatSize \in Nat
      /\ Bpb.reservedSectors \in Nat
  BY BpbIsOne, SizesOf
<1>2. /\ Bpb.bytesPerSector = BytesPerSector
      /\ Bpb.sectorsPerCluster > 0 /\ Bpb.fatCopies > 0 /\ Bpb.rootDirectoryEntries = 0
      /\ NextsPerSector * Bpb.fatSize <= ClusterEnd /\ Bpb.rootCluster \in Clusters
  BY VolumeAssumption
<1> DEFINE m == NextsPerSector * Bpb.fatSize
<1>3. m \in Nat
  BY <1>1, Widths
<1>4. Clusters = 2 .. m - 1
  BY DEF Clusters
<1> HIDE DEF m
<1>5. m <= ClusterEnd
  BY <1>2 DEF m
<1>6. Clusters \subseteq Word /\ \A c \in Clusters : c >= 2 /\ InChain(c)
  BY <1>3, <1>4, <1>5, Widths DEF Word, InChain
<1> QED
  BY <1>1, <1>2, <1>3, <1>4, <1>6 DEF m

LEMMA LinkType ==
  ASSUME NEW c \in Word
  PROVE  Link(c) \in Word
BY AtView, NextType DEF Link

-----------------------------------------------------------------------------
(* Chains. *)

LEMMA ClustersFinite == Cardinality(Clusters) \in Nat \ {0}
<1> DEFINE m == NextsPerSector * Bpb.fatSize
<1>1. m \in Nat /\ Clusters = 2 .. m - 1 /\ Bpb.rootCluster \in Clusters
  BY VolumeFacts
<1> HIDE DEF m
<1>2. IsFiniteSet(Clusters)
  <2>1. 2 \in Int /\ m - 1 \in Int
    BY <1>1
  <2> QED
    BY <1>1, <2>1, FS_Interval
<1> QED
  BY <1>1, <1>2, FS_CardinalityType, FS_EmptySet

LEMMA ChainDefined ==
  /\ \A n \in 0 .. Cardinality(Clusters) : ChainOf[n] = [c \in Word |->
       IF n = 0 \/ c \notin Clusters THEN <<>> ELSE <<c>> \o ChainOf[n - 1][Link(c)]]
  /\ ChainOf \in [0 .. Cardinality(Clusters) -> [Word -> Seq(Clusters)]]
<1> DEFINE W == [Word -> Seq(Clusters)]
           N == Cardinality(Clusters)
           base == [c \in Word |-> <<>>]
           step == [n \in 1 .. N |-> [g \in W |->
                     [c \in Word |-> IF c \notin Clusters THEN <<>> ELSE <<c>> \o g[Link(c)]]]]
           Solves(f) == f = [n \in 0 .. N |-> [c \in Word |->
             IF n = 0 \/ c \notin Clusters THEN <<>> ELSE <<c>> \o f[n - 1][Link(c)]]]
<1>1. N \in Nat
  BY ClustersFinite
<1> HIDE DEF N
<1>2. base \in W
  OBVIOUS
<1>3. ASSUME NEW g \in W
      PROVE  [c \in Word |-> IF c \notin Clusters THEN <<>> ELSE <<c>> \o g[Link(c)]] \in W
  <2>1. ASSUME NEW c \in Word
        PROVE  (IF c \notin Clusters THEN <<>> ELSE <<c>> \o g[Link(c)]) \in Seq(Clusters)
    <3>1. g[Link(c)] \in Seq(Clusters)
      BY LinkType
    <3>2. c \in Clusters => <<c>> \in Seq(Clusters)
      OBVIOUS
    <3> QED
      BY <3>1, <3>2, ConcatType
  <2> QED
    BY <2>1
<1>4. step \in [1 .. N -> [W -> W]]
  <2> HIDE DEF W
  <2> QED
    BY <1>3
<1>5. \A n \in 1 .. N : \A g \in W : step[n][g] =
        [c \in Word |-> IF c \notin Clusters THEN <<>> ELSE <<c>> \o g[Link(c)]]
  OBVIOUS
<1> HIDE DEF W, step
<1>6. PICK f \in [0 .. N -> W] : StepsThrough(f, N, base, step)
  BY <1>1, <1>2, <1>4, RecursionSolved
<1>7. f[0] = base /\ \A n \in 1 .. N : f[n] = step[n][f[n - 1]]
  BY <1>1, <1>6 DEF StepsThrough
<1>8. ASSUME NEW n \in 0 .. N
      PROVE  f[n] = [c \in Word |->
               IF n = 0 \/ c \notin Clusters THEN <<>> ELSE <<c>> \o f[n - 1][Link(c)]]
  <2>1. CASE n = 0
    BY <1>7, <2>1
  <2>2. CASE n # 0
    <3>1. n \in 1 .. N /\ n - 1 \in 0 .. N
      BY <1>1, <2>2
    <3> DEFINE g == f[n - 1]
    <3>2. g \in W
      BY <1>6, <3>1
    <3>3. f[n] = step[n][g]
      BY <1>7, <3>1
    <3> HIDE DEF g
    <3>4. f[n] = [c \in Word |-> IF c \notin Clusters THEN <<>> ELSE <<c>> \o g[Link(c)]]
      BY <1>5, <3>1, <3>2, <3>3
    <3> QED
      BY <2>2, <3>4 DEF g
  <2> QED
    BY <2>1, <2>2
<1>9. Solves(f)
  BY <1>8
<1> HIDE DEF base
<1>10. Solves(ChainOf)
  <2>1. ChainOf = CHOOSE h : Solves(h)
    BY DEF ChainOf, N
  <2> QED
    BY <1>9, <2>1
<1>11. \A n \in 0 .. N : ChainOf[n] = [c \in Word |->
         IF n = 0 \/ c \notin Clusters THEN <<>> ELSE <<c>> \o ChainOf[n - 1][Link(c)]]
  BY <1>10
<1> HIDE DEF Solves
<1>12. \A n \in 0 .. N : ChainOf[n] \in W
  <2> DEFINE S == {n \in Nat : n <= N => ChainOf[n] \in W}
  <2>1. 0 \in S
    <3>1. ChainOf[0] = [c \in Word |-> <<>>]
      BY <1>1, <1>11
    <3>2. [c \in Word |-> <<>>] \in W
      BY DEF W
    <3>3. ChainOf[0] \in W
      BY <3>1, <3>2
    <3> QED
      BY <3>3
  <2>2. \A n \in Nat : n \in S => n + 1 \in S
    <3> SUFFICES ASSUME NEW n \in Nat, n + 1 <= N, ChainOf[n] \in W PROVE ChainOf[n + 1] \in W
      BY <1>1
    <3> DEFINE g == ChainOf[n]
    <3>1. n + 1 \in 0 .. N /\ (n + 1) - 1 = n /\ n + 1 # 0
      BY <1>1
    <3>2. ChainOf[n + 1] = [c \in Word |-> IF c \notin Clusters THEN <<>> ELSE <<c>> \o g[Link(c)]]
      BY <1>11, <3>1
    <3> HIDE DEF g
    <3>3. g \in W
      BY DEF g
    <3> QED
      BY <1>3, <3>2, <3>3 DEF W
  <2> HIDE DEF S
  <2>3. \A n \in Nat : n \in S
    BY <2>1, <2>2, NatSetInduction
  <2> QED
    BY <1>1, <2>3 DEF S
<1>13. ChainOf \in [0 .. N -> W]
  BY <1>10, <1>12 DEF Solves
<1> QED
  BY <1>11, <1>13 DEF N, W

(* Each cluster of a chain but the first is the one the table names. *)
Linked(chain) == \A m \in 1 .. Len(chain) - 1 : chain[m + 1] = Link(chain[m])

LEMMA ChainLinked ==
  ASSUME NEW n \in 0 .. Cardinality(Clusters), NEW c \in Word
  PROVE  /\ Linked(ChainOf[n][c]) /\ ChainOf[n][c] \in Seq(Clusters)
         /\ n = 0 \/ c \notin Clusters => ChainOf[n][c] = <<>>
         /\ n # 0 /\ c \in Clusters => ChainOf[n][c] # <<>> /\ ChainOf[n][c][1] = c
<1> DEFINE N == Cardinality(Clusters)
           Right(k) == \A d \in Word :
             /\ Linked(ChainOf[k][d]) /\ ChainOf[k][d] \in Seq(Clusters)
             /\ k = 0 \/ d \notin Clusters => ChainOf[k][d] = <<>>
             /\ k # 0 /\ d \in Clusters => ChainOf[k][d] # <<>> /\ ChainOf[k][d][1] = d
           S == {k \in Nat : k <= N => Right(k)}
<1>1. N \in Nat
  BY ClustersFinite
<1>2. \A k \in 0 .. N : \A d \in Word :
        /\ ChainOf[k][d] = IF k = 0 \/ d \notin Clusters THEN <<>> ELSE <<d>> \o ChainOf[k - 1][Link(d)]
        /\ ChainOf[k][d] \in Seq(Clusters)
  BY ChainDefined
<1> HIDE DEF N
<1>3. 0 \in S
  <2>1. 0 \in 0 .. N
    BY <1>1
  <2>2. \A d \in Word : ChainOf[0][d] = <<>>
    BY <1>2, <2>1
  <2>3. Linked(<<>>) /\ <<>> \in Seq(Clusters)
    BY DEF Linked
  <2>4. Right(0)
    BY <2>2, <2>3
  <2> HIDE DEF Right
  <2> QED
    BY <2>4
<1>4. \A k \in Nat : k \in S => k + 1 \in S
  <2> HIDE DEF Right
  <2> SUFFICES ASSUME NEW k \in Nat, k + 1 <= N, Right(k) PROVE Right(k + 1)
    BY <1>1
  <2> SUFFICES ASSUME NEW d \in Word, d \in Clusters
               PROVE  /\ Linked(ChainOf[k + 1][d])
                      /\ ChainOf[k + 1][d] # <<>> /\ ChainOf[k + 1][d][1] = d
    <3>1. k + 1 \in 0 .. N /\ k + 1 # 0
      BY <1>1
    <3>2. \A d \in Word : d \notin Clusters => ChainOf[k + 1][d] = <<>>
      BY <1>2, <3>1
    <3>3. \A d \in Word : ChainOf[k + 1][d] \in Seq(Clusters)
      BY <1>2, <3>1
    <3>4. Linked(<<>>)
      BY DEF Linked
    <3> QED
      BY <3>1, <3>2, <3>3, <3>4 DEF Right
  <2> DEFINE s == ChainOf[k][Link(d)]
             t == ChainOf[k + 1][d]
  <2>1. t = <<d>> \o s
    <3>1. k + 1 \in 0 .. N /\ k + 1 # 0 /\ (k + 1) - 1 = k
      BY <1>1
    <3> QED
      BY <1>2, <3>1
  <2>2. /\ Linked(s) /\ s \in Seq(Clusters)
        /\ s # <<>> => s[1] = Link(d)
    BY LinkType DEF Right
  <2> HIDE DEF s, t
  <2>3. t # <<>> /\ t[1] = d /\ Len(t) = Len(s) + 1 /\ \A m \in 1 .. Len(s) : t[m + 1] = s[m]
    BY <2>1, <2>2
  <2>4. ASSUME NEW m \in 1 .. Len(t) - 1 PROVE t[m + 1] = Link(t[m])
    <3>1. Len(s) \in Nat /\ m \in 1 .. Len(s)
      BY <2>2, <2>3
    <3>2. t[m + 1] = s[m]
      BY <2>3, <3>1
    <3>3. CASE m = 1
      BY <2>2, <2>3, <3>1, <3>2, <3>3
    <3>4. CASE m # 1
      <4> DEFINE j == m - 1
      <4>1. j \in 1 .. Len(s) - 1 /\ j \in 1 .. Len(s) /\ j + 1 = m
        BY <3>1, <3>4
      <4> HIDE DEF j
      <4>2. s[j + 1] = Link(s[j]) /\ t[j + 1] = s[j]
        BY <2>2, <2>3, <4>1 DEF Linked
      <4> QED
        BY <3>2, <4>1, <4>2
    <3> QED
      BY <3>3, <3>4
  <2>5. Linked(t)
    BY <2>4 DEF Linked
  <2> QED
    BY <2>3, <2>5 DEF t
<1> HIDE DEF S, Right
<1>5. n \in S
  BY <1>1, <1>3, <1>4, NatSetInduction DEF N
<1>6. Right(n)
  BY <1>1, <1>5 DEF S, N
<1> QED
  BY <1>6 DEF Right

(* A chain starts at its cluster and follows the table to its end. *)
LEMMA ChainFacts ==
  ASSUME NEW c \in Word
  PROVE  /\ Chain(c) \in Seq(Clusters) /\ Linked(Chain(c))
         /\ c \notin Clusters => Chain(c) = <<>>
         /\ c \in Clusters =>
              /\ Len(Chain(c)) \in Nat \ {0} /\ Chain(c)[1] = c
              /\ ~InChain(Link(Chain(c)[Len(Chain(c))]))
<1>1. Cardinality(Clusters) \in 0 .. Cardinality(Clusters) /\ Cardinality(Clusters) # 0
  BY ClustersFinite
<1> DEFINE s == Chain(c)
<1>2. /\ s \in Seq(Clusters) /\ Linked(s)
      /\ c \notin Clusters => s = <<>>
      /\ c \in Clusters => s # <<>> /\ s[1] = c
  BY <1>1, ChainLinked DEF Chain
<1>3. c \in Clusters => ~InChain(Link(Last(s)))
  BY VolumeAssumption
<1> HIDE DEF s
<1>4. c \in Clusters => Len(s) \in Nat \ {0} /\ Last(s) = s[Len(s)]
  BY <1>2 DEF Last
<1> QED
  BY <1>2, <1>3, <1>4 DEF s

-----------------------------------------------------------------------------
(* Where clusters and their links lie on the disk. *)

SectorsPerCluster == Bpb.sectorsPerCluster

LEMMA FirstSectorRange ==
  ASSUME NEW c \in Clusters, NEW k \in 0 .. SectorsPerCluster - 1
  PROVE  FirstSector(c) + k \in 0 .. MaxLba /\ FirstSector(c) \in Nat
<1> DEFINE p == SectorsPerCluster
           m == Bpb.fatSize * Bpb.fatCopies
           q == (c - 2) * p
<1>1. p \in Nat \ {0} /\ m \in Nat /\ c \in Nat /\ c - 2 \in Nat
      /\ Bpb.reservedSectors \in Nat /\ Volume \in Nat /\ MaxLba \in Nat
  BY SMTT(20), VolumeFacts, Widths, WordFacts DEF SectorsPerCluster
<1>2. q \in Nat
  BY <1>1
<1>3. FirstSector(c) = Volume + Bpb.reservedSectors + m + q
  BY DEF FirstSector, SectorsPerCluster
<1>4. FirstSector(c) + p - 1 <= MaxLba
  BY VolumeAssumption DEF SectorsPerCluster
<1> HIDE DEF m, q
<1>5. FirstSector(c) \in Nat
  BY <1>1, <1>2, <1>3
<1>6. k \in 0 .. p - 1
  OBVIOUS
<1> HIDE DEF p
<1> QED
  BY <1>1, <1>4, <1>5, <1>6

(* ClusterToLBA does not overflow on the volume. *)
LEMMA LBAIsFirstSector ==
  ASSUME bpb = Bpb, partitionOffset = Volume, NEW c \in Clusters, NEW k \in 0 .. SectorsPerCluster - 1
  PROVE  (ClusterToLBA(c) + k) % U32 = FirstSector(c) + k
<1> DEFINE p == SectorsPerCluster
           m == Bpb.fatSize * Bpb.fatCopies
           s == FirstSector(c)
<1>1. p \in Nat \ {0} /\ m \in Nat /\ c \in Nat /\ Bpb.reservedSectors \in Nat /\ Volume \in Nat
      /\ MaxLba \in Nat /\ MaxLba < U32 /\ U32 \in Nat /\ Bpb.rootDirectoryEntries = 0
  BY SMTT(20), VolumeFacts, Widths, WordFacts DEF SectorsPerCluster
<1>2. s + k \in 0 .. MaxLba /\ s \in Nat /\ s + 0 \in 0 .. MaxLba
  <2>1. 0 \in 0 .. SectorsPerCluster - 1
    BY <1>1
  <2> QED
    BY <2>1, FirstSectorRange
<1>3. (c - 2) * p = c * p - 2 * p /\ c * p \in Int /\ 2 * p \in Int
  BY <1>1
<1>4. DataStart = Volume + Bpb.reservedSectors + m + 0
  BY <1>1 DEF DataStart
<1>5. s = Volume + Bpb.reservedSectors + m + (c - 2) * p
  BY DEF FirstSector, SectorsPerCluster
<1>6. DataStart + c * p - 2 * p = s
  BY <1>1, <1>3, <1>4, <1>5
<1>7. ClusterToLBA(c) = s % U32
  BY <1>6 DEF ClusterToLBA, SectorsPerCluster
<1> HIDE DEF s
<1>8. s % U32 = s /\ (s + k) % U32 = s + k
  BY <1>1, <1>2
<1> QED
  BY <1>7, <1>8 DEF s

(* Nor does the sector of the allocation table. *)
LEMMA LinkSector ==
  ASSUME bpb = Bpb, partitionOffset = Volume, NEW c \in Clusters
  PROVE  NextSector(c) = FatSector(c) /\ FatSector(c) \in 0 .. MaxLba
<1> DEFINE n == NextsPerSector
           z == Bpb.fatSize
           y == Bpb.fatCopies
           q == c \div n
           r == Volume + Bpb.reservedSectors
<1>1. n \in Nat \ {0} /\ z \in Nat /\ y \in Nat \ {0} /\ c \in Nat /\ r \in Nat
      /\ MaxLba \in Nat /\ MaxLba < U32 /\ U32 \in Nat /\ SectorsPerCluster \in Nat \ {0}
  BY SMTT(20), VolumeFacts, Widths, WordFacts DEF SectorsPerCluster
<1>2. c \in 2 .. n * z - 1
  BY VolumeFacts
<1>3. q \in Nat /\ n * q <= c
  BY <1>1
<1>4. q < z
  <2> HIDE DEF n, z, q
  <2> SUFFICES ASSUME q >= z PROVE FALSE
    BY <1>1, <1>3
  <2>1. n * q >= n * z /\ n * q \in Nat /\ n * z \in Nat
    BY <1>1, <1>3
  <2> QED
    BY <1>1, <1>2, <1>3, <2>1
<1>5. r + z * y <= MaxLba
  <2>1. 2 \in Clusters /\ 0 \in 0 .. SectorsPerCluster - 1
    BY <1>1, <1>2, VolumeFacts
  <2>2. FirstSector(2) + 0 \in 0 .. MaxLba /\ FirstSector(2) \in Nat
    BY <2>1, FirstSectorRange
  <2>3. (2 - 2) * Bpb.sectorsPerCluster = 0
    BY <1>1 DEF SectorsPerCluster
  <2>4. FirstSector(2) = r + z * y + 0
    BY <2>3 DEF FirstSector
  <2>5. z * y \in Nat
    BY <1>1
  <2> QED
    BY <1>1, <2>2, <2>4, <2>5
<1>6. z * y >= z
  BY <1>1
<1>7. FatSector(c) = r + q
  BY DEF FatSector
<1>8. NextSector(c) = (r + q) % U32
  BY DEF NextSector
<1>9. z * y \in Nat
  BY <1>1
<1> HIDE DEF r, q, z, y
<1>10. r + q \in 0 .. MaxLba
  BY <1>1, <1>3, <1>4, <1>5, <1>6, <1>9
<1> DEFINE t == r + q
<1> HIDE DEF t
<1>11. t % U32 = t
  BY <1>1, <1>10 DEF t
<1> QED
  BY <1>7, <1>8, <1>10, <1>11 DEF t

-----------------------------------------------------------------------------
(* The sectors, the bytes and the entries of chains. *)

LEMMA SectorsOfType ==
  ASSUME NEW c
  PROVE  /\ SectorsOf(c) \in [1 .. SectorsPerCluster -> Views]
         /\ \A k \in 1 .. SectorsPerCluster : SectorsOf(c)[k] = At(FirstSector(c) + k - 1)
BY AtView DEF SectorsOf, SectorsPerCluster

LEMMA SectorsOfChainFacts ==
  ASSUME NEW c \in Word
  PROVE  /\ SectorsOfChain[c] \in Seq(Views)
         /\ Len(SectorsOfChain[c]) = Len(Chain(c)) * SectorsPerCluster
         /\ \A p \in 0 .. Len(Chain(c)) - 1 : \A k \in 1 .. SectorsPerCluster :
              SectorsOfChain[c][p * SectorsPerCluster + k] = At(FirstSector(Chain(c)[p + 1]) + k - 1)
<1> DEFINE n == SectorsPerCluster
           chain == Chain(c)
           ss == [k \in DOMAIN chain |-> SectorsOf(chain[k])]
<1>1. n \in Nat
  BY VolumeFacts DEF SectorsPerCluster
<1>2. chain \in Seq(Clusters)
  BY ChainFacts
<1>3. SectorsOfChain[c] = FlattenSeq(ss)
  BY DEF SectorsOfChain
<1> HIDE DEF chain
<1>4. ss \in Seq([1 .. n -> Views]) /\ Len(ss) = Len(chain)
  <2>1. DOMAIN chain = 1 .. Len(chain) /\ Len(chain) \in Nat
    BY <1>2
  <2>2. ss \in [1 .. Len(chain) -> [1 .. n -> Views]]
    BY <2>1, SectorsOfType
  <2> HIDE DEF ss
  <2> QED
    BY <2>1, <2>2
<1>5. \A p \in 0 .. Len(chain) - 1 : ss[p + 1] = SectorsOf(chain[p + 1])
  <2> TAKE p \in 0 .. Len(chain) - 1
  <2>1. p + 1 \in DOMAIN chain
    BY <1>2
  <2> QED
    BY <2>1
<1> HIDE DEF ss, n
<1>6. /\ FlattenSeq(ss) \in Seq(Views)
      /\ Len(FlattenSeq(ss)) = Len(ss) * n
      /\ \A p \in 0 .. Len(ss) - 1 : \A j \in 1 .. n : FlattenSeq(ss)[p * n + j] = ss[p + 1][j]
  <2>1. LaidEvenly(Views, n, ss, FlattenSeq(ss))
    BY <1>1, <1>4, FlattenEqual
  <2> QED
    BY <2>1 DEF LaidEvenly
<1>7. ASSUME NEW p \in 0 .. Len(chain) - 1, NEW k \in 1 .. n
      PROVE  FlattenSeq(ss)[p * n + k] = At(FirstSector(chain[p + 1]) + k - 1)
  <2>1. FlattenSeq(ss)[p * n + k] = ss[p + 1][k]
    BY <1>4, <1>6
  <2> QED
    BY <1>5, <2>1, SectorsOfType DEF n
<1> QED
  BY <1>3, <1>4, <1>6, <1>7 DEF n, chain

(* The bytes of the k-th sector of the p-th cluster of a chain. *)
LEMMA BytesFacts ==
  ASSUME NEW c \in Word
  PROVE  /\ Bytes[c] \in Seq(Nat)
         /\ Len(Bytes[c]) = Len(SectorsOfChain[c]) * BytesPerSector
         /\ \A q \in 0 .. Len(SectorsOfChain[c]) - 1 : \A j \in 1 .. BytesPerSector :
              Bytes[c][q * BytesPerSector + j] = SectorsOfChain[c][q + 1].data[j]
<1> DEFINE n == BytesPerSector
           held == SectorsOfChain[c]
           ss == [k \in DOMAIN held |-> held[k].data]
<1>1. n \in Nat
  BY Widths
<1>2. held \in Seq(Views)
  BY SectorsOfChainFacts
<1>3. Bytes[c] = FlattenSeq(ss)
  BY DEF Bytes
<1> HIDE DEF held
<1>4. ss \in Seq([1 .. n -> Nat]) /\ Len(ss) = Len(held)
  <2>1. DOMAIN held = 1 .. Len(held) /\ Len(held) \in Nat
    BY <1>2
  <2>2. \A k \in 1 .. Len(held) : held[k].data \in [1 .. n -> Nat]
    <3> TAKE k \in 1 .. Len(held)
    <3>1. held[k] \in Views
      BY <1>2
    <3> DEFINE x == held[k].data
    <3>2. x \in Seq(Nat) /\ Len(x) = n
      BY <3>1, ViewFields
    <3> HIDE DEF x
    <3>3. x \in [1 .. n -> Nat]
      BY <3>2
    <3> QED
      BY <3>3 DEF x
  <2>3. ss \in [1 .. Len(held) -> [1 .. n -> Nat]]
    BY <2>1, <2>2
  <2> HIDE DEF ss
  <2> QED
    BY <2>1, <2>3
<1>5. \A p \in 0 .. Len(held) - 1 : ss[p + 1] = held[p + 1].data
  <2> TAKE p \in 0 .. Len(held) - 1
  <2>1. p + 1 \in DOMAIN held
    BY <1>2
  <2> QED
    BY <2>1
<1> HIDE DEF ss, n
<1>6. /\ FlattenSeq(ss) \in Seq(Nat)
      /\ Len(FlattenSeq(ss)) = Len(ss) * n
      /\ \A p \in 0 .. Len(ss) - 1 : \A j \in 1 .. n : FlattenSeq(ss)[p * n + j] = ss[p + 1][j]
  <2>1. LaidEvenly(Nat, n, ss, FlattenSeq(ss))
    BY <1>1, <1>4, FlattenEqual
  <2> QED
    BY <2>1 DEF LaidEvenly
<1> QED
  BY <1>3, <1>4, <1>5, <1>6 DEF n, held

-----------------------------------------------------------------------------
(* The entries of a directory. *)

Picks(es) == [k \in DOMAIN es |-> IF k \in BeforeEnd(es) /\ Kept(es[k]) THEN <<es[k]>> ELSE <<>>]

LEMMA PicksType ==
  ASSUME NEW es \in Seq(DirectoryEntryFat)
  PROVE  /\ Picks(es) \in Seq(Seq(KeptEntry)) /\ Len(Picks(es)) = Len(es)
         /\ \A k \in 1 .. Len(es) :
              Picks(es)[k] = IF k \in BeforeEnd(es) /\ Kept(es[k]) THEN <<es[k]>> ELSE <<>>
<1> DEFINE W == Seq(KeptEntry)
           ss == Picks(es)
<1>1. DOMAIN es = 1 .. Len(es) /\ Len(es) \in Nat
  OBVIOUS
<1>2. ASSUME NEW k \in 1 .. Len(es)
      PROVE  (IF k \in BeforeEnd(es) /\ Kept(es[k]) THEN <<es[k]>> ELSE <<>>) \in W
  <2>1. es[k] \in DirectoryEntryFat
    OBVIOUS
  <2>2. CASE k \in BeforeEnd(es) /\ Kept(es[k])
    <3>1. es[k] \in KeptEntry
      BY <2>1, <2>2 DEF KeptEntry
    <3>2. <<es[k]>> \in Seq(KeptEntry)
      BY <3>1
    <3> QED
      BY <2>2, <3>2
  <2>3. CASE ~(k \in BeforeEnd(es) /\ Kept(es[k]))
    BY <2>3
  <2> QED
    BY <2>2, <2>3
<1>3. \A k \in 1 .. Len(es) :
        ss[k] = IF k \in BeforeEnd(es) /\ Kept(es[k]) THEN <<es[k]>> ELSE <<>>
  BY <1>1 DEF Picks
<1>4. ss \in [1 .. Len(es) -> W]
  <2> HIDE DEF W
  <2> QED
    BY <1>1, <1>2 DEF Picks
<1> HIDE DEF ss, W
<1>5. ss \in Seq(W) /\ Len(ss) = Len(es)
  BY <1>1, <1>4
<1> QED
  BY <1>3, <1>5 DEF ss, W

LEMMA EndsFacts ==
  ASSUME NEW a \in Seq(DirectoryEntryFat), NEW b \in Seq(DirectoryEntryFat)
  PROVE  Ends(a \o b) <=> Ends(a) \/ Ends(b)
<1> DEFINE c == a \o b
           m == Len(a)
           n == Len(b)
<1>1. /\ c \in Seq(DirectoryEntryFat) /\ Len(c) = m + n /\ m \in Nat /\ n \in Nat
      /\ DOMAIN a = 1 .. m /\ DOMAIN b = 1 .. n /\ DOMAIN c = 1 .. m + n
  OBVIOUS
<1>2. (\A k \in 1 .. m : c[k] = a[k]) /\ \A k \in 1 .. n : c[m + k] = b[k]
  BY ConcatHead, ConcatTail
<1> HIDE DEF c
<1>3. ASSUME Ends(c) PROVE Ends(a) \/ Ends(b)
  <2>1. PICK k \in 1 .. m + n : c[k].kind = "end"
    BY <1>1, <1>3 DEF Ends
  <2>2. CASE k <= m
    BY <1>1, <1>2, <2>1, <2>2 DEF Ends
  <2>3. CASE ~(k <= m)
    <3>1. k - m \in 1 .. n /\ m + (k - m) = k
      BY <1>1, <2>3
    <3>2. c[m + (k - m)] = b[k - m]
      BY <1>2, <3>1
    <3> QED
      BY <1>1, <2>1, <3>1, <3>2 DEF Ends
  <2> QED
    BY <2>2, <2>3
<1>4. ASSUME Ends(a) PROVE Ends(c)
  <2>1. PICK k \in 1 .. m : a[k].kind = "end"
    BY <1>1, <1>4 DEF Ends
  <2>2. k \in 1 .. m + n /\ c[k] = a[k]
    BY <1>1, <1>2
  <2> QED
    BY <1>1, <2>1, <2>2 DEF Ends
<1>5. ASSUME Ends(b) PROVE Ends(c)
  <2>1. PICK k \in 1 .. n : b[k].kind = "end"
    BY <1>1, <1>5 DEF Ends
  <2>2. m + k \in 1 .. m + n /\ c[m + k] = b[k]
    BY <1>1, <1>2
  <2> QED
    BY <1>1, <2>1, <2>2 DEF Ends
<1> QED
  BY <1>3, <1>4, <1>5 DEF c

(* Sectors are collected one by one until one has the end mark. *)
LEMMA CollectedConcat ==
  ASSUME NEW a \in Seq(DirectoryEntryFat), NEW b \in Seq(DirectoryEntryFat)
  PROVE  /\ Ends(a) => Collected(a \o b) = Collected(a)
         /\ ~Ends(a) => Collected(a \o b) = Collected(a) \o Collected(b)
<1> DEFINE c == a \o b
           m == Len(a)
           n == Len(b)
           W == Seq(KeptEntry)
           none == [k \in 1 .. n |-> <<>>]
<1>1. /\ c \in Seq(DirectoryEntryFat) /\ Len(c) = m + n /\ m \in Nat /\ n \in Nat
      /\ DOMAIN a = 1 .. m /\ DOMAIN b = 1 .. n /\ DOMAIN c = 1 .. m + n
  OBVIOUS
<1>2. (\A k \in 1 .. m : c[k] = a[k]) /\ \A k \in 1 .. n : c[m + k] = b[k]
  BY ConcatHead, ConcatTail
<1> HIDE DEF c
<1>3. /\ Picks(a) \in Seq(W) /\ Len(Picks(a)) = m
      /\ Picks(b) \in Seq(W) /\ Len(Picks(b)) = n
      /\ Picks(c) \in Seq(W) /\ Len(Picks(c)) = m + n
  BY <1>1, PicksType
<1>4. /\ Collected(a) = FlattenSeq(Picks(a)) /\ Collected(b) = FlattenSeq(Picks(b))
      /\ Collected(c) = FlattenSeq(Picks(c))
  BY DEF Collected, Picks
<1>5. \A k \in 1 .. m : k \in BeforeEnd(c) <=> k \in BeforeEnd(a)
  BY <1>1, <1>2 DEF BeforeEnd
<1>6. \A k \in 1 .. m : Picks(c)[k] = Picks(a)[k]
  <2> TAKE k \in 1 .. m
  <2>1. k \in 1 .. m + n
    BY <1>1
  <2>2. Picks(c)[k] = IF k \in BeforeEnd(c) /\ Kept(c[k]) THEN <<c[k]>> ELSE <<>>
    BY <1>1, <2>1, PicksType
  <2>3. Picks(a)[k] = IF k \in BeforeEnd(a) /\ Kept(a[k]) THEN <<a[k]>> ELSE <<>>
    BY <1>1, PicksType
  <2> QED
    BY <1>2, <1>5, <2>2, <2>3
<1>7. ASSUME NEW r \in Seq(W), Len(r) = n, \A k \in 1 .. n : Picks(c)[m + k] = r[k]
      PROVE  Picks(c) = Picks(a) \o r
  <2> DEFINE p == Picks(a)
             q == Picks(c)
             d == p \o r
  <2> HIDE DEF p, q, W
  <2>1. p \in Seq(W) /\ Len(p) = m /\ q \in Seq(W) /\ Len(q) = m + n
    BY <1>3 DEF p, q
  <2>2. d \in Seq(W) /\ Len(d) = m + n /\ \A k \in 1 .. m + n : d[k] = IF k <= m THEN p[k] ELSE r[k - m]
    <3>1. Len(p) + Len(r) = m + n
      BY <1>7, <2>1
    <3>2. Joins(W, p, r, d)
      BY <1>7, <2>1, ConcatJoins
    <3> HIDE DEF d
    <3>3. d \in Seq(W) /\ Len(d) = m + n
      BY <3>1, <3>2 DEF Joins
    <3> QED
      BY <2>1, <3>2, <3>3 DEF Joins
  <2> HIDE DEF d
  <2>3. ASSUME NEW k \in 1 .. m + n PROVE d[k] = q[k]
    <3>1. CASE k <= m
      BY SMTT(20), <1>1, <1>6, <2>2, <3>1 DEF p, q
    <3>2. CASE ~(k <= m)
      <4>1. k - m \in 1 .. n /\ m + (k - m) = k
        BY <1>1, <3>2
      <4>2. q[m + (k - m)] = r[k - m]
        BY <1>7, <4>1 DEF q
      <4> QED
        BY <2>2, <3>2, <4>1, <4>2
    <3> QED
      BY <3>1, <3>2
  <2>4. d = q
    BY <2>1, <2>2, <2>3
  <2> QED
    BY <2>4 DEF d, p, q
<1>8. CASE Ends(a)
  <2>1. PICK e \in 1 .. m : a[e].kind = "end"
    BY <1>1, <1>8 DEF Ends
  <2>2. none \in Seq(W) /\ Len(none) = n /\ none \in [1 .. n -> {<<>>}]
    BY <1>1
  <2>3. ASSUME NEW k \in 1 .. n PROVE Picks(c)[m + k] = none[k]
    <3>1. m + k \in 1 .. m + n /\ e \in 1 .. m + n /\ e <= m + k
      BY <1>1
    <3>2. m + k \notin BeforeEnd(c)
      BY <1>1, <1>2, <2>1, <3>1 DEF BeforeEnd
    <3>3. Picks(c)[m + k] = <<>>
      BY <1>1, <3>1, <3>2, PicksType
    <3> QED
      BY <3>3
  <2>4. FlattenSeq(none) = <<>>
    BY <1>1, <2>2, FlattenEmpties
  <2> HIDE DEF none
  <2>5. Picks(c) = Picks(a) \o none
    BY <1>7, <2>2, <2>3
  <2>6. FlattenSeq(Picks(a) \o none) = FlattenSeq(Picks(a)) \o FlattenSeq(none)
    BY <1>3, <2>2, FlattenConcat
  <2>7. FlattenSeq(Picks(a)) \in Seq(KeptEntry)
    BY <1>3, FlattenType
  <2>8. FlattenSeq(Picks(a)) \o <<>> = FlattenSeq(Picks(a))
    BY <2>7, ConcatEmpty
  <2> QED
    BY <1>4, <1>8, <2>4, <2>5, <2>6, <2>8 DEF c
<1>9. CASE ~Ends(a)
  <2>1. \A k \in 1 .. m : c[k].kind # "end"
    BY <1>1, <1>2, <1>9 DEF Ends
  <2>2. ASSUME NEW k \in 1 .. n
        PROVE  m + k \in BeforeEnd(c) <=> k \in BeforeEnd(b)
    <3>1. m + k \in 1 .. m + n
      BY <1>1
    <3>2. ASSUME k \in BeforeEnd(b), NEW j \in 1 .. m + n, j <= m + k
          PROVE  c[j].kind # "end"
      <4>1. CASE j <= m
        BY <2>1, <4>1
      <4>2. CASE ~(j <= m)
        <5>1. j - m \in 1 .. n /\ j - m <= k /\ m + (j - m) = j
          BY <1>1, <3>2, <4>2
        <5>2. c[m + (j - m)] = b[j - m] /\ b[j - m].kind # "end"
          BY <1>1, <1>2, <3>2, <5>1 DEF BeforeEnd
        <5> QED
          BY <5>1, <5>2
      <4> QED
        BY <4>1, <4>2
    <3>3. ASSUME m + k \in BeforeEnd(c), NEW j \in 1 .. n, j <= k
          PROVE  b[j].kind # "end"
      <4>1. m + j \in 1 .. m + n /\ m + j <= m + k
        BY <1>1, <3>3
      <4> QED
        BY <1>1, <1>2, <3>3, <4>1 DEF BeforeEnd
    <3> QED
      BY <1>1, <3>1, <3>2, <3>3 DEF BeforeEnd
  <2>3. \A k \in 1 .. n : Picks(c)[m + k] = Picks(b)[k]
    <3> TAKE k \in 1 .. n
    <3>1. m + k \in 1 .. m + n
      BY <1>1
    <3>2. Picks(c)[m + k] = IF m + k \in BeforeEnd(c) /\ Kept(c[m + k]) THEN <<c[m + k]>> ELSE <<>>
      BY <1>1, <3>1, PicksType
    <3>3. Picks(b)[k] = IF k \in BeforeEnd(b) /\ Kept(b[k]) THEN <<b[k]>> ELSE <<>>
      BY <1>1, PicksType
    <3> QED
      BY <1>2, <2>2, <3>2, <3>3
  <2>4. Picks(c) = Picks(a) \o Picks(b)
    BY <1>3, <1>7, <2>3
  <2>5. FlattenSeq(Picks(a) \o Picks(b)) = FlattenSeq(Picks(a)) \o FlattenSeq(Picks(b))
    BY <1>3, FlattenConcat
  <2> QED
    BY <1>4, <1>9, <2>4, <2>5 DEF c
<1> QED
  BY <1>8, <1>9

-----------------------------------------------------------------------------
EntryIn(s) == EntriesIn(s, Bpb.bytesPerSector)

LEMMA EntriesInType ==
  ASSUME NEW s \in Views
  PROVE  EntryIn(s) \in Seq(DirectoryEntryFat)
<1> DEFINE n == EntriesPer(Bpb.bytesPerSector)
<1>1. n \in Nat
  BY VolumeFacts, Widths, EntriesPerType
<1>2. s.entries \in Seq(DirectoryEntryFat) /\ Len(s.entries) >= n
  BY ViewFields, VolumeFacts
<1> HIDE DEF n
<1>3. SubSeq(s.entries, 1, n) \in Seq(DirectoryEntryFat)
  BY <1>1, <1>2
<1> QED
  BY <1>3 DEF EntryIn, EntriesIn, n

LEMMA ListingType ==
  ASSUME NEW c \in Word
  PROVE  Listing[c] \in Seq(KeptEntry)
<1> DEFINE held == SectorsOfChain[c]
           ss == [k \in DOMAIN held |-> EntryIn(held[k])]
<1>1. held \in Seq(Views)
  BY SectorsOfChainFacts
<1>2. Listing[c] = Collected(FlattenSeq(ss))
  BY DEF Listing, EntryIn
<1> HIDE DEF held
<1>3. ss \in Seq(Seq(DirectoryEntryFat))
  <2>1. DOMAIN held = 1 .. Len(held) /\ Len(held) \in Nat /\ \A k \in 1 .. Len(held) : held[k] \in Views
    BY <1>1
  <2>2. ss \in [1 .. Len(held) -> Seq(DirectoryEntryFat)]
    BY <2>1, EntriesInType
  <2> HIDE DEF ss
  <2> QED
    BY <2>1, <2>2
<1> HIDE DEF ss
<1>4. FlattenSeq(ss) \in Seq(DirectoryEntryFat)
  BY <1>3, FlattenType
<1> QED
  BY <1>2, <1>4, CollectedType

(* A directory of one cluster: the entries of its first n sectors. *)
Rows(c) == [k \in 1 .. SectorsPerCluster |-> EntryIn(At(FirstSector(c) + k - 1))]
EntriesUpto(c, n) == FlattenSeq(SubSeq(Rows(c), 1, n))

LEMMA RowsType ==
  ASSUME NEW c
  PROVE  /\ Rows(c) \in Seq(Seq(DirectoryEntryFat)) /\ Len(Rows(c)) = SectorsPerCluster
         /\ \A k \in 1 .. SectorsPerCluster : Rows(c)[k] = EntryIn(At(FirstSector(c) + k - 1))
<1> DEFINE n == SectorsPerCluster
           ss == Rows(c)
<1>1. n \in Nat
  BY VolumeFacts DEF SectorsPerCluster
<1>2. /\ ss \in [1 .. n -> Seq(DirectoryEntryFat)]
      /\ \A k \in 1 .. n : ss[k] = EntryIn(At(FirstSector(c) + k - 1))
  BY EntriesInType, AtView DEF Rows
<1> HIDE DEF ss, n
<1>3. ss \in Seq(Seq(DirectoryEntryFat)) /\ Len(ss) = n
  BY <1>1, <1>2
<1> QED
  BY <1>2, <1>3 DEF ss, n

(* One more sector. *)
LEMMA UptoSteps ==
  ASSUME NEW c
  PROVE  /\ EntriesUpto(c, 0) = <<>>
         /\ \A n \in 0 .. SectorsPerCluster : EntriesUpto(c, n) \in Seq(DirectoryEntryFat)
         /\ \A n \in 0 .. SectorsPerCluster - 1 :
              EntriesUpto(c, n + 1) = EntriesUpto(c, n) \o EntryIn(At(FirstSector(c) + n))
<1> DEFINE ss == Rows(c)
           l == SectorsPerCluster
<1>1. ss \in Seq(Seq(DirectoryEntryFat)) /\ Len(ss) = l /\ l \in Nat
  BY RowsType, VolumeFacts DEF SectorsPerCluster
<1>2. EntriesUpto(c, 0) = <<>>
  <2>1. SubSeq(ss, 1, 0) = <<>>
    OBVIOUS
  <2> QED
    BY <2>1 DEF EntriesUpto, FlattenSeq
<1> HIDE DEF ss, l
<1>3. ASSUME NEW n \in 0 .. l
      PROVE  EntriesUpto(c, n) \in Seq(DirectoryEntryFat)
  BY <1>1, FlattenSplit DEF EntriesUpto, ss
<1>4. ASSUME NEW n \in 0 .. l - 1
      PROVE  EntriesUpto(c, n + 1) = EntriesUpto(c, n) \o EntryIn(At(FirstSector(c) + n))
  <2>1. n \in 0 .. Len(ss) /\ n < Len(ss) /\ n + 1 \in 1 .. l
    BY <1>1
  <2>2. FlattenSeq(SubSeq(ss, 1, n + 1)) = FlattenSeq(SubSeq(ss, 1, n)) \o ss[n + 1]
    BY <1>1, <2>1, FlattenSplit
  <2>3. ss[n + 1] = EntryIn(At(FirstSector(c) + (n + 1) - 1))
    BY <2>1, RowsType DEF ss, l
  <2>4. FirstSector(c) + (n + 1) - 1 = FirstSector(c) + n
    <3>1. n \in Int /\ FirstSector(c) + (n + 1) - 1 = FirstSector(c) + ((n + 1) - 1)
      OBVIOUS
    <3> QED
      BY <3>1
  <2> QED
    BY <2>2, <2>3, <2>4 DEF EntriesUpto, ss
<1> QED
  BY <1>2, <1>3, <1>4 DEF l

LEMMA ListingIs ==
  ASSUME NEW c \in Word, Len(Chain(c)) = 1
  PROVE  /\ c \in Clusters /\ Chain(c) = <<c>> /\ SectorsOfChain[c] = SectorsOf(c)
         /\ ~InChain(Link(c))
         /\ Listing[c] = Collected(EntriesUpto(c, SectorsPerCluster))
<1> DEFINE n == SectorsPerCluster
<1>1. c \in Clusters
  <2>1. c \notin Clusters => Chain(c) = <<>>
    BY ChainFacts
  <2>2. Len(<<>>) = 0
    OBVIOUS
  <2> QED
    BY <2>1, <2>2
<1>2. Chain(c) = <<c>> /\ ~InChain(Link(c))
  <2> DEFINE s == Chain(c)
  <2>1. s \in Seq(Clusters) /\ Len(s) = 1 /\ s[1] = c /\ ~InChain(Link(s[Len(s)]))
    BY <1>1, ChainFacts
  <2> HIDE DEF s
  <2>2. s = <<c>>
    BY <2>1
  <2> QED
    BY <2>1, <2>2 DEF s
<1>3. SectorsOf(c) \in Seq(Views) /\ Len(SectorsOf(c)) = n /\ DOMAIN SectorsOf(c) = 1 .. n /\ n \in Nat
  <2> DEFINE s == SectorsOf(c)
  <2>1. n \in Nat
    BY VolumeFacts DEF SectorsPerCluster
  <2>2. s \in [1 .. n -> Views]
    BY SectorsOfType
  <2> HIDE DEF s, n
  <2>3. s \in Seq(Views) /\ Len(s) = n /\ DOMAIN s = 1 .. n
    BY <2>1, <2>2
  <2> QED
    BY <2>1, <2>3 DEF s
<1>4. SectorsOfChain[c] = SectorsOf(c)
  <2> DEFINE chain == <<c>>
             ss == [k \in DOMAIN chain |-> SectorsOf(chain[k])]
  <2>1. SectorsOfChain[c] = FlattenSeq(ss)
    BY <1>2 DEF SectorsOfChain
  <2>2. ss = <<SectorsOf(c)>>
    OBVIOUS
  <2>3. FlattenSeq(<<SectorsOf(c)>>) = SectorsOf(c)
    BY <1>3, FlattenOne
  <2> QED
    BY <2>1, <2>2, <2>3
<1>5. Listing[c] = Collected(EntriesUpto(c, n))
  <2> DEFINE held == SectorsOf(c)
             ss == [k \in DOMAIN held |-> EntryIn(held[k])]
  <2>1. Listing[c] = Collected(FlattenSeq(ss))
    BY <1>4 DEF Listing, EntryIn
  <2>2. ss = Rows(c)
    <3> HIDE DEF n
    <3>1. ss = [k \in 1 .. n |-> EntryIn(SectorsOf(c)[k])]
      BY <1>3
    <3>2. \A k \in 1 .. n : SectorsOf(c)[k] = At(FirstSector(c) + k - 1)
      BY SectorsOfType DEF n
    <3> QED
      BY <3>1, <3>2 DEF Rows, n
  <2>3. SubSeq(Rows(c), 1, n) = Rows(c)
    <3> DEFINE r == Rows(c)
    <3>1. r \in Seq(Seq(DirectoryEntryFat)) /\ Len(r) = n
      BY RowsType
    <3> HIDE DEF r, n
    <3>2. SubSeq(r, 1, n) = r
      BY <3>1
    <3> QED
      BY <3>2 DEF r
  <2> QED
    BY <2>1, <2>2, <2>3 DEF EntriesUpto
<1> QED
  BY <1>1, <1>2, <1>4, <1>5

(* The listing is complete once the end mark was read. *)
LEMMA ListingEnds ==
  ASSUME NEW c \in Word, Len(Chain(c)) = 1, NEW n \in 0 .. SectorsPerCluster, Ends(EntriesUpto(c, n))
  PROVE  Listing[c] = Collected(EntriesUpto(c, n))
<1> DEFINE ss == Rows(c)
           l == SectorsPerCluster
           b == FlattenSeq(SubSeq(ss, n + 1, l))
<1>1. ss \in Seq(Seq(DirectoryEntryFat)) /\ Len(ss) = l /\ l \in Nat
  BY RowsType, VolumeFacts DEF SectorsPerCluster
<1>2. SubSeq(ss, 1, l) = ss
  <2> HIDE DEF ss, l
  <2> QED
    BY <1>1
<1>3. /\ b \in Seq(DirectoryEntryFat) /\ FlattenSeq(SubSeq(ss, 1, n)) \in Seq(DirectoryEntryFat)
      /\ FlattenSeq(ss) = FlattenSeq(SubSeq(ss, 1, n)) \o b
  <2> HIDE DEF ss
  <2> QED
    BY <1>1, FlattenSplit
<1>4. EntriesUpto(c, l) = EntriesUpto(c, n) \o b /\ EntriesUpto(c, n) \in Seq(DirectoryEntryFat)
  BY <1>2, <1>3 DEF EntriesUpto
<1> HIDE DEF b
<1>5. Collected(EntriesUpto(c, n) \o b) = Collected(EntriesUpto(c, n))
  BY <1>3, <1>4, CollectedConcat
<1> QED
  BY <1>4, <1>5, ListingIs

-----------------------------------------------------------------------------
(* Where paths lead. *)

Place == DirectoryEntryFat \cup {NoEntry, Root}

LEMMA ChildType ==
  ASSUME NEW d \in Place, NEW name
  PROVE  /\ Child(d, name) \in KeptEntry \cup {NoEntry}
         /\ Child(d, name) # NoEntry => d # NoEntry /\ d.kind = "dir"
         /\ Child(d, name) # NoEntry =>
              Child(d, name) \in ToSet(Listing[d.cluster]) /\ FileName(Child(d, name)) = name
<1> SUFFICES ASSUME d # NoEntry, d.kind = "dir"
             PROVE  /\ Child(d, name) \in KeptEntry \cup {NoEntry}
                    /\ Child(d, name) # NoEntry =>
                         Child(d, name) \in ToSet(Listing[d.cluster]) /\ FileName(Child(d, name)) = name
  BY DEF Child
<1>1. d.cluster \in Word
  BY EntryFields, VolumeFacts DEF Place, Root
<1> DEFINE s == Listing[d.cluster]
           named == {e \in ToSet(s) : FileName(e) = name}
<1>2. s \in Seq(KeptEntry)
  BY <1>1, ListingType
<1> HIDE DEF s
<1>3. ToSet(s) \subseteq KeptEntry
  BY <1>2 DEF ToSet
<1>4. Child(d, name) = IF named = {} THEN NoEntry ELSE CHOOSE e \in named : TRUE
  BY DEF Child, s
<1> QED
  BY <1>3, <1>4 DEF s

LEMMA PlacesDefined ==
  ASSUME NEW c \in Calls
  PROVE  /\ Places(c.path)[0] = Root
         /\ \A k \in 1 .. Len(c.path) : Places(c.path)[k] = Child(Places(c.path)[k - 1], c.path[k])
         /\ \A k \in 0 .. Len(c.path) : Places(c.path)[k] \in Place
<1> DEFINE path == c.path
           n == Len(path)
           step == [k \in 1 .. n |-> [w \in Place |-> Child(w, path[k])]]
           Solves(f) == f = [k \in 0 .. n |-> IF k = 0 THEN Root ELSE Child(f[k - 1], path[k])]
<1>1. n \in Nat
  BY CallFacts
<1>2. step \in [1 .. n -> [Place -> Place]]
  <2>1. \A k \in 1 .. n : \A w \in Place : Child(w, path[k]) \in Place
    BY ChildType DEF Place, KeptEntry
  <2> QED
    BY <2>1
<1>3. Root \in Place
  BY DEF Place
<1>4. \A k \in 1 .. n : \A w \in Place : step[k][w] = Child(w, path[k])
  OBVIOUS
<1> HIDE DEF n, step
<1>5. PICK f \in [0 .. n -> Place] : StepsThrough(f, n, Root, step)
  BY <1>1, <1>2, <1>3, RecursionSolved
<1>6. f[0] = Root /\ \A k \in 1 .. n : f[k] = step[k][f[k - 1]]
  BY <1>1, <1>5 DEF StepsThrough
<1>7. \A k \in 1 .. n : f[k] = Child(f[k - 1], path[k])
  <2> TAKE k \in 1 .. n
  <2>1. k - 1 \in 0 .. n
    BY <1>1
  <2> QED
    BY <1>4, <1>5, <1>6, <2>1
<1>8. Solves(f)
  <2>1. \A k \in 0 .. n : k # 0 => k \in 1 .. n
    BY <1>1
  <2>2. \A k \in 0 .. n : f[k] = IF k = 0 THEN Root ELSE Child(f[k - 1], path[k])
    BY <1>6, <1>7, <2>1
  <2> QED
    BY <1>5, <2>2
<1> DEFINE g == Places(path)
<1>9. Solves(g)
  <2>1. g = CHOOSE h : Solves(h)
    BY DEF Places, n
  <2> HIDE DEF Solves, g
  <2> QED
    BY <1>8, <2>1
<1> HIDE DEF g
<1>10. g[0] = Root /\ \A k \in 1 .. n : g[k] = Child(g[k - 1], path[k])
  <2>1. \A k \in 0 .. n : g[k] = IF k = 0 THEN Root ELSE Child(g[k - 1], path[k])
    BY <1>9
  <2>2. 0 \in 0 .. n /\ \A k \in 1 .. n : k # 0 /\ k \in 0 .. n
    BY <1>1
  <2> QED
    BY <2>1, <2>2
<1>11. \A k \in 0 .. n : g[k] \in Place
  <2> DEFINE S == {k \in Nat : k <= n => g[k] \in Place}
  <2>1. 0 \in S
    BY <1>3, <1>10
  <2>2. \A k \in Nat : k \in S => k + 1 \in S
    <3> SUFFICES ASSUME NEW k \in Nat, k + 1 <= n, g[k] \in Place PROVE g[k + 1] \in Place
      BY <1>1
    <3>1. k + 1 \in 1 .. n /\ (k + 1) - 1 = k
      BY <1>1
    <3>2. g[k + 1] = Child(g[k], path[k + 1])
      BY <1>10, <3>1
    <3>3. Child(g[k], path[k + 1]) \in KeptEntry \cup {NoEntry}
      BY ChildType
    <3> QED
      BY <3>2, <3>3 DEF Place, KeptEntry
  <2> HIDE DEF S
  <2>3. \A k \in Nat : k \in S
    BY <2>1, <2>2, NatSetInduction
  <2> QED
    BY <1>1, <2>3 DEF S
<1> QED
  BY <1>10, <1>11 DEF g, n

-----------------------------------------------------------------------------
(* Looking for a name in a directory. *)

LEMMA ConvertedNames ==
  ASSUME NEW e \in DirectoryEntryFat
  PROVE  /\ Len(e.ext) # 1 => ConvertName(e) = FileName(e)
         /\ Len(e.ext) = 1 => ConvertName(e) = e.base \o e.ext
<1> DEFINE C == Char \cup {"."}
           a == e.base
           b == e.ext
<1>1. a \in Seq(C) /\ b \in Seq(C) /\ <<".">> \in Seq(C)
  <2>1. a \in Seq(Char) /\ b \in Seq(Char)
    BY EntryFields DEF Name
  <2> HIDE DEF a, b
  <2> QED
    BY <2>1
<1> HIDE DEF a, b, C
<1>2. a \o <<>> = a /\ (a \o <<".">>) \o b = a \o (<<".">> \o b) /\ Len(b) \in Nat
      /\ (b = <<>> <=> Len(b) = 0) /\ a \o <<>> \o <<>> = a
  BY <1>1
<1>3. ConvertName(e) = (a \o (IF Len(b) >= 2 THEN <<".">> ELSE <<>>)) \o b
  BY DEF ConvertName, a, b
<1>4. FileName(e) = a \o (IF b # <<>> THEN <<".">> \o b ELSE <<>>)
  BY DEF FileName, a, b
<1> DEFINE l == Len(b)
<1> HIDE DEF l
<1>8. l = Len(e.ext)
  BY DEF l, b
<1>12. l \in Nat
  BY <1>2 DEF l
<1>10. b = <<>> <=> l = 0
  BY <1>2 DEF l
<1>9. ConvertName(e) = (a \o (IF l >= 2 THEN <<".">> ELSE <<>>)) \o b
  BY <1>3 DEF l
<1>5. CASE l >= 2
  <2>1. l # 0 /\ l # 1
    BY <1>5, <1>12
  <2>2. ConvertName(e) = (a \o <<".">>) \o b
    BY <1>5, <1>9
  <2>3. FileName(e) = a \o (<<".">> \o b)
    BY <1>4, <1>10, <2>1
  <2>4. ConvertName(e) = FileName(e)
    BY <1>2, <2>2, <2>3
  <2> QED
    BY <1>8, <2>1, <2>4
<1>6. CASE l = 0
  <2>1. b = <<>> /\ ~(l >= 2)
    BY <1>6, <1>10
  <2>2. ConvertName(e) = (a \o <<>>) \o b
    BY <1>9, <2>1
  <2>3. FileName(e) = a \o <<>>
    BY <1>4, <2>1
  <2>5. (a \o <<>>) \o b = a /\ a \o <<>> = a
    BY <1>2, <2>1
  <2>4. ConvertName(e) = FileName(e)
    BY <2>2, <2>3, <2>5
  <2>6. l # 1
    BY <1>6
  <2> QED
    BY <1>8, <2>4, <2>6
<1>7. CASE l = 1
  <2>1. ~(l >= 2)
    BY <1>7
  <2>2. ConvertName(e) = (a \o <<>>) \o b
    BY <1>9, <2>1
  <2>3. a \o <<>> = a
    BY <1>2
  <2>4. ConvertName(e) = e.base \o e.ext
    BY <2>2, <2>3 DEF a, b
  <2> QED
    BY <1>7, <1>8, <2>4
<1>11. l = 0 \/ l = 1 \/ l >= 2
  BY <1>12
<1> QED
  BY <1>5, <1>6, <1>7, <1>11

(* A directory on a plain path. *)
LEMMA DirectoryOf ==
  ASSUME NEW d \in Place, NEW name, PlainStep(d, name), d # NoEntry
  PROVE  /\ d.kind = "dir" /\ d.cluster \in Word /\ Len(Chain(d.cluster)) = 1
         /\ d.cluster \in Clusters
         /\ Listing[d.cluster] \in Seq(KeptEntry)
         /\ \A e \in ToSet(Listing[d.cluster]) :
              /\ ConvertName(e) = name <=> FileName(e) = name
              /\ FileName(e) = name => e.kind # "label"
<1>1. d.kind = "dir" /\ Len(Chain(d.cluster)) = 1
      /\ \A e \in ToSet(Listing[d.cluster]) :
           name \in {FileName(e), e.base \o e.ext} => Len(e.ext) # 1 /\ e.kind # "label"
  BY DEF PlainStep
<1>2. d.cluster \in Word
  BY EntryFields, VolumeFacts DEF Place, Root
<1>3. d.cluster \in Clusters
  BY <1>1, <1>2, ListingIs
<1>4. Listing[d.cluster] \in Seq(KeptEntry)
  BY <1>2, ListingType
<1>5. \A e \in ToSet(Listing[d.cluster]) : e \in DirectoryEntryFat /\ Len(e.ext) \in Nat
  <2> DEFINE s == Listing[d.cluster]
  <2>1. s \in Seq(KeptEntry)
    BY <1>4
  <2> HIDE DEF s
  <2>2. \A e \in ToSet(s) : e \in KeptEntry
    BY <2>1 DEF ToSet
  <2>3. \A e \in ToSet(s) : e \in DirectoryEntryFat
    BY <2>2 DEF KeptEntry
  <2> QED
    BY <2>3, EntryFields DEF s, Name
<1>6. ASSUME NEW e \in ToSet(Listing[d.cluster])
      PROVE  /\ ConvertName(e) = name <=> FileName(e) = name
             /\ FileName(e) = name => e.kind # "label"
  <2>1. e \in DirectoryEntryFat
    BY <1>5
  <2>2. name \in {FileName(e), e.base \o e.ext} => Len(e.ext) # 1 /\ e.kind # "label"
    BY <1>1
  <2>3. CASE Len(e.ext) = 1
    BY <2>1, <2>2, <2>3, ConvertedNames
  <2>4. CASE Len(e.ext) # 1
    BY <2>1, <2>2, <2>4, ConvertedNames
  <2> QED
    BY <2>3, <2>4
<1> QED
  BY <1>1, <1>2, <1>3, <1>4, <1>6

LEMMA PlainFacts ==
  ASSUME NEW c \in Plain, NEW k \in 1 .. Len(c.path)
  PROVE  /\ c \in Calls /\ PlainStep(Places(c.path)[k - 1], c.path[k])
         /\ Places(c.path)[k - 1] \in Place /\ Places(c.path)[k] \in Place
         /\ Places(c.path)[k] = Child(Places(c.path)[k - 1], c.path[k])
         /\ c.path[k] # <<>> /\ c.path[k] \in Names
<1>1. c \in Calls /\ c.path \in Seq(Name) /\ Len(c.path) \in Nat
  BY CallFacts DEF Plain
<1>2. DOMAIN c.path = 1 .. Len(c.path) /\ k \in DOMAIN c.path
  <2> DEFINE s == c.path
  <2>1. s \in Seq(Name) /\ k \in 1 .. Len(s)
    BY <1>1
  <2> HIDE DEF s
  <2>2. DOMAIN s = 1 .. Len(s)
    BY <2>1
  <2> QED
    BY <2>1, <2>2 DEF s
<1>3. PlainStep(Places(c.path)[k - 1], c.path[k])
  BY <1>2 DEF Plain
<1>4. k - 1 \in 0 .. Len(c.path) /\ k \in 0 .. Len(c.path)
  BY <1>1
<1>5. c.path[k] \in Names
  BY <1>1, <1>2 DEF Names, ToSet
<1> QED
  BY <1>1, <1>3, <1>4, <1>5, PlacesDefined DEF PlainStep

(* A search in the whole listing finds what the disk has. *)
LEMMA FoundIsChild ==
  ASSUME clean, NEW c \in Plain, NEW k \in 1 .. Len(c.path), Places(c.path)[k - 1] # NoEntry,
         results = Listing[Places(c.path)[k - 1].cluster]
  PROVE  Found(c.path[k]) = {Places(c.path)[k]}
<1> DEFINE d == Places(c.path)[k - 1]
           name == c.path[k]
<1>1. c \in Calls /\ PlainStep(d, name) /\ d \in Place /\ d # NoEntry /\ name \in Names
      /\ Places(c.path)[k] = Child(d, name)
  BY PlainFacts
<1>2. d.cluster \in Directories
  <2>1. d.kind = "dir"
    BY <1>1, DirectoryOf
  <2>2. k - 1 \in 0 .. Len(c.path)
    BY <1>1, CallFacts
  <2>3. d \in UNION {{Places(a.path)[j] : j \in 0 .. Len(a.path)} : a \in Calls}
    BY <1>1, <2>2
  <2> HIDE DEF d
  <2> QED
    BY <1>1, <2>1, <2>3 DEF Directories
<1> HIDE DEF d, name
<1>3. /\ results \in Seq(KeptEntry) /\ d.kind = "dir"
      /\ \A e \in ToSet(results) :
           /\ ConvertName(e) = name <=> FileName(e) = name
           /\ FileName(e) = name => e.kind # "label"
  <2>1. results = Listing[d.cluster]
    BY DEF d
  <2> QED
    BY <1>1, <2>1, DirectoryOf
<1>4. \A j \in DOMAIN results : results[j] \in ToSet(results)
  BY DEF ToSet
<1> DEFINE named == {e \in ToSet(results) : FileName(e) = name}
           m == FirstMatch(name)
<1>5. Child(d, name) = IF named = {} THEN NoEntry ELSE CHOOSE e \in named : TRUE
  BY <1>1, <1>3 DEF Child, d
<1>6. Matching(name) = {j \in DOMAIN results : results[j] \in named}
  BY <1>3, <1>4 DEF Matching
<1>7. CASE named = {}
  BY <1>1, <1>5, <1>6, <1>7 DEF Found, name
<1>8. CASE named # {}
  <2>1. Matching(name) # {}
    BY <1>6, <1>8 DEF ToSet
  <2>2. Matching(name) \subseteq Nat
    BY <1>3 DEF Matching
  <2>3. \E j \in Matching(name) : \A l \in Matching(name) : j <= l
    BY <2>1, <2>2, LeastNatural
  <2>4. m \in Matching(name)
    BY <2>3 DEF FirstMatch
  <2>5. results[m] \in named
    BY <1>6, <2>4
  <2>6. \A e, f \in named : e = f
    <3>1. results = Listing[d.cluster]
      BY DEF d
    <3> QED
      BY <1>1, <1>2, <1>3, <3>1, VolumeAssumption
  <2>7. Child(d, name) = results[m]
    BY <1>5, <1>8, <2>5, <2>6
  <2> QED
    BY <1>1, <2>1, <2>7 DEF Found, name
<1> QED
  BY <1>7, <1>8

(* The dot has no room behind an archived file's name. *)
LEMMA OverrunsArchived ==
  ASSUME NEW e \in DirectoryEntryFat, Overruns(e)
  PROVE  e.archive /\ Len(e.ext) >= 2
<1> DEFINE a == e.base
           b == e.ext
           C == Char \cup {"."}
           dot == IF Len(b) >= 2 THEN <<".">> ELSE <<>>
<1>1. a \in Seq(C) /\ b \in Seq(C) /\ Len(a) \in Nat /\ Len(b) \in Nat
  <2>1. a \in Seq(Char) /\ b \in Seq(Char)
    BY EntryFields DEF Name
  <2> HIDE DEF a, b
  <2>2. Char \subseteq C
    OBVIOUS
  <2> QED
    BY <2>1, <2>2, SeqMonotonic, LenProperties
<1>2. dot \in Seq(C) /\ Len(dot) = IF Len(b) >= 2 THEN 1 ELSE 0
  <2> DEFINE l == Len(b)
  <2>1. <<".">> \in Seq(C) /\ Len(<<".">>) = 1
    OBVIOUS
  <2>2. <<>> \in Seq(C) /\ Len(<<>>) = 0
    BY EmptySeq
  <2>3. dot = IF l >= 2 THEN <<".">> ELSE <<>>
    OBVIOUS
  <2> HIDE DEF l, C, dot
  <2>4. CASE l >= 2
    BY <2>1, <2>3, <2>4 DEF l
  <2>5. CASE ~(l >= 2)
    BY <2>2, <2>3, <2>5 DEF l
  <2> QED
    BY <2>4, <2>5
<1>3. ConvertName(e) = a \o dot \o b
  BY DEF ConvertName
<1>4. Len(a \o dot) = Len(a) + Len(dot) /\ a \o dot \in Seq(C)
  <2> HIDE DEF a, b, dot, C
  <2> QED
    BY <1>1, <1>2, ConcatProperties
<1>5. Len(a \o dot \o b) = Len(a) + Len(dot) + Len(b)
  <2> DEFINE ad == a \o dot
  <2>1. ad \in Seq(C) /\ Len(ad) = Len(a) + Len(dot)
    BY <1>4
  <2> HIDE DEF a, b, dot, C, ad
  <2>2. Len(ad \o b) = Len(ad) + Len(b)
    BY <1>1, <2>1, ConcatProperties
  <2> QED
    BY <2>1, <2>2 DEF ad
<1>6. BufferLength(e) = Len(a) + Len(b) + (IF e.archive THEN 0 ELSE 1)
  BY DEF BufferLength
<1>7. Len(a) + Len(dot) + Len(b) > Len(a) + Len(b) + (IF e.archive THEN 0 ELSE 1)
  BY <1>3, <1>5, <1>6 DEF Overruns
<1> HIDE DEF a, b, dot
<1>8. Len(dot) \in {0, 1}
  <2>1. CASE Len(b) >= 2
    BY <1>2, <2>1
  <2>2. CASE ~(Len(b) >= 2)
    BY <1>2, <2>2
  <2> QED
    BY <2>1, <2>2
<1>9. e.archive /\ Len(dot) # 0
  <2>1. CASE e.archive
    <3>1. Len(a) + Len(dot) + Len(b) > Len(a) + Len(b) + 0
      BY <1>7, <2>1
    <3> QED
      BY <1>1, <1>8, <2>1, <3>1
  <2>2. CASE ~e.archive
    <3>1. Len(a) + Len(dot) + Len(b) > Len(a) + Len(b) + 1
      BY <1>7, <2>2
    <3> DEFINE la == Len(a)
               lb == Len(b)
               ld == Len(dot)
    <3>2. la \in Nat /\ lb \in Nat /\ ld \in {0, 1} /\ la + ld + lb > la + lb + 1
      BY <1>1, <1>8, <3>1
    <3> HIDE DEF la, lb, ld
    <3>3. FALSE
      BY <3>2
    <3> QED
      BY <3>3
  <2> QED
    BY <2>1, <2>2
<1>10. Len(b) >= 2
  <2>1. CASE ~(Len(b) >= 2)
    BY <1>2, <1>9, <2>1
  <2> QED
    BY <2>1
<1> QED
  BY <1>9, <1>10 DEF b

(* A search that damages the heap reaches an archived file. *)
LEMMA BreaksExplained ==
  ASSUME clean, NEW c \in Plain, NEW k \in 1 .. Len(c.path), Places(c.path)[k - 1] # NoEntry,
         results = Listing[Places(c.path)[k - 1].cluster], Breaks(c.path[k])
  PROVE  LET es == Listing[Places(c.path)[k - 1].cluster] IN
         \E n \in DOMAIN es :
           /\ es[n].archive /\ Len(es[n].ext) >= 2
           /\ \A j \in 1 .. n - 1 : FileName(es[j]) # c.path[k]
<1> DEFINE d == Places(c.path)[k - 1]
           name == c.path[k]
<1>1. PlainStep(d, name) /\ d \in Place /\ d # NoEntry /\ results = Listing[d.cluster]
  BY PlainFacts
<1> HIDE DEF d, name
<1>2. /\ results \in Seq(KeptEntry)
      /\ \A e \in ToSet(results) : ConvertName(e) = name <=> FileName(e) = name
  BY <1>1, DirectoryOf
<1>3. PICK n \in DOMAIN results : Overruns(results[n]) /\ \A j \in Matching(name) : n <= j
  BY DEF Breaks, name
<1>5. results[n].archive /\ Len(results[n].ext) >= 2
  <2>1. results[n] \in KeptEntry
    BY <1>2, <1>3, LenProperties, ElementOfSeq
  <2>2. results[n] \in DirectoryEntryFat
    BY <2>1 DEF KeptEntry
  <2> QED
    BY <1>3, <2>2, OverrunsArchived
<1>4. ASSUME NEW j \in 1 .. n - 1
      PROVE  FileName(results[j]) # name
  <2>1. j \in DOMAIN results /\ ~(n <= j)
    BY <1>2, <1>3
  <2>2. results[j] \in ToSet(results)
    BY <2>1 DEF ToSet
  <2> QED
    BY <1>2, <1>3, <2>1, <2>2 DEF Matching
<1> QED
  BY <1>1, <1>3, <1>4, <1>5 DEF d, name

(* Behind a name that is not there is nothing. *)
LEMMA NowhereStays ==
  ASSUME NEW c \in Calls, NEW k \in 0 .. Len(c.path), Places(c.path)[k] = NoEntry
  PROVE  Places(c.path)[Len(c.path)] = NoEntry
<1> DEFINE n == Len(c.path)
           S == {m \in Nat : k + m <= n => Places(c.path)[k + m] = NoEntry}
<1>1. n \in Nat /\ \A m \in 1 .. n : Places(c.path)[m] = Child(Places(c.path)[m - 1], c.path[m])
  BY CallFacts, PlacesDefined
<1> HIDE DEF n
<1>2. 0 \in S
  <2>1. k + 0 = k
    BY <1>1
  <2> QED
    BY <2>1
<1>3. \A m \in Nat : m \in S => m + 1 \in S
  <2> SUFFICES ASSUME NEW m \in Nat, k + m + 1 <= n, Places(c.path)[k + m] = NoEntry
               PROVE  Places(c.path)[k + (m + 1)] = NoEntry
    BY <1>1
  <2>1. k + (m + 1) \in 1 .. n /\ (k + (m + 1)) - 1 = k + m
    BY <1>1 DEF n
  <2> QED
    BY <1>1, <2>1 DEF Child
<1> HIDE DEF S
<1>4. n - k \in S
  <2>1. n - k \in Nat
    BY <1>1 DEF n
  <2> QED
    BY <1>2, <1>3, <2>1, NatSetInduction
<1>5. k + (n - k) = n
  BY <1>1 DEF n
<1> QED
  BY <1>1, <1>4, <1>5 DEF S, n

(* The parts of a path. *)
LEMMA RestOfPath ==
  ASSUME NEW path \in Seq(Name), NEW k \in 0 .. Len(path) - 1
  PROVE  LET rest == SubSeq(path, k + 1, Len(path) - 1) IN
         /\ rest = <<>> <=> k = Len(path) - 1
         /\ rest # <<>> =>
              /\ Head(rest) = path[k + 1]
              /\ Tail(rest) = SubSeq(path, (k + 1) + 1, Len(path) - 1)
         /\ Last(path) = path[Len(path)]
<1> DEFINE n == Len(path)
           s == SubSeq(path, k + 1, n - 1)
           t == SubSeq(path, (k + 1) + 1, n - 1)
<1>1. /\ s \in Seq(Name) /\ Len(s) = n - 1 - k /\ \A j \in 1 .. n - 1 - k : s[j] = path[k + j]
      /\ n \in Nat
  OBVIOUS
<1>2. k < n - 1 =>
        t \in Seq(Name) /\ Len(t) = n - 2 - k /\ \A j \in 1 .. n - 2 - k : t[j] = path[k + 1 + j]
  OBVIOUS
<1> HIDE DEF s, t
<1>3. s = <<>> <=> k = n - 1
  BY <1>1
<1>4. s # <<>> => Head(s) = path[k + 1]
  BY <1>1, <1>3
<1>5. s # <<>> => Tail(s) = t
  <2> SUFFICES ASSUME k < n - 1 PROVE Tail(s) = t
    BY <1>1, <1>3
  <2>4. t \in Seq(Name) /\ Len(t) = n - 2 - k /\ \A j \in 1 .. n - 2 - k : t[j] = path[k + 1 + j]
    BY <1>2
  <2> DEFINE u == Tail(s)
  <2>1. u \in Seq(Name) /\ Len(u) = n - 2 - k /\ \A j \in 1 .. n - 2 - k : u[j] = s[j + 1]
    BY <1>1
  <2> HIDE DEF u
  <2>2. ASSUME NEW j \in 1 .. n - 2 - k PROVE u[j] = t[j]
    <3>1. j + 1 \in 1 .. n - 1 - k /\ k + (j + 1) = k + 1 + j
      BY <1>1
    <3>2. s[j + 1] = path[k + (j + 1)]
      BY <1>1, <3>1
    <3> QED
      BY <2>4, <2>1, <3>1, <3>2
  <2> DEFINE l == n - 2 - k
  <2> HIDE DEF l
  <2>5. u \in Seq(Name) /\ t \in Seq(Name) /\ Len(u) = l /\ Len(t) = l
        /\ \A j \in 1 .. l : u[j] = t[j]
    BY <2>1, <2>2, <2>4 DEF l
  <2>3. u = t
    BY <2>5
  <2> QED
    BY <2>3 DEF u
<1> QED
  BY <1>3, <1>4, <1>5 DEF Last, s, t

(* getEntry walks along the path without its last name. *)
LEMMA DirectoryIs ==
  ASSUME NEW path \in Seq(Name), Len(path) > 0
  PROVE  LET n == Len(path) IN
         /\ n = 1 => Directory(path) = <<>> /\ SubSeq(path, 0 + 1, n - 1) = <<>>
         /\ n > 1 => /\ Directory(path) # <<>> /\ Head(Directory(path)) = <<>>
                     /\ Tail(Directory(path)) = SubSeq(path, 0 + 1, n - 1)
<1> DEFINE n == Len(path)
           f == Front(path)
<1>1. n \in Nat /\ f = SubSeq(path, 1, n - 1)
  BY DEF Front
<1>2. f \in Seq(Name)
  BY <1>1
<1>3. n > 1 => Directory(path) = <<<<>>>> \o f
  <2>1. n > 1 => n # 1
    BY <1>1
  <2> QED
    BY <2>1 DEF Directory
<1> HIDE DEF f
<1>4. n = 1 => Directory(path) = <<>> /\ SubSeq(path, 0 + 1, n - 1) = <<>>
  BY DEF Directory
<1>5. n > 1 => Directory(path) # <<>> /\ Head(Directory(path)) = <<>> /\ Tail(Directory(path)) = f
  <2> DEFINE u == <<<<>>>> \o f
  <2>1. <<>> \in Name
    BY DEF Name
  <2>2. u # <<>> /\ Head(u) = <<>> /\ Tail(u) = f
    BY <1>2, <2>1
  <2> QED
    BY <1>3, <2>2
<1>6. 0 + 1 = 1
  OBVIOUS
<1> QED
  BY <1>1, <1>4, <1>5, <1>6

-----------------------------------------------------------------------------
(* The walk along a path. *)

(* It has entered the directory that the first k names lead to. *)
Reached(k) ==
  /\ k \in 0 .. Len(call.path) - 1
  /\ parts = SubSeq(call.path, k + 1, Len(call.path) - 1)
  /\ Places(call.path)[k] # NoEntry

(* Where it goes on. *)
Entering ==
  \/ parts = Directory(call.path) /\ cluster = 0
  \/ \E k \in 0 .. Len(call.path) - 1 : Reached(k) /\ cluster = Places(call.path)[k].cluster

(* How much of a directory is listed: the sectors in front of i without an *)
(* end mark, or all of it.                                                 *)
Collecting ==
  /\ \E k \in 0 .. Len(call.path) - 1 : Reached(k) /\ first = Places(call.path)[k].cluster
  /\ phase \in {"list", "next"} => cluster = first
  /\ phase = "list" => ~Ends(EntriesUpto(first, i)) /\ results = Collected(EntriesUpto(first, i))
  /\ phase \in {"next", "listed"} => results = Listing[first]

WalkInv ==
  /\ phase \in {"walk", "list", "next", "listed"} => entry = NoEntry
  /\ phase = "walk" => Entering
  /\ phase \in {"list", "next", "listed"} => Collecting
  /\ phase \in {"found", "copy", "copyNext"} => entry = Wanted

(* What is copied after q sectors. *)
Least(a, b) == IF a < b THEN a ELSE b
CopiedFrom(q) ==
  /\ out = SubSeq(Bytes[entry.cluster], 1, Least(Bound, q * BytesPerSector))
  /\ fileSize = Bound - Least(Bound, q * BytesPerSector)

CopyInv ==
  /\ phase \in {"walk", "list", "next", "listed", "found"} => out = <<>>
  /\ phase \in {"copy", "copyNext"} =>
       /\ Readable
       /\ phase = "copyNext" => i = SectorsPerCluster
       /\ \E m \in 0 .. Len(Chain(entry.cluster)) - 1 :
            cluster = Chain(entry.cluster)[m + 1] /\ CopiedFrom(m * SectorsPerCluster + i)

(* Everything about a call that can be trusted and whose path is plain. *)
Following == WalkInv /\ CopyInv /\ AnswersRight /\ BytesRight /\ WildExplained
FollowInv == Trusted /\ call \in Plain => Following

-----------------------------------------------------------------------------
(* What a read that nothing disturbed returns. *)
LEMMA ReadSucceeds ==
  ASSUME FATInv, Trusted, pc = "done", NEW s \in 0 .. MaxLba, NEW n \in 0 .. BytesPerSector,
         Asked(s, n)
  PROVE  Seen = {At(s)}
<1>1. request.drive = Disk /\ request.sector = s /\ request.op = "read"
  BY Widths DEF Asked, Refused
<1>2. Delivered
  BY <1>1 DEF FATInv, DriverInv, ReadInv, Trusted
<1>3. \A k \in Offset : k < request.count => buffer[k] = <<request.sector, k>>
  BY <1>2 DEF Delivered
<1> QED
  BY <1>1, <1>3 DEF Seen, At

LEMMA ListRead ==
  ASSUME FATInv, Trusted, pc = "done", phase = "list", first \in Clusters
  PROVE  Seen = {At(FirstSector(first) + i)} /\ i \in 0 .. SectorsPerCluster - 1
<1>1. bpb = Bpb /\ partitionOffset = Volume /\ i \in 0 .. SectorsPerCluster - 1
  BY VolumeFacts DEF Trusted, FATInv, FATTypes, WalkTypes, SectorsPerCluster
<1>2. (ClusterToLBA(first) + i) % U32 = FirstSector(first) + i /\ FirstSector(first) + i \in 0 .. MaxLba
  BY <1>1, LBAIsFirstSector, FirstSectorRange
<1>3. Asked(FirstSector(first) + i, BytesPerSector)
  BY <1>1, <1>2, VolumeFacts DEF FATInv, RequestInv
<1> QED
  BY <1>1, <1>2, <1>3, ReadSucceeds, Widths

LEMMA DataSeen ==
  ASSUME FATInv, Trusted, pc = "done", phase = "copy", cluster \in Clusters
  PROVE  Seen = {At(FirstSector(cluster) + i)} /\ i \in 0 .. SectorsPerCluster - 1
<1>1. bpb = Bpb /\ partitionOffset = Volume /\ i \in 0 .. SectorsPerCluster - 1
  BY VolumeFacts DEF Trusted, FATInv, FATTypes, WalkTypes, SectorsPerCluster
<1>2. (ClusterToLBA(cluster) + i) % U32 = FirstSector(cluster) + i
      /\ FirstSector(cluster) + i \in 0 .. MaxLba
  BY <1>1, LBAIsFirstSector, FirstSectorRange
<1>3. Asked(FirstSector(cluster) + i, Chunk)
  BY <1>2 DEF FATInv, RequestInv
<1>4. Chunk \in 0 .. BytesPerSector
  BY SeenViews, AtView, ChunkThere DEF FATInv
<1> QED
  BY <1>1, <1>2, <1>3, <1>4, ReadSucceeds

LEMMA LinkRead ==
  ASSUME FATInv, Trusted, pc = "done", phase \in {"next", "copyNext"}, cluster \in Clusters
  PROVE  \A s \in Seen : NextOf(s, cluster) = Link(cluster)
<1>1. NextSector(cluster) = FatSector(cluster) /\ FatSector(cluster) \in 0 .. MaxLba
  BY LinkSector DEF Trusted
<1>2. Asked(FatSector(cluster), BytesPerSector)
  BY <1>1 DEF FATInv, RequestInv
<1>3. Seen = {At(FatSector(cluster))}
  BY <1>1, <1>2, ReadSucceeds, Widths
<1> QED
  BY <1>3 DEF Link

-----------------------------------------------------------------------------
(* Where Following stays as it is. *)
LEMMA QuietFollows ==
  ASSUME Following, UNCHANGED fatVars, Trusted
  PROVE  Following'
<1>1. UNCHANGED <<phase, call, parts, cluster, first, i, results, entry, fileSize, out, terminator, reply>>
  BY DEF fatVars
<1>2. WalkInv'
  BY <1>1 DEF Following, WalkInv, Entering, Collecting, Reached, Wanted
<1>3. CopyInv'
  BY <1>1 DEF Following, CopyInv, CopiedFrom, Readable, Bound
<1>4. Done' => Done
  BY <1>1 DEF Done
<1>5. AnswersRight' /\ BytesRight'
  BY <1>1, <1>4 DEF Following, AnswersRight, BytesRight, Answers, Copies, Wanted
<1>6. WildExplained'
  BY <1>1 DEF Following, WildExplained
<1> QED
  BY <1>2, <1>3, <1>5, <1>6 DEF Following

LEMMA CallStarts ==
  ASSUME NEW c \in Calls, Call(c), Trusted'
  PROVE  Following'
<1>1. phase' = "walk" /\ call' = c /\ parts' = Directory(c.path) /\ cluster' = 0 /\ entry' = NoEntry
      /\ out' = <<>>
  BY DEF Call, Trusted
<1>2. WalkInv' /\ CopyInv'
  BY <1>1 DEF WalkInv, CopyInv, Entering
<1> QED
  BY <1>1, <1>2 DEF Following, AnswersRight, BytesRight, Answers, Copies, WildExplained, Done

(* A step on the way, and what is left to show of it. *)
LEMMA OnTheWay ==
  ASSUME WalkInv', CopyInv', phase' \notin {"idle", "wild"}
  PROVE  Following'
BY DEF Following, AnswersRight, BytesRight, Answers, Copies, WildExplained, Done

-----------------------------------------------------------------------------
(* Where the walk has got to. *)
LEMMA ReachedFacts ==
  ASSUME call \in Plain, NEW k, Reached(k)
  PROVE  /\ k \in 0 .. Len(call.path) - 1 /\ k + 1 \in 1 .. Len(call.path) /\ (k + 1) - 1 = k
         /\ Places(call.path)[k].cluster \in Clusters
         /\ Len(Chain(Places(call.path)[k].cluster)) = 1
         /\ call.path[k + 1] # <<>>
         /\ parts = <<>> <=> k = Len(call.path) - 1
         /\ parts # <<>> =>
              /\ Head(parts) = call.path[k + 1]
              /\ Tail(parts) = SubSeq(call.path, (k + 1) + 1, Len(call.path) - 1)
         /\ parts = <<>> => Last(call.path) = call.path[k + 1] /\ Len(call.path) = k + 1
<1>1. call \in Calls /\ call.path \in Seq(Name) /\ Len(call.path) \in Nat \ {0}
  BY CallFacts DEF Plain
<1>2. k \in 0 .. Len(call.path) - 1 /\ Places(call.path)[k] # NoEntry
      /\ parts = SubSeq(call.path, k + 1, Len(call.path) - 1)
  BY DEF Reached
<1>3. k + 1 \in 1 .. Len(call.path) /\ (k + 1) - 1 = k
  BY <1>1, <1>2
<1>4. PlainStep(Places(call.path)[k], call.path[k + 1]) /\ Places(call.path)[k] \in Place
      /\ call.path[k + 1] # <<>>
  <2> DEFINE j == k + 1
  <2>1. j \in 1 .. Len(call.path) /\ j - 1 = k
    BY <1>3
  <2> HIDE DEF j
  <2>2. PlainStep(Places(call.path)[j - 1], call.path[j]) /\ Places(call.path)[j - 1] \in Place
        /\ call.path[j] # <<>>
    BY <2>1, PlainFacts
  <2> QED
    BY <2>1, <2>2 DEF j
<1>5. Places(call.path)[k].cluster \in Clusters /\ Len(Chain(Places(call.path)[k].cluster)) = 1
  BY <1>2, <1>4, DirectoryOf
<1>6. /\ parts = <<>> <=> k = Len(call.path) - 1
      /\ parts # <<>> =>
           /\ Head(parts) = call.path[k + 1]
           /\ Tail(parts) = SubSeq(call.path, (k + 1) + 1, Len(call.path) - 1)
      /\ Last(call.path) = call.path[Len(call.path)]
  BY <1>1, <1>2, RestOfPath
<1>7. parts = <<>> => Len(call.path) = k + 1
  BY <1>1, <1>2, <1>6
<1> QED
  BY <1>2, <1>3, <1>4, <1>5, <1>6, <1>7

LEMMA RootReached ==
  ASSUME call \in Plain
  PROVE  /\ Places(call.path)[0] = Root /\ Root # NoEntry /\ Root.cluster = Bpb.rootCluster
         /\ 0 \in 0 .. Len(call.path) - 1
         /\ Directory(call.path) = <<>> => Len(call.path) = 1
         /\ Directory(call.path) # <<>> =>
              Head(Directory(call.path)) = <<>>
              /\ Tail(Directory(call.path)) = SubSeq(call.path, 0 + 1, Len(call.path) - 1)
         /\ Len(call.path) = 1 => SubSeq(call.path, 0 + 1, Len(call.path) - 1) = <<>>
<1>1. call \in Calls /\ call.path \in Seq(Name) /\ Len(call.path) \in Nat \ {0}
  BY CallFacts DEF Plain
<1>2. Places(call.path)[0] = Root
  BY <1>1, PlacesDefined
<1>3. Root # NoEntry /\ Root.cluster = Bpb.rootCluster
  BY VolumeAssumption DEF Root
<1>4. Len(call.path) = 1 \/ Len(call.path) > 1
  <2> DEFINE n == Len(call.path)
  <2>1. n \in Nat \ {0}
    BY <1>1
  <2> HIDE DEF n
  <2>2. n = 1 \/ n > 1
    BY <2>1
  <2> QED
    BY <2>2 DEF n
<1> QED
  BY <1>1, <1>2, <1>3, <1>4, DirectoryIs

LEMMA WalkRootFollows ==
  ASSUME FATInv, Trusted, call \in Plain, Following, WalkRoot
  PROVE  Following'
<1>1. /\ phase = "walk" /\ phase' = "walk" /\ AtRoot /\ cluster' = bpb.rootCluster /\ parts' = Tail(parts)
      /\ UNCHANGED <<call, entry, out>>
  BY DEF WalkRoot, Goes, copyVars
<1>2. Entering /\ entry = NoEntry /\ out = <<>>
  BY <1>1 DEF Following, WalkInv, CopyInv
<1>3. ~ \E k \in 0 .. Len(call.path) - 1 : Reached(k)
  <2> SUFFICES ASSUME NEW k, Reached(k) PROVE FALSE
    OBVIOUS
  <2>1. parts # <<>> /\ Head(parts) = <<>>
    BY <1>1 DEF AtRoot
  <2> QED
    BY <2>1, ReachedFacts
<1>4. parts = Directory(call.path) /\ parts # <<>>
  BY <1>1, <1>2, <1>3 DEF Entering, AtRoot
<1>5. parts' = SubSeq(call'.path, 0 + 1, Len(call'.path) - 1) /\ cluster' = Places(call'.path)[0].cluster
      /\ 0 \in 0 .. Len(call'.path) - 1 /\ Places(call'.path)[0] # NoEntry
  BY <1>1, <1>4, RootReached DEF Trusted
<1>6. Entering'
  BY <1>5 DEF Entering, Reached
<1>7. WalkInv' /\ CopyInv'
  BY <1>1, <1>2, <1>6 DEF WalkInv, CopyInv
<1> QED
  BY <1>1, <1>7, OnTheWay

LEMMA GetEntriesFollows ==
  ASSUME FATInv, Trusted, call \in Plain, Following, GetEntries
  PROVE  Following'
<1>1. /\ phase = "walk" /\ phase' = Loop(Start, "list", "next", "listed") /\ ~AtRoot
      /\ first' = Start /\ cluster' = Start /\ i' = 0 /\ results' = <<>>
      /\ UNCHANGED <<call, parts, entry, out>>
  BY DEF GetEntries, Goes, copyVars
<1>2. Entering /\ entry = NoEntry /\ out = <<>>
  BY <1>1 DEF Following, WalkInv, CopyInv
<1>3. PICK k \in 0 .. Len(call.path) - 1 : Reached(k) /\ Start = Places(call.path)[k].cluster
  <2>1. CASE parts = Directory(call.path) /\ cluster = 0
    <3>1. parts = <<>>
      BY <1>1, <2>1, RootReached DEF AtRoot
    <3>2. Reached(0) /\ Start = Places(call.path)[0].cluster
      BY <2>1, <3>1, RootReached DEF Reached, Start, Trusted
    <3> QED
      BY <3>2, RootReached
  <2>2. ASSUME NEW k \in 0 .. Len(call.path) - 1, Reached(k), cluster = Places(call.path)[k].cluster
        PROVE  Start = Places(call.path)[k].cluster
    BY <2>2, ReachedFacts, VolumeFacts DEF Start
  <2> QED
    BY <1>2, <2>1, <2>2 DEF Entering
<1>4. Start \in Clusters
  BY <1>3, ReachedFacts
<1>5. phase' = "list"
  BY <1>1, <1>4, VolumeFacts DEF Loop, Trusted
<1>6. ~Ends(EntriesUpto(Start, 0)) /\ Collected(EntriesUpto(Start, 0)) = <<>>
  <2>1. EntriesUpto(Start, 0) = <<>>
    BY UptoSteps
  <2>2. ~Ends(<<>>)
    BY DEF Ends
  <2>3. Picks(<<>>) \in [1 .. 0 -> {<<>>}]
    BY DEF Picks
  <2>4. Collected(<<>>) = <<>>
    BY <2>3, FlattenEmpties DEF Collected, Picks
  <2> QED
    BY <2>1, <2>2, <2>4
<1>7. Reached(k)'
  BY <1>1, <1>3 DEF Reached
<1>8. Collecting'
  BY <1>1, <1>3, <1>5, <1>6, <1>7 DEF Collecting
<1>9. WalkInv' /\ CopyInv'
  BY <1>1, <1>2, <1>5, <1>8 DEF WalkInv, CopyInv
<1> QED
  BY <1>5, <1>9, OnTheWay

-----------------------------------------------------------------------------
(* The listing of a directory. *)

LEMMA CollectingFacts ==
  ASSUME FATInv, call \in Plain, Following, phase \in {"list", "next", "listed"}
  PROVE  /\ Collecting /\ entry = NoEntry /\ out = <<>>
         /\ first \in Clusters /\ first \in Word /\ Len(Chain(first)) = 1
<1>1. Collecting /\ entry = NoEntry /\ out = <<>>
  BY DEF Following, WalkInv, CopyInv
<1>2. PICK k : Reached(k) /\ first = Places(call.path)[k].cluster
  BY <1>1 DEF Collecting
<1>3. first \in Clusters /\ Len(Chain(first)) = 1
  BY <1>2, ReachedFacts
<1> QED
  BY <1>1, <1>3 DEF FATInv, FATTypes, WalkTypes

(* One more sector. *)
LEMMA UptoCollected ==
  ASSUME NEW c \in Word, NEW n \in 0 .. SectorsPerCluster - 1, ~Ends(EntriesUpto(c, n))
  PROVE  LET row == EntryIn(At(FirstSector(c) + n)) IN
         /\ Ends(EntriesUpto(c, n + 1)) <=> Ends(row)
         /\ Collected(EntriesUpto(c, n + 1)) = Collected(EntriesUpto(c, n)) \o Collected(row)
<1> DEFINE a == EntriesUpto(c, n)
           b == EntryIn(At(FirstSector(c) + n))
<1>1. EntriesUpto(c, n + 1) = a \o b /\ a \in Seq(DirectoryEntryFat) /\ b \in Seq(DirectoryEntryFat)
  <2>1. n \in 0 .. SectorsPerCluster
    BY VolumeFacts DEF SectorsPerCluster
  <2> QED
    BY <2>1, UptoSteps, AtView, EntriesInType
<1> HIDE DEF a, b
<1>2. (Ends(a \o b) <=> Ends(a) \/ Ends(b)) /\ (~Ends(a) => Collected(a \o b) = Collected(a) \o Collected(b))
  BY <1>1, EndsFacts, CollectedConcat
<1> QED
  BY <1>1, <1>2 DEF a, b

LEMMA EntriesReadFollows ==
  ASSUME FATInv, Trusted, call \in Plain, Following, EntriesRead
  PROVE  Following'
<1>1. PICK s \in Seen :
        /\ phase = "list" /\ pc = "done"
        /\ phase' = IF Ends(EntriesOf(s)) THEN "listed" ELSE AfterSector
        /\ results' = results \o Collected(EntriesOf(s)) /\ i' = i + 1
        /\ UNCHANGED <<call, parts, cluster, first, entry, out>>
  BY DEF EntriesRead, Returns, copyVars
<1>2. /\ Collecting /\ entry = NoEntry /\ out = <<>>
      /\ first \in Clusters /\ first \in Word /\ Len(Chain(first)) = 1
  BY <1>1, CollectingFacts
<1>3. s = At(FirstSector(first) + i) /\ i \in 0 .. SectorsPerCluster - 1
  BY <1>1, <1>2, ListRead
<1>4. EntriesOf(s) = EntryIn(At(FirstSector(first) + i))
  BY <1>3 DEF EntriesOf, EntryIn, Trusted
<1>5. /\ cluster = first
      /\ ~Ends(EntriesUpto(first, i)) /\ results = Collected(EntriesUpto(first, i))
  BY <1>1, <1>2 DEF Collecting
<1>6. /\ Ends(EntriesUpto(first, i + 1)) <=> Ends(EntriesOf(s))
      /\ results' = Collected(EntriesUpto(first, i + 1))
  BY <1>1, <1>2, <1>3, <1>4, <1>5, UptoCollected
<1>7. SectorsPerCluster \in Nat /\ bpb.sectorsPerCluster = SectorsPerCluster
  BY VolumeFacts DEF SectorsPerCluster, Trusted
<1>8. i + 1 \in 0 .. SectorsPerCluster /\ (~(i + 1 < SectorsPerCluster) => i + 1 = SectorsPerCluster)
  BY <1>3, <1>7
<1>9. \E k \in 0 .. Len(call'.path) - 1 : Reached(k)' /\ first' = Places(call'.path)[k].cluster
  BY <1>1, <1>2 DEF Collecting, Reached
<1>10. Collecting' /\ phase' \in {"list", "next", "listed"}
  <2>1. CASE Ends(EntriesOf(s))
    <3>1. results' = Listing[first]
      BY <1>2, <1>6, <1>8, <2>1, ListingEnds
    <3> QED
      BY <1>1, <1>9, <2>1, <3>1 DEF Collecting
  <2>2. CASE ~Ends(EntriesOf(s)) /\ i + 1 < SectorsPerCluster
    <3>1. phase' = "list"
      BY <1>1, <1>7, <2>2 DEF AfterSector
    <3>2. ~Ends(EntriesUpto(first', i')) /\ results' = Collected(EntriesUpto(first', i'))
      BY <1>1, <1>6, <2>2
    <3> QED
      BY <1>1, <1>5, <1>9, <3>1, <3>2 DEF Collecting
  <2>3. CASE ~Ends(EntriesOf(s)) /\ ~(i + 1 < SectorsPerCluster)
    <3>1. phase' = "next"
      BY <1>1, <1>7, <2>3 DEF AfterSector
    <3>2. results' = Listing[first]
      BY <1>2, <1>6, <1>8, <2>3, ListingIs
    <3> QED
      BY <1>1, <1>5, <1>9, <3>1, <3>2 DEF Collecting
  <2> QED
    BY <2>1, <2>2, <2>3
<1>11. WalkInv' /\ CopyInv'
  BY <1>1, <1>2, <1>10 DEF WalkInv, CopyInv
<1> QED
  BY <1>10, <1>11, OnTheWay

LEMMA NextReadFollows ==
  ASSUME FATInv, Trusted, call \in Plain, Following, NextRead
  PROVE  Following'
<1>1. PICK s \in Seen :
        /\ phase = "next" /\ pc = "done"
        /\ phase' = Loop(NextOf(s, cluster), "list", "next", "listed")
        /\ UNCHANGED <<call, parts, first, results, entry, out>>
  BY DEF NextRead, Returns, copyVars
<1>2. /\ Collecting /\ entry = NoEntry /\ out = <<>>
      /\ first \in Clusters /\ first \in Word /\ Len(Chain(first)) = 1
  BY <1>1, CollectingFacts
<1>3. cluster = first /\ results = Listing[first]
  BY <1>1, <1>2 DEF Collecting
<1>4. NextOf(s, cluster) = Link(first)
  BY <1>1, <1>2, <1>3, LinkRead
<1>5. ~InChain(Link(first))
  BY <1>2, ListingIs
<1>6. phase' = "listed"
  BY <1>1, <1>4, <1>5 DEF Loop
<1>7. Collecting'
  BY <1>1, <1>2, <1>3, <1>6 DEF Collecting, Reached
<1>8. WalkInv' /\ CopyInv'
  BY <1>1, <1>2, <1>6, <1>7 DEF WalkInv, CopyInv
<1> QED
  BY <1>6, <1>8, OnTheWay

(* A search in the listing of a directory on the path. *)
LEMMA ListedFacts ==
  ASSUME FATInv, Trusted, call \in Plain, Following, phase = "listed"
  PROVE  \E k \in 0 .. Len(call.path) - 1 :
           /\ Reached(k) /\ clean /\ k + 1 \in 1 .. Len(call.path)
           /\ Places(call.path)[(k + 1) - 1] # NoEntry
           /\ results = Listing[Places(call.path)[(k + 1) - 1].cluster]
           /\ Found(call.path[k + 1]) = {Places(call.path)[k + 1]}
<1>1. results = Listing[first] /\ Collecting
  BY CollectingFacts DEF Collecting
<1>2. PICK k \in 0 .. Len(call.path) - 1 : Reached(k) /\ first = Places(call.path)[k].cluster
  BY <1>1 DEF Collecting
<1>3. clean /\ Places(call.path)[k] # NoEntry
  BY <1>2 DEF Trusted, Reached
<1>4. k + 1 \in 1 .. Len(call.path) /\ (k + 1) - 1 = k
  BY <1>2, ReachedFacts
<1>5. Places(call.path)[(k + 1) - 1] # NoEntry /\ results = Listing[Places(call.path)[(k + 1) - 1].cluster]
  BY <1>1, <1>2, <1>3, <1>4
<1>6. Found(call.path[k + 1]) = {Places(call.path)[k + 1]}
  <2> DEFINE j == k + 1
  <2>1. j \in 1 .. Len(call.path) /\ Places(call.path)[j - 1] # NoEntry
        /\ results = Listing[Places(call.path)[j - 1].cluster]
    BY <1>4, <1>5
  <2> HIDE DEF j
  <2>2. Found(call.path[j]) = {Places(call.path)[j]}
    BY <1>3, <2>1, FoundIsChild
  <2> QED
    BY <2>2 DEF j
<1> QED
  BY <1>2, <1>3, <1>4, <1>5, <1>6

LEMMA EnterDirectoryFollows ==
  ASSUME FATInv, Trusted, call \in Plain, Following, EnterDirectory
  PROVE  Following'
<1>1. phase = "listed" /\ parts # <<>>
  BY DEF EnterDirectory
<1>2. PICK e \in Found(Head(parts)) :
        /\ phase' = IF e = NoEntry THEN "found" ELSE "walk"
        /\ cluster' = IF e = NoEntry THEN cluster ELSE e.cluster
        /\ parts' = Tail(parts)
        /\ UNCHANGED <<call, entry, out>>
  BY DEF EnterDirectory, Goes, copyVars
<1>3. entry = NoEntry /\ out = <<>>
  BY <1>1, CollectingFacts
<1>4. PICK k \in 0 .. Len(call.path) - 1 :
        Reached(k) /\ k + 1 \in 1 .. Len(call.path) /\ Found(call.path[k + 1]) = {Places(call.path)[k + 1]}
  BY <1>1, ListedFacts
<1>5. /\ Head(parts) = call.path[k + 1] /\ k # Len(call.path) - 1
      /\ Tail(parts) = SubSeq(call.path, (k + 1) + 1, Len(call.path) - 1)
  BY <1>1, <1>4, ReachedFacts
<1>6. e = Places(call.path)[k + 1]
  BY <1>2, <1>4, <1>5
<1>7. call \in Calls /\ Len(call.path) \in Nat
  BY CallFacts DEF Plain
<1>8. k + 1 \in 0 .. Len(call.path) - 1 /\ k + 1 \in 0 .. Len(call.path)
  BY <1>4, <1>5, <1>7
<1>9. CASE e = NoEntry
  <2>1. Wanted = NoEntry
    BY <1>6, <1>7, <1>8, <1>9, NowhereStays DEF Wanted
  <2>2. phase' = "found" /\ Wanted' = Wanted
    BY <1>2, <1>9 DEF Wanted
  <2>3. WalkInv' /\ CopyInv'
    BY <1>2, <1>3, <2>1, <2>2 DEF WalkInv, CopyInv
  <2> QED
    BY <2>2, <2>3, OnTheWay
<1>10. CASE e # NoEntry
  <2>1. phase' = "walk" /\ cluster' = Places(call'.path)[k + 1].cluster
    BY <1>2, <1>6, <1>10
  <2>2. Reached(k + 1)'
    BY <1>2, <1>5, <1>6, <1>8, <1>10 DEF Reached
  <2>3. k + 1 \in 0 .. Len(call'.path) - 1
    BY <1>2, <1>8
  <2>4. Entering'
    BY <2>1, <2>2, <2>3 DEF Entering
  <2>5. WalkInv' /\ CopyInv'
    BY <1>2, <1>3, <2>1, <2>4 DEF WalkInv, CopyInv
  <2> QED
    BY <2>1, <2>5, OnTheWay
<1> QED
  BY <1>9, <1>10

LEMMA GetEntryFollows ==
  ASSUME FATInv, Trusted, call \in Plain, Following, GetEntry
  PROVE  Following'
<1>1. phase = "listed" /\ parts = <<>>
  BY DEF GetEntry
<1>2. entry' \in Found(Last(call.path)) /\ phase' = "found" /\ UNCHANGED <<call, out>>
  BY DEF GetEntry, Goes, copyVars
<1>3. out = <<>>
  BY <1>1, CollectingFacts
<1>4. PICK k \in 0 .. Len(call.path) - 1 :
        Reached(k) /\ Found(call.path[k + 1]) = {Places(call.path)[k + 1]}
  BY <1>1, ListedFacts
<1>5. Last(call.path) = call.path[k + 1] /\ Len(call.path) = k + 1
  BY <1>1, <1>4, ReachedFacts
<1>6. entry' = Wanted'
  BY <1>2, <1>4, <1>5 DEF Wanted
<1>7. WalkInv' /\ CopyInv'
  BY <1>2, <1>3, <1>6 DEF WalkInv, CopyInv
<1> QED
  BY <1>2, <1>7, OnTheWay

LEMMA WildFollows ==
  ASSUME FATInv, Trusted, call \in Plain, Following, Wild
  PROVE  Following'
<1>1. phase = "listed" /\ phase' = "wild" /\ UNCHANGED call
      /\ \/ parts # <<>> /\ Breaks(Head(parts))
         \/ parts = <<>> /\ Breaks(Last(call.path))
  BY DEF Wild, Goes, SplitBreaks, Trusted
<1>2. PICK k \in 0 .. Len(call.path) - 1 :
        /\ Reached(k) /\ clean /\ k + 1 \in 1 .. Len(call.path)
        /\ Places(call.path)[(k + 1) - 1] # NoEntry
        /\ results = Listing[Places(call.path)[(k + 1) - 1].cluster]
  BY <1>1, ListedFacts
<1>3. Breaks(call.path[k + 1])
  BY <1>1, <1>2, ReachedFacts
<1>4. \E j \in 1 .. Len(call.path) :
        LET es == Listing[Places(call.path)[j - 1].cluster] IN
        \E n \in DOMAIN es :
          /\ es[n].archive /\ Len(es[n].ext) >= 2
          /\ \A l \in 1 .. n - 1 : FileName(es[l]) # call.path[j]
  <2> DEFINE j == k + 1
  <2>1. j \in 1 .. Len(call.path) /\ Places(call.path)[j - 1] # NoEntry
        /\ results = Listing[Places(call.path)[j - 1].cluster] /\ Breaks(call.path[j])
    BY <1>2, <1>3
  <2> HIDE DEF j
  <2>2. LET es == Listing[Places(call.path)[j - 1].cluster] IN
        \E n \in DOMAIN es :
          /\ es[n].archive /\ Len(es[n].ext) >= 2
          /\ \A l \in 1 .. n - 1 : FileName(es[l]) # call.path[j]
    BY <1>2, <2>1, BreaksExplained
  <2> QED
    BY <2>1, <2>2
<1>5. WildExplained'
  BY <1>1, <1>4 DEF WildExplained
<1>6. WalkInv' /\ CopyInv'
  BY <1>1 DEF WalkInv, CopyInv
<1> QED
  BY <1>1, <1>5, <1>6 DEF Following, AnswersRight, BytesRight, Answers, Copies, Done

-----------------------------------------------------------------------------
(* What a call returns. *)

(* A path leads to a file, to a directory or to nothing. *)
LEMMA WantedFacts ==
  ASSUME call \in Plain, Wanted # NoEntry
  PROVE  /\ Wanted \in DirectoryEntryFat /\ Wanted.kind \in {"file", "dir"}
         /\ Wanted.kind = "file" => Wanted.cluster \in Clusters \cup {0}
<1> DEFINE n == Len(call.path)
           d == Places(call.path)[n - 1]
           name == call.path[n]
<1>1. call \in Calls /\ n \in Nat \ {0}
  BY CallFacts DEF Plain
<1>2. n \in 1 .. Len(call.path)
  BY <1>1
<1>3. /\ PlainStep(d, name) /\ d \in Place /\ Wanted = Child(d, name)
  <2> DEFINE k == n
  <2>1. k \in 1 .. Len(call.path)
    BY <1>2
  <2> HIDE DEF k
  <2>2. /\ PlainStep(Places(call.path)[k - 1], call.path[k]) /\ Places(call.path)[k - 1] \in Place
        /\ Places(call.path)[k] = Child(Places(call.path)[k - 1], call.path[k])
    BY <2>1, PlainFacts
  <2> QED
    BY <2>2 DEF k, Wanted
<1>5. d # NoEntry => d.cluster \in {p.cluster : p \in {e \in
        UNION {{Places(c.path)[k] : k \in 0 .. Len(c.path)} : c \in Calls} : e # NoEntry /\ e.kind = "dir"}} \/ d.kind # "dir"
  <2>1. n - 1 \in 0 .. Len(call.path)
    BY <1>1
  <2>2. d \in UNION {{Places(c.path)[k] : k \in 0 .. Len(c.path)} : c \in Calls}
    BY <1>1, <2>1
  <2> HIDE DEF d
  <2> QED
    BY <2>2
<1> HIDE DEF n, d, name
<1>6. /\ Wanted \in KeptEntry /\ d # NoEntry /\ d.kind = "dir"
      /\ Wanted \in ToSet(Listing[d.cluster]) /\ FileName(Wanted) = name
  BY <1>3, ChildType
<1>7. d.cluster \in Directories
  BY <1>5, <1>6 DEF Directories
<1>8. Wanted.kind # "label"
  BY <1>3, <1>6, DirectoryOf
<1>9. Wanted \in DirectoryEntryFat /\ Wanted.kind \in {"file", "dir", "label"}
  BY <1>6 DEF KeptEntry, Kept
<1> QED
  BY <1>6, <1>7, <1>8, <1>9, VolumeAssumption

LEMMA ReturnFollows ==
  ASSUME FATInv, Trusted, call \in Plain, Following, Return
  PROVE  Following'
<1>1. phase = "found" /\ phase' = "idle" /\ ~Readable /\ reply' = Answered /\ UNCHANGED <<call, entry>>
  BY DEF Return, Goes, walkVars
<1>2. entry = Wanted /\ Wanted' = Wanted
  BY <1>1 DEF Following, WalkInv, Wanted
<1>3. call.op \in {"fileExists", "directoryExists", "getFileSize", "readFile"}
  BY CallFacts DEF Plain
<1>4. Wanted # NoEntry => Wanted.kind \in {"file", "dir"}
  BY WantedFacts
<1> DEFINE kind == IF Wanted = NoEntry THEN "none" ELSE Wanted.kind
<1>5. kind \in {"none", "file", "dir"} /\ (kind = "none" <=> Wanted = NoEntry)
      /\ (Wanted # NoEntry => kind = Wanted.kind)
  BY <1>4
<1>6. CASE call.op = "fileExists"
  BY <1>1, <1>2, <1>5, <1>6
     DEF Following, WalkInv, CopyInv, AnswersRight, BytesRight, Answers, Copies, WildExplained, Answered, Truth
<1>7. CASE call.op = "directoryExists"
  BY <1>1, <1>2, <1>5, <1>7
     DEF Following, WalkInv, CopyInv, AnswersRight, BytesRight, Answers, Copies, WildExplained, Answered, Truth
<1>8. CASE call.op = "getFileSize"
  BY <1>1, <1>2, <1>5, <1>8
     DEF Following, WalkInv, CopyInv, AnswersRight, BytesRight, Answers, Copies, WildExplained, Answered
<1>9. CASE call.op = "readFile"
  <2>1. reply' = -1 /\ kind # "file"
    BY <1>1, <1>2, <1>5, <1>9 DEF Answered, Readable
  <2> QED
    BY <1>1, <1>2, <1>9, <2>1
       DEF Following, WalkInv, CopyInv, AnswersRight, BytesRight, Answers, Copies, WildExplained
<1> QED
  BY <1>3, <1>6, <1>7, <1>8, <1>9

(* A file that has been read. *)
LEMMA ReadDone ==
  ASSUME phase' = "idle", reply' = 0, call' = call, call \in Plain, call.op = "readFile",
         Wanted # NoEntry, Wanted.kind = "file",
         LET size == IF call.size < 0 THEN Wanted.size ELSE call.size
             there == Bytes[Wanted.cluster]
         IN out' = SubSeq(there, 1, IF size < Len(there) THEN size ELSE Len(there)) /\ terminator' = size
  PROVE  Following'
<1>1. Wanted' = Wanted
  BY DEF Wanted
<1>2. AnswersRight'
  BY <1>1 DEF AnswersRight, Answers
<1>3. BytesRight'
  BY <1>1 DEF BytesRight, Copies
<1> QED
  BY <1>2, <1>3 DEF Following, WalkInv, CopyInv, WildExplained

(* How much is to be copied. *)
LEMMA BoundFacts ==
  ASSUME call \in Calls, entry \in DirectoryEntryFat
  PROVE  Bound \in Word /\ Bound = IF call.size < 0 THEN entry.size ELSE call.size
<1>1. call.size \in Int /\ call.size < U32 /\ entry.size \in Word
  BY CallFacts, EntryFields
<1> DEFINE s == call.size
<1> HIDE DEF s
<1>2. s \in Int /\ s < U32
  BY <1>1 DEF s
<1>3. s >= 0 => s \in Word
  BY <1>2, Widths DEF Word
<1>4. s < 0 <=> ~(s >= 0)
  BY <1>2
<1> QED
  BY <1>1, <1>3, <1>4 DEF Bound, s

-----------------------------------------------------------------------------
(* Copying a file. *)

LEMMA ReadFileFollows ==
  ASSUME FATInv, Trusted, call \in Plain, Following, ReadFile
  PROVE  Following'
<1> DEFINE size == IF call.size < 0 THEN entry.size ELSE call.size
<1>1. /\ Readable /\ phase = "found" /\ phase' = Copying(entry.cluster)
      /\ cluster' = entry.cluster /\ i' = 0 /\ fileSize' = size
      /\ Finished(entry.cluster, out, size) /\ UNCHANGED <<call, entry, out>>
  BY DEF ReadFile, Goes
<1>2. entry = Wanted /\ Wanted' = Wanted /\ out = <<>>
  BY <1>1 DEF Following, WalkInv, CopyInv, Wanted
<1>3. /\ call \in Calls /\ call.op = "readFile" /\ entry \in DirectoryEntryFat /\ entry.kind = "file"
      /\ entry.cluster \in Clusters \cup {0} /\ entry.cluster \in Word
  BY <1>1, <1>2, WantedFacts, EntryFields DEF Readable, Plain
<1>4. Bound \in Word /\ Bound = size /\ Bound' = Bound
  BY <1>1, <1>3, BoundFacts DEF Bound
<1>5. Bytes[entry.cluster] \in Seq(Nat)
  BY <1>3, BytesFacts
<1> HIDE DEF size
<1>6. SubSeq(Bytes[entry.cluster], 1, 0) = <<>>
  BY <1>5
<1>7. size \in Nat
  BY <1>4, WordFacts
<1>8. CASE entry.cluster \in Clusters
  <2>1. phase' = "copy"
    BY <1>1, <1>8, VolumeFacts DEF Copying, Loop, Trusted
  <2>2. /\ Len(Chain(entry.cluster)) \in Nat \ {0} /\ Chain(entry.cluster)[1] = entry.cluster
    BY <1>3, <1>8, ChainFacts
  <2>3. 0 \in 0 .. Len(Chain(entry.cluster)) - 1 /\ 0 + 1 = 1 /\ 0 * SectorsPerCluster + 0 = 0
        /\ 0 * BytesPerSector = 0
    BY <2>2, VolumeFacts, Widths DEF SectorsPerCluster
  <2>4. Least(Bound, 0) = 0
    BY <1>4, <1>7 DEF Least
  <2>5. CopiedFrom(0)'
    <3>1. Least(Bound', 0 * BytesPerSector) = 0
      BY <1>4, <2>3, <2>4
    <3>2. fileSize' = Bound' - 0
      BY <1>1, <1>4, <1>7
    <3> QED
      BY <1>1, <1>2, <1>6, <3>1, <3>2 DEF CopiedFrom
  <2>6. \E m \in 0 .. Len(Chain(entry'.cluster)) - 1 :
          cluster' = Chain(entry'.cluster)[m + 1] /\ CopiedFrom(m * SectorsPerCluster + i)'
    <3>1. CopiedFrom(0 * SectorsPerCluster + i)'
      BY <1>1, <2>3, <2>5
    <3> QED
      BY <1>1, <2>2, <2>3, <3>1
  <2>7. CopyInv'
    BY <1>1, <2>1, <2>6 DEF CopyInv, Readable
  <2>8. WalkInv'
    BY <1>1, <1>2, <2>1 DEF WalkInv
  <2> QED
    BY <2>1, <2>7, <2>8, OnTheWay
<1>9. CASE entry.cluster \notin Clusters
  <2>1. entry.cluster = 0 /\ ~InChain(entry.cluster)
    BY <1>3, <1>9 DEF InChain
  <2>2. phase' = "idle" /\ reply' = 0 /\ terminator' = (Len(out) + size) % U32
    BY <1>1, <2>1 DEF Copying, Loop, Finished
  <2>3. terminator' = size
    <3>1. Len(out) + size = size
      BY <1>2, <1>7
    <3> QED
      BY <1>4, <2>2, <3>1, Widths DEF Word
  <2>4. Len(Bytes[entry.cluster]) = 0
    <3>1. Len(Chain(entry.cluster)) = 0
      BY <1>3, <1>9, ChainFacts
    <3>2. Len(SectorsOfChain[entry.cluster]) = 0 * SectorsPerCluster
          /\ Len(Bytes[entry.cluster]) = Len(SectorsOfChain[entry.cluster]) * BytesPerSector
      BY <1>3, <3>1, SectorsOfChainFacts, BytesFacts
    <3> QED
      BY <3>2, VolumeFacts, Widths DEF SectorsPerCluster
  <2>5. out' = SubSeq(Bytes[entry.cluster], 1, 0) /\ ~(size < 0)
    BY <1>1, <1>2, <1>6, <1>7
  <2>6. out' = SubSeq(Bytes[entry.cluster], 1,
                      IF size < Len(Bytes[entry.cluster]) THEN size ELSE Len(Bytes[entry.cluster]))
    BY <2>4, <2>5
  <2>7. Wanted # NoEntry
    BY <1>1, <1>2 DEF Readable
  <2> QED
    BY <1>1, <1>2, <1>3, <2>2, <2>3, <2>6, <2>7, ReadDone DEF size
<1> QED
  BY <1>8, <1>9

(* What is known while a file is copied. *)
LEMMA CopyFacts ==
  ASSUME FATInv, Trusted, call \in Plain, Following, phase \in {"copy", "copyNext"}
  PROVE  /\ Readable /\ entry = Wanted /\ entry \in DirectoryEntryFat /\ entry.kind = "file"
         /\ call \in Calls /\ call.op = "readFile"
         /\ entry.cluster \in Clusters /\ entry.cluster \in Word /\ cluster \in Clusters
         /\ Bound \in Word
         /\ phase = "copyNext" => i = SectorsPerCluster
         /\ \E m \in 0 .. Len(Chain(entry.cluster)) - 1 :
              cluster = Chain(entry.cluster)[m + 1] /\ CopiedFrom(m * SectorsPerCluster + i)
<1>1. /\ Readable /\ entry = Wanted /\ (phase = "copyNext" => i = SectorsPerCluster)
      /\ \E m \in 0 .. Len(Chain(entry.cluster)) - 1 :
           cluster = Chain(entry.cluster)[m + 1] /\ CopiedFrom(m * SectorsPerCluster + i)
  BY DEF Following, WalkInv, CopyInv
<1>2. /\ call \in Calls /\ call.op = "readFile" /\ entry \in DirectoryEntryFat /\ entry.kind = "file"
      /\ entry.cluster \in Word
  BY <1>1, WantedFacts, EntryFields DEF Readable, Plain
<1>3. Chain(entry.cluster) \in Seq(Clusters) /\ (entry.cluster \notin Clusters => Chain(entry.cluster) = <<>>)
  BY <1>2, ChainFacts
<1>4. entry.cluster \in Clusters /\ cluster \in Clusters
  <2> DEFINE s == Chain(entry.cluster)
  <2>1. PICK m \in 0 .. Len(s) - 1 : cluster = s[m + 1]
    BY <1>1
  <2>2. s \in Seq(Clusters) /\ (entry.cluster \notin Clusters => s = <<>>)
    BY <1>3
  <2> HIDE DEF s
  <2>3. s[m + 1] \in Clusters /\ s # <<>>
    BY <2>2
  <2> QED
    BY <2>1, <2>2, <2>3
<1> QED
  BY <1>1, <1>2, <1>4, BoundFacts

(* The first elements of a sequence. *)
LEMMA PrefixFacts ==
  ASSUME NEW S, NEW s \in Seq(S), NEW m \in Nat, m <= Len(s)
  PROVE  /\ SubSeq(s, 1, m) \in Seq(S) /\ Len(SubSeq(s, 1, m)) = m
         /\ \A j \in 1 .. m : SubSeq(s, 1, m)[j] = s[j]
OBVIOUS

(* Copying stops where the file or the bytes asked for end. *)
Advances(size, most, b, t, n) ==
  /\ t \in Nat /\ t <= size /\ t <= most /\ n \in Nat /\ n <= b /\ n <= size - t
  /\ t + n = Least(size, most + b) /\ (size - t) - n = size - Least(size, most + b)
  /\ n > 0 => t = most

LEMMA LeastSteps ==
  ASSUME NEW size \in Nat, NEW most \in Nat, NEW b \in Nat
  PROVE  Advances(size, most, b, Least(size, most), Least(size - Least(size, most), b))
<1> DEFINE t == Least(size, most)
           n == Least(size - t, b)
<1>1. t \in Nat /\ t <= size /\ t <= most
  BY DEF Least
<1> HIDE DEF t
<1>2. n \in Nat /\ n <= b /\ n <= size - t
  BY <1>1 DEF Least
<1>3. n > 0 => t = most
  BY <1>1 DEF Least, t
<1>4. t + n = Least(size, most + b)
  BY <1>1 DEF Least, t
<1> HIDE DEF n
<1>5. (size - t) - n = size - (t + n)
  BY <1>1, <1>2
<1> QED
  BY <1>1, <1>2, <1>3, <1>4, <1>5 DEF Advances, t, n

(* A chunk more of the bytes of a file. *)
LiesAt(there, most, data, b) ==
  /\ data \in Seq(Nat) /\ Len(data) = b /\ Len(there) \in Nat /\ most + b <= Len(there)
  /\ \A j \in 1 .. b : there[most + j] = data[j]

Extends(there, data, t, n) ==
  SubSeq(there, 1, t) \o SubSeq(data, 1, n) = SubSeq(there, 1, t + n)

LEMMA ChunkCopied ==
  ASSUME NEW there \in Seq(Nat), NEW data, NEW b \in Nat, NEW most \in Nat, LiesAt(there, most, data, b),
         NEW size, NEW t, NEW n, Advances(size, most, b, t, n)
  PROVE  Extends(there, data, t, n)
<1> DEFINE k == Len(there)
<1>0. /\ k \in Nat /\ most + b <= k /\ data \in Seq(Nat) /\ Len(data) = b
      /\ \A j \in 1 .. b : there[most + j] = data[j]
  BY DEF LiesAt
<1>2. t \in Nat /\ t <= most /\ n \in Nat /\ n <= b /\ (n > 0 => t = most)
  BY DEF Advances
<1> HIDE DEF k
<1> DEFINE u == SubSeq(there, 1, t)
           v == SubSeq(data, 1, n)
           w == SubSeq(there, 1, t + n)
<1>1. t <= k /\ t + n \in Nat /\ t + n <= k
  BY <1>0, <1>2
<1>4. u \in Seq(Nat) /\ Len(u) = t /\ \A j \in 1 .. t : u[j] = there[j]
  BY <1>1, <1>2, PrefixFacts DEF k
<1>5. v \in Seq(Nat) /\ Len(v) = n /\ \A j \in 1 .. n : v[j] = data[j]
  BY <1>0, <1>2, PrefixFacts
<1> DEFINE l == t + n
<1> HIDE DEF l
<1>6. w \in Seq(Nat) /\ Len(w) = l /\ \A j \in 1 .. l : w[j] = there[j]
  BY <1>1, PrefixFacts DEF l, k
<1> HIDE DEF u, v, w
<1>7. Joins(Nat, u, v, u \o v)
  BY <1>4, <1>5, ConcatJoins
<1> DEFINE x == u \o v
<1>8. x \in Seq(Nat) /\ Len(x) = l /\ \A j \in 1 .. l : x[j] = IF j <= t THEN u[j] ELSE v[j - t]
  BY <1>4, <1>5, <1>7 DEF Joins, l
<1> HIDE DEF x
<1>9. ASSUME NEW j \in 1 .. l PROVE x[j] = w[j]
  <2>0. l = t + n /\ l \in Nat
    BY <1>1, <1>2 DEF l
  <2>1. CASE j <= t
    <3>1. j \in 1 .. t
      BY <1>1, <1>2, <2>0, <2>1
    <3> QED
      BY <1>4, <1>6, <1>8, <2>1, <3>1
  <2>2. CASE ~(j <= t)
    <3>1. j - t \in 1 .. n /\ n > 0
      BY <1>1, <1>2, <2>0, <2>2
    <3>2. j - t \in 1 .. b /\ t = most /\ most + (j - t) = j
      BY <1>1, <1>2, <2>0, <3>1
    <3>3. v[j - t] = data[j - t] /\ there[most + (j - t)] = data[j - t]
      BY <1>0, <1>5, <3>1, <3>2
    <3> QED
      BY <1>6, <1>8, <2>2, <3>2, <3>3
  <2> QED
    BY <2>1, <2>2
<1>10. x = w
  BY <1>6, <1>8, <1>9
<1> QED
  BY <1>10 DEF x, w, u, v, Extends

-----------------------------------------------------------------------------
LEMMA Products ==
  ASSUME NEW a \in Nat, NEW l \in Nat, a < l, NEW p \in Nat
  PROVE  a * p \in Nat /\ (a + 1) * p = a * p + p /\ a * p + p <= l * p /\ l * p \in Nat
<1>1. a * p \in Nat /\ (a + 1) * p = a * p + p /\ l * p \in Nat
  OBVIOUS
<1>2. PICK d \in Nat : l = (a + 1) + d
  <2>1. l - (a + 1) \in Nat /\ l = (a + 1) + (l - (a + 1))
    OBVIOUS
  <2> QED
    BY <2>1
<1>3. l * p = (a + 1) * p + d * p /\ d * p \in Nat
  BY <1>2
<1> QED
  BY <1>1, <1>3

(* The sector that is read next holds the next bytes of the file. *)
SectorAt(c, q, s) ==
  /\ q \in Nat /\ q * BytesPerSector \in Nat
  /\ (q + 1) * BytesPerSector = q * BytesPerSector + BytesPerSector
  /\ q * BytesPerSector + BytesPerSector <= Len(Bytes[c]) /\ Len(Bytes[c]) \in Nat
  /\ s.data \in Seq(Nat) /\ Len(s.data) = BytesPerSector
  /\ \A j \in 1 .. BytesPerSector : Bytes[c][q * BytesPerSector + j] = s.data[j]

LEMMA SectorOfFile ==
  ASSUME NEW c \in Clusters, NEW m \in 0 .. Len(Chain(c)) - 1, NEW k \in 0 .. SectorsPerCluster - 1,
         NEW s, s = At(FirstSector(Chain(c)[m + 1]) + k)
  PROVE  SectorAt(c, m * SectorsPerCluster + k, s)
<1> DEFINE l == Len(Chain(c))
           p == SectorsPerCluster
           ss == SectorsOfChain[c]
           b == BytesPerSector
           q == m * SectorsPerCluster + k
<1>1. c \in Word /\ p \in Nat /\ b \in Nat
  BY VolumeFacts, Widths DEF SectorsPerCluster
<1>2. l \in Nat
  BY <1>1, ChainFacts
<1>3. /\ ss \in Seq(Views) /\ Len(ss) = l * p
      /\ \A r \in 0 .. l - 1 : \A j \in 1 .. p : ss[r * p + j] = At(FirstSector(Chain(c)[r + 1]) + j - 1)
  BY <1>1, SectorsOfChainFacts
<1>4. FirstSector(Chain(c)[m + 1]) \in Nat
  <2> DEFINE d == Chain(c)
  <2>1. d \in Seq(Clusters) /\ m + 1 \in 1 .. Len(d)
    BY <1>1, <1>2, ChainFacts
  <2> HIDE DEF d
  <2>2. d[m + 1] \in Clusters
    BY <2>1
  <2> QED
    BY <2>2, FirstSectorRange DEF d
<1> DEFINE f == FirstSector(Chain(c)[m + 1])
<1> HIDE DEF f, l, p, ss, b
<1>5. m \in Nat /\ m <= l - 1 /\ k \in Nat /\ k <= p - 1 /\ q = m * p + k
  BY <1>1, <1>2 DEF l, p
<1> HIDE DEF q
<1>6. q \in Nat /\ q + 1 <= l * p
  <2>1. m * p \in Nat /\ m * p + p <= l * p /\ l * p \in Nat
    <3>1. m < l
      BY <1>2, <1>5
    <3> QED
      BY <1>1, <1>2, <1>5, <3>1, Products
  <2> QED
    BY <1>1, <1>5, <2>1
<1>7. ss[q + 1] = s
  <2>1. k + 1 \in 1 .. p /\ m \in 0 .. l - 1
    BY <1>1, <1>2, <1>5
  <2>2. ss[m * p + (k + 1)] = At(f + (k + 1) - 1)
    BY <1>3, <2>1 DEF f
  <2>3. m * p + (k + 1) = q + 1
    <3>1. m * p \in Nat
      BY <1>1, <1>5
    <3> QED
      BY <1>5, <3>1
  <2>4. f + (k + 1) - 1 = f + k
    BY <1>4, <1>5 DEF f
  <2> QED
    BY <2>2, <2>3, <2>4 DEF f
<1> DEFINE n == Len(ss)
<1>8. n \in Nat /\ n = l * p
  BY <1>1, <1>2, <1>3
<1> HIDE DEF n
<1>9. q \in 0 .. n - 1
  BY <1>6, <1>8
<1>10. /\ Len(Bytes[c]) = n * b
       /\ \A r \in 0 .. n - 1 : \A j \in 1 .. b : Bytes[c][r * b + j] = ss[r + 1].data[j]
  BY <1>1, BytesFacts DEF n, ss, b
<1>11. q * b \in Nat /\ (q + 1) * b = q * b + b /\ q * b + b <= n * b /\ n * b \in Nat
  <2>1. q < n
    BY <1>8, <1>9
  <2> QED
    BY <1>1, <1>6, <1>8, <2>1, Products
<1>12. \A j \in 1 .. b : Bytes[c][q * b + j] = s.data[j]
  BY <1>7, <1>9, <1>10
<1>13. s.data \in Seq(Nat) /\ Len(s.data) = b
  BY AtView, ViewFields DEF b
<1> QED
  BY <1>6, <1>10, <1>11, <1>12, <1>13 DEF b, q, SectorAt

LEMMA DataReadFollows ==
  ASSUME FATInv, Trusted, call \in Plain, Following, DataRead
  PROVE  Following'
<1>1. PICK s \in Seen :
        /\ phase = "copy" /\ pc = "done"
        /\ phase' = IF i + 1 < bpb.sectorsPerCluster THEN "copy" ELSE "copyNext"
        /\ out' = out \o SubSeq(s.data, 1, Chunk) /\ fileSize' = Left /\ i' = i + 1
        /\ UNCHANGED <<call, cluster, entry>>
  BY DEF DataRead, Returns
<1>2. /\ Readable /\ entry = Wanted /\ entry.cluster \in Clusters /\ entry.cluster \in Word
      /\ cluster \in Clusters /\ Bound \in Word
  BY <1>1, CopyFacts
<1>3. PICK m \in 0 .. Len(Chain(entry.cluster)) - 1 :
        cluster = Chain(entry.cluster)[m + 1] /\ CopiedFrom(m * SectorsPerCluster + i)
  BY <1>1, CopyFacts
<1>4. s = At(FirstSector(cluster) + i) /\ i \in 0 .. SectorsPerCluster - 1
  BY <1>1, <1>2, DataSeen
<1> DEFINE q == m * SectorsPerCluster + i
           b == BytesPerSector
           most == q * BytesPerSector
           there == Bytes[entry.cluster]
           t == Least(Bound, most)
<1>5. /\ q \in Nat /\ most \in Nat /\ (q + 1) * b = most + b /\ most + b <= Len(there) /\ Len(there) \in Nat
      /\ s.data \in Seq(Nat) /\ Len(s.data) = b
      /\ \A j \in 1 .. b : there[most + j] = s.data[j]
  <2>1. s = At(FirstSector(Chain(entry.cluster)[m + 1]) + i)
    BY <1>3, <1>4
  <2>2. SectorAt(entry.cluster, m * SectorsPerCluster + i, s)
    BY <1>2, <1>3, <1>4, <2>1, SectorOfFile
  <2> QED
    BY <2>2 DEF SectorAt
<1>6. b \in Nat /\ there \in Seq(Nat)
  BY <1>2, Widths, BytesFacts
<1>7. out = SubSeq(there, 1, t) /\ fileSize = Bound - t
  BY <1>3 DEF CopiedFrom
<1>8. q + 1 = m * SectorsPerCluster + i'
  <2>1. m * SectorsPerCluster \in Nat
    <3> DEFINE l == Len(Chain(entry.cluster))
    <3>2. l \in Nat /\ m \in 0 .. l - 1
      BY <1>2, <1>3, ChainFacts
    <3> HIDE DEF l
    <3>1. m \in Nat /\ SectorsPerCluster \in Nat
      BY <3>2, VolumeFacts DEF SectorsPerCluster
    <3> QED
      BY <3>1
  <2> QED
    BY <1>1, <1>4, <2>1
<1> HIDE DEF q, b, most, there
<1> DEFINE n == Least(Bound - t, b)
<1>9. Bound \in Nat
  BY <1>2, WordFacts
<1>10. /\ t \in Nat /\ t <= Bound /\ t <= most /\ n \in Nat /\ n <= b /\ n <= Bound - t
       /\ t + n = Least(Bound, most + b) /\ (Bound - t) - n = Bound - Least(Bound, most + b)
       /\ (n > 0 => t = most) /\ Advances(Bound, most, b, t, n)
  <2>1. Advances(Bound, most, b, t, n)
    BY <1>5, <1>6, <1>9, LeastSteps
  <2> HIDE DEF t, n
  <2> QED
    BY <2>1 DEF Advances
<1>11. Chunk = n
  BY <1>7 DEF Chunk, Least, b
<1> HIDE DEF t, n
<1>12. Left = (Bound - t) - n
  <2>1. Left = (fileSize - n) % U32
    <3>1. bpb.bytesPerSector = b
      BY VolumeFacts DEF Trusted, b
    <3>2. n = IF fileSize < BytesPerSector THEN fileSize ELSE bpb.bytesPerSector
      BY <1>11, <3>1 DEF Chunk, b
    <3> QED
      BY <3>2 DEF Left
  <2>2. fileSize \in Word
    BY DEF FATInv, FATTypes, CopyTypes
  <2>3. (fileSize - n) % U32 = fileSize - n
    BY <1>7, <1>10, <2>2, DifferenceModWord
  <2> QED
    BY <1>7, <2>1, <2>3
<1>13. SubSeq(there, 1, t) \o SubSeq(s.data, 1, n) = SubSeq(there, 1, t + n)
  <2>1. LiesAt(there, most, s.data, b)
    BY <1>5 DEF LiesAt
  <2> QED
    <3>1. Extends(there, s.data, t, n)
      BY <1>5, <1>6, <1>10, <2>1, ChunkCopied
    <3> QED
      BY <3>1 DEF Extends
<1>14. /\ out' = SubSeq(there, 1, Least(Bound, (q + 1) * b))
       /\ fileSize' = Bound - Least(Bound, (q + 1) * b)
  BY <1>1, <1>5, <1>7, <1>10, <1>11, <1>12, <1>13
<1>15. CopiedFrom(m * SectorsPerCluster + i)'
  <2>1. Bound' = Bound /\ Bytes[entry'.cluster] = there
    BY <1>1 DEF Bound, there
  <2> QED
    BY <1>8, <1>14, <2>1 DEF CopiedFrom, b
<1>16. phase' \in {"copy", "copyNext"} /\ (phase' = "copyNext" => i' = SectorsPerCluster)
  <2>1. bpb.sectorsPerCluster = SectorsPerCluster /\ SectorsPerCluster \in Nat
    BY VolumeFacts DEF Trusted, SectorsPerCluster
  <2> QED
    BY <1>1, <1>4, <2>1
<1>17. CopyInv'
  BY <1>1, <1>2, <1>3, <1>15, <1>16 DEF CopyInv, Readable
<1>18. WalkInv'
  BY <1>1, <1>2, <1>16 DEF WalkInv, Wanted
<1> QED
  BY <1>16, <1>17, <1>18, OnTheWay

-----------------------------------------------------------------------------
LEMMA FileNextReadFollows ==
  ASSUME FATInv, Trusted, call \in Plain, Following, FileNextRead
  PROVE  Following'
<1>1. PICK s \in Seen :
        /\ phase = "copyNext" /\ pc = "done"
        /\ phase' = Copying(NextOf(s, cluster)) /\ cluster' = NextOf(s, cluster) /\ i' = 0
        /\ Finished(NextOf(s, cluster), out, fileSize)
        /\ UNCHANGED <<call, entry, fileSize, out>>
  BY DEF FileNextRead, Returns
<1>2. /\ Readable /\ entry = Wanted /\ entry.kind = "file" /\ call.op = "readFile" /\ call \in Calls
      /\ entry \in DirectoryEntryFat /\ entry.cluster \in Clusters /\ entry.cluster \in Word
      /\ cluster \in Clusters /\ Bound \in Word /\ i = SectorsPerCluster
  BY <1>1, CopyFacts
<1>3. PICK m \in 0 .. Len(Chain(entry.cluster)) - 1 :
        cluster = Chain(entry.cluster)[m + 1] /\ CopiedFrom(m * SectorsPerCluster + i)
  BY <1>1, CopyFacts
<1>4. NextOf(s, cluster) = Link(cluster)
  BY <1>1, <1>2, LinkRead
<1> DEFINE chain == Chain(entry.cluster)
           l == Len(chain)
           p == SectorsPerCluster
           b == BytesPerSector
           there == Bytes[entry.cluster]
<1>5. /\ chain \in Seq(Clusters) /\ l \in Nat \ {0} /\ Linked(chain) /\ ~InChain(Link(chain[l]))
      /\ p \in Nat /\ b \in Nat
  BY <1>2, ChainFacts, VolumeFacts, Widths DEF SectorsPerCluster
<1>6. m \in 0 .. l - 1 /\ cluster = chain[m + 1] /\ CopiedFrom(m * p + p)
  BY <1>2, <1>3
<1>7. there \in Seq(Nat) /\ Len(there) = (l * p) * b
  BY <1>2, SectorsOfChainFacts, BytesFacts
<1>8. chain' = chain /\ there' = there /\ l' = l /\ Bound' = Bound /\ Wanted' = Wanted
  BY <1>1 DEF Bound, Wanted
<1> HIDE DEF chain, l, p, b, there
<1>9. m \in Nat /\ m * p + p = (m + 1) * p
  BY <1>5, <1>6
<1>10. CASE m + 1 < l
  <2>1. m + 1 \in 0 .. l - 1 /\ m + 1 \in 1 .. l - 1 /\ m + 1 + 1 \in 1 .. l
    BY <1>5, <1>6, <1>10
  <2>2. Link(cluster) = chain[(m + 1) + 1]
    BY <1>5, <1>6, <2>1 DEF Linked, l
  <2>3. Link(cluster) \in Clusters
    BY <1>5, <2>1, <2>2 DEF l
  <2>4. phase' = "copy" /\ cluster' = chain[(m + 1) + 1]
    BY SMTT(20), <1>1, <1>4, <2>2, <2>3, VolumeFacts DEF Copying, Loop, Trusted
  <2>5. CopiedFrom((m + 1) * p + i)'
    <3>1. (m + 1) * p + i' = m * p + p
      BY <1>1, <1>5, <1>9
    <3>2. CopiedFrom(m * p + p)'
      BY <1>1, <1>6, <1>8 DEF CopiedFrom, there
    <3> QED
      BY <3>1, <3>2
  <2>6. CopyInv'
    BY <1>1, <1>2, <1>8, <2>1, <2>4, <2>5 DEF CopyInv, Readable, chain, l, p
  <2>7. WalkInv'
    BY <1>1, <1>2, <1>8, <2>4 DEF WalkInv
  <2> QED
    BY <2>4, <2>6, <2>7, OnTheWay
<1>11. CASE ~(m + 1 < l)
  <2>1. m + 1 = l
    BY <1>5, <1>6, <1>11
  <2>2. ~InChain(NextOf(s, cluster))
    BY <1>4, <1>5, <1>6, <2>1
  <2>3. phase' = "idle" /\ reply' = 0 /\ terminator' = (Len(out) + fileSize) % U32
    BY <1>1, <2>2 DEF Copying, Loop, Finished
  <2> DEFINE n == Len(there)
             t == Least(Bound, n)
  <2>4. n \in Nat /\ n = (l * p) * b
    BY <1>7
  <2>5. out = SubSeq(there, 1, t) /\ fileSize = Bound - t
    BY <1>6, <1>9, <2>1, <2>4 DEF CopiedFrom, there, b
  <2> HIDE DEF n
  <2>6. t \in Nat /\ t <= n /\ t <= Bound /\ Bound \in Nat /\ t = IF Bound < n THEN Bound ELSE n
    BY <1>2, <2>4, WordFacts DEF Least
  <2> HIDE DEF t
  <2>7. Len(out) = t
    BY <1>7, <2>5, <2>6, PrefixFacts DEF n
  <2>8. terminator' = Bound
    <3>1. Len(out) + fileSize = Bound
      BY <2>5, <2>6, <2>7
    <3> QED
      BY SMTT(20), <1>2, <2>3, <3>1, Widths DEF Word
  <2>9. Bound = IF call.size < 0 THEN Wanted.size ELSE call.size
    BY <1>2, BoundFacts
  <2>10. Wanted # NoEntry /\ Wanted.kind = "file"
    BY <1>2 DEF Readable
  <2>11. /\ out' = SubSeq(Bytes[Wanted.cluster], 1, IF Bound < Len(Bytes[Wanted.cluster]) THEN Bound
                                                      ELSE Len(Bytes[Wanted.cluster]))
    BY <1>1, <1>2, <2>5, <2>6 DEF there, n
  <2> QED
    BY <1>1, <1>2, <2>3, <2>8, <2>9, <2>10, <2>11, ReadDone
<1> QED
  BY <1>10, <1>11

-----------------------------------------------------------------------------
(* Every step. *)

(* While a call is in progress, what hit it is not forgotten, and the      *)
(* volume stays mounted.                                                   *)
LEMMA TrustLasts ==
  ASSUME FATInv, [Next]_vars, Trusted', call' \in Plain, ~ \E c \in Calls : Call(c)
  PROVE  Trusted /\ call \in Plain
<1>1. CASE UNCHANGED vars
  BY <1>1 DEF vars, ataVars, fatVars, Trusted
<1>2. CASE Boot
  <2>1. phase \in Booting /\ UNCHANGED call
    BY <1>2 DEF Boot, IdentifyMaster, MasterIdentified, IdentifySlave, SlaveIdentified,
       ReadPartitions, PartitionsRead, ReadBpb, Mounted, Returns, Reads, fatVars, Booting
  <2>2. call.op = "none"
    BY <2>1 DEF FATInv, FATTypes, CallTypes
  <2> QED
    BY <2>1, <2>2, CallFacts DEF Plain
<1>3. CASE Lookup \/ Return \/ Copy
  <2>1. UNCHANGED <<call, clean, partitionOffset, bpb>>
    BY <1>3 DEF Lookup, Copy, WalkRoot, GetEntries, ReadEntries, EntriesRead, ReadNext, NextRead,
       EnterDirectory, GetEntry, Wild, Return, ReadFile, ReadData, DataRead, ReadFileNext, FileNextRead,
       Reads, fatVars, volumeVars
  <2>2. UNCHANGED ataVars \/ (\E at, s, n : Reads(at, s, n)) \/ \E from, to : Returns(from, to)
    BY <1>3 DEF Lookup, Copy, WalkRoot, GetEntries, ReadEntries, EntriesRead, ReadNext, NextRead,
       EnterDirectory, GetEntry, Wild, Return, ReadFile, ReadData, DataRead, ReadFileNext, FileNextRead,
       Goes
  <2>3. UNCHANGED present /\ (disturbed' = disturbed \/ disturbed' = TRUE)
    BY <2>2 DEF ataVars, Reads, Returns, Read28, Command
  <2> QED
    BY <2>1, <2>3 DEF Trusted
<1>4. CASE (Driver \/ Answer \/ Fail) /\ UNCHANGED fatVars
  <2>1. UNCHANGED present /\ (disturbed' = disturbed \/ disturbed' = TRUE)
    BY <1>4 DEF Driver, Poll, CopyWord, CopyEnds, DrainWord, DrainEnds, Answer, Fail
  <2> QED
    BY <1>4, <2>1 DEF Trusted, fatVars
<1> QED
  BY <1>1, <1>2, <1>3, <1>4 DEF Next, Kernel

(* Every step keeps to the path and to the bytes of the file. *)
LEMMA FollowKeeps ==
  ASSUME FATInv, FollowInv, [Next]_vars
  PROVE  FollowInv'
<1>1. SUFFICES ASSUME Trusted', call' \in Plain
               PROVE  Following'
  BY DEF FollowInv
<1>2. CASE \E c \in Calls : Call(c)
  BY <1>1, <1>2, CallStarts
<1>3. CASE ~ \E c \in Calls : Call(c)
  <2>1. Trusted /\ call \in Plain /\ Following
    BY <1>1, <1>3, TrustLasts DEF FollowInv
  <2>2. CASE UNCHANGED fatVars
    BY <2>1, <2>2, QuietFollows
  <2>3. CASE Boot
    <3>1. phase \in Booting
      BY <2>3 DEF Boot, IdentifyMaster, MasterIdentified, IdentifySlave, SlaveIdentified,
         ReadPartitions, PartitionsRead, ReadBpb, Mounted, Returns, Reads, Booting
    <3>2. call.op = "none"
      BY <3>1 DEF FATInv, FATTypes, CallTypes
    <3> QED
      BY <2>1, <3>2, CallFacts DEF Plain
  <2>4. CASE Lookup
    <3>1. CASE ReadEntries \/ ReadNext
      BY <2>2, <3>1 DEF ReadEntries, ReadNext, Reads
    <3> QED
      BY <2>1, <2>4, <3>1, WalkRootFollows, GetEntriesFollows, EntriesReadFollows, NextReadFollows,
         EnterDirectoryFollows, GetEntryFollows, WildFollows DEF Lookup
  <2>5. CASE Return
    BY <2>1, <2>5, ReturnFollows
  <2>6. CASE Copy
    <3>1. CASE ReadData \/ ReadFileNext
      BY <2>2, <3>1 DEF ReadData, ReadFileNext, Reads
    <3> QED
      BY <2>1, <2>6, <3>1, ReadFileFollows, DataReadFollows, FileNextReadFollows DEF Copy
  <2> QED
    BY <1>3, <2>2, <2>3, <2>4, <2>5, <2>6 DEF Next, Kernel, vars
<1> QED
  BY <1>2, <1>3

LEMMA FollowInit == FATInit => FollowInv
<1> SUFFICES ASSUME FATInit PROVE call \notin Plain
  BY DEF FollowInv
<1>1. call.op = "none"
  BY DEF FATInit
<1> QED
  BY <1>1, CallFacts DEF Plain

(* The inductive invariant of the four theorems behind it. *)
LEMMA Follows == Spec => [](FATInv /\ FollowInv)
BY FATInvInit, FATInvKeeps, FollowInit, FollowKeeps, PTL DEF Spec

(* A path leads to the entry the disk has for it, through directories of   *)
(* several sectors, and to nothing if the disk has none (FAT.cpp:129-214   *)
(* and 261-298).                                                           *)
THEOREM PathsLeadRight == Spec => []AnswersRight
<1>1. FollowInv => AnswersRight
  BY DEF FollowInv, Following, AnswersRight, Done
<1> QED
  BY <1>1, Follows, PTL

(* readFile copies the bytes of the file, as many as were asked for or as  *)
(* its clusters hold, and writes a zero behind the bytes asked for         *)
(* (FAT.cpp:216-238).                                                      *)
THEOREM FilesReadRight == Spec => []BytesRight
<1>1. FollowInv => BytesRight
  BY DEF FollowInv, Following, BytesRight, Done
<1> QED
  BY <1>1, Follows, PTL

(* Where the memory behind its strings is zero, only a call that reaches   *)
(* an archived file with an extension damages the heap: its converted name *)
(* is longer than the buffer, and no store of split's or of the loop over  *)
(* the letters changes a byte (String.cpp:149, FAT.cpp:31-53).  That the   *)
(* memory is zero is assumed; where it is not, nothing is claimed.         *)
THEOREM DamageExplained == Spec => []WildExplained
<1>1. FollowInv => WildExplained
  BY DEF FollowInv, Following, WildExplained
<1> QED
  BY <1>1, Follows, PTL

-----------------------------------------------------------------------------
(* The sector that the driver waits for. *)
LEMMA PollInside ==
  ASSUME FATInv, Trusted, call \in Plain, Following, pc = "poll"
  PROVE  ReadsInside
<1>1. bpb = Bpb /\ partitionOffset = Volume
  BY DEF Trusted
<1>2. ASSUME phase \in {"next", "copyNext"}
      PROVE  request.sector = FatSector(cluster)
  <2>1. cluster \in Clusters
    BY <1>2, CollectingFacts, CopyFacts DEF Collecting
  <2>2. NextSector(cluster) = FatSector(cluster)
    BY <1>1, <2>1, LinkSector
  <2> QED
    BY <1>2, <2>2 DEF FATInv, RequestInv, Asked
<1>3. phase \in {"list", "copy"} => i \in 0 .. SectorsPerCluster - 1
  BY <1>1, VolumeFacts DEF FATInv, FATTypes, WalkTypes, SectorsPerCluster
<1>4. ASSUME phase = "list"
      PROVE  \E c \in ToSet(Chain(first)) : request.sector \in SectorNumbers(c)
  <2>1. first \in Clusters /\ first \in Word /\ Len(Chain(first)) = 1
    BY <1>4, CollectingFacts
  <2>2. (ClusterToLBA(first) + i) % U32 = FirstSector(first) + i /\ FirstSector(first) \in Nat
    BY <1>1, <1>3, <1>4, <2>1, LBAIsFirstSector, FirstSectorRange
  <2>3. request.sector = FirstSector(first) + i
    BY <1>4, <2>2 DEF FATInv, RequestInv, Asked
  <2>4. Chain(first) = <<first>>
    BY <2>1, ListingIs
  <2>5. first \in ToSet(Chain(first))
    BY <2>4 DEF ToSet
  <2>6. request.sector \in SectorNumbers(first)
    BY <1>3, <1>4, <2>2, <2>3, VolumeFacts DEF SectorNumbers, SectorsPerCluster
  <2> QED
    BY <2>5, <2>6
<1>5. ASSUME phase = "copy"
      PROVE  \E c \in ToSet(Chain(entry.cluster)) : request.sector \in SectorNumbers(c)
  <2> DEFINE l == Len(Chain(entry.cluster))
             f == FirstSector(cluster)
  <2>1. /\ cluster \in Clusters /\ entry.cluster \in Word /\ entry.cluster \in Clusters
    BY <1>5, CopyFacts
  <2>2. PICK m \in 0 .. l - 1 : cluster = Chain(entry.cluster)[m + 1]
    BY <1>5, CopyFacts
  <2>3. (ClusterToLBA(cluster) + i) % U32 = f + i /\ f \in Nat
    BY <1>1, <1>3, <1>5, <2>1, LBAIsFirstSector, FirstSectorRange
  <2>4. request.sector = f + i
    BY <1>5, <2>3 DEF FATInv, RequestInv, Asked
  <2>5. m + 1 \in DOMAIN Chain(entry.cluster)
    <3>1. Chain(entry.cluster) \in Seq(Clusters)
      BY <2>1, ChainFacts
    <3>2. l \in Nat /\ DOMAIN Chain(entry.cluster) = 1 .. l
      BY <3>1, LenProperties
    <3> HIDE DEF l
    <3> QED
      BY <3>2
  <2>6. cluster \in ToSet(Chain(entry.cluster))
    BY <2>2, <2>5 DEF ToSet
  <2>7. request.sector \in SectorNumbers(cluster)
    BY <1>3, <1>5, <2>3, <2>4, VolumeFacts DEF SectorNumbers, SectorsPerCluster
  <2> QED
    BY <2>6, <2>7
<1> QED
  BY <1>2, <1>4, <1>5 DEF ReadsInside

(* A chain is followed through the allocation table, and only sectors of   *)
(* its clusters are read (FAT.cpp:24, 61, 222), if the path leads through  *)
(* directories: a file's bytes would be taken for entries otherwise.       *)
THEOREM ReadsStayInside == Spec => [](call \in Plain => ReadsInside)
<1>1. FATInv /\ FollowInv => (call \in Plain => ReadsInside)
  <2> SUFFICES ASSUME FATInv, FollowInv, call \in Plain
               PROVE  ReadsInside
    OBVIOUS
  <2>1. CASE pc = "poll" /\ Trusted
    BY <2>1, PollInside DEF FollowInv
  <2>2. CASE ~(pc = "poll" /\ Trusted)
    BY <2>2 DEF ReadsInside
  <2> QED
    BY <2>1, <2>2
<1> QED
  BY <1>1, Follows, PTL

=============================================================================
