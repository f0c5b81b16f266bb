-------------------------------- MODULE FAT --------------------------------
(***************************************************************************)
(* The storage stack: kmain identifies the drives, reads the partition     *)
(* table and the BIOS parameter block, and then callers look for files and *)
(* read them.  Every sector comes through the ATA driver, one call at a    *)
(* time.                                                                   *)
(*                                                                         *)
(* The disk is a function from sectors to records with one view for each   *)
(* structure the code casts a sector to; Blank is a sector of zeros.       *)
(* Names are sequences of characters, in lower case as callers write them. *)
(* A path is the sequence of names behind its slashes.                     *)
(***************************************************************************)
EXTENDS ATA, FiniteSets, SequencesExt

CONSTANTS
  Sector,          \* the disk: what each sector that is not Blank holds
  Volume,          \* the first sector of its first partition
  Bpb,             \* the BIOS parameter block there
  Blank,
  Garbage,         \* what a buffer may hold that no sector was read into
  BpbSize,         \* sizeof(BiosParameterBlock)
  EntrySize,       \* sizeof(DirectoryEntryFat)
  NextsPerSector,  \* 512 / sizeof(u32)
  ClusterEnd,      \* CLUSTER_END
  U32,             \* the number of u32 values
  LinkValues,      \* how many of them a link keeps: 0x0FFFFFFF + 1
  Char,            \* the characters of names
  Calls,           \* the calls that are made: operation, path and size
  NoEntry          \* nullptr

VARIABLES
  phase,            \* what the storage stack does: see Phase
  partitionOffset,
  bpb,
  call,             \* the call in progress or the last one
  parts,            \* the names of the directory's path still to be looked up
  cluster,          \* the cluster a loop over a chain has reached
  first,            \* the cluster getEntries was called for
  i,                \* the sector of the cluster
  results,          \* the entries getEntries has collected
  entry,            \* what getEntry returned
  fileSize,         \* what readClusterChain still has to copy
  out,              \* the bytes it has copied to the caller's buffer
  terminator,       \* where it put the final zero
  reply,            \* the return value: 0 and 1 also stand for false and true
  clean             \* the byte behind each string of this call is zero

fatVars == <<phase, partitionOffset, bpb, call, parts, cluster, first, i, results,
             entry, fileSize, out, terminator, reply, clean>>
walkVars == <<parts, cluster, first, i, results, entry>>
copyVars == <<fileSize, out, terminator, reply>>
volumeVars == <<partitionOffset, bpb>>
vars == <<ataVars, fatVars>>

Phase == {"off", "identified", "partitions", "mounting", "idle", "walk", "list", "next",
          "listed", "found", "copy", "copyNext", "wild"}
Disk == "slave"

Word == 0 .. U32 - 1
Name == Seq(Char)
Kind == {"file", "dir", "label", "dot", "long", "end"}
DirectoryEntryFat == [base : Name, ext : Name, kind : Kind, archive : BOOLEAN, cluster : Word, size : Word]
BiosParameterBlock ==
  [bytesPerSector : Nat, sectorsPerCluster : Nat, reservedSectors : Nat, fatCopies : Nat,
   fatSize : Nat, rootDirectoryEntries : Nat, rootCluster : Word]

(* A sector as each of the structures the code casts it to. *)
View == [startLba : Word, bpb : BiosParameterBlock, nexts : [1 .. NextsPerSector -> Word],
         entries : Seq(DirectoryEntryFat), data : Seq(Nat)]

(* What a buffer may hold.  Garbage has entries for as large a sector as   *)
(* any BPB claims, others for a sector of the drive.                       *)
Views == Garbage \cup {Sector[s] : s \in DOMAIN Sector}
EntriesPer(bytes) == bytes \div EntrySize

ASSUME FATAssumption ==
  /\ {EntrySize, NextsPerSector, ClusterEnd, U32, LinkValues} \subseteq Nat \ {0}
  /\ LinkValues <= U32
  /\ BpbSize \in 0 .. BytesPerSector /\ Volume \in Nat
  /\ Blank \in Garbage /\ Views \subseteq View
  /\ \A s \in Views :
       /\ Len(s.data) = BytesPerSector /\ Len(s.entries) >= EntriesPer(BytesPerSector)
       /\ \A g \in Garbage : Len(g.entries) >= EntriesPer(s.bpb.bytesPerSector)
  /\ NoEntry \notin DirectoryEntryFat
  /\ Sector[0].startLba = Volume /\ Sector[Volume].bpb = Bpb
  /\ {0, Volume} \subseteq DOMAIN Sector
  /\ Calls \subseteq [op : {"fileExists", "directoryExists", "getFileSize", "readFile"},
                      path : Seq(Name), size : Int]
  /\ \A c \in Calls : Len(c.path) > 0 /\ c.size < U32

(* What the buffer holds after the driver returned. *)
Seen ==
  IF request.op = "read" /\ \A k \in Offset : k < request.count => buffer[k] = <<request.sector, k>>
  THEN {IF request.sector \in DOMAIN Sector THEN Sector[request.sector] ELSE Blank}
  ELSE Garbage

FATInit ==
  /\ ATAInit
  /\ phase = "off"
  /\ partitionOffset = 0 /\ bpb = Blank.bpb
  /\ call = [op |-> "none", path |-> <<>>, size |-> 0]
  /\ parts = <<>> /\ cluster = 0 /\ first = 0 /\ i = 0 /\ results = <<>>
  /\ entry = NoEntry
  /\ fileSize = 0 /\ out = <<>> /\ terminator = -1 /\ reply = -1
  /\ clean = TRUE

(* The driver has finished; the caller goes on to another phase. *)
Returns(from, to) ==
  /\ phase = from /\ pc = "done"
  /\ phase' = to
  /\ pc' = "idle"
  /\ UNCHANGED <<present, drive, request, index, buffer, faults, disturbed>>

(* The caller has the driver read n bytes of sector s. *)
Reads(at, s, n) ==
  /\ phase = at
  /\ Read28(Disk, s, n)
  /\ UNCHANGED fatVars

(* The caller goes on without the driver. *)
Goes(from, to) ==
  /\ phase = from /\ pc = "idle"
  /\ phase' = to
  /\ UNCHANGED ataVars

-----------------------------------------------------------------------------
(* kmain sets the file system up. *)

IdentifyMaster == phase = "off" /\ Identify("master") /\ UNCHANGED fatVars

MasterIdentified ==
  /\ Returns("off", "identified")
  /\ UNCHANGED <<call, clean, volumeVars, walkVars, copyVars>>

IdentifySlave == phase = "identified" /\ Identify("slave") /\ UNCHANGED fatVars

SlaveIdentified ==
  /\ Returns("identified", "partitions")
  /\ UNCHANGED <<call, clean, volumeVars, walkVars, copyVars>>

(* The table's signature is only logged, and the first partition is taken  *)
(* whether it exists or not.                                               *)
ReadPartitions == Reads("partitions", 0, BytesPerSector)

PartitionsRead ==
  /\ Returns("partitions", "mounting")
  /\ \E s \in Seen : partitionOffset' = s.startLba
  /\ UNCHANGED <<bpb, call, clean, walkVars, copyVars>>

ReadBpb == Reads("mounting", partitionOffset, BpbSize)

Mounted ==
  /\ Returns("mounting", "idle")
  /\ \E s \in Seen : bpb' = s.bpb
  /\ UNCHANGED <<partitionOffset, call, clean, walkVars, copyVars>>

Boot ==
  \/ IdentifyMaster \/ MasterIdentified \/ IdentifySlave \/ SlaveIdentified
  \/ ReadPartitions \/ PartitionsRead \/ ReadBpb \/ Mounted

-----------------------------------------------------------------------------
(* Clusters. *)

DataStart ==
  partitionOffset + bpb.reservedSectors + bpb.fatSize * bpb.fatCopies + bpb.rootDirectoryEntries

(* Variant: clusters are counted from 0. *)
ClusterToLBAFromZero(c) == (DataStart + c * bpb.sectorsPerCluster) % U32

ClusterToLBA(c) ==
  (DataStart + c * bpb.sectorsPerCluster - 2 * bpb.sectorsPerCluster) % U32

InChain(c) == c # 0 /\ c < ClusterEnd

(* Where a loop over a chain goes on: to the sectors of the cluster, if it *)
(* has any.                                                                *)
Loop(c, body, after, end) ==
  IF ~InChain(c) THEN end ELSE IF bpb.sectorsPerCluster > 0 THEN body ELSE after

(* The entry of a cluster in the first file allocation table.  The highest *)
(* four bits of a link are not part of it.                                 *)
NextSector(c) == (partitionOffset + bpb.reservedSectors + (c \div NextsPerSector)) % U32
NextOf(s, c) == s.nexts[(c % NextsPerSector) + 1] % LinkValues

-----------------------------------------------------------------------------
(* Names. *)

(* Variant: no dot is written. *)
ConvertNameJoined(e) == e.base \o e.ext

(* The dot depends on the second character of the extension. *)
ConvertName(e) == e.base \o (IF Len(e.ext) >= 2 THEN <<".">> ELSE <<>>) \o e.ext

(* Variant: no byte is counted for the attributes. *)
BufferLengthName(e) == Len(e.base) + Len(e.ext)

(* The characters that are no spaces, in the name and the attributes       *)
(* behind it: these are one unless they are 0x20, archive, and nothing     *)
(* else.  Nobody counts the dot.                                           *)
BufferLength(e) == Len(e.base) + Len(e.ext) + (IF e.archive THEN 0 ELSE 1)

Overruns(e) == Len(ConvertName(e)) > BufferLength(e)

(* Entries getEntries keeps: neither . nor .. nor parts of a long name,    *)
(* but the label of the volume.                                            *)
Kept(e) == e.kind \in {"file", "dir", "label"}

(* The entries of a sector in front of the end mark. *)
EntriesIn(s, bytes) == SubSeq(s.entries, 1, EntriesPer(bytes))
EntriesOf(s) == EntriesIn(s, bpb.bytesPerSector)
Ends(es) == \E k \in DOMAIN es : es[k].kind = "end"
BeforeEnd(es) ==
  {k \in DOMAIN es : \A j \in DOMAIN es : j <= k => es[j].kind # "end"}
Collected(es) ==
  FlattenSeq([k \in DOMAIN es |-> IF k \in BeforeEnd(es) /\ Kept(es[k]) THEN <<es[k]>> ELSE <<>>])

(* The entries a search for a name may return.  Converted names are not    *)
(* terminated: in memory that is not zero, a search may end at any entry   *)
(* whose name is the start of the one looked for, or miss all of them.     *)
Matching(name) == {k \in DOMAIN results : ConvertName(results[k]) = name}
FirstMatch(name) == CHOOSE k \in Matching(name) : \A j \in Matching(name) : k <= j
Found(name) ==
  IF clean
  THEN {IF Matching(name) = {} THEN NoEntry ELSE results[FirstMatch(name)]}
  ELSE {NoEntry} \cup
       {results[k] : k \in {j \in DOMAIN results : IsPrefix(ConvertName(results[j]), name)}}

(* A search converts the names up to the first match, and then nothing     *)
(* stops it from writing behind a buffer: convertName a letter, if a name  *)
(* overruns its buffer, and its loop over the letters wherever memory goes *)
(* on behind a name.                                                       *)
Breaks(name) ==
  IF clean THEN \E k \in DOMAIN results : Overruns(results[k]) /\ \A j \in Matching(name) : k <= j
  ELSE results # <<>>

(* split stores a zero behind its last part, which changes memory that is  *)
(* not zero there.  A path is split before any directory is read.          *)
SplitBreaks == phase = "walk" /\ first = 0 /\ ~clean

(* What lies behind a buffer is the next link of the heap's next chunk,    *)
(* unless malloc left some bytes between them: a byte that is changed may  *)
(* or may not damage the heap.  Of a damaged heap nothing is promised: the *)
(* model ends, for later calls as well.                                    *)
Wild ==
  /\ Goes(phase, "wild")
  /\ \/ SplitBreaks
     \/ phase = "listed" /\ parts # <<>> /\ Breaks(Head(parts))
     \/ phase = "listed" /\ parts = <<>> /\ Breaks(Last(call.path))
  /\ UNCHANGED <<call, clean, volumeVars, walkVars, copyVars>>

-----------------------------------------------------------------------------
(* getEntry: the directory's path is split and walked, then the directory  *)
(* is searched for the last name.                                          *)

(* The path of the directory: the root's has no parts, others start with   *)
(* an empty one.                                                           *)
Directory(path) == IF Len(path) = 1 THEN <<>> ELSE <<<<>>>> \o Front(path)

(* It is not terminated either: other characters may follow. *)
Names == UNION {ToSet(c.path) : c \in Calls}
Continued(dir) ==
  {dir} \cup
  IF dir = <<>> THEN {<<<<>>, n>> : n \in Names}
  ELSE {Append(Front(dir), n) : n \in {m \in Names : IsPrefix(Last(dir), m)}}

Call(c) ==
  /\ phase = "idle" /\ pc = "idle"
  /\ phase' = "walk"
  /\ call' = c
  /\ clean' \in BOOLEAN
  /\ parts' \in IF clean' THEN {Directory(c.path)} ELSE Continued(Directory(c.path))
  /\ cluster' = 0 /\ first' = 0 /\ i' = 0
  /\ results' = <<>> /\ entry' = NoEntry
  /\ fileSize' = 0 /\ out' = <<>> /\ terminator' = -1 /\ reply' = -1
  /\ disturbed' = FALSE
  /\ UNCHANGED <<present, drive, pc, request, index, buffer, faults, volumeVars>>

(* An empty part stands for the root. *)
AtRoot == parts # <<>> /\ Head(parts) = <<>>

WalkRoot ==
  /\ Goes("walk", "walk")
  /\ AtRoot
  /\ cluster' = bpb.rootCluster
  /\ parts' = Tail(parts)
  /\ UNCHANGED <<call, clean, first, i, results, entry, volumeVars, copyVars>>

(* getEntries(cluster), where cluster 0 stands for the root. *)
Start == IF cluster = 0 THEN bpb.rootCluster ELSE cluster

GetEntries ==
  /\ Goes("walk", Loop(Start, "list", "next", "listed"))
  /\ ~AtRoot
  /\ first' = Start /\ cluster' = Start /\ i' = 0 /\ results' = <<>>
  /\ UNCHANGED <<call, clean, parts, entry, volumeVars, copyVars>>

(* The sector is computed once, from the first cluster. *)
ReadEntries == Reads("list", (ClusterToLBA(first) + i) % U32, bpb.bytesPerSector)

AfterSector == IF i + 1 < bpb.sectorsPerCluster THEN "list" ELSE "next"

EntriesRead ==
  \E s \in Seen :
    /\ Returns("list", IF Ends(EntriesOf(s)) THEN "listed" ELSE AfterSector)
    /\ results' = results \o Collected(EntriesOf(s))
    /\ i' = i + 1
    /\ UNCHANGED <<call, clean, parts, cluster, first, entry, volumeVars, copyVars>>

ReadNext == Reads("next", NextSector(cluster), BytesPerSector)

NextRead ==
  \E s \in Seen :
    /\ Returns("next", Loop(NextOf(s, cluster), "list", "next", "listed"))
    /\ cluster' = NextOf(s, cluster)
    /\ i' = 0
    /\ UNCHANGED <<call, clean, parts, first, results, entry, volumeVars, copyVars>>

(* getEntryInCluster found the next directory, or nothing: the listing is  *)
(* then empty.  Nobody asks whether the entry is a directory.              *)
EnterDirectory ==
  /\ phase = "listed" /\ parts # <<>>
  /\ \E e \in Found(Head(parts)) :
    /\ Goes("listed", IF e = NoEntry THEN "found" ELSE "walk")
    /\ cluster' = IF e = NoEntry THEN cluster ELSE e.cluster
    /\ parts' = Tail(parts)
    /\ UNCHANGED <<call, clean, first, i, results, entry, volumeVars, copyVars>>

GetEntry ==
  /\ phase = "listed" /\ parts = <<>>
  /\ \E e \in Found(Last(call.path)) :
    /\ Goes("listed", "found")
    /\ entry' = e
    /\ UNCHANGED <<call, clean, parts, cluster, first, i, results, volumeVars, copyVars>>

Lookup ==
  \/ WalkRoot \/ GetEntries \/ ReadEntries \/ EntriesRead \/ ReadNext \/ NextRead
  \/ EnterDirectory \/ GetEntry \/ Wild

-----------------------------------------------------------------------------
(* fileExists, directoryExists, getFileSize and readFile. *)

Truth(p) == IF p THEN 1 ELSE 0

Answered ==
  CASE call.op = "fileExists" -> Truth(entry # NoEntry /\ entry.kind # "dir")
    [] call.op = "directoryExists" -> Truth(entry # NoEntry /\ entry.kind = "dir")
    [] call.op = "getFileSize" -> IF entry = NoEntry THEN 0 ELSE entry.size
    [] call.op = "readFile" -> -1

Readable == call.op = "readFile" /\ entry # NoEntry /\ entry.kind # "dir"

Return ==
  /\ Goes("found", "idle")
  /\ ~Readable
  /\ reply' = Answered
  /\ UNCHANGED <<call, clean, fileSize, out, terminator, volumeVars, walkVars>>

(* Behind the loop over a file's clusters a zero is written. *)
Copying(c) == Loop(c, "copy", "copyNext", "idle")
Finished(c, copied, left) ==
  /\ terminator' = IF InChain(c) THEN terminator ELSE (Len(copied) + left) % U32
  /\ reply' = IF InChain(c) THEN reply ELSE 0

(* readFile ignores its offset, and a negative size asks for all. *)
ReadFile ==
  LET size == IF call.size < 0 THEN entry.size ELSE call.size IN
  /\ Readable
  /\ Goes("found", Copying(entry.cluster))
  /\ cluster' = entry.cluster /\ i' = 0
  /\ fileSize' = size
  /\ Finished(entry.cluster, out, size)
  /\ UNCHANGED <<call, clean, parts, first, results, entry, out, volumeVars>>

(* Variant: whole sectors are copied. *)
ChunkWhole == BytesPerSector

(* fileSize < 512 ? fileSize : 512 *)
Chunk == IF fileSize < BytesPerSector THEN fileSize ELSE BytesPerSector

(* Variant: a last part of a sector counts as a whole one. *)
LeftWhole == (fileSize - bpb.bytesPerSector) % U32

Left == (fileSize - IF fileSize < BytesPerSector THEN fileSize ELSE bpb.bytesPerSector) % U32

ReadData == Reads("copy", (ClusterToLBA(cluster) + i) % U32, Chunk)

DataRead ==
  \E s \in Seen :
    /\ Returns("copy", IF i + 1 < bpb.sectorsPerCluster THEN "copy" ELSE "copyNext")
    /\ out' = out \o SubSeq(s.data, 1, Chunk)
    /\ fileSize' = Left
    /\ i' = i + 1
    /\ UNCHANGED <<call, clean, parts, cluster, first, results, entry, terminator, reply,
                    volumeVars>>

ReadFileNext == Reads("copyNext", NextSector(cluster), BytesPerSector)

FileNextRead ==
  \E s \in Seen :
    /\ Returns("copyNext", Copying(NextOf(s, cluster)))
    /\ cluster' = NextOf(s, cluster)
    /\ i' = 0
    /\ Finished(NextOf(s, cluster), out, fileSize)
    /\ UNCHANGED <<call, clean, parts, first, results, entry, fileSize, out, volumeVars>>

Copy == ReadFile \/ ReadData \/ DataRead \/ ReadFileNext \/ FileNextRead

Kernel == Boot \/ Lookup \/ Return \/ Copy \/ (Driver /\ UNCHANGED fatVars)

Next ==
  \/ Kernel
  \/ \E c \in Calls : Call(c)
  \/ (Answer \/ Fail) /\ UNCHANGED fatVars

(* The processor goes on, and a drive that is busy gets done. *)
Fairness == WF_vars(Kernel) /\ WF_vars(Answer /\ UNCHANGED fatVars)

Spec == FATInit /\ [][Next]_vars /\ Fairness

-----------------------------------------------------------------------------
(* What the disk says. *)

At(s) == IF s \in DOMAIN Sector THEN Sector[s] ELSE Blank
FatSector(c) == Volume + Bpb.reservedSectors + (c \div NextsPerSector)
Clusters == 2 .. NextsPerSector * Bpb.fatSize - 1
Link(c) == NextOf(At(FatSector(c)), c)

(* The clusters of each chain, at most one for each cluster there is. *)
ChainOf[n \in 0 .. Cardinality(Clusters)] == [c \in Word |->
  IF n = 0 \/ c \notin Clusters THEN <<>> ELSE <<c>> \o ChainOf[n - 1][Link(c)]]
Chain(c) == ChainOf[Cardinality(Clusters)][c]

FirstSector(c) ==
  Volume + Bpb.reservedSectors + Bpb.fatSize * Bpb.fatCopies + (c - 2) * Bpb.sectorsPerCluster
SectorsOf(c) == [k \in 1 .. Bpb.sectorsPerCluster |-> At(FirstSector(c) + k - 1)]
SectorsOfChain == [c \in Word |->
  LET chain == Chain(c) IN FlattenSeq([k \in DOMAIN chain |-> SectorsOf(chain[k])])]

(* All bytes of a chain, and all entries of a directory. *)
Bytes == LET held == SectorsOfChain IN
  [c \in Word |-> FlattenSeq([k \in DOMAIN held[c] |-> held[c][k].data])]
Listing == LET held == SectorsOfChain IN
  [c \in Word |-> Collected(FlattenSeq([k \in DOMAIN held[c] |-> EntriesIn(held[c][k], Bpb.bytesPerSector)]))]

FileName(e) == e.base \o (IF e.ext # <<>> THEN <<".">> \o e.ext ELSE <<>>)
Root == [kind |-> "dir", cluster |-> Bpb.rootCluster]

(* The entry with a name in a directory, if there is a directory. *)
Child(d, name) ==
  IF d = NoEntry \/ d.kind # "dir" THEN NoEntry
  ELSE LET named == {e \in ToSet(Listing[d.cluster]) : FileName(e) = name}
       IN IF named = {} THEN NoEntry ELSE CHOOSE e \in named : TRUE

(* Where a path leads, and all that it starts with. *)
Places(path) ==
  LET place[n \in 0 .. Len(path)] == IF n = 0 THEN Root ELSE Child(place[n - 1], path[n])
  IN place

(* Paths the code can follow: every directory on the way is one, and fits  *)
(* into a cluster, and no name is empty, the volume's label, or close to   *)
(* one whose extension is a single character and is converted without its  *)
(* dot.                                                                    *)
PlainStep(d, name) ==
  /\ name # <<>>
  /\ d # NoEntry =>
       /\ d.kind = "dir"
       /\ Len(Chain(d.cluster)) = 1
       /\ \A e \in ToSet(Listing[d.cluster]) :
            name \in {FileName(e), e.base \o e.ext} => Len(e.ext) # 1 /\ e.kind # "label"
Plain == {c \in Calls :
  \A k \in DOMAIN c.path : PlainStep(Places(c.path)[k - 1], c.path[k])}

(* The directories the paths lead through. *)
Directories == {d.cluster : d \in {e \in
  UNION {{Places(c.path)[k] : k \in 0 .. Len(c.path)} : c \in Calls} : e # NoEntry /\ e.kind = "dir"}}

(* The volume is as it was formatted: it fits the disk, none of its        *)
(* clusters is marked bad, its chains end, and in a directory a name on a  *)
(* path stands once.                                                       *)
ASSUME VolumeAssumption ==
  /\ Bpb.bytesPerSector = BytesPerSector
  /\ Bpb.sectorsPerCluster > 0 /\ Bpb.fatCopies > 0 /\ Bpb.rootDirectoryEntries = 0
  /\ NextsPerSector * Bpb.fatSize <= ClusterEnd /\ ClusterEnd <= LinkValues /\ MaxLba < U32
  /\ \A c \in Clusters :
       /\ FirstSector(c) + Bpb.sectorsPerCluster - 1 <= MaxLba
       /\ Link(c) \in Clusters \/ ~InChain(Link(c))
       /\ ~InChain(Link(Last(Chain(c))))
  /\ Bpb.rootCluster \in Clusters /\ NoEntry # Root
  /\ \A c \in Directories : \A e, f \in ToSet(Listing[c]) :
       /\ e.kind = "dir" => e.cluster \in Clusters
       /\ e.kind = "file" => e.cluster \in Clusters \cup {0}
       /\ FileName(e) = FileName(f) /\ FileName(e) \in Names /\ "label" \notin {e.kind, f.kind} => e = f

-----------------------------------------------------------------------------
(* Properties. *)

(* Every variable keeps its type; the loops stay inside the cluster and    *)
(* the size.                                                               *)
TypeOK ==
  /\ ATATypeOK
  /\ phase \in Phase
  /\ partitionOffset \in Word /\ bpb \in BiosParameterBlock
  /\ call.op # "none" => call \in Calls
  /\ parts \in Seq(Name)
  /\ cluster \in Word /\ first \in Word
  /\ i \in 0 .. bpb.sectorsPerCluster
  /\ results \in Seq({e \in DirectoryEntryFat : Kept(e)})
  /\ entry \in DirectoryEntryFat \cup {NoEntry}
  /\ fileSize \in Word /\ out \in Seq(Nat)
  /\ bpb = Bpb /\ entry # NoEntry => fileSize <= IF call.size >= 0 THEN call.size ELSE entry.size
  /\ terminator \in {-1} \cup Word
  /\ reply \in {-1} \cup Word
  /\ clean \in BOOLEAN

(* The volume was mounted, no fault hit this call, and the heap held zeros *)
(* behind its strings.  Faults that hit earlier calls do not matter.       *)
Trusted ==
  /\ clean /\ ~disturbed /\ Disk \in present
  /\ partitionOffset = Volume /\ bpb = Bpb

Done == phase = "idle" /\ Trusted /\ call \in Plain
Wanted == Places(call.path)[Len(call.path)]

(* What a call answers that looked for an entry.                           *)
Answers(e) ==
  LET kind == IF e = NoEntry THEN "none" ELSE e.kind
  IN CASE call.op = "fileExists" -> reply = Truth(kind = "file")
       [] call.op = "directoryExists" -> reply = Truth(kind = "dir")
       [] call.op = "getFileSize" -> reply = IF kind = "none" THEN 0 ELSE e.size
       [] call.op = "readFile" -> reply = IF kind = "file" THEN 0 ELSE -1

(* A path leads to the entry the disk has for it, through directories of   *)
(* several sectors, and to nothing if the disk has none (FAT.cpp:129-214   *)
(* and 261-298).                                                           *)
AnswersRight == Done => Answers(Wanted)

(* What a caller finds that asked for a file.                              *)
Copies(e) ==
  LET size == IF call.size < 0 THEN e.size ELSE call.size
      there == Bytes[e.cluster]
  IN /\ out = SubSeq(there, 1, IF size < Len(there) THEN size ELSE Len(there))
     /\ terminator = size

(* readFile copies as many bytes of the file as were asked for, or as its  *)
(* clusters hold, and then writes a zero behind the bytes asked for: the   *)
(* caller's buffer needs one byte more than the file (FAT.cpp:216-238).    *)
BytesRight == Done /\ call.op = "readFile" /\ reply = 0 => Copies(Wanted)

(* A chain is followed through the allocation table, and only sectors of   *)
(* its clusters are read: nothing else is taken for entries or for data    *)
(* (FAT.cpp:24, 61, 222).                                                  *)
SectorNumbers(c) == FirstSector(c) .. FirstSector(c) + Bpb.sectorsPerCluster - 1
ReadsInside ==
  pc = "poll" /\ Trusted =>
    /\ phase \in {"next", "copyNext"} => request.sector = FatSector(cluster)
    /\ phase \in {"list", "copy"} =>
         \E c \in ToSet(Chain(IF phase = "list" THEN first ELSE entry.cluster)) :
           request.sector \in SectorNumbers(c)

(* Three stores lie behind a buffer (String.cpp:149, FAT.cpp:42-46 and     *)
(* 51-53).  Where memory behind the strings is zero, as Trusted says, the  *)
(* first stores what is there and the third none: a call then damages the  *)
(* heap only if it reaches an archived file with an extension, in a        *)
(* directory on its path or the one it ends in, before the name it looks   *)
(* for there.  Where memory is not zero every call may.                    *)
WildExplained ==
  phase = "wild" /\ Trusted /\ call \in Plain =>
    \E k \in 1 .. Len(call.path) :
      LET es == Listing[Places(call.path)[k - 1].cluster] IN
      \E n \in DOMAIN es :
        /\ es[n].archive /\ Len(es[n].ext) >= 2
        /\ \A j \in 1 .. n - 1 : FileName(es[j]) # call.path[k]

(* kmain and every call get through, whatever the drive answers, with or   *)
(* without a drive, if a busy drive gets done and chains end: an error in  *)
(* the middle of a sector, or garbage in place of it, stops nobody         *)
(* (ATA.cpp:27, 69; FAT.cpp:80, 221).                                      *)
CallsReturn == phase \notin {"idle", "wild"} ~> phase \in {"idle", "wild"}

(* FAT.cpp:141 says "if it's final destination read all entries in it":    *)
(* the listing of a directory holds all its entries.                       *)
ReadsAllEntries ==
  phase = "listed" /\ Trusted => ToSet(Listing[first]) \subseteq ToSet(results)

=============================================================================
