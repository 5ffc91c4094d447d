---------------------------- MODULE ImageBuilder ----------------------------
(***************************************************************************)
(* build_image of scripts/mkfloppy.py: how a boot sector, a second stage,  *)
(* a kernel and the files of a directory become a floppy image.            *)
(*                                                                         *)
(* The image is a function from byte offsets to bytes.  Three sectors are  *)
(* kept beside it as what they mean: the boot sector (host.stage1, a BIOS  *)
(* parameter block), the manifest, and the root directory, whose 32-byte   *)
(* entries are records.                                                    *)
(***************************************************************************)
EXTENDS DosNames, FatTable

CONSTANTS
  BytesPerSector,   \* BYTES_PER_SECTOR (512); SECTORS_PER_CLUSTER is 1
  TotalSectors,     \* TOTAL_SECTORS (2880)
  ReservedSectors,  \* RESERVED_SECTORS (32)
  SectorsPerFat,    \* SECTORS_PER_FAT (9)
  RootEntries,      \* ROOT_ENTRIES (224)
  SectorsPerTrack,  \* SECTORS_PER_TRACK (18)
  Heads,            \* HEADS (2)
  EntryBytes,       \* bytes of a root entry (32)
  KernelName,       \* "KERNEL64.BIN"
  Hosts             \* the inputs: [stage1, stage2, kernel, dir]

FatCount == 2
ImageSize == TotalSectors * BytesPerSector
FatBytes == SectorsPerFat * BytesPerSector
RootSectors == (RootEntries * EntryBytes + BytesPerSector - 1) \div BytesPerSector
RootLba == ReservedSectors + FatCount * SectorsPerFat
DataLba == RootLba + RootSectors
ManifestLba == ReservedSectors - 1
MaxStage2Bytes == (ManifestLba - 1) * BytesPerSector

\* The last cluster of the data area.
LastCluster == TotalSectors - DataLba + 1

ASSUME GeometryAssumption ==
  /\ BytesPerSector \in Nat \ {0} /\ EntryBytes \in Nat \ {0}
  /\ TotalSectors \in Nat /\ SectorsPerFat \in Nat /\ RootEntries \in Nat
  /\ ReservedSectors \in Nat /\ ReservedSectors > 1
  /\ DataLba < TotalSectors

\* Every cluster of the data area has an entry in the FAT, and a number below
\* the marks that end a chain.
ASSUME FatCoversData == LastCluster \in Clusters(FatBytes) /\ LastCluster < 4088

\* Capitals and an extension: KERNEL64.BIN.
ASSUME KernelNameAssumption ==
  /\ KernelName \in Seq(DOMAIN UpperOf) /\ UpperCase(KernelName) = KernelName
  /\ \E k \in 1 .. Len(KernelName) - 1 : KernelName[k] = "."
  /\ KernelName[Len(KernelName)] # "."

ASSUME HostAssumption ==
  \A h \in Hosts : h.kernel \in Seq(Nat) /\ h.stage2 \in Seq(Nat)
    /\ h.dir \in Seq([name : Seq(DOMAIN UpperOf), data : Seq(Nat)])

VARIABLES
  host,           \* the files given to the builder
  phase,          \* where build_image is
  fat,            \* the bytearray fat
  image,          \* the bytearray image, without boot sector, root and manifest
  root,           \* the bytearray root, as entries 0 .. RootEntries - 1
  manifest,       \* kernel_lba, kernel_sectors, kernel_size
  index,          \* files done
  next_cluster,   \* the next free cluster
  first_cluster,  \* first cluster of the file at hand
  cluster         \* the loop variable of the chain loop

buildVars == <<host, phase, fat, image, root, manifest, index, next_cluster,
               first_cluster, cluster>>

Free == [name |-> <<>>, attr |-> 0, cluster |-> 0, size |-> 0]
Archive == 32

\* read_root_files: the kernel first, then the directory in order.
Files(h) == <<[name |-> KernelName, data |-> h.kernel]>> \o h.dir
File == Files(host)[index + 1]
Size(file) == Len(file.data)
Count(data) == (Len(data) + BytesPerSector - 1) \div BytesPerSector

Phases == {"start", "file", "chain", "entry", "written", "failed"}

BuildTypeOK ==
  /\ host \in Hosts /\ phase \in Phases
  /\ fat \in [0 .. FatBytes - 1 -> Byte]
  /\ image \in [0 .. ImageSize - 1 -> Nat]
  /\ DOMAIN root = 0 .. RootEntries - 1
  /\ index \in 0 .. Len(Files(host))
  /\ next_cluster \in 2 .. LastCluster + 1
  /\ first_cluster \in 0 .. LastCluster /\ cluster \in 0 .. LastCluster

BuildInit ==
  /\ host \in Hosts /\ phase = "start"
  /\ fat = [k \in 0 .. FatBytes - 1 |-> 0]
  /\ image = [k \in 0 .. ImageSize - 1 |-> 0]
  /\ root = [i \in 0 .. RootEntries - 1 |-> Free]
  /\ manifest = [kernel_lba |-> 0, kernel_sectors |-> 0, kernel_size |-> 0]
  /\ index = 0 /\ next_cluster = 2 /\ first_cluster = 0 /\ cluster = 0

\* image[at : at + len(data)] = data
Splice(img, at, data) ==
  [k \in DOMAIN img \cup (at .. at + Len(data) - 1) |->
     IF k \in at .. at + Len(data) - 1 THEN data[k - at + 1] ELSE img[k]]

\* raise ValueError: no image is written.
Raise ==
  /\ phase' = "failed"
  /\ UNCHANGED <<host, fat, image, root, manifest, index, next_cluster,
                 first_cluster, cluster>>

\* validate_stage1: one sector, whose parameter block is that of the constants.
GoodStage1(s) ==
  /\ s.length = BytesPerSector /\ s.signature
  /\ s.bytes_per_sector = BytesPerSector /\ s.sectors_per_cluster = 1
  /\ s.reserved_sectors = ReservedSectors /\ s.fat_count = FatCount
  /\ s.root_entries = RootEntries /\ s.total_sectors = TotalSectors
  /\ s.sectors_per_fat = SectorsPerFat
  /\ s.sectors_per_track = SectorsPerTrack /\ s.heads = Heads

Acceptable(h) ==
  /\ GoodStage1(h.stage1) /\ Len(h.stage2) <= MaxStage2Bytes
  /\ \A i \in 1 .. Len(h.dir) : UpperCase(h.dir[i].name) # KernelName
  /\ Len(Files(h)) <= RootEntries

ReadInputs ==
  /\ phase = "start"
  /\ \/ ~Acceptable(host) /\ Raise
     \/ /\ Acceptable(host) /\ phase' = "file"
        /\ image' = Splice(image, BytesPerSector, host.stage2)
        /\ fat' = set_fat12_entry(set_fat12_entry(fat, 0, 4080), 1, 4095)
        /\ UNCHANGED <<host, root, manifest, index, next_cluster, first_cluster, cluster>>

\* Mutant: the last sector of the image is one too far.
FitsLoosely(last) == DataLba + (last - 2) <= TotalSectors

Fits(last) == DataLba + (last - 2) < TotalSectors

BeginFile ==
  /\ phase = "file" /\ index < Len(Files(host))
  /\ LET clusters == Count(File.data)
     IN  \/ /\ clusters = 0
            /\ phase' = "entry" /\ first_cluster' = 0 /\ cluster' = cluster
            /\ UNCHANGED <<host, fat, image, root, manifest, index, next_cluster>>
         \/ clusters > 0 /\ ~Fits(next_cluster + clusters - 1) /\ Raise
         \/ /\ clusters > 0 /\ Fits(next_cluster + clusters - 1)
            /\ phase' = "chain"
            /\ first_cluster' = next_cluster /\ cluster' = next_cluster
            /\ UNCHANGED <<host, fat, image, root, manifest, index, next_cluster>>

LastOfFile == first_cluster + Count(File.data) - 1

DataOffset(first) == (DataLba + (first - 2)) * BytesPerSector

\* One turn of the chain loop; after the last, the file's bytes are copied.
ChainCluster ==
  /\ phase = "chain"
  /\ \/ /\ cluster < LastOfFile
        /\ fat' = set_fat12_entry(fat, cluster, cluster + 1)
        /\ cluster' = cluster + 1 /\ phase' = phase /\ image' = image
     \/ /\ cluster = LastOfFile
        /\ fat' = set_fat12_entry(fat, cluster, 4095)
        /\ image' = Splice(image, DataOffset(first_cluster), File.data)
        /\ phase' = "entry" /\ cluster' = cluster
  /\ UNCHANGED <<host, root, manifest, index, next_cluster, first_cluster>>

\* Mutant: the two reserved clusters are forgotten.
LbaFromZero(first) == DataLba + first

KernelLba(first) == DataLba + (first - 2)

\* Mutant: a file is given the clusters of the one before it.
KeepCluster == next_cluster

ClusterAfter == next_cluster + Count(File.data)

\* write_root_entry, which raises when the name is not 8.3.
WriteEntry ==
  /\ phase = "entry"
  /\ \/ ~IsDosName(File.name) /\ Raise
     \/ /\ IsDosName(File.name)
        /\ root' = [root EXCEPT ![index] =
             [name |-> dos_name(File.name), attr |-> Archive,
              cluster |-> first_cluster, size |-> Size(File)]]
        /\ manifest' =
             IF index = 0
             THEN [kernel_lba |-> KernelLba(first_cluster),
                   kernel_sectors |-> Count(File.data), kernel_size |-> Size(File)]
             ELSE manifest
        /\ next_cluster' = ClusterAfter
        /\ index' = index + 1 /\ phase' = "file"
        /\ UNCHANGED <<host, fat, image, first_cluster, cluster>>

Bytes(f) == [k \in 1 .. FatBytes |-> f[k - 1]]

\* Both copies of the FAT go into the image, and the image to the disk.
WriteImage ==
  /\ phase = "file" /\ index = Len(Files(host))
  /\ phase' = "written"
  /\ image' = Splice(image, ReservedSectors * BytesPerSector, Bytes(fat) \o Bytes(fat))
  /\ UNCHANGED <<host, fat, root, manifest, index, next_cluster, first_cluster, cluster>>

BuildNext == ReadInputs \/ BeginFile \/ ChainCluster \/ WriteEntry \/ WriteImage

BuildSpec == BuildInit /\ [][BuildNext]_buildVars
-----------------------------------------------------------------------------
(* Properties. *)

\* The chain of a file that starts at a cluster: each entry names the next
\* cluster, and the last one ends the chain.
Chained(first, clusters) ==
  \A c \in first .. first + clusters - 1 :
    fat_next(fat, c) = IF c = first + clusters - 1 THEN 4095 ELSE c + 1

\* Every file built so far keeps its own chain, while the chains of later files
\* are written into bytes it shares with them (set_fat12_entry).
ChainsIntact ==
  \A i \in 1 .. index :
    Chained(root[i - 1].cluster, Count(Files(host)[i].data))
=============================================================================
