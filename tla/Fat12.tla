------------------------------- MODULE Fat12 -------------------------------
(***************************************************************************)
(* The kernel's FAT12 driver (kernel/fs_fat12.c): mount, read_file and     *)
(* list_root over an image in memory, which it never writes.  A loop of    *)
(* the driver is one action per turn.                                      *)
(***************************************************************************)
EXTENDS DosNames, FatTable

CONSTANTS
  SectorBytes,  \* the only sector size mount accepts (512)
  EntryBytes,   \* bytes of a root entry (32)
  Typed,        \* the names read_file is asked for
  Limits        \* the values of max_len

ASSUME DriverAssumption ==
  /\ SectorBytes \in Nat /\ SectorBytes > 1 /\ EntryBytes \in Nat \ {0}
  /\ Limits \subseteq Nat

VARIABLES
  boot,    \* the boot sector's parameter block
  image,   \* the bytes of the image
  root,    \* the entries of its root directory
  fs,      \* the mounted volume: root_entries, reserved_sectors, ..., data_lba
  state,   \* what the driver is doing
  request, \* name and max_len of the read_file call
  entry,   \* the root entry found
  at,      \* cluster
  buf,     \* what read_file has copied: buf[0 .. copied - 1]
  answer,  \* the value read_file returned
  cursor,  \* the cursor of cmd_dir
  listed   \* the entries list_root has returned to it

driverVars == <<fs, state, request, entry, at, buf, answer, cursor, listed>>
imageVars == <<boot, image, root>>

NoVolume == [root_entries |-> 0, reserved_sectors |-> 0, sectors_per_cluster |-> 0,
             sectors_per_fat |-> 0, root_lba |-> 0, data_lba |-> 0]
NoRequest == [name |-> <<>>, max |-> 0]
NoEntry == [name |-> <<>>, attr |-> 0, cluster |-> 0, size |-> 0]
States == {"off", "idle", "read", "list", "failed"}

ImageBytes == Cardinality(DOMAIN image)

DriverTypeOK ==
  /\ state \in States
  /\ request \in [name : Typed, max : Limits] \cup {NoRequest}
  /\ at \in 0 .. 4095
  /\ Len(buf) <= request.max
  /\ answer \in BOOLEAN
  /\ cursor \in 0 .. fs.root_entries
  /\ Len(listed) <= cursor

DriverInit ==
  /\ fs = NoVolume /\ state = "off" /\ request = NoRequest /\ entry = NoEntry
  /\ at = 0 /\ buf = <<>> /\ answer = FALSE /\ cursor = 0 /\ listed = <<>>

-----------------------------------------------------------------------------
(* fat12_mount *)

RootSectorsOf(b) ==
  (b.root_entries * EntryBytes + b.bytes_per_sector - 1) \div b.bytes_per_sector

RootLbaOf(b) == b.reserved_sectors + b.fat_count * b.sectors_per_fat

Volume(b) ==
  [root_entries |-> b.root_entries, reserved_sectors |-> b.reserved_sectors,
   sectors_per_cluster |-> b.sectors_per_cluster, sectors_per_fat |-> b.sectors_per_fat,
   root_lba |-> RootLbaOf(b), data_lba |-> RootLbaOf(b) + RootSectorsOf(b)]

Mountable(b) ==
  /\ b.signature /\ b.bytes_per_sector = SectorBytes
  /\ b.sectors_per_cluster > 0 /\ b.fat_count > 0 /\ b.root_entries > 0
  /\ b.sectors_per_fat > 0
  /\ Volume(b).data_lba * SectorBytes < ImageBytes

Mount ==
  /\ state = "off"
  /\ \/ Mountable(boot) /\ fs' = Volume(boot) /\ state' = "idle"
     \/ ~Mountable(boot) /\ fs' = fs /\ state' = "failed"
  /\ UNCHANGED <<request, entry, at, buf, answer, cursor, listed>>

-----------------------------------------------------------------------------
(* The root directory. *)

\* Bits of the attribute.
VolumeLabel == 8
Directory == 16
HasBit(attr, bit) == (attr \div bit) % 2 = 1

IsFree(e) == e.name = <<>>
IsErased(e) == ~IsFree(e) /\ e.name[1] = Erased
Skipped(e) == IsErased(e) \/ HasBit(e.attr, VolumeLabel) \/ HasBit(e.attr, Directory)

\* The entries before the first free one that are files.
Usable ==
  {i \in 0 .. fs.root_entries - 1 :
     /\ ~Skipped(root[i])
     /\ \A j \in 0 .. i : ~IsFree(root[j])}

Least(S) == CHOOSE i \in S : \A j \in S : i <= j

\* find_root_file
Matches(name) == {i \in Usable : Is83(name) /\ root[i].name = make_83(name)}

RootFile(name) == root[Least(Matches(name))]

-----------------------------------------------------------------------------
(* fat12_read_file *)

\* The FAT as the driver sees it: all that comes after the reserved sectors, for
\* fat_next does not ask where the FAT ends.
Fat ==
  [k \in 0 .. ImageBytes - fs.reserved_sectors * SectorBytes - 1 |->
     image[fs.reserved_sectors * SectorBytes + k]]

OpenFile ==
  /\ state = "idle"
  /\ \E name \in Typed, max \in Limits :
       /\ request' = [name |-> name, max |-> max]
       /\ buf' = <<>>
       /\ \/ /\ Matches(name) = {}
             /\ answer' = FALSE /\ UNCHANGED <<state, entry, at>>
          \/ /\ Matches(name) # {}
             /\ entry' = RootFile(name) /\ at' = RootFile(name).cluster
             /\ state' = "read" /\ UNCHANGED answer
  /\ UNCHANGED <<fs, cursor, listed>>

Smaller(a, b) == IF a < b THEN a ELSE b

FileOffset == (fs.data_lba + (at - 2) * fs.sectors_per_cluster) * SectorBytes
ClusterBytes == fs.sectors_per_cluster * SectorBytes

\* Mutant: the loop ends only with the chain.
ChainGoesOn ==
  at >= 2 /\ at < 4088 /\ FileOffset + ClusterBytes <= ImageBytes

\* The guard of the loop, with its break.
MoreToRead ==
  /\ at >= 2 /\ at < 4088
  /\ Len(buf) < entry.size /\ Len(buf) < request.max
  /\ FileOffset + ClusterBytes <= ImageBytes

\* Mutant: the last cluster is copied whole, past the end of the file.
WholeChunk == Smaller(ClusterBytes, request.max - Len(buf))

Chunk == Smaller(Smaller(ClusterBytes, entry.size - Len(buf)), request.max - Len(buf))

ReadCluster ==
  /\ state = "read" /\ MoreToRead
  /\ buf' = buf \o [k \in 1 .. Chunk |-> image[FileOffset + k - 1]]
  /\ at' = fat_next(Fat, at)
  /\ UNCHANGED <<fs, state, request, entry, answer, cursor, listed>>

\* Mutant: running out of clusters is no failure.
AlwaysSucceeds == TRUE

ReadSucceeds == Len(buf) = entry.size \/ Len(buf) = request.max

EndRead ==
  /\ state = "read" /\ ~MoreToRead
  /\ answer' = ReadSucceeds
  /\ state' = "idle"
  /\ UNCHANGED <<fs, request, entry, at, buf, cursor, listed>>

-----------------------------------------------------------------------------
(* fat12_list_root, as cmd_dir calls it until it fails. *)

Dir ==
  /\ state = "idle"
  /\ state' = "list" /\ cursor' = 0 /\ listed' = <<>>
  /\ UNCHANGED <<fs, request, entry, at, buf, answer>>

Ahead == {i \in Usable : i >= cursor}

\* Mutant: the cursor stays on the entry it returned.
CursorStays == Least(Ahead)

CursorAfter == Least(Ahead) + 1

ListRoot ==
  /\ state = "list"
  /\ \/ /\ Ahead # {}
        /\ listed' = Append(listed, [name |-> entry_name(root[Least(Ahead)].name),
                                     size |-> root[Least(Ahead)].size])
        /\ cursor' = CursorAfter /\ state' = state
     \/ /\ Ahead = {}
        /\ state' = "idle" /\ UNCHANGED <<cursor, listed>>
  /\ UNCHANGED <<fs, request, entry, at, buf, answer>>

\* The driver goes on with what it was asked; the user may ask nothing.
Working == ReadCluster \/ EndRead \/ ListRoot
DriverNext == Mount \/ OpenFile \/ Dir \/ Working

\* The driver with an image of its own.
vars == <<boot, image, root, fs, state, request, entry, at, buf, answer, cursor, listed>>
Next == DriverNext /\ UNCHANGED imageVars

\* The image is bytes, and its boot sector and directory hold numbers.
ImageTypeOK ==
  /\ boot.sectors_per_cluster \in Nat /\ boot.root_entries \in Nat
  /\ boot.reserved_sectors \in Nat /\ boot.fat_count \in Nat
  /\ boot.sectors_per_fat \in Nat /\ boot.bytes_per_sector \in Nat
  /\ ImageBytes \in Nat /\ image \in [0 .. ImageBytes - 1 -> Byte]
  /\ 0 .. boot.root_entries - 1 \subseteq DOMAIN root
  /\ \A i \in DOMAIN root : root[i].size \in Nat /\ root[i].cluster \in Nat
-----------------------------------------------------------------------------
(* Properties. *)

\* The clusters of a chain, from its first; one that circles has no last.
Walk(table, first) ==
  LET w[k \in Nat] == IF k = 0 THEN first ELSE fat_next(table, w[k - 1]) IN w

ByteOf(walk, k) ==
  image[(fs.data_lba + (walk[k \div ClusterBytes] - 2) * fs.sectors_per_cluster)
          * SectorBytes + (k % ClusterBytes)]

\* Whatever chain the FAT holds, what read_file has copied is what the chain of
\* the entry holds, byte for byte, and no more than was asked for or is there.
ReadFollowsChain ==
  /\ state = "read" => Len(buf) <= entry.size /\ Len(buf) <= request.max
  /\ \A k \in 1 .. Len(buf) : buf[k] = ByteOf(Walk(Fat, entry.cluster), k - 1)

\* read_file succeeds only with all that was asked for: a chain that ends, or
\* leaves the image, before the size in the root entry is reported as a failure.
SuccessIsComplete ==
  state = "idle" /\ answer => Len(buf) = Smaller(entry.size, request.max)

\* Every call of read_file returns, although a chain may run in a circle.
ReadReturns == state = "read" ~> state = "idle"
=============================================================================
