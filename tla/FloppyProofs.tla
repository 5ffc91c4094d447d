---------------------------- MODULE FloppyProofs ----------------------------
(***************************************************************************)
(* Theorems about ImageBuilder and Floppy, whatever the geometry of the    *)
(* disk, the files and their names.  The builder: chains of different      *)
(* files never meet, though their FAT entries share bytes, and the kernel  *)
(* lies where the manifest says.  Builder and driver: nothing passes       *)
(* between the two programs but the bytes of the image, and the driver     *)
(* gives back what mkfloppy.py was given.  FormatProofs has what one FAT   *)
(* entry does to another, and what the conversions make of a name.         *)
(***************************************************************************)
EXTENDS Floppy, FormatProofs, FiniteSetTheorems

-----------------------------------------------------------------------------
(* Arithmetic: sectors, offsets, clusters. *)

At(lba) == lba * BytesPerSector

LEMMA AtFacts ==
  /\ \A a \in Int : At(a) \in Int
  /\ \A a, b \in Int : a <= b => At(a) <= At(b)
  /\ \A a, b \in Int : At(a + b) = At(a) + At(b)
  /\ At(0) = 0 /\ At(1) = BytesPerSector
<1> USE GeometryAssumption DEF At
<1>1. \A a \in Int : At(a) \in Int
  OBVIOUS
<1>2. ASSUME NEW a \in Int, NEW b \in Int, a <= b PROVE At(a) <= At(b)
  BY <1>2
<1>3. ASSUME NEW a \in Int, NEW b \in Int PROVE At(a + b) = At(a) + At(b)
  OBVIOUS
<1>4. At(0) = 0 /\ At(1) = BytesPerSector
  OBVIOUS
<1> QED BY <1>1, <1>2, <1>3, <1>4

LEMMA RoundedUp ==
  ASSUME NEW n \in Nat
  PROVE  LET q == (n + BytesPerSector - 1) \div BytesPerSector
         IN  q \in Nat /\ (q = 0 <=> n = 0) /\ n <= At(q)
<1> DEFINE B == BytesPerSector
           q == (n + B - 1) \div B
           r == (n + B - 1) % B
<1>1. B \in Nat \ {0}
  BY GeometryAssumption
<1>2. n + B - 1 = B * q + r /\ r \in 0 .. B - 1 /\ q \in Int
  BY <1>1
<1> HIDE DEF B, q, r
<1>3. q >= 0
  <2> SUFFICES ASSUME q <= -1 PROVE FALSE
    BY <1>2
  <2>1. B * q <= -B
    BY <1>1, <1>2
  <2> QED BY <1>1, <1>2, <2>1
<1>4. n = 0 => q = 0
  <2> SUFFICES ASSUME n = 0, q >= 1 PROVE FALSE
    BY <1>2, <1>3
  <2>1. B * q >= B
    BY <1>1, <1>2
  <2> QED BY <1>1, <1>2, <2>1
<1>5. q = 0 => n = 0
  <2> SUFFICES ASSUME q = 0 PROVE n = 0
    OBVIOUS
  <2>1. B * q = 0
    BY <1>1
  <2> QED BY <1>1, <1>2, <2>1
<1>6. n <= q * B
  <2>1. B * q = q * B
    BY <1>1, <1>2
  <2> QED BY <1>1, <1>2, <2>1
<1> QED BY <1>2, <1>3, <1>4, <1>5, <1>6 DEF At, q, B

LEMMA CountFacts ==
  ASSUME NEW data \in Seq(Nat)
  PROVE  Count(data) \in Nat /\ (Count(data) = 0 <=> Len(data) = 0) /\ Len(data) <= At(Count(data))
BY RoundedUp DEF Count

LEMMA Layout ==
  /\ RootLba \in Nat /\ DataLba \in Nat /\ LastCluster \in Nat /\ FatBytes \in Nat
  /\ RootLba <= DataLba /\ DataLba < TotalSectors /\ LastCluster >= 2
  /\ LastCluster = TotalSectors - DataLba + 1 /\ LastCluster < 4088
  /\ ReservedSectors \in Nat /\ ReservedSectors > 1 /\ ReservedSectors <= RootLba
  /\ TotalSectors \in Nat
  /\ FatBytes = At(SectorsPerFat) /\ ImageSize = At(TotalSectors)
  /\ At(RootLba) = At(ReservedSectors) + 2 * FatBytes
<1>1. RootSectors \in Nat
  <2>1. RootEntries * EntryBytes \in Nat
    BY GeometryAssumption
  <2> QED BY <2>1, RoundedUp DEF RootSectors
<1>2. FatBytes = At(SectorsPerFat) /\ ImageSize = At(TotalSectors)
  BY DEF FatBytes, ImageSize, At
<1>3. SectorsPerFat \in Nat /\ ReservedSectors \in Nat /\ ReservedSectors > 1 /\ TotalSectors \in Nat
      /\ DataLba < TotalSectors
  BY GeometryAssumption
<1>4. RootLba = ReservedSectors + (SectorsPerFat + SectorsPerFat)
  BY <1>3 DEF RootLba, FatCount
<1>5. FatBytes \in Nat
  BY <1>2, <1>3, AtFacts
<1>6. At(RootLba) = At(ReservedSectors) + (At(SectorsPerFat) + At(SectorsPerFat))
  BY <1>3, <1>4, AtFacts
<1>7. At(RootLba) = At(ReservedSectors) + 2 * FatBytes
  BY <1>2, <1>3, <1>5, <1>6, AtFacts
<1>8. DataLba = RootLba + RootSectors
  BY DEF DataLba
<1>9. LastCluster < 4088
  BY FatCoversData
<1> QED BY <1>1, <1>2, <1>3, <1>4, <1>5, <1>7, <1>8, <1>9 DEF LastCluster

LEMMA ClustersInFat ==
  ASSUME NEW c \in 0 .. LastCluster
  PROVE  c \in Clusters(FatBytes)
<1>1. LastCluster \in Nat /\ Offset(LastCluster) + 1 < FatBytes /\ FatBytes \in Nat
  BY FatCoversData, Layout DEF Clusters
<1>2. Offset(c) <= Offset(LastCluster) /\ Offset(c) \in Int
  BY <1>1 DEF Offset
<1> QED BY <1>1, <1>2 DEF Clusters, Offset

\* The sectors of a file's clusters lie in the data area.
LEMMA ClusterPlace ==
  ASSUME NEW first \in 2 .. LastCluster, NEW n \in Nat, first + n - 1 <= LastCluster
  PROVE  /\ DataOffset(first) \in Nat /\ At(RootLba) <= DataOffset(first)
         /\ DataOffset(first) + At(n) <= ImageSize
         /\ \A second \in Int : first + n <= second =>
              DataOffset(first) + At(n) <= DataOffset(second)
<1>1. DataOffset(first) = At(DataLba + (first - 2)) /\ DataLba + (first - 2) \in Int
  BY Layout DEF DataOffset, At
<1>2. At(RootLba) <= DataOffset(first) /\ At(0) <= At(RootLba)
  BY <1>1, Layout, AtFacts
<1>3. DataOffset(first) + At(n) = At(DataLba + (first - 2) + n)
  BY <1>1, AtFacts
<1>4. DataOffset(first) + At(n) <= At(TotalSectors)
  <2>1. DataLba + (first - 2) + n <= TotalSectors
    BY Layout
  <2> QED BY <1>1, <1>3, <2>1, Layout, AtFacts
<1>5. ASSUME NEW second \in Int, first + n <= second
      PROVE  DataOffset(first) + At(n) <= DataOffset(second)
  <2>1. DataOffset(second) = At(DataLba + (second - 2)) /\ DataLba + (second - 2) \in Int
    BY Layout DEF DataOffset, At
  <2>2. DataLba + (first - 2) + n <= DataLba + (second - 2)
    BY <1>5, Layout
  <2>3. DataLba + (first - 2) + n \in Int
    BY <1>1
  <2>4. At(DataLba + (first - 2) + n) <= At(DataLba + (second - 2))
    BY <2>1, <2>2, <2>3, AtFacts
  <2> QED BY <1>3, <2>1, <2>4
<1>6. DataOffset(first) \in Nat
  <2>1. DataOffset(first) \in Int /\ At(RootLba) \in Int
    BY <1>1, Layout, AtFacts
  <2> QED BY <1>2, <2>1, AtFacts
<1> QED BY <1>2, <1>4, <1>5, <1>6, Layout

LEMMA SpliceFacts ==
  ASSUME NEW size \in Nat, NEW img \in [0 .. size - 1 -> Nat], NEW pos \in Nat,
         NEW data \in Seq(Nat), pos + Len(data) <= size
  PROVE  /\ Splice(img, pos, data) \in [0 .. size - 1 -> Nat]
         /\ \A k \in 1 .. Len(data) : Splice(img, pos, data)[pos + k - 1] = data[k]
         /\ \A k \in 0 .. size - 1 :
              k < pos \/ k >= pos + Len(data) => Splice(img, pos, data)[k] = img[k]
<1> DEFINE new == Splice(img, pos, data)
<1>1. DOMAIN img \cup (pos .. pos + Len(data) - 1) = 0 .. size - 1
  OBVIOUS
<1>2. new = [k \in 0 .. size - 1 |->
               IF k \in pos .. pos + Len(data) - 1 THEN data[k - pos + 1] ELSE img[k]]
  BY <1>1 DEF Splice
<1> HIDE DEF new
<1>3. ASSUME NEW k \in 0 .. size - 1, k \in pos .. pos + Len(data) - 1
      PROVE  k - pos + 1 \in 1 .. Len(data) /\ data[k - pos + 1] \in Nat
  BY <1>3
<1>4. new \in [0 .. size - 1 -> Nat]
  BY <1>2, <1>3
<1>5. ASSUME NEW k \in 1 .. Len(data) PROVE new[pos + k - 1] = data[k]
  <2>1. pos + k - 1 \in 0 .. size - 1 /\ pos + k - 1 \in pos .. pos + Len(data) - 1
        /\ (pos + k - 1) - pos + 1 = k
    OBVIOUS
  <2> QED BY <1>2, <2>1
<1>6. ASSUME NEW k \in 0 .. size - 1, k < pos \/ k >= pos + Len(data) PROVE new[k] = img[k]
  BY <1>2, <1>6
<1> QED BY <1>4, <1>5, <1>6 DEF new

-----------------------------------------------------------------------------
(* The builder's inductive invariant. *)

Data(i) == Files(host)[i].data
Clustered(i) == Count(Data(i))
FirstCluster(i) == root[i - 1].cluster

\* The bytes of a file lie where its first cluster says.
InPlace(first, data) == \A k \in 1 .. Len(data) : image[DataOffset(first) + k - 1] = data[k]

\* A file that is done lies below the next free cluster.
Done(i) ==
  IF Clustered(i) = 0 THEN FirstCluster(i) = 0
  ELSE /\ FirstCluster(i) \in 2 .. LastCluster /\ FirstCluster(i) + Clustered(i) <= next_cluster
       /\ Chained(FirstCluster(i), Clustered(i)) /\ InPlace(FirstCluster(i), Data(i))

\* And the one at hand from there on.
AtHand == first_cluster + Clustered(index + 1) - 1

Begun ==
  /\ phase = "chain" =>
       /\ Clustered(index + 1) > 0 /\ first_cluster = next_cluster
       /\ cluster \in first_cluster .. AtHand /\ AtHand <= LastCluster
       /\ \A c \in first_cluster .. cluster - 1 : fat_next(fat, c) = c + 1
  /\ phase = "entry" =>
       IF Clustered(index + 1) = 0 THEN first_cluster = 0
       ELSE /\ first_cluster = next_cluster /\ AtHand <= LastCluster
            /\ Chained(first_cluster, Clustered(index + 1))
            /\ InPlace(first_cluster, Data(index + 1))

KernelNamed ==
  index > 0 => manifest = [kernel_lba |-> KernelLba(FirstCluster(1)),
                           kernel_sectors |-> Clustered(1), kernel_size |-> Len(Data(1))]

Order ==
  /\ phase = "start" => index = 0
  /\ phase \in {"chain", "entry"} => index < Len(Files(host))
  /\ phase \notin {"start", "failed"} => Len(Files(host)) <= RootEntries
  /\ phase = "written" => index = Len(Files(host))

Built == BuildTypeOK /\ Order /\ (\A i \in 1 .. index : Done(i)) /\ Begun /\ KernelNamed

LEMMA Prepended ==
  ASSUME NEW S, NEW a \in S, NEW d \in Seq(S)
  PROVE  /\ <<a>> \o d \in Seq(S) /\ Len(<<a>> \o d) = Len(d) + 1
         /\ (<<a>> \o d)[1] = a
<1> DEFINE one == <<a>>
<1>1. one \in Seq(S) /\ Len(one) = 1 /\ one[1] = a
  OBVIOUS
<1>2. Len(d) \in Nat
  OBVIOUS
<1> HIDE DEF one
<1>3. /\ one \o d \in Seq(S) /\ Len(one \o d) = Len(one) + Len(d)
      /\ \A i \in 1 .. Len(one) + Len(d) :
           (one \o d)[i] = IF i <= Len(one) THEN one[i] ELSE d[i - Len(one)]
  BY <1>1, ConcatProperties
<1>4. 1 \in 1 .. Len(one) + Len(d)
  BY <1>1, <1>2
<1> QED BY <1>1, <1>2, <1>3, <1>4 DEF one

LEMMA FilesOf ==
  ASSUME NEW h \in Hosts
  PROVE  /\ Len(Files(h)) = Len(h.dir) + 1 /\ Len(Files(h)) \in Nat
         /\ Files(h)[1].data = h.kernel
         /\ \A i \in 1 .. Len(Files(h)) : Files(h)[i].data \in Seq(Nat)
<1> DEFINE head == [name |-> KernelName, data |-> h.kernel]
           R == [name : Seq(DOMAIN UpperOf) \cup {KernelName}, data : Seq(Nat)]
           T == [name : Seq(DOMAIN UpperOf), data : Seq(Nat)]
<1>1. h.kernel \in Seq(Nat) /\ h.dir \in Seq(T)
  BY HostAssumption
<1>2. head \in R /\ head.data = h.kernel
  BY <1>1
<1>3. \A r \in T : r \in R
  OBVIOUS
<1>4. \A r \in R : r.data \in Seq(Nat)
  OBVIOUS
<1>5. Files(h) = <<head>> \o h.dir
  BY DEF Files
<1> HIDE DEF head, R, T
<1>6. h.dir \in Seq(R)
  BY <1>1, <1>3
<1>7. Files(h) \in Seq(R) /\ Len(Files(h)) = Len(h.dir) + 1 /\ Files(h)[1] = head
  BY <1>2, <1>5, <1>6, Prepended
<1>8. Len(h.dir) \in Nat
  BY <1>6
<1>9. \A i \in 1 .. Len(Files(h)) : Files(h)[i] \in R
  BY <1>7
<1> QED BY <1>2, <1>4, <1>7, <1>8, <1>9

LEMMA FileFacts ==
  ASSUME BuildTypeOK, NEW i \in 1 .. Len(Files(host))
  PROVE  /\ Data(i) \in Seq(Nat) /\ Len(Data(i)) \in Nat /\ Clustered(i) \in Nat
         /\ (Clustered(i) = 0 <=> Len(Data(i)) = 0) /\ Len(Data(i)) <= At(Clustered(i))
<1>1. Data(i) \in Seq(Nat)
  BY FilesOf DEF BuildTypeOK, Data
<1> QED BY <1>1, CountFacts DEF Clustered

LEMMA InitBuilt == BuildInit => Built
<1> SUFFICES ASSUME BuildInit PROVE Built
  OBVIOUS
<1>1. /\ host \in Hosts /\ phase = "start" /\ index = 0 /\ next_cluster = 2
      /\ first_cluster = 0 /\ cluster = 0
  BY DEF BuildInit
<1>2. fat \in [0 .. FatBytes - 1 -> Byte] /\ image \in [0 .. ImageSize - 1 -> Nat]
      /\ DOMAIN root = 0 .. RootEntries - 1
  BY DEF BuildInit, Byte
<1>3. index \in 0 .. Len(Files(host)) /\ 2 \in 2 .. LastCluster + 1 /\ 0 \in 0 .. LastCluster
  BY <1>1, FilesOf, Layout
<1>4. BuildTypeOK
  BY <1>1, <1>2, <1>3 DEF BuildTypeOK, Phases
<1> QED BY <1>1, <1>4 DEF Built, Order, Begun, KernelNamed

\* What a FAT entry written does to the others, and bytes spliced in to the rest.
LEMMA FatStep ==
  ASSUME BuildTypeOK, NEW c \in 0 .. LastCluster, NEW v \in Entry12,
         fat' = set_fat12_entry(fat, c, v)
  PROVE  /\ fat' \in [0 .. FatBytes - 1 -> Byte] /\ fat_next(fat', c) = v
         /\ \A d \in 0 .. LastCluster : d # c => fat_next(fat', d) = fat_next(fat, d)
<1>1. FatBytes \in Nat /\ fat \in Fat(FatBytes) /\ c \in Clusters(FatBytes)
  BY Layout, ClustersInFat DEF BuildTypeOK, Fat
<1>2. fat' \in Fat(FatBytes)
  BY <1>1, WrittenBytes
<1>3. fat_next(fat', c) = v
  BY <1>1, EntryReadsBack
<1>4. ASSUME NEW d \in 0 .. LastCluster, d # c PROVE fat_next(fat', d) = fat_next(fat, d)
  BY <1>1, <1>4, ClustersInFat, OtherEntriesKept
<1> QED BY <1>2, <1>3, <1>4 DEF Fat

LEMMA ImageStep ==
  ASSUME BuildTypeOK, NEW pos \in Nat, NEW data \in Seq(Nat), pos + Len(data) <= ImageSize,
         image' = Splice(image, pos, data)
  PROVE  /\ image' \in [0 .. ImageSize - 1 -> Nat]
         /\ \A k \in 1 .. Len(data) : image'[pos + k - 1] = data[k]
         /\ \A k \in 0 .. ImageSize - 1 :
              k < pos \/ k >= pos + Len(data) => image'[k] = image[k]
<1>1. ImageSize \in Nat
  BY Layout, AtFacts DEF ImageSize
<1> QED BY <1>1, SpliceFacts DEF BuildTypeOK

\* A file that is done stays so when a step leaves alone the entries of the
\* clusters in use and the bytes of their sectors.
LEMMA DoneKept ==
  ASSUME Built, NEW i \in 1 .. index, host' = host, root'[i - 1] = root[i - 1],
         next_cluster' \in Int, next_cluster <= next_cluster',
         \A d \in 2 .. LastCluster : d < next_cluster => fat_next(fat', d) = fat_next(fat, d),
         \A k \in 0 .. ImageSize - 1 :
           At(RootLba) <= k /\ k < DataOffset(next_cluster) => image'[k] = image[k]
  PROVE  Done(i)'
<1> DEFINE f == FirstCluster(i)
           n == Clustered(i)
<1>1. i \in 1 .. Len(Files(host)) /\ LastCluster \in Int /\ next_cluster \in 2 .. LastCluster + 1
  BY FilesOf, Layout DEF Built, BuildTypeOK
<1>2. n \in Nat /\ Len(Data(i)) \in Nat /\ Len(Data(i)) <= At(n)
  BY <1>1, FileFacts DEF Built
<1>3. f' = f /\ n' = n /\ Data(i)' = Data(i)
  BY DEF FirstCluster, Clustered, Data
<1>4. Done(i)
  BY DEF Built
<1>5. CASE n = 0
  BY <1>3, <1>4, <1>5 DEF Done
<1>6. CASE n # 0
  <2>1. /\ f \in 2 .. LastCluster /\ f + n <= next_cluster
        /\ Chained(f, n) /\ InPlace(f, Data(i))
    BY <1>4, <1>6 DEF Done
  <2> HIDE DEF f, n
  <2>2. f + n - 1 <= LastCluster /\ f + n <= next_cluster'
    BY <1>1, <1>2, <2>1
  <2>3. Chained(f, n)'
    <3>1. ASSUME NEW c \in f .. f + n - 1 PROVE fat_next(fat', c) = fat_next(fat, c)
      <4>1. c \in 2 .. LastCluster /\ c < next_cluster
        BY <1>1, <1>2, <2>1, <2>2
      <4> QED BY <4>1
    <3> QED BY <1>3, <2>1, <3>1 DEF Chained
  <2>4. InPlace(f, Data(i))'
    <3> DEFINE place == DataOffset(f)
    <3>1. /\ place \in Nat /\ At(RootLba) <= place /\ place + At(n) <= ImageSize
          /\ place + At(n) <= DataOffset(next_cluster)
      BY <1>1, <1>2, <2>1, <2>2, ClusterPlace
    <3>2. At(n) \in Int /\ At(RootLba) \in Int /\ ImageSize \in Int
          /\ DataOffset(next_cluster) \in Int
      <4>1. DataOffset(next_cluster) = At(DataLba + (next_cluster - 2))
            /\ DataLba + (next_cluster - 2) \in Int
        BY <1>1, Layout DEF DataOffset, At
      <4> QED BY <1>2, <4>1, Layout, AtFacts
    <3>3. InPlace(f, Data(i))' <=>
            \A k \in 1 .. Len(Data(i)) : image'[place + k - 1] = Data(i)[k]
      BY <1>3 DEF InPlace
    <3>4. \A k \in 1 .. Len(Data(i)) : image[place + k - 1] = Data(i)[k]
      BY <2>1 DEF InPlace
    <3> HIDE DEF place
    <3>5. ASSUME NEW k \in 1 .. Len(Data(i))
          PROVE  image'[place + k - 1] = image[place + k - 1]
      <4>1. /\ place + k - 1 \in 0 .. ImageSize - 1 /\ At(RootLba) <= place + k - 1
            /\ place + k - 1 < DataOffset(next_cluster)
        BY <1>2, <3>1, <3>2
      <4> QED BY <4>1
    <3> QED BY <3>3, <3>4, <3>5
  <2>5. Done(i)' <=> IF n' = 0 THEN f' = 0
                     ELSE /\ f' \in 2 .. LastCluster /\ f' + n' <= next_cluster'
                          /\ Chained(f, n)' /\ InPlace(f, Data(i))'
    BY DEF Done, f, n
  <2> QED BY <1>3, <1>6, <2>1, <2>2, <2>3, <2>4, <2>5
<1> QED BY <1>5, <1>6
-----------------------------------------------------------------------------
(* Every step of build_image. *)

LEMMA RaiseBuilt == Built /\ Raise => Built'
<1> SUFFICES ASSUME Built, Raise PROVE Built'
  OBVIOUS
<1>1. /\ phase' = "failed" /\ host' = host /\ fat' = fat /\ image' = image /\ root' = root
      /\ manifest' = manifest /\ index' = index /\ next_cluster' = next_cluster
      /\ first_cluster' = first_cluster /\ cluster' = cluster
  BY DEF Raise
<1>2. BuildTypeOK'
  BY <1>1 DEF Built, BuildTypeOK, Phases
<1>3. next_cluster \in Int
  BY Layout DEF Built, BuildTypeOK
<1>4. ASSUME NEW i \in 1 .. index' PROVE Done(i)'
  BY <1>1, <1>3, DoneKept
<1>5. Order' /\ Begun'
  BY <1>1 DEF Order, Begun
<1>6. KernelNamed'
  BY <1>1 DEF Built, KernelNamed, FirstCluster, Clustered, Data
<1> QED BY <1>2, <1>4, <1>5, <1>6 DEF Built

LEMMA ReadInputsBuilt == Built /\ ReadInputs => Built'
<1> SUFFICES ASSUME Built, ReadInputs PROVE Built'
  OBVIOUS
<1>1. CASE ~Acceptable(host) /\ Raise
  BY <1>1, RaiseBuilt
<1>2. CASE ~(~Acceptable(host) /\ Raise)
  <2>1. /\ Acceptable(host) /\ phase = "start" /\ phase' = "file"
        /\ image' = Splice(image, BytesPerSector, host.stage2)
        /\ fat' = set_fat12_entry(set_fat12_entry(fat, 0, 4080), 1, 4095)
        /\ host' = host /\ root' = root /\ manifest' = manifest /\ index' = index
        /\ next_cluster' = next_cluster /\ first_cluster' = first_cluster
        /\ cluster' = cluster
    BY <1>2 DEF ReadInputs
  <2>2. index = 0 /\ host.stage2 \in Seq(Nat)
    BY <2>1, HostAssumption DEF Built, Order, BuildTypeOK
  <2>3. image' \in [0 .. ImageSize - 1 -> Nat]
    <3>1. BytesPerSector + Len(host.stage2) <= ImageSize
      <4>1. Len(host.stage2) <= At(ReservedSectors - 1 - 1)
        BY <2>1 DEF Acceptable, MaxStage2Bytes, ManifestLba, At
      <4>2. At(1 + (ReservedSectors - 1 - 1)) = At(1) + At(ReservedSectors - 1 - 1)
        BY AtFacts, Layout
      <4>3. At(1 + (ReservedSectors - 1 - 1)) <= At(TotalSectors)
        BY AtFacts, Layout
      <4>4. Len(host.stage2) \in Nat
        BY <2>2
      <4>5. ReservedSectors - 1 - 1 \in Int /\ 1 + (ReservedSectors - 1 - 1) \in Int
            /\ TotalSectors \in Int
        BY Layout
      <4>6. /\ At(ReservedSectors - 1 - 1) \in Int /\ At(1 + (ReservedSectors - 1 - 1)) \in Int
            /\ At(TotalSectors) \in Int
        BY <4>5, AtFacts
      <4>7. BytesPerSector \in Int /\ At(1) = BytesPerSector /\ ImageSize = At(TotalSectors)
        BY AtFacts, Layout, GeometryAssumption
      <4> QED BY <4>1, <4>2, <4>3, <4>4, <4>6, <4>7
    <3> QED BY <2>1, <2>2, <3>1, ImageStep, GeometryAssumption DEF Built
  <2>4. fat' \in [0 .. FatBytes - 1 -> Byte]
    <3>1. 0 \in Clusters(FatBytes) /\ 1 \in Clusters(FatBytes) /\ FatBytes \in Nat
      BY ClustersInFat, Layout
    <3>2. 4080 \in Entry12 /\ 4095 \in Entry12 /\ fat \in Fat(FatBytes)
      BY DEF Entry12, Built, BuildTypeOK, Fat
    <3>3. set_fat12_entry(fat, 0, 4080) \in Fat(FatBytes)
      BY <3>1, <3>2, WrittenBytes
    <3>4. fat' \in Fat(FatBytes)
      BY <2>1, <3>1, <3>2, <3>3, WrittenBytes
    <3> QED BY <3>4 DEF Fat
  <2>5. BuildTypeOK'
    BY <2>1, <2>3, <2>4 DEF Built, BuildTypeOK, Phases
  <2>6. Order'
    <3>1. Len(Files(host)) \in Nat /\ Len(Files(host)) <= RootEntries
      BY <2>1, FilesOf DEF Built, BuildTypeOK, Acceptable
    <3> QED BY <2>1, <3>1 DEF Order
  <2> QED BY <2>1, <2>2, <2>5, <2>6 DEF Built, Begun, KernelNamed
<1> QED BY <1>1, <1>2

\* The file at hand, when there is one.
LEMMA AtHandFacts ==
  ASSUME Built, index < Len(Files(host))
  PROVE  /\ index \in Nat /\ index + 1 \in 1 .. Len(Files(host))
         /\ File.data = Data(index + 1) /\ Count(File.data) = Clustered(index + 1)
         /\ Clustered(index + 1) \in Nat /\ Data(index + 1) \in Seq(Nat)
         /\ Len(Data(index + 1)) \in Nat /\ Len(Data(index + 1)) <= At(Clustered(index + 1))
         /\ next_cluster \in Int /\ next_cluster >= 2
<1>1. index \in Nat /\ index + 1 \in 1 .. Len(Files(host))
  BY FilesOf DEF Built, BuildTypeOK
<1>2. File.data = Data(index + 1) /\ Count(File.data) = Clustered(index + 1)
  BY DEF File, Data, Clustered
<1>3. next_cluster \in Int /\ next_cluster >= 2
  BY Layout DEF Built, BuildTypeOK
<1> QED BY <1>1, <1>2, <1>3, FileFacts DEF Built

LEMMA BeginFileBuilt == Built /\ BeginFile => Built'
<1> SUFFICES ASSUME Built, BeginFile PROVE Built'
  OBVIOUS
<1> DEFINE n == Clustered(index + 1)
<1>1. index < Len(Files(host)) /\ phase = "file"
  BY DEF BeginFile
<1>2. n \in Nat /\ Count(File.data) = n /\ next_cluster \in Int /\ next_cluster >= 2
  BY <1>1, AtHandFacts
<1>3. \/ /\ n = 0 /\ phase' = "entry" /\ first_cluster' = 0 /\ cluster' = cluster
         /\ UNCHANGED <<host, fat, image, root, manifest, index, next_cluster>>
      \/ Raise
      \/ /\ n > 0 /\ Fits(next_cluster + n - 1) /\ phase' = "chain"
         /\ first_cluster' = next_cluster /\ cluster' = next_cluster
         /\ UNCHANGED <<host, fat, image, root, manifest, index, next_cluster>>
  BY <1>2 DEF BeginFile
<1>4. ASSUME UNCHANGED <<host, fat, image, root, manifest, index, next_cluster>>
      PROVE  /\ \A i \in 1 .. index' : Done(i)'
             /\ KernelNamed' /\ n' = n
  <2>1. ASSUME NEW i \in 1 .. index' PROVE Done(i)'
    BY <1>2, <1>4, DoneKept
  <2>2. KernelNamed' /\ n' = n
    BY <1>4 DEF Built, KernelNamed, FirstCluster, Clustered, Data
  <2> QED BY <2>1, <2>2
<1>5. CASE Raise
  BY <1>5, RaiseBuilt
<1>6. ASSUME n = 0, phase' = "entry", first_cluster' = 0, cluster' = cluster,
             UNCHANGED <<host, fat, image, root, manifest, index, next_cluster>>
      PROVE  Built'
  <2>1. BuildTypeOK'
    BY <1>6, Layout DEF Built, BuildTypeOK, Phases
  <2>2. Order'
    BY <1>1, <1>6 DEF Built, Order
  <2>3. Begun'
    BY <1>4, <1>6 DEF Begun
  <2> QED BY <1>4, <1>6, <2>1, <2>2, <2>3 DEF Built
<1>7. ASSUME n > 0, Fits(next_cluster + n - 1), phase' = "chain",
             first_cluster' = next_cluster, cluster' = next_cluster,
             UNCHANGED <<host, fat, image, root, manifest, index, next_cluster>>
      PROVE  Built'
  <2>1. next_cluster + n - 1 <= LastCluster
    BY <1>2, <1>7, Layout DEF Fits
  <2>2. BuildTypeOK'
    <3>1. next_cluster \in 0 .. LastCluster
      BY <1>2, <1>7, <2>1, Layout
    <3> QED BY <1>7, <3>1 DEF Built, BuildTypeOK, Phases
  <2>3. Order'
    BY <1>1, <1>7 DEF Built, Order
  <2>4. Begun'
    <3>1. AtHand' = next_cluster + n - 1
      BY <1>4, <1>7 DEF AtHand
    <3>2. LastCluster' = LastCluster
      OBVIOUS
    <3> HIDE DEF n
    <3>3. n' > 0 /\ first_cluster' = next_cluster' /\ cluster' \in first_cluster' .. AtHand'
          /\ AtHand' <= LastCluster
      BY <1>2, <1>4, <1>7, <2>1, <3>1
    <3>4. \A c \in first_cluster' .. cluster' - 1 : fat_next(fat', c) = c + 1
      BY <1>2, <1>7
    <3> QED BY <1>7, <3>3, <3>4 DEF Begun, n
  <2> QED BY <1>4, <1>7, <2>2, <2>3, <2>4 DEF Built
<1> HIDE DEF n
<1> QED BY <1>3, <1>5, <1>6, <1>7

\* What holds while a file's chain is written.
LEMMA ChainFacts ==
  ASSUME Built, phase = "chain"
  PROVE  LET n == Clustered(index + 1)
         IN  /\ index < Len(Files(host)) /\ n \in Nat /\ n > 0
             /\ first_cluster = next_cluster /\ first_cluster \in 2 .. LastCluster
             /\ cluster \in first_cluster .. first_cluster + n - 1
             /\ first_cluster + n - 1 <= LastCluster /\ cluster \in 2 .. LastCluster
             /\ LastOfFile = first_cluster + n - 1
             /\ \A c \in first_cluster .. cluster - 1 : fat_next(fat, c) = c + 1
<1> DEFINE n == Clustered(index + 1)
<1>1. index < Len(Files(host))
  BY DEF Built, Order
<1>2. n \in Nat /\ next_cluster \in Int /\ next_cluster >= 2 /\ Count(File.data) = n
  BY <1>1, AtHandFacts
<1>3. /\ n > 0 /\ first_cluster = next_cluster
      /\ cluster \in first_cluster .. first_cluster + n - 1
      /\ first_cluster + n - 1 <= LastCluster
      /\ \A c \in first_cluster .. cluster - 1 : fat_next(fat, c) = c + 1
  BY DEF Built, Begun, AtHand
<1>4. LastOfFile = first_cluster + n - 1
  BY <1>2 DEF LastOfFile
<1> HIDE DEF n
<1>5. first_cluster \in 2 .. LastCluster /\ cluster \in 2 .. LastCluster
  BY <1>2, <1>3, Layout
<1> QED BY <1>1, <1>2, <1>3, <1>4, <1>5 DEF n

LEMMA LinkBuilt ==
  ASSUME Built, phase = "chain", cluster < LastOfFile,
         fat' = set_fat12_entry(fat, cluster, cluster + 1), cluster' = cluster + 1,
         phase' = phase, image' = image,
         UNCHANGED <<host, root, manifest, index, next_cluster, first_cluster>>
  PROVE  Built'
<1> DEFINE n == Clustered(index + 1)
<1>1. /\ index < Len(Files(host)) /\ n \in Nat /\ n > 0
      /\ first_cluster = next_cluster /\ first_cluster \in 2 .. LastCluster
      /\ cluster \in first_cluster .. first_cluster + n - 1
      /\ first_cluster + n - 1 <= LastCluster /\ cluster \in 2 .. LastCluster
      /\ LastOfFile = first_cluster + n - 1
      /\ \A c \in first_cluster .. cluster - 1 : fat_next(fat, c) = c + 1
  BY ChainFacts
<1>2. n' = n
  BY DEF Clustered, Data
<1> HIDE DEF n
<1>3. cluster + 1 \in first_cluster .. first_cluster + n - 1
      /\ cluster + 1 \in 0 .. LastCluster /\ cluster \in 0 .. LastCluster
      /\ cluster + 1 \in Entry12 /\ LastCluster \in Nat
  BY <1>1, Layout DEF Entry12
<1>4. /\ fat' \in [0 .. FatBytes - 1 -> Byte] /\ fat_next(fat', cluster) = cluster + 1
      /\ \A d \in 0 .. LastCluster : d # cluster => fat_next(fat', d) = fat_next(fat, d)
  BY <1>3, FatStep DEF Built
<1>5. BuildTypeOK'
  BY <1>3, <1>4 DEF Built, BuildTypeOK, Phases
<1>6. ASSUME NEW i \in 1 .. index' PROVE Done(i)'
  <2>1. ASSUME NEW d \in 2 .. LastCluster, d < next_cluster
        PROVE  fat_next(fat', d) = fat_next(fat, d)
    <3>1. d \in 0 .. LastCluster /\ d # cluster
      BY <1>1, <1>3, <2>1
    <3> QED BY <1>4, <3>1
  <2>2. next_cluster \in Int
    BY <1>1
  <2> QED BY <2>1, <2>2, DoneKept
<1>7. Begun'
  <2>1. AtHand' = first_cluster + n - 1
    BY <1>2 DEF AtHand, n
  <2>2. ASSUME NEW c \in first_cluster .. cluster' - 1 PROVE fat_next(fat', c) = c + 1
    <3>1. CASE c = cluster
      BY <1>4, <3>1
    <3>2. CASE c # cluster
      <4>1. c \in 0 .. LastCluster /\ c \in first_cluster .. cluster - 1
        BY <1>1, <1>3, <2>2, <3>2
      <4> QED BY <1>1, <1>4, <3>2, <4>1
    <3> QED BY <3>1, <3>2
  <2>3. /\ n' > 0 /\ first_cluster' = next_cluster'
        /\ cluster' \in first_cluster' .. AtHand' /\ AtHand' <= LastCluster
    BY <1>1, <1>2, <1>3, <2>1
  <2> QED BY <2>2, <2>3 DEF Begun, n
<1>8. Order'
  BY DEF Built, Order
<1>9. KernelNamed'
  BY DEF Built, KernelNamed, FirstCluster, Clustered, Data
<1> QED BY <1>5, <1>6, <1>7, <1>8, <1>9 DEF Built

LEMMA CopyBuilt ==
  ASSUME Built, phase = "chain", cluster = LastOfFile,
         fat' = set_fat12_entry(fat, cluster, 4095), cluster' = cluster,
         image' = Splice(image, DataOffset(first_cluster), File.data), phase' = "entry",
         UNCHANGED <<host, root, manifest, index, next_cluster, first_cluster>>
  PROVE  Built'
<1> DEFINE n == Clustered(index + 1)
           data == Data(index + 1)
           place == DataOffset(first_cluster)
<1>1. /\ index < Len(Files(host)) /\ n \in Nat /\ n > 0
      /\ first_cluster = next_cluster /\ first_cluster \in 2 .. LastCluster
      /\ first_cluster + n - 1 <= LastCluster /\ cluster \in 2 .. LastCluster
      /\ LastOfFile = first_cluster + n - 1
      /\ \A c \in first_cluster .. cluster - 1 : fat_next(fat, c) = c + 1
  BY ChainFacts
<1>2. n' = n /\ data' = data /\ place' = place
  BY DEF Clustered, Data, DataOffset
<1>3. File.data = data /\ data \in Seq(Nat) /\ Len(data) \in Nat /\ Len(data) <= At(n)
  BY <1>1, AtHandFacts
<1> HIDE DEF n
<1>4. cluster \in 0 .. LastCluster /\ 4095 \in Entry12 /\ LastCluster \in Nat
  BY <1>1, Layout DEF Entry12
<1>5. /\ fat' \in [0 .. FatBytes - 1 -> Byte] /\ fat_next(fat', cluster) = 4095
      /\ \A d \in 0 .. LastCluster : d # cluster => fat_next(fat', d) = fat_next(fat, d)
  BY <1>4, FatStep DEF Built
<1>6. place \in Nat /\ At(RootLba) <= place /\ place + At(n) <= ImageSize
  BY <1>1, ClusterPlace
<1>7. At(n) \in Int /\ ImageSize \in Int
  <2>1. At(n) \in Int
    BY <1>1, AtFacts
  <2>2. ImageSize \in Int
    BY Layout, AtFacts
  <2> QED BY <2>1, <2>2
<1> HIDE DEF data, place
<1>8. /\ image' \in [0 .. ImageSize - 1 -> Nat]
      /\ \A k \in 1 .. Len(data) : image'[place + k - 1] = data[k]
      /\ \A k \in 0 .. ImageSize - 1 :
           k < place \/ k >= place + Len(data) => image'[k] = image[k]
  <2>1. place + Len(data) <= ImageSize
    BY <1>3, <1>6, <1>7
  <2>2. image' = Splice(image, place, data)
    BY <1>3 DEF place
  <2> QED BY <1>3, <1>6, <2>1, <2>2, ImageStep DEF Built
<1>9. BuildTypeOK'
  BY <1>5, <1>8 DEF Built, BuildTypeOK, Phases
<1>10. ASSUME NEW i \in 1 .. index' PROVE Done(i)'
  <2>1. ASSUME NEW d \in 2 .. LastCluster, d < next_cluster
        PROVE  fat_next(fat', d) = fat_next(fat, d)
    <3>1. d \in 0 .. LastCluster /\ d # cluster
      BY <1>1, <1>4, <2>1
    <3> QED BY <1>5, <3>1
  <2>2. DataOffset(next_cluster) = place
    BY <1>1 DEF place
  <2>3. next_cluster \in Int
    BY <1>1
  <2> QED BY <1>8, <2>1, <2>2, <2>3, DoneKept
<1>11. Begun'
  <2>1. AtHand' = first_cluster + n - 1
    BY <1>2 DEF AtHand, n
  <2>2. ASSUME NEW c \in first_cluster .. first_cluster + n - 1
        PROVE  fat_next(fat', c) = IF c = first_cluster + n - 1 THEN 4095 ELSE c + 1
    <3>1. CASE c = cluster
      BY <1>1, <1>5, <3>1
    <3>2. CASE c # cluster
      <4>1. c \in 0 .. LastCluster /\ c \in first_cluster .. cluster - 1
        BY <1>1, <1>4, <2>2, <3>2
      <4> QED BY <1>1, <1>5, <3>2, <4>1
    <3> QED BY <3>1, <3>2
  <2>3. Chained(first_cluster, n)'
    BY <1>2, <2>2 DEF Chained
  <2>4. InPlace(first_cluster, data)'
    BY <1>2, <1>8 DEF InPlace, place
  <2>5. n' # 0 /\ first_cluster' = next_cluster' /\ AtHand' <= LastCluster
    BY <1>1, <1>2, <2>1
  <2> QED BY <2>3, <2>4, <2>5 DEF Begun, n, data
<1>12. Order'
  BY <1>1 DEF Built, Order
<1>13. KernelNamed'
  BY DEF Built, KernelNamed, FirstCluster, Clustered, Data
<1> QED BY <1>9, <1>10, <1>11, <1>12, <1>13 DEF Built

LEMMA ChainClusterBuilt == Built /\ ChainCluster => Built'
<1> SUFFICES ASSUME Built, ChainCluster PROVE Built'
  OBVIOUS
<1>1. CASE cluster < LastOfFile /\ phase' = phase
  <2>1. cluster # LastOfFile
    BY <1>1, ChainFacts DEF ChainCluster
  <2> QED BY <1>1, <2>1, LinkBuilt DEF ChainCluster
<1>2. CASE ~(cluster < LastOfFile /\ phase' = phase)
  BY <1>2, CopyBuilt DEF ChainCluster
<1> QED BY <1>1, <1>2

LEMMA WriteEntryBuilt == Built /\ WriteEntry => Built'
<1> SUFFICES ASSUME Built, WriteEntry PROVE Built'
  OBVIOUS
<1>1. CASE ~IsDosName(File.name) /\ Raise
  BY <1>1, RaiseBuilt
<1>2. CASE ~(~IsDosName(File.name) /\ Raise)
  <2> DEFINE n == Clustered(index + 1)
             data == Data(index + 1)
  <2>1. index < Len(Files(host)) /\ phase = "entry" /\ Len(Files(host)) <= RootEntries
    BY DEF WriteEntry, Built, Order
  <2>2. /\ index \in Nat /\ index + 1 \in 1 .. Len(Files(host)) /\ File.data = data
        /\ Count(File.data) = n /\ n \in Nat /\ next_cluster \in Int /\ next_cluster >= 2
    BY <2>1, AtHandFacts
  <2>3. /\ root' = [root EXCEPT ![index] =
             [name |-> dos_name(File.name), attr |-> Archive,
              cluster |-> first_cluster, size |-> Size(File)]]
        /\ manifest' = IF index = 0
                       THEN [kernel_lba |-> KernelLba(first_cluster),
                             kernel_sectors |-> n, kernel_size |-> Len(data)]
                       ELSE manifest
        /\ next_cluster' = next_cluster + n /\ index' = index + 1 /\ phase' = "file"
        /\ host' = host /\ fat' = fat /\ image' = image
        /\ first_cluster' = first_cluster /\ cluster' = cluster
    BY <1>2, <2>2 DEF WriteEntry, ClusterAfter, Size
  <2>4. /\ n = 0 => first_cluster = 0
        /\ n # 0 => /\ first_cluster = next_cluster /\ first_cluster + n - 1 <= LastCluster
                    /\ Chained(first_cluster, n) /\ InPlace(first_cluster, data)
    BY <2>1 DEF Built, Begun, AtHand
  <2>5. LastCluster \in Nat /\ Len(Files(host)) \in Nat /\ RootEntries \in Nat
        /\ next_cluster \in 2 .. LastCluster + 1 /\ DOMAIN root = 0 .. RootEntries - 1
    BY Layout, FilesOf, GeometryAssumption DEF Built, BuildTypeOK
  <2>6. /\ \A i \in 1 .. index : root'[i - 1] = root[i - 1]
        /\ root'[index].cluster = first_cluster /\ DOMAIN root' = 0 .. RootEntries - 1
    <3>1. index \in 0 .. RootEntries - 1
      BY <2>1, <2>2, <2>5
    <3>2. \A i \in 1 .. index : i - 1 \in 0 .. RootEntries - 1 /\ i - 1 # index
      BY <2>1, <2>2, <2>5
    <3> QED BY <2>3, <2>5, <3>1, <3>2
  <2>7. \A i \in 1 .. index + 1 : Data(i)' = Data(i) /\ Clustered(i)' = Clustered(i)
    BY <2>3 DEF Data, Clustered
  <2>8. next_cluster' \in 2 .. LastCluster + 1
    <3> HIDE DEF n
    <3> QED BY <2>2, <2>3, <2>4, <2>5
  <2>9. BuildTypeOK'
    <3>1. index' \in 0 .. Len(Files(host))
      BY <2>2, <2>3, <2>5
    <3> QED BY <2>3, <2>6, <2>8, <3>1 DEF Built, BuildTypeOK, Phases
  <2>10. ASSUME NEW i \in 1 .. index' PROVE Done(i)'
    <3>1. CASE i \in 1 .. index
      <4>1. next_cluster' \in Int /\ next_cluster <= next_cluster' /\ root'[i - 1] = root[i - 1]
        BY <2>2, <2>3, <2>6, <3>1
      <4> QED BY <2>3, <3>1, <4>1, DoneKept
    <3>2. CASE i = index + 1
      <4>1. root'[i - 1].cluster = first_cluster
        BY <2>2, <2>6, <3>2
      <4>2. FirstCluster(i)' = first_cluster /\ Data(i)' = data /\ Clustered(i)' = n
        BY <2>2, <2>7, <3>2, <4>1 DEF FirstCluster
      <4>3. n # 0 => first_cluster \in 2 .. LastCluster /\ first_cluster + n <= next_cluster'
        <5> HIDE DEF n
        <5> QED BY <2>2, <2>3, <2>4, <2>5
      <4> HIDE DEF n, data
      <4>4. n # 0 => Chained(FirstCluster(i), Clustered(i))'
        BY <2>3, <2>4, <4>2 DEF Chained
      <4>5. n # 0 => InPlace(FirstCluster(i), Data(i))'
        BY <2>3, <2>4, <4>2 DEF InPlace, DataOffset
      <4> QED BY <2>4, <4>2, <4>3, <4>4, <4>5 DEF Done
    <3> QED BY <2>2, <2>3, <3>1, <3>2
  <2>11. KernelNamed'
    <3>1. CASE index = 0
      <4>1. FirstCluster(1)' = first_cluster /\ Data(1)' = data /\ Clustered(1)' = n
        BY <2>2, <2>6, <2>7, <3>1 DEF FirstCluster
      <4> HIDE DEF n, data
      <4> QED BY <2>3, <3>1, <4>1 DEF KernelNamed, KernelLba
    <3>2. CASE index # 0
      <4>1. 1 \in 1 .. index /\ 1 \in 1 .. index + 1
        BY <2>2, <3>2
      <4>2. FirstCluster(1)' = FirstCluster(1) /\ Data(1)' = Data(1) /\ Clustered(1)' = Clustered(1)
        BY <2>6, <2>7, <4>1 DEF FirstCluster
      <4> QED BY <2>2, <2>3, <3>2, <4>2 DEF Built, KernelNamed, KernelLba
    <3> QED BY <3>1, <3>2
  <2>12. Order'
    BY <2>1, <2>3 DEF Order
  <2>13. Begun'
    BY <2>3 DEF Begun
  <2> QED BY <2>9, <2>10, <2>11, <2>12, <2>13 DEF Built
<1> QED BY <1>1, <1>2

LEMMA WriteImageBuilt == Built /\ WriteImage => Built'
<1> SUFFICES ASSUME Built, WriteImage PROVE Built'
  OBVIOUS
<1> DEFINE tables == Bytes(fat) \o Bytes(fat)
           place == ReservedSectors * BytesPerSector
<1>1. /\ phase = "file" /\ index = Len(Files(host)) /\ phase' = "written"
      /\ image' = Splice(image, place, tables)
      /\ host' = host /\ fat' = fat /\ root' = root /\ manifest' = manifest /\ index' = index
      /\ next_cluster' = next_cluster /\ first_cluster' = first_cluster
      /\ cluster' = cluster
  BY DEF WriteImage
<1>2. tables \in Seq(Nat) /\ Len(tables) = 2 * FatBytes
  <2>1. FatBytes \in Nat /\ fat \in [0 .. FatBytes - 1 -> Byte]
    BY Layout DEF Built, BuildTypeOK
  <2>2. ASSUME NEW k \in 1 .. FatBytes PROVE fat[k - 1] \in Nat
    <3>1. k - 1 \in 0 .. FatBytes - 1
      BY <2>1
    <3>2. fat[k - 1] \in Byte
      BY <2>1, <3>1
    <3> QED BY <3>2 DEF Byte
  <2> DEFINE one == Bytes(fat)
  <2>3. one \in Seq(Nat) /\ Len(one) = FatBytes
    BY <2>1, <2>2 DEF Bytes
  <2> HIDE DEF one
  <2>4. one \o one \in Seq(Nat) /\ Len(one \o one) = Len(one) + Len(one)
    BY <2>3, ConcatProperties
  <2> QED BY <2>1, <2>3, <2>4 DEF one
<1>3. /\ place = At(ReservedSectors) /\ place + 2 * FatBytes = At(RootLba)
      /\ place \in Nat /\ At(RootLba) \in Int /\ ImageSize \in Int
      /\ At(RootLba) <= ImageSize
  <2>1. place = At(ReservedSectors)
    BY DEF At
  <2>2. At(0) <= At(ReservedSectors) /\ At(ReservedSectors) \in Int /\ At(0) = 0
    BY Layout, AtFacts
  <2>3. RootLba \in Int /\ TotalSectors \in Int /\ RootLba <= TotalSectors
    BY Layout
  <2>4. At(RootLba) <= At(TotalSectors) /\ At(RootLba) \in Int /\ At(TotalSectors) \in Int
    BY <2>3, AtFacts
  <2>5. ImageSize = At(TotalSectors) /\ At(RootLba) = At(ReservedSectors) + 2 * FatBytes
    BY Layout
  <2> HIDE DEF place
  <2> QED BY <2>1, <2>2, <2>4, <2>5
<1> HIDE DEF tables, place
<1>4. /\ image' \in [0 .. ImageSize - 1 -> Nat]
      /\ \A k \in 0 .. ImageSize - 1 : k >= At(RootLba) => image'[k] = image[k]
  <2>1. place + Len(tables) <= ImageSize /\ place + Len(tables) = At(RootLba)
    BY <1>2, <1>3
  <2> QED BY <1>1, <1>2, <1>3, <2>1, ImageStep DEF Built
<1>5. BuildTypeOK'
  BY <1>1, <1>4 DEF Built, BuildTypeOK, Phases
<1>6. ASSUME NEW i \in 1 .. index' PROVE Done(i)'
  <2>1. next_cluster \in Int
    BY Layout DEF Built, BuildTypeOK
  <2> QED BY <1>1, <1>4, <2>1, DoneKept
<1>7. KernelNamed'
  BY <1>1 DEF Built, KernelNamed, FirstCluster, Clustered, Data
<1>8. Order' /\ Begun'
  BY <1>1 DEF Built, Order, Begun
<1> QED BY <1>5, <1>6, <1>7, <1>8 DEF Built

LEMMA NextBuilt == Built /\ [Next]_vars => Built'
<1> SUFFICES ASSUME Built, [Next]_vars PROVE Built'
  OBVIOUS
<1>1. CASE BuildNext
  BY <1>1, ReadInputsBuilt, BeginFileBuilt, ChainClusterBuilt, WriteEntryBuilt, WriteImageBuilt
     DEF BuildNext
<1>2. CASE UNCHANGED buildVars
  <2>1. /\ host' = host /\ phase' = phase /\ fat' = fat /\ image' = image /\ root' = root
        /\ manifest' = manifest /\ index' = index /\ next_cluster' = next_cluster
        /\ first_cluster' = first_cluster /\ cluster' = cluster
    BY <1>2 DEF buildVars
  <2>2. BuildTypeOK' /\ Order'
    BY <2>1 DEF Built, BuildTypeOK, Order
  <2>3. ASSUME NEW i \in 1 .. index' PROVE Done(i)'
    <3>1. next_cluster \in Int
      BY Layout DEF Built, BuildTypeOK
    <3> QED BY <2>1, <3>1, DoneKept
  <2>4. Begun'
    BY <2>1 DEF Built, Begun, AtHand, Chained, InPlace, DataOffset, Clustered, Data
  <2>5. KernelNamed'
    BY <2>1 DEF Built, KernelNamed, FirstCluster, Clustered, Data
  <2> QED BY <2>2, <2>3, <2>4, <2>5 DEF Built
<1>3. BuildNext \/ UNCHANGED buildVars
  BY DEF Next, Build, Mount, OpenFile, ReadCluster, EndRead, Dir, ListRoot, Use, vars, buildVars
<1> QED BY <1>1, <1>2, <1>3

LEMMA AlwaysBuilt == Spec => []Built
<1>1. Init => Built
  BY InitBuilt DEF Init
<1> QED BY <1>1, NextBuilt, PTL DEF Spec
-----------------------------------------------------------------------------
(* Theorems about the builder. *)

\* Whatever the geometry and the files, build_image stays within its FAT, its
\* root directory and its image.
THEOREM BuilderTypeCorrect == Spec => []BuildTypeOK
<1>1. Built => BuildTypeOK
  BY DEF Built
<1> QED BY <1>1, AlwaysBuilt, PTL

\* The chain of every file written so far is whole: each entry names the next
\* cluster and the last one ends the chain, though set_fat12_entry keeps writing
\* into bytes that hold a nibble of a neighbour.
THEOREM FileChainsIntact == Spec => []ChainsIntact
<1>1. Built => ChainsIntact
  <2> SUFFICES ASSUME Built, NEW i \in 1 .. index
               PROVE  Chained(root[i - 1].cluster, Count(Files(host)[i].data))
    BY DEF ChainsIntact
  <2>1. i \in 1 .. Len(Files(host))
    BY FilesOf DEF Built, BuildTypeOK
  <2>2. Done(i) /\ Clustered(i) \in Nat
    BY <2>1, FileFacts DEF Built
  <2>3. CASE Clustered(i) = 0
    <3>1. FirstCluster(i) = 0
      BY <2>2, <2>3 DEF Done
    <3> QED BY <2>3, <3>1 DEF Chained, FirstCluster, Clustered, Data
  <2>4. CASE Clustered(i) # 0
    BY <2>2, <2>4 DEF Done, FirstCluster, Clustered, Data
  <2> QED BY <2>3, <2>4
<1> QED BY <1>1, AlwaysBuilt, PTL

\* An image that validate-image.py accepts boots: the sectors the manifest names,
\* which stage2 reads in one run without the FAT, hold the kernel, whole and in
\* order, and hold all of it.
THEOREM KernelFoundByBoot == Spec => []KernelWhereManifestSays
<1>1. Built => KernelWhereManifestSays
  <2> SUFFICES ASSUME Built, phase = "written"
               PROVE  /\ manifest.kernel_size = Len(host.kernel)
                      /\ manifest.kernel_sectors * BytesPerSector >= Len(host.kernel)
                      /\ \A k \in 1 .. Len(host.kernel) :
                           image[manifest.kernel_lba * BytesPerSector + k - 1] = host.kernel[k]
    BY DEF KernelWhereManifestSays
  <2>1. index = Len(Files(host)) /\ Len(Files(host)) = Len(host.dir) + 1
        /\ Data(1) = host.kernel /\ Len(Files(host)) \in Nat
    BY FilesOf DEF Built, Order, BuildTypeOK, Data
  <2>2. index > 0 /\ 1 \in 1 .. index /\ 1 \in 1 .. Len(Files(host))
    <3>1. Len(host.dir) \in Nat
      BY HostAssumption DEF Built, BuildTypeOK
    <3> QED BY <2>1, <3>1
  <2>3. manifest = [kernel_lba |-> KernelLba(FirstCluster(1)), kernel_sectors |-> Clustered(1),
                    kernel_size |-> Len(Data(1))]
    BY <2>2 DEF Built, KernelNamed
  <2>4. /\ Len(Data(1)) \in Nat /\ Clustered(1) \in Nat
        /\ (Clustered(1) = 0 <=> Len(Data(1)) = 0) /\ Len(Data(1)) <= At(Clustered(1))
    BY <2>2, FileFacts DEF Built
  <2>5. KernelLba(FirstCluster(1)) * BytesPerSector = DataOffset(FirstCluster(1))
    BY DEF KernelLba, DataOffset
  <2>6. Done(1)
    BY <2>2 DEF Built
  <2>7. \A k \in 1 .. Len(Data(1)) : image[DataOffset(FirstCluster(1)) + k - 1] = Data(1)[k]
    <3>1. CASE Clustered(1) = 0
      BY <2>4, <3>1
    <3>2. CASE Clustered(1) # 0
      BY <2>6, <3>2 DEF Done, InPlace
    <3> QED BY <3>1, <3>2
  <2>8. manifest.kernel_size = Len(host.kernel)
    BY <2>1, <2>3
  <2>9. manifest.kernel_sectors * BytesPerSector = At(Clustered(1)) /\ At(Clustered(1)) \in Int
    BY <2>3, <2>4, AtFacts DEF At
  <2>10. manifest.kernel_lba * BytesPerSector = DataOffset(FirstCluster(1))
    BY <2>3, <2>5
  <2> QED BY <2>1, <2>4, <2>7, <2>8, <2>9, <2>10
<1> QED BY <1>1, AlwaysBuilt, PTL

-----------------------------------------------------------------------------
(* Two copies of the conversions: the driver's are the ones of this module. *)

LEMMA DriverConversions ==
  /\ \A name : Driver!Is83(name) = Is83(name)
  /\ \A name : Driver!make_83(name) = make_83(name)
  /\ \A dos : Driver!entry_name(dos) = entry_name(dos)
  /\ \A f, c : Driver!fat_next(f, c) = fat_next(f, c)
<1>1. \A s, chars : Driver!Where(s, chars) = Where(s, chars)
  BY DEF Driver!Where, Where
<1>2. \A s, chars : Driver!First(s, chars) = First(s, chars)
  BY Zenon DEF Driver!Where, Where, Driver!First, First
<1>3. \A s, chars : Driver!Until(s, chars) = Until(s, chars)
  BY <1>1, <1>2, Zenon DEF Driver!Until, Until
<1>4. \A s, chars : Driver!DropRun(s, chars) = DropRun(s, chars)
  BY Zenon DEF Driver!DropRun, DropRun
<1>5. \A s : Driver!Base(s) = Base(s)
  BY <1>4, Zenon DEF Driver!Base, Base, Driver!WithoutDrive, WithoutDrive, Driver!Slashes, Slashes
<1>6. \A s : Driver!Stem83(s) = Stem83(s)
  BY <1>3, <1>5, Zenon DEF Driver!Stem83, Stem83, Driver!Space, Space
<1>7. \A s : Driver!Rest83(s) = Rest83(s)
  BY <1>5, <1>6, Zenon DEF Driver!Rest83, Rest83
<1>8. \A s : Driver!Ext83(s) = Ext83(s)
  BY <1>3, <1>7, Zenon DEF Driver!Ext83, Ext83, Driver!Space, Space
<1>9. \A name : Driver!Is83(name) = Is83(name)
  BY <1>6, <1>8, Zenon DEF Driver!Is83, Is83
<1>10. \A s : Driver!UpperCase(s) = UpperCase(s)
  BY Zenon DEF Driver!UpperCase, UpperCase
<1>11. \A s, n : Driver!Pad(s, n) = Pad(s, n)
  BY Zenon DEF Driver!Pad, Pad
<1>12. \A name : Driver!make_83(name) = make_83(name)
  BY <1>6, <1>8, <1>10, <1>11, Zenon DEF Driver!make_83, make_83, Driver!Packed, Packed
<1>13. \A dos : Driver!entry_name(dos) = entry_name(dos)
  BY <1>3, Zenon DEF Driver!entry_name, entry_name
<1>14. \A f, c : Driver!fat_next(f, c) = fat_next(f, c)
  BY Zenon DEF Driver!fat_next, fat_next, Driver!Offset, Offset, Driver!Odd, Odd
<1> QED BY <1>9, <1>12, <1>13, <1>14

-----------------------------------------------------------------------------
(* The names of the files are not empty. *)

LEMMA HostNamesAre ==
  ASSUME NEW h \in Hosts, NEW i \in 1 .. Len(Files(h))
  PROVE  Files(h)[i].name \in Seq(DOMAIN UpperOf)
<1> DEFINE R == [name : Seq(DOMAIN UpperOf), data : Seq(Nat)]
           head == [name |-> KernelName, data |-> h.kernel]
<1>1. head \in R /\ h.dir \in Seq(R)
  BY HostAssumption, KernelNameAssumption
<1>2. \A r \in R : r.name \in Seq(DOMAIN UpperOf)
  OBVIOUS
<1> HIDE DEF R
<1>3. Files(h) \in Seq(R)
  BY <1>1, Prepended DEF Files
<1>4. Files(h)[i] \in R
  BY <1>3
<1> QED BY <1>2, <1>4

-----------------------------------------------------------------------------
(* What the builder leaves: the directory, and the FAT in the image. *)

Recorded(i) ==
  /\ IsDosName(Files(host)[i].name)
  /\ root[i - 1].name = dos_name(Files(host)[i].name)
  /\ root[i - 1].attr = Archive /\ root[i - 1].size = Len(Data(i))

Catalogued ==
  /\ \A i \in 1 .. index : Recorded(i)
  /\ \A i \in index .. RootEntries - 1 : root[i] = Free
  /\ phase \notin {"start", "failed"} => Acceptable(host)
  /\ phase = "written" =>
       \A k \in 0 .. FatBytes - 1 : image[At(ReservedSectors) + k] = fat[k]

LEMMA CatalogueKept ==
  ASSUME Catalogued, host' = host, root' = root, index' = index,
         phase' \notin {"start", "failed"} => Acceptable(host),
         phase' # "written" \/ (phase' = phase /\ image' = image /\ fat' = fat)
  PROVE  Catalogued'
BY DEF Catalogued, Recorded, Data

LEMMA WriteEntryCatalogued == Built /\ Catalogued /\ WriteEntry => Catalogued'
<1> SUFFICES ASSUME Built, Catalogued, WriteEntry PROVE Catalogued'
  OBVIOUS
<1>1. CASE ~IsDosName(File.name)
  BY <1>1, CatalogueKept DEF WriteEntry, Raise
<1>2. CASE IsDosName(File.name)
  <2>1. index < Len(Files(host)) /\ Len(Files(host)) <= RootEntries /\ Acceptable(host)
        /\ index \in Nat /\ Len(Files(host)) \in Nat /\ RootEntries \in Nat
        /\ DOMAIN root = 0 .. RootEntries - 1
    BY FilesOf, GeometryAssumption DEF WriteEntry, Built, Order, BuildTypeOK, Catalogued
  <2> DEFINE new == [name |-> dos_name(File.name), attr |-> Archive,
                     cluster |-> first_cluster, size |-> Size(File)]
  <2>2. root' = [root EXCEPT ![index] = new] /\ index' = index + 1 /\ phase' = "file"
        /\ host' = host
    BY <1>2 DEF WriteEntry
  <2>3. new.name = dos_name(File.name) /\ new.attr = Archive /\ new.size = Len(File.data)
    BY DEF Size
  <2> HIDE DEF new
  <2>4. root'[index] = new /\ \A k \in 0 .. RootEntries - 1 : k # index => root'[k] = root[k]
    BY <2>1, <2>2
  <2>5. ASSUME NEW i \in 1 .. index + 1 PROVE Recorded(i)'
    <3>1. CASE i = index + 1
      <4>1. i - 1 = index
        BY <2>1, <3>1
      <4> QED BY <1>2, <2>2, <2>3, <2>4, <3>1, <4>1 DEF Recorded, File, Data
    <3>2. CASE i # index + 1
      <4>1. i \in 1 .. index /\ i - 1 \in 0 .. RootEntries - 1 /\ i - 1 # index
        BY <2>1, <3>2
      <4>2. Recorded(i) /\ root'[i - 1] = root[i - 1]
        BY <2>4, <4>1 DEF Catalogued
      <4> QED BY <2>2, <4>2 DEF Recorded, Data
    <3> QED BY <3>1, <3>2
  <2>6. ASSUME NEW i \in index + 1 .. RootEntries - 1 PROVE root'[i] = Free
    <3>1. i \in index .. RootEntries - 1 /\ i \in 0 .. RootEntries - 1 /\ i # index
      BY <2>1
    <3> QED BY <2>4, <3>1 DEF Catalogued
  <2> QED BY <2>1, <2>2, <2>5, <2>6 DEF Catalogued
<1> QED BY <1>1, <1>2

LEMMA WriteImageCatalogued == Built /\ Catalogued /\ WriteImage => Catalogued'
<1> SUFFICES ASSUME Built, Catalogued, WriteImage PROVE Catalogued'
  OBVIOUS
<1> DEFINE one == Bytes(fat)
           place == ReservedSectors * BytesPerSector
<1>1. /\ phase = "file" /\ image' = Splice(image, place, one \o one)
      /\ host' = host /\ fat' = fat /\ root' = root /\ index' = index
  BY DEF WriteImage
<1>2. FatBytes \in Nat /\ fat \in [0 .. FatBytes - 1 -> Byte]
  BY Layout DEF Built, BuildTypeOK
<1>3. one \in Seq(Nat) /\ Len(one) = FatBytes /\ \A k \in 1 .. FatBytes : one[k] = fat[k - 1]
  <2>1. ASSUME NEW k \in 1 .. FatBytes PROVE fat[k - 1] \in Nat
    <3>1. k - 1 \in 0 .. FatBytes - 1
      BY <1>2
    <3>2. fat[k - 1] \in Byte
      BY <1>2, <3>1
    <3> QED BY <3>2 DEF Byte
  <2> QED BY <1>2, <2>1 DEF Bytes
<1> HIDE DEF one
<1>4. /\ one \o one \in Seq(Nat) /\ Len(one \o one) = Len(one) + Len(one)
      /\ \A k \in 1 .. Len(one) : (one \o one)[k] = one[k]
  BY <1>3, Joined
<1>5. place = At(ReservedSectors) /\ place \in Nat /\ place + Len(one \o one) <= ImageSize
  <2>1. place = At(ReservedSectors)
    BY DEF At
  <2>2. At(0) <= At(ReservedSectors) /\ At(ReservedSectors) \in Int /\ At(0) = 0
    BY Layout, AtFacts
  <2>3. RootLba \in Int /\ TotalSectors \in Int /\ RootLba <= TotalSectors
    BY Layout
  <2>4. At(RootLba) <= At(TotalSectors) /\ At(RootLba) \in Int /\ At(TotalSectors) \in Int
    BY <2>3, AtFacts
  <2>5. ImageSize = At(TotalSectors) /\ At(RootLba) = At(ReservedSectors) + 2 * FatBytes
    BY Layout
  <2> HIDE DEF place
  <2>6. Len(one \o one) = FatBytes + FatBytes
    BY <1>3, <1>4
  <2> QED BY <1>2, <2>1, <2>2, <2>4, <2>5, <2>6
<1> HIDE DEF place
<1>6. \A k \in 1 .. Len(one \o one) : image'[place + k - 1] = (one \o one)[k]
  BY <1>1, <1>4, <1>5, ImageStep DEF Built
<1>7. ASSUME NEW k \in 0 .. FatBytes - 1 PROVE image'[At(ReservedSectors) + k] = fat[k]
  <2>1. /\ k + 1 \in 1 .. FatBytes /\ (k + 1) - 1 = k
        /\ k + 1 \in 1 .. Len(one) /\ k + 1 \in 1 .. Len(one \o one)
    BY <1>2, <1>3, <1>4
  <2>2. place + (k + 1) - 1 = At(ReservedSectors) + k
    BY <1>2, <1>5
  <2>3. image'[place + (k + 1) - 1] = (one \o one)[k + 1]
    BY <1>6, <2>1
  <2>4. (one \o one)[k + 1] = fat[k]
    BY <1>3, <1>4, <2>1
  <2> QED BY <2>2, <2>3, <2>4
<1>8. Acceptable(host)
  BY <1>1 DEF Catalogued
<1> QED BY <1>1, <1>7, <1>8 DEF Catalogued, Recorded, Data

LEMMA NextCatalogued == Built /\ Catalogued /\ [Next]_vars => Catalogued'
<1> SUFFICES ASSUME Built, Catalogued, [Next]_vars PROVE Catalogued'
  OBVIOUS
<1>1. CASE ReadInputs
  BY <1>1, CatalogueKept DEF ReadInputs, Raise
<1>2. CASE BeginFile
  <2>1. Acceptable(host)
    BY <1>2 DEF BeginFile, Catalogued
  <2> QED BY <1>2, <2>1, CatalogueKept DEF BeginFile, Raise
<1>3. CASE ChainCluster
  <2>1. Acceptable(host)
    BY <1>3 DEF ChainCluster, Catalogued
  <2>2. phase' # "written"
    BY <1>3 DEF ChainCluster
  <2> QED BY <1>3, <2>1, <2>2, CatalogueKept DEF ChainCluster
<1>4. CASE UNCHANGED buildVars
  BY <1>4, CatalogueKept DEF buildVars, Catalogued
<1>5. BuildNext \/ UNCHANGED buildVars
  BY DEF Next, Build, Mount, OpenFile, ReadCluster, EndRead, Dir, ListRoot, Use, vars, buildVars
<1> QED BY <1>1, <1>2, <1>3, <1>4, <1>5, WriteEntryCatalogued, WriteImageCatalogued DEF BuildNext

LEMMA InitCatalogued == BuildInit => Catalogued
<1> SUFFICES ASSUME BuildInit PROVE Catalogued
  OBVIOUS
<1>1. phase = "start" /\ index = 0 /\ root = [i \in 0 .. RootEntries - 1 |-> Free]
  BY DEF BuildInit
<1> QED BY <1>1 DEF Catalogued

-----------------------------------------------------------------------------
(* What the driver sees of it. *)

Chosen(i, key) == i \in Named(host, key) /\ \A j \in Named(host, key) : i <= j

\* A volume mounted from an image that has been written.
Seen ==
  /\ Built /\ Catalogued
  /\ phase = "written" /\ fs = Driver!Volume(host.stage1)

LEMMA VolumeIs ==
  ASSUME Seen
  PROVE  /\ fs.root_entries = RootEntries /\ fs.reserved_sectors = ReservedSectors
         /\ fs.sectors_per_cluster = 1 /\ fs.data_lba = DataLba
<1> DEFINE b == host.stage1
<1>1. GoodStage1(b)
  BY DEF Seen, Catalogued, Acceptable
<1> HIDE DEF b
<1>2. Driver!RootLbaOf(b) = RootLba /\ Driver!RootSectorsOf(b) = RootSectors
  BY <1>1 DEF GoodStage1, Driver!RootLbaOf, Driver!RootSectorsOf, RootLba, RootSectors
<1>3. fs = Driver!Volume(b)
  BY DEF Seen, b
<1> QED BY <1>1, <1>2, <1>3 DEF GoodStage1, Driver!Volume, DataLba

LEMMA ImageSeen ==
  ASSUME Seen
  PROVE  /\ Driver!ImageBytes = ImageSize
         /\ \A c \in 0 .. LastCluster : Driver!fat_next(Driver!Fat, c) = fat_next(fat, c)
<1>1. image \in [0 .. ImageSize - 1 -> Nat] /\ ImageSize \in Nat /\ FatBytes \in Nat
      /\ fat \in [0 .. FatBytes - 1 -> Byte]
  <2>1. ImageSize \in Nat
    BY Layout, AtFacts DEF ImageSize
  <2> QED BY <2>1, Layout DEF Seen, Built, BuildTypeOK
<1>2. Driver!ImageBytes = ImageSize
  <2>1. DOMAIN image = 0 .. ImageSize - 1
    BY <1>1
  <2>2. Cardinality(0 .. ImageSize - 1) = IF 0 > ImageSize - 1 THEN 0 ELSE ImageSize - 1 - 0 + 1
    BY <1>1, FS_Interval
  <2>3. Cardinality(0 .. ImageSize - 1) = ImageSize
    BY <1>1, <2>2
  <2>4. \A S : Driver!Cardinality(S) = Cardinality(S)
    BY Zenon DEF Driver!Cardinality, Cardinality
  <2> QED BY <2>1, <2>3, <2>4, Zenon DEF Driver!ImageBytes
<1> DEFINE place == At(ReservedSectors)
<1>3. place \in Int /\ place + FatBytes <= ImageSize
  <2>1. RootLba \in Int /\ TotalSectors \in Int /\ RootLba <= TotalSectors
    BY Layout
  <2>2. At(RootLba) <= At(TotalSectors) /\ At(RootLba) \in Int /\ At(TotalSectors) \in Int
    BY <2>1, AtFacts
  <2>3. ImageSize = At(TotalSectors) /\ At(RootLba) = At(ReservedSectors) + 2 * FatBytes
    BY Layout
  <2>4. place \in Int
    BY Layout, AtFacts
  <2> HIDE DEF place
  <2>5. At(RootLba) = place + 2 * FatBytes
    BY <2>3 DEF place
  <2> QED BY <1>1, <2>2, <2>3, <2>4, <2>5
<1>4. Driver!Fat = [k \in 0 .. ImageSize - place - 1 |-> image[place + k]]
  BY <1>2, VolumeIs DEF Driver!Fat, At
<1>5. \A k \in 0 .. FatBytes - 1 : image[place + k] = fat[k]
  BY DEF Seen, Catalogued
<1> HIDE DEF place
<1>6. ASSUME NEW k \in 0 .. FatBytes - 1 PROVE Driver!Fat[k] = fat[k]
  <2>1. k \in 0 .. ImageSize - place - 1
    BY <1>1, <1>3
  <2> QED BY <1>4, <1>5, <2>1
<1>7. ASSUME NEW c \in 0 .. LastCluster PROVE Driver!fat_next(Driver!Fat, c) = fat_next(fat, c)
  <2>1. c \in Clusters(FatBytes)
    BY ClustersInFat
  <2>2. Offset(c) \in 0 .. FatBytes - 1 /\ Offset(c) + 1 \in 0 .. FatBytes - 1
    BY <1>1, <2>1, OffsetInTable
  <2>3. Driver!Fat[Offset(c)] = fat[Offset(c)] /\ Driver!Fat[Offset(c) + 1] = fat[Offset(c) + 1]
    BY <1>6, <2>2
  <2>4. fat_next(Driver!Fat, c) = fat_next(fat, c)
    BY <2>3 DEF fat_next
  <2> QED BY <2>4, DriverConversions
<1> QED BY <1>2, <1>7

LEMMA DirectorySeen ==
  ASSUME Seen
  PROVE  /\ Len(Files(host)) \in Nat /\ Len(Files(host)) <= RootEntries /\ RootEntries \in Nat
         /\ Driver!Usable = 0 .. Len(Files(host)) - 1
<1> DEFINE n == Len(Files(host))
<1>1. n \in Nat /\ n <= RootEntries /\ index = n /\ RootEntries \in Nat
  BY FilesOf, GeometryAssumption DEF Seen, Built, Order, BuildTypeOK
<1>2. ASSUME NEW i \in 0 .. n - 1 PROVE ~Driver!Skipped(root[i]) /\ ~Driver!IsFree(root[i])
  <2>1. i + 1 \in 1 .. n /\ (i + 1) - 1 = i
    BY <1>1
  <2>2. Recorded(i + 1) /\ host \in Hosts
    BY <1>1, <2>1 DEF Seen, Catalogued, Built, BuildTypeOK
  <2>3. root[i].attr = 32 /\ root[i].name # <<>> /\ root[i].name[1] # Erased
    <3>1. Files(host)[i + 1].name \in Seq(DOMAIN UpperOf)
      BY <2>1, <2>2, HostNamesAre
    <3>2. /\ dos_name(Files(host)[i + 1].name) # <<>>
          /\ dos_name(Files(host)[i + 1].name)[1] # Erased
      BY <2>2, <3>1, DosNameFacts, DosNameIsLive DEF Recorded
    <3> QED BY <2>1, <2>2, <3>2 DEF Recorded, Archive
  <2>4. ~Driver!Skipped(root[i])
    <3>1. (32 \div 8) % 2 # 1 /\ (32 \div 16) % 2 # 1
      BY SMT
    <3> QED
      BY <2>3, <3>1 DEF Driver!Skipped, Driver!IsErased, Driver!Erased, Erased, Driver!HasBit,
                        Driver!VolumeLabel, Driver!Directory
  <2>5. ~Driver!IsFree(root[i])
    BY <2>3 DEF Driver!IsFree
  <2> QED BY <2>4, <2>5
<1>3. ASSUME NEW i \in n .. RootEntries - 1 PROVE Driver!IsFree(root[n])
  <2>1. n \in index .. RootEntries - 1
    BY <1>1
  <2>2. root[n] = Free
    BY <2>1 DEF Seen, Catalogued
  <2> QED BY <2>2 DEF Free, Driver!IsFree
<1>4. Driver!Usable = {i \in 0 .. RootEntries - 1 :
                         /\ ~Driver!Skipped(root[i])
                         /\ \A j \in 0 .. i : ~Driver!IsFree(root[j])}
  BY VolumeIs DEF Driver!Usable
<1> HIDE DEF n
<1>5. ASSUME NEW i \in Driver!Usable PROVE i \in 0 .. n - 1
  <2> SUFFICES ASSUME i >= n PROVE FALSE
    BY <1>1, <1>4
  <2>1. i \in n .. RootEntries - 1 /\ n \in 0 .. i
    BY <1>1, <1>4
  <2> QED BY <1>3, <1>4, <2>1
<1>6. ASSUME NEW i \in 0 .. n - 1 PROVE i \in Driver!Usable
  <2>1. i \in 0 .. RootEntries - 1 /\ \A j \in 0 .. i : j \in 0 .. n - 1
    BY <1>1
  <2> QED BY <1>2, <1>4, <2>1
<1>7. Driver!Usable = 0 .. n - 1
  BY <1>5, <1>6
<1> QED BY <1>1, <1>7 DEF n

\* The entries of a name are those of the files of that name.
LEMMA MatchesAre ==
  ASSUME Seen, NEW name \in Typed
  PROVE  /\ \A i \in Driver!Matches(name) : i + 1 \in Named(host, Key[name])
         /\ \A i \in Named(host, Key[name]) : i - 1 \in Driver!Matches(name)
         /\ Named(host, Key[name]) \subseteq 1 .. Len(Files(host))
         /\ Driver!Matches(name) \subseteq 0 .. Len(Files(host)) - 1
<1> DEFINE n == Len(Files(host))
           key == Key[name]
<1>1. n \in Nat /\ Driver!Usable = 0 .. n - 1 /\ index = n /\ host \in Hosts
  BY DirectorySeen DEF Seen, Built, Order, BuildTypeOK
<1>2. key = IF Is83(name) THEN make_83(name) ELSE <<>>
  BY DEF Key
<1>3. Driver!Matches(name) = {i \in 0 .. n - 1 : Is83(name) /\ root[i].name = make_83(name)}
  BY <1>1, DriverConversions DEF Driver!Matches
<1>4. Named(host, key) =
        {i \in 1 .. n : IsDosName(Files(host)[i].name) /\ dos_name(Files(host)[i].name) = key}
  BY DEF Named
<1>5. ASSUME NEW i \in 1 .. n
      PROVE  /\ IsDosName(Files(host)[i].name) /\ root[i - 1].name = dos_name(Files(host)[i].name)
             /\ dos_name(Files(host)[i].name) # <<>>
  <2>1. Recorded(i)
    BY <1>1 DEF Seen, Catalogued
  <2>2. Files(host)[i].name \in Seq(DOMAIN UpperOf)
    BY <1>1, HostNamesAre
  <2> QED BY <2>1, <2>2, DosNameFacts DEF Recorded
<1> HIDE DEF n, key
<1>6. ASSUME NEW i \in Driver!Matches(name) PROVE i + 1 \in Named(host, key)
  <2>1. i + 1 \in 1 .. n /\ (i + 1) - 1 = i
    BY <1>1, <1>3
  <2> QED BY <1>2, <1>3, <1>4, <1>5, <2>1
<1>7. ASSUME NEW i \in Named(host, key) PROVE i - 1 \in Driver!Matches(name)
  <2>1. i \in 1 .. n /\ i - 1 \in 0 .. n - 1
    BY <1>1, <1>4
  <2>2. Is83(name)
    BY <1>2, <1>4, <1>5, <2>1
  <2> QED BY <1>2, <1>3, <1>4, <1>5, <2>1, <2>2
<1> QED BY <1>3, <1>4, <1>6, <1>7 DEF n, key

\* The driver finds a file when there is one, and the first of its name.
LEMMA FoundIsChosen ==
  ASSUME Seen, NEW name \in Typed
  PROVE  /\ Driver!Matches(name) = {} <=> ~Holds(host, Key[name])
         /\ Driver!Matches(name) # {} =>
              \E i \in 1 .. Len(Files(host)) :
                Chosen(i, Key[name]) /\ Driver!RootFile(name) = root[i - 1]
<1> DEFINE M == Driver!Matches(name)
           N == Named(host, Key[name])
<1>1. /\ \A i \in M : i + 1 \in N
      /\ \A i \in N : i - 1 \in M
      /\ N \subseteq 1 .. Len(Files(host)) /\ M \subseteq 0 .. Len(Files(host)) - 1
      /\ Len(Files(host)) \in Nat
  BY MatchesAre, DirectorySeen
<1>2. Driver!RootFile(name) = root[Driver!Least(M)] /\ (Holds(host, Key[name]) <=> N # {})
  BY DEF Driver!RootFile, Holds
<1> HIDE DEF M, N
<1>3. M = {} <=> N = {}
  BY <1>1
<1>4. ASSUME M # {}
      PROVE  \E i \in N : (\A j \in N : i <= j) /\ Driver!RootFile(name) = root[i - 1]
  <2>1. M \in SUBSET Nat
    BY <1>1
  <2>2. PICK m \in M : \A j \in M : m <= j
    BY <1>4, <2>1, LeastNumber
  <2>3. Driver!Least(M) = m
    <3>1. Driver!Least(M) \in M /\ \A j \in M : Driver!Least(M) <= j
      BY <2>2, Zenon DEF Driver!Least
    <3>2. Driver!Least(M) <= m /\ m <= Driver!Least(M) /\ m \in Nat /\ Driver!Least(M) \in Nat
      BY <2>1, <2>2, <3>1
    <3> QED BY <3>2
  <2>4. m + 1 \in N /\ (m + 1) - 1 = m
    BY <1>1, <2>1
  <2>5. ASSUME NEW j \in N PROVE m + 1 <= j
    <3>1. j - 1 \in M /\ j \in Int
      BY <1>1
    <3>2. m <= j - 1
      BY <2>2, <3>1
    <3> QED BY <2>1, <3>1, <3>2
  <2> QED BY <1>2, <2>3, <2>4, <2>5
<1> QED BY <1>1, <1>2, <1>3, <1>4 DEF Chosen, N, M

LEMMA ContentsAre ==
  ASSUME NEW key, NEW i \in Int, Chosen(i, key), Named(host, key) \subseteq Int
  PROVE  ContentsOf(host, key) = Data(i) /\ Holds(host, key)
<1> DEFINE N == Named(host, key)
           first == CHOOSE k \in N : \A j \in N : k <= j
<1>1. i \in N /\ (\A j \in N : i <= j) /\ N \subseteq Int
  BY DEF Chosen
<1>2. ContentsOf(host, key) = Files(host)[first].data /\ (Holds(host, key) <=> N # {})
  BY DEF ContentsOf, Holds
<1> HIDE DEF N
<1>3. first \in N /\ \A j \in N : first <= j
  BY <1>1, Zenon
<1> HIDE DEF first
<1>4. first = i
  BY <1>1, <1>3
<1> QED BY <1>1, <1>2, <1>4 DEF Data

-----------------------------------------------------------------------------
(* Reading a file. *)

Cut(a, b) == IF a < b THEN a ELSE b

\* read_file has n clusters of a file behind it.
Copied(i, n) ==
  /\ n \in 0 .. Clustered(i)
  /\ at = IF n < Clustered(i) THEN FirstCluster(i) + n ELSE IF n = 0 THEN 0 ELSE 4095
  /\ buf \in Seq(Nat) /\ Len(buf) = Cut(At(n), Cut(Len(Data(i)), request.max))
  /\ \A k \in 1 .. Len(buf) : buf[k] = Data(i)[k]

\* A file that has been built, as the driver finds it.
LEMMA FileSeen ==
  ASSUME Seen, NEW i \in 1 .. Len(Files(host))
  PROVE  LET f == FirstCluster(i)
             c == Clustered(i)
         IN  /\ Data(i) \in Seq(Nat) /\ Len(Data(i)) \in Nat /\ c \in Nat
             /\ root[i - 1].size = Len(Data(i)) /\ root[i - 1].cluster = f
             /\ Len(Data(i)) <= At(c) /\ (c = 0 => f = 0 /\ Len(Data(i)) = 0)
             /\ c # 0 => /\ f \in 2 .. LastCluster /\ f + c - 1 <= LastCluster
                         /\ Chained(f, c) /\ InPlace(f, Data(i))
<1> DEFINE f == FirstCluster(i)
           c == Clustered(i)
<1>1. index = Len(Files(host)) /\ next_cluster \in 2 .. LastCluster + 1 /\ LastCluster \in Nat
  BY Layout DEF Seen, Built, Order, BuildTypeOK
<1>2. /\ Data(i) \in Seq(Nat) /\ Len(Data(i)) \in Nat /\ c \in Nat
      /\ (c = 0 <=> Len(Data(i)) = 0) /\ Len(Data(i)) <= At(c)
  BY FileFacts DEF Seen, Built
<1>3. Recorded(i) /\ Done(i)
  BY <1>1 DEF Seen, Catalogued, Built
<1>4. root[i - 1].size = Len(Data(i)) /\ root[i - 1].cluster = f
  BY <1>3 DEF Recorded, FirstCluster
<1>5. c = 0 => f = 0
  BY <1>3 DEF Done
<1>6. c # 0 => /\ f \in 2 .. LastCluster /\ f + c <= next_cluster
               /\ Chained(f, c) /\ InPlace(f, Data(i))
  BY <1>3 DEF Done
<1> HIDE DEF f, c
<1>7. c # 0 => f + c - 1 <= LastCluster
  BY <1>1, <1>2, <1>6
<1> QED BY <1>2, <1>4, <1>5, <1>6, <1>7 DEF f, c

\* A turn of the loop starts at a cluster of the file, with the clusters before it
\* copied whole.
LEMMA TurnStarts ==
  ASSUME Seen, NEW i \in 1 .. Len(Files(host)), NEW n \in Nat, Copied(i, n),
         entry = root[i - 1], request.max \in Nat
  PROVE  /\ Driver!MoreToRead =>
              /\ n < Clustered(i) /\ Len(buf) = At(n)
              /\ At(n) < Cut(Len(Data(i)), request.max)
         /\ ~Driver!MoreToRead => Len(buf) = Cut(Len(Data(i)), request.max)
         /\ n < Clustered(i) =>
              /\ at = FirstCluster(i) + n /\ at \in 2 .. LastCluster
              /\ Driver!FileOffset = DataOffset(FirstCluster(i)) + At(n)
         /\ Driver!ClusterBytes = At(1)
<1> DEFINE f == FirstCluster(i)
           c == Clustered(i)
           size == Len(Data(i))
           max == request.max
           total == Cut(size, max)
           copied == Len(buf)
<1>1. /\ size \in Nat /\ c \in Nat /\ entry.size = size /\ size <= At(c)
      /\ c # 0 => f \in 2 .. LastCluster /\ f + c - 1 <= LastCluster
  BY FileSeen
<1>2. /\ n \in 0 .. c /\ copied = Cut(At(n), total)
      /\ at = IF n < c THEN f + n ELSE IF n = 0 THEN 0 ELSE 4095
  BY DEF Copied
<1>3. Driver!MoreToRead <=>
        /\ at >= 2 /\ at < 4088 /\ copied < size /\ copied < max
        /\ Driver!FileOffset + Driver!ClusterBytes <= ImageSize
  BY <1>1, ImageSeen DEF Driver!MoreToRead
<1>4. Driver!ClusterBytes = At(1) /\ Driver!FileOffset = DataOffset(at)
  <2>1. Driver!ClusterBytes = 1 * BytesPerSector
    BY VolumeIs DEF Driver!ClusterBytes
  <2>2. Driver!FileOffset = (DataLba + (at - 2) * 1) * BytesPerSector
    BY VolumeIs DEF Driver!FileOffset
  <2>3. at \in Int
    <3> HIDE DEF f, c
    <3> QED BY <1>1, <1>2
  <2>4. (at - 2) * 1 = at - 2
    BY <2>3
  <2> QED BY <2>1, <2>2, <2>4 DEF At, DataOffset
<1>5. At(n) \in Nat /\ At(c) \in Nat /\ At(1) \in Nat /\ max \in Nat /\ (n <= c => At(n) <= At(c))
  <2> HIDE DEF c
  <2>1. At(0) <= At(n) /\ At(0) <= At(c) /\ At(0) <= At(1) /\ At(0) = 0
    BY <1>1, AtFacts
  <2>2. At(n) \in Int /\ At(c) \in Int /\ At(1) \in Int
    BY <1>1, AtFacts
  <2>3. n <= c => At(n) <= At(c)
    BY <1>1, AtFacts
  <2> QED BY <2>1, <2>2, <2>3
<1> HIDE DEF f, c, size, max, copied
<1>6. ASSUME n < c
      PROVE  /\ at = f + n /\ at \in 2 .. LastCluster
             /\ DataOffset(at) = DataOffset(f) + At(n) /\ DataOffset(at) \in Int
             /\ DataOffset(at) + At(1) <= ImageSize
  <2>1. at = f + n /\ f \in 2 .. LastCluster /\ f + c - 1 <= LastCluster
    BY <1>1, <1>2, <1>6
  <2>2. at \in 2 .. LastCluster /\ at + 1 - 1 <= LastCluster
    BY <1>1, <1>6, <2>1, Layout
  <2>3. DataOffset(f) = At(DataLba + (f - 2)) /\ DataOffset(at) = At(DataLba + (at - 2))
    BY DEF At, DataOffset
  <2>4. DataLba + (f - 2) \in Int /\ n \in Int /\ DataLba + (at - 2) = (DataLba + (f - 2)) + n
    BY <2>1, Layout
  <2>5. At((DataLba + (f - 2)) + n) = At(DataLba + (f - 2)) + At(n)
    BY <2>4, AtFacts
  <2>6. DataOffset(at) \in Nat /\ DataOffset(at) + At(1) <= ImageSize
    BY <2>2, ClusterPlace
  <2> QED BY <2>1, <2>2, <2>3, <2>4, <2>5, <2>6
<1>7. total \in Nat /\ total <= size /\ total <= max /\ (total = size \/ total = max)
  BY <1>1, <1>5 DEF Cut
<1> HIDE DEF total
<1>8. CASE n < c
  <2>1. at >= 2 /\ at < 4088
    BY <1>6, <1>8, Layout
  <2>2. Driver!FileOffset + Driver!ClusterBytes <= ImageSize
    BY <1>4, <1>6, <1>8
  <2>3. Driver!MoreToRead <=> copied < total
    BY <1>1, <1>2, <1>3, <1>5, <1>7, <2>1, <2>2 DEF Cut
  <2>4. Driver!MoreToRead => copied = At(n) /\ At(n) < total
    BY <1>2, <1>5, <1>7, <2>3 DEF Cut
  <2>5. ~Driver!MoreToRead => copied = total
    BY <1>2, <1>5, <1>7, <2>3 DEF Cut
  <2> QED BY <1>4, <1>6, <1>8, <2>4, <2>5 DEF total, copied, f, c, size, max
<1>9. CASE ~(n < c)
  <2>1. n = c /\ (at = 0 \/ at = 4095)
    BY <1>1, <1>2, <1>9
  <2>2. ~Driver!MoreToRead
    BY <1>3, <2>1
  <2>3. copied = total
    BY <1>1, <1>2, <1>5, <1>7, <2>1 DEF Cut
  <2> QED BY <1>4, <1>9, <2>2, <2>3 DEF total, copied, f, c, size, max
<1> QED BY <1>8, <1>9

LEMMA TurnCopies ==
  ASSUME Seen, NEW i \in 1 .. Len(Files(host)), NEW n \in Nat, Copied(i, n),
         entry = root[i - 1], request.max \in Nat, Driver!ReadCluster,
         UNCHANGED buildVars
  PROVE  Copied(i, n + 1)'
<1> DEFINE f == FirstCluster(i)
           c == Clustered(i)
           data == Data(i)
           size == Len(data)
           max == request.max
           total == Cut(size, max)
           place == DataOffset(f)
           chunk == Driver!Chunk
           read == [k \in 1 .. chunk |-> image[Driver!FileOffset + k - 1]]
<1>1. /\ buf' = buf \o read /\ at' = Driver!fat_next(Driver!Fat, at) /\ request' = request
      /\ Driver!MoreToRead
  BY DEF Driver!ReadCluster
<1>2. /\ n < c /\ Len(buf) = At(n) /\ At(n) < total
      /\ at = f + n /\ at \in 2 .. LastCluster
      /\ Driver!FileOffset = place + At(n) /\ Driver!ClusterBytes = At(1)
  BY <1>1, TurnStarts
<1>3. /\ data \in Seq(Nat) /\ size \in Nat /\ c \in Nat /\ entry.size = size
      /\ c # 0 => /\ f \in 2 .. LastCluster /\ f + c - 1 <= LastCluster
                  /\ Chained(f, c) /\ InPlace(f, data)
  BY FileSeen
<1>4. /\ buf \in Seq(Nat) /\ \A k \in 1 .. Len(buf) : buf[k] = data[k]
  BY DEF Copied
<1>5. f' = f /\ c' = c /\ data' = data /\ At(n + 1)' = At(n + 1)
  BY DEF buildVars, FirstCluster, Clustered, Data, At
<1>6. At(n) \in Nat /\ At(1) \in Nat /\ At(n + 1) = At(n) + At(1) /\ max \in Nat /\ place \in Nat
  <2>1. At(0) <= At(n) /\ At(0) <= At(1) /\ At(0) = 0 /\ At(n) \in Int /\ At(1) \in Int
        /\ At(n + 1) = At(n) + At(1)
    BY AtFacts
  <2>2. c # 0
    <3> HIDE DEF c
    <3> QED BY <1>2, <1>3
  <2> HIDE DEF f, c
  <2>3. place \in Nat
    BY <1>2, <1>3, <2>2, ClusterPlace
  <2> QED BY <2>1, <2>3
<1>7. chunk = Cut(Cut(At(1), size - At(n)), max - At(n))
  <2>1. chunk = Cut(Cut(Driver!ClusterBytes, entry.size - Len(buf)), request.max - Len(buf))
    BY DEF Driver!Chunk, Driver!Smaller, Cut
  <2> HIDE DEF chunk
  <2> QED BY <1>2, <1>3, <2>1
<1> HIDE DEF f, c, data, size, max, place, chunk
<1>8. /\ total \in Nat /\ chunk \in Nat /\ At(n) + chunk = Cut(At(n + 1), total)
      /\ At(n) + chunk <= size
  <2>1. size \in Nat /\ max \in Nat
    BY <1>3, <1>6
  <2>2. total \in Nat /\ total <= size /\ total <= max /\ (total = size \/ total = max)
    BY <2>1 DEF Cut
  <2>3. At(n) < total
    BY <1>2
  <2> HIDE DEF total
  <2> QED BY <1>6, <1>7, <2>1, <2>2, <2>3 DEF Cut
<1> HIDE DEF total
<1>17. c # 0 /\ c \in Nat /\ size \in Nat /\ f \in Int
  BY <1>2, <1>3
<1>9. ASSUME NEW k \in 1 .. chunk
      PROVE  /\ At(n) + k \in 1 .. size /\ data[At(n) + k] \in Nat
             /\ image[Driver!FileOffset + k - 1] = data[At(n) + k]
  <2>1. At(n) + k \in 1 .. size
    BY <1>6, <1>8, <1>17
  <2> DEFINE j == At(n) + k
  <2>2. image[place + j - 1] = data[j]
    <3>1. InPlace(f, data)
      BY <1>3, <1>17
    <3> HIDE DEF j
    <3>2. j \in 1 .. Len(data)
      BY <2>1 DEF size, j
    <3> QED BY <3>1, <3>2 DEF InPlace, place
  <2>3. Driver!FileOffset + k - 1 = place + (At(n) + k) - 1
    BY <1>2, <1>6
  <2>4. data[At(n) + k] \in Nat
    BY <1>3, <2>1 DEF size
  <2> QED BY <2>1, <2>2, <2>3, <2>4
<1>10. read \in Seq(Nat) /\ Len(read) = chunk /\ \A k \in 1 .. chunk : read[k] = data[At(n) + k]
  <2>1. \A k \in 1 .. chunk : image[Driver!FileOffset + k - 1] \in Nat
    BY <1>9
  <2>2. chunk \in Nat
    BY <1>8
  <2>3. read \in Seq(Nat) /\ Len(read) = chunk
    BY <2>1, <2>2
  <2> QED BY <1>9, <2>3
<1> HIDE DEF read
<1>11. /\ buf' \in Seq(Nat) /\ Len(buf') = Len(buf) + Len(read)
       /\ \A k \in 1 .. Len(buf) : buf'[k] = buf[k]
       /\ \A k \in 1 .. Len(read) : buf'[Len(buf) + k] = read[k]
  <2>1. buf \in Seq(Nat) /\ read \in Seq(Nat)
    BY <1>4, <1>10
  <2>2. /\ buf \o read \in Seq(Nat) /\ Len(buf \o read) = Len(buf) + Len(read)
        /\ \A k \in 1 .. Len(buf) : (buf \o read)[k] = buf[k]
        /\ \A k \in 1 .. Len(read) : (buf \o read)[Len(buf) + k] = read[k]
    BY <2>1, Joined
  <2> QED BY <1>1, <2>2
<1>12. Len(buf') = At(n) + chunk
  BY <1>2, <1>10, <1>11
<1>13. ASSUME NEW k \in 1 .. Len(buf') PROVE buf'[k] = data[k]
  <2>1. CASE k <= At(n)
    <3>1. k \in 1 .. Len(buf)
      BY <1>2, <1>6, <1>8, <1>12, <2>1
    <3> QED BY <1>4, <1>11, <3>1
  <2>2. CASE ~(k <= At(n))
    <3> DEFINE j == k - At(n)
    <3>1. j \in 1 .. chunk /\ At(n) + j = k
      BY <1>6, <1>8, <1>12, <2>2
    <3> HIDE DEF j
    <3>2. buf'[Len(buf) + j] = read[j] /\ read[j] = data[At(n) + j]
      BY <1>10, <1>11, <3>1
    <3> QED BY <1>2, <3>1, <3>2
  <2> QED BY <2>1, <2>2
<1>14. at' = IF n + 1 < c THEN f + (n + 1) ELSE 4095
  <2>1. at \in 0 .. LastCluster /\ at \in f .. f + c - 1
    BY <1>2, <1>17, Layout
  <2>2. at' = fat_next(fat, at)
    BY <1>1, <2>1, ImageSeen
  <2>3. fat_next(fat, at) = IF at = f + c - 1 THEN 4095 ELSE at + 1
    <3>1. Chained(f, c)
      BY <1>3, <1>17
    <3> QED BY <2>1, <3>1 DEF Chained
  <2> QED BY <1>2, <1>17, <2>2, <2>3
<1>15. n + 1 \in 0 .. c /\ n + 1 # 0
  BY <1>2, <1>17
<1>16. Copied(i, n + 1)' <=>
         /\ n + 1 \in 0 .. c
         /\ at' = IF n + 1 < c THEN f + (n + 1) ELSE IF n + 1 = 0 THEN 0 ELSE 4095
         /\ buf' \in Seq(Nat) /\ Len(buf') = Cut(At(n + 1), total)
         /\ \A k \in 1 .. Len(buf') : buf'[k] = data[k]
  BY <1>1, <1>5 DEF Copied, total, f, c, data, size, max
<1> QED BY <1>8, <1>11, <1>12, <1>13, <1>14, <1>15, <1>16

-----------------------------------------------------------------------------
(* The driver at work. *)

Read ==
  /\ request.name \in Typed
  /\ \E i \in 1 .. Len(Files(host)) :
       /\ Chosen(i, Key[request.name]) /\ entry = root[i - 1]
       /\ \E n \in Nat : Copied(i, n)

Shown(i) == [name |-> entry_name(root[i - 1].name), size |-> root[i - 1].size]

Catalogue ==
  /\ cursor \in 0 .. Len(Files(host)) /\ listed = [k \in 1 .. cursor |-> Shown(k)]
  /\ state # "list" => cursor = 0 \/ cursor = Len(Files(host))

Driven ==
  /\ state \in Driver!States
  /\ IF state \in {"off", "failed"}
     THEN /\ fs = Driver!NoVolume /\ buf = <<>> /\ answer = FALSE /\ cursor = 0 /\ listed = <<>>
     ELSE phase = "written" /\ fs = Driver!Volume(host.stage1) /\ Catalogue
  /\ state = "read" => Read
  /\ request \in [name : Typed, max : Limits] \cup {Driver!NoRequest}
  /\ at \in 0 .. 4095 /\ answer \in BOOLEAN /\ Len(buf) \in Nat /\ Len(buf) <= request.max

Used == Built /\ Catalogued /\ Driven

LEMMA WhenMounted == Used /\ state \notin {"off", "failed"} => Seen
BY DEF Used, Driven, Seen

LEMMA RequestMax == Used => request.max \in Nat
<1> SUFFICES ASSUME Used PROVE request.max \in Nat
  OBVIOUS
<1>1. CASE request \in [name : Typed, max : Limits]
  BY <1>1, LimitsAssumption
<1>2. CASE request = Driver!NoRequest
  BY <1>2 DEF Driver!NoRequest
<1> QED BY <1>1, <1>2 DEF Used, Driven

LEMMA ClusterIsEntry ==
  LastCluster \in Nat /\ LastCluster < 4088 /\ \A c \in 2 .. LastCluster : c \in 0 .. 4095
<1>1. LastCluster \in Nat /\ LastCluster < 4088
  BY Layout
<1> QED BY <1>1

\* The builder leaves the driver alone, and is done before the driver starts.
LEMMA BuildDriven == Used /\ Build => Driven'
<1> SUFFICES ASSUME Used, Build PROVE Driven'
  OBVIOUS
<1>1. phase # "written" /\ UNCHANGED driverVars
  BY DEF Build, BuildNext, ReadInputs, BeginFile, ChainCluster, WriteEntry, WriteImage
<1>2. state \in {"off", "failed"}
  BY <1>1 DEF Used, Driven
<1> QED BY <1>1, <1>2 DEF Used, Driven, driverVars

LEMMA StillDriven == Used /\ UNCHANGED vars => Driven'
BY DEF vars, Used, Driven, Read, Copied, Catalogue, Shown, Chosen, Named, Clustered, FirstCluster,
       Data

LEMMA MountDriven == Used /\ Mount => Driven'
<1> SUFFICES ASSUME Used, Mount PROVE Driven'
  OBVIOUS
<1>1. /\ phase = "written" /\ UNCHANGED buildVars /\ state = "off"
      /\ UNCHANGED <<request, entry, at, buf, answer, cursor, listed>>
      /\ \/ fs' = Driver!Volume(host.stage1) /\ state' = "idle"
         \/ fs' = fs /\ state' = "failed"
  BY DEF Mount, Use, Driver!Mount
<1>2. /\ fs = Driver!NoVolume /\ buf = <<>> /\ answer = FALSE /\ cursor = 0 /\ listed = <<>>
      /\ request \in [name : Typed, max : Limits] \cup {Driver!NoRequest}
      /\ at \in 0 .. 4095 /\ answer \in BOOLEAN /\ Len(buf) \in Nat /\ Len(buf) <= request.max
  BY <1>1 DEF Used, Driven
<1>3. phase' = "written" /\ host' = host
  BY <1>1 DEF buildVars
<1>4. Len(Files(host)) \in Nat
  BY FilesOf DEF Used, Built, BuildTypeOK
<1>5. Catalogue'
  <2>1. cursor' = 0 /\ listed' = <<>> /\ Len(Files(host))' = Len(Files(host))
    BY <1>1, <1>2, <1>3
  <2>2. <<>> = [k \in 1 .. 0 |-> Shown(k)']
    OBVIOUS
  <2> QED BY <1>4, <2>1, <2>2 DEF Catalogue
<1>6. state' \in Driver!States /\ state' # "read"
  BY <1>1 DEF Driver!States
<1>7. state' \in {"off", "failed"} \/ (phase' = "written" /\ fs' = Driver!Volume(host.stage1)')
  BY <1>1, <1>3 DEF Driver!Volume
<1> QED BY <1>1, <1>2, <1>3, <1>5, <1>6, <1>7 DEF Driven

\* What a call of the driver leaves as it was.
LEMMA CatalogueStays ==
  ASSUME Catalogue, UNCHANGED buildVars, UNCHANGED <<cursor, listed>>,
         state # "list", state' # "list"
  PROVE  Catalogue'
BY DEF Catalogue, Shown, buildVars

LEMMA OpenFileDriven == Used /\ OpenFile => Driven'
<1> SUFFICES ASSUME Used, OpenFile PROVE Driven'
  OBVIOUS
<1>1. PICK name \in Typed, max \in Limits :
        /\ phase = "written" /\ UNCHANGED buildVars /\ state = "idle"
        /\ request' = [name |-> name, max |-> max] /\ buf' = <<>>
        /\ UNCHANGED <<fs, cursor, listed>>
        /\ \/ /\ Driver!Matches(name) = {}
              /\ answer' = FALSE /\ UNCHANGED <<state, entry, at>>
           \/ /\ Driver!Matches(name) # {}
              /\ entry' = Driver!RootFile(name) /\ at' = Driver!RootFile(name).cluster
              /\ state' = "read" /\ UNCHANGED answer
  BY DEF OpenFile, Use, Driver!OpenFile
<1>2. Seen /\ max \in Nat
  BY <1>1, WhenMounted, LimitsAssumption
<1>3. phase' = "written" /\ fs' = Driver!Volume(host.stage1)' /\ Catalogue'
  <2>1. fs = Driver!Volume(host.stage1) /\ Catalogue
    BY <1>1 DEF Used, Driven
  <2>2. Catalogue'
    BY <1>1, <2>1, CatalogueStays
  <2> QED BY <1>1, <2>1, <2>2 DEF buildVars, Driver!Volume
<1>4. /\ request' \in [name : Typed, max : Limits] \cup {Driver!NoRequest}
      /\ request'.name = name /\ request'.max = max
      /\ Len(buf') \in Nat /\ Len(buf') <= request'.max
  BY <1>1, <1>2
<1>5. CASE Driver!Matches(name) = {}
  <2>1. state' = "idle" /\ at' = at /\ answer' = FALSE
    BY <1>1, <1>5
  <2>2. at \in 0 .. 4095
    BY DEF Used, Driven
  <2>3. state' \in Driver!States /\ state' \notin {"off", "failed"} /\ state' # "read"
        /\ answer' \in BOOLEAN
    BY <2>1 DEF Driver!States
  <2> QED BY <1>3, <1>4, <2>1, <2>2, <2>3 DEF Driven
<1>6. CASE Driver!Matches(name) # {}
  <2>1. PICK i \in 1 .. Len(Files(host)) :
          Chosen(i, Key[name]) /\ Driver!RootFile(name) = root[i - 1]
    BY <1>2, <1>6, FoundIsChosen
  <2>2. state' = "read" /\ entry' = root[i - 1] /\ at' = root[i - 1].cluster /\ answer' = answer
    BY <1>1, <1>6, <2>1
  <2>3. LET f == FirstCluster(i)
            c == Clustered(i)
        IN  /\ Len(Data(i)) \in Nat /\ c \in Nat /\ root[i - 1].cluster = f
            /\ (c = 0 => f = 0) /\ (c # 0 => f \in 2 .. LastCluster)
    BY <1>2, FileSeen
  <2>4. at' \in 0 .. 4095
    <3> DEFINE f == FirstCluster(i)
               c == Clustered(i)
    <3>1. at' = f /\ (c = 0 => f = 0) /\ (c # 0 => f \in 2 .. LastCluster)
      BY <2>2, <2>3
    <3> HIDE DEF f, c
    <3>2. CASE c = 0
      BY <3>1, <3>2
    <3>3. CASE c # 0
      <4>1. at' \in 2 .. LastCluster
        BY <3>1, <3>3
      <4> QED BY <4>1, ClusterIsEntry
    <3> QED BY <3>2, <3>3
  <2>5. Copied(i, 0)'
    <3>1. /\ at' = IF 0 < Clustered(i) THEN FirstCluster(i) + 0 ELSE 0
          /\ 0 \in 0 .. Clustered(i)
      <4> DEFINE f == FirstCluster(i)
                 c == Clustered(i)
      <4>1. at' = f /\ c \in Nat /\ (c = 0 => f = 0) /\ (c # 0 => f \in 2 .. LastCluster)
        BY <2>2, <2>3
      <4> HIDE DEF f, c
      <4>2. /\ at' = IF 0 < c THEN f + 0 ELSE 0
            /\ 0 \in 0 .. c
        BY <4>1, Layout
      <4> QED BY <4>2 DEF f, c
    <3>2. buf' \in Seq(Nat) /\ Len(buf') = 0
      BY <1>1
    <3>3. Cut(At(0), Cut(Len(Data(i)), max)) = 0
      <4>1. At(0) = 0
        BY AtFacts
      <4> QED BY <1>2, <2>3, <4>1 DEF Cut
    <3>4. Clustered(i)' = Clustered(i) /\ FirstCluster(i)' = FirstCluster(i) /\ Data(i)' = Data(i)
      BY <1>1 DEF buildVars, Clustered, FirstCluster, Data
    <3> QED BY <1>4, <3>1, <3>2, <3>3, <3>4 DEF Copied, At
  <2>6. Read'
    <3>1. Chosen(i, Key[name])' /\ root'[i - 1] = root[i - 1] /\ Files(host)' = Files(host)
      BY <1>1, <2>1 DEF buildVars, Chosen, Named
    <3> QED BY <1>4, <2>2, <2>5, <3>1 DEF Read
  <2>7. answer' \in BOOLEAN
    BY <2>2 DEF Used, Driven
  <2>8. state' \in Driver!States /\ state' \notin {"off", "failed"}
    BY <2>2 DEF Driver!States
  <2> QED BY <1>3, <1>4, <2>4, <2>6, <2>7, <2>8 DEF Driven
<1> QED BY <1>5, <1>6

\* The file that is being read.
LEMMA FileRead ==
  ASSUME Used, state = "read"
  PROVE  /\ Seen /\ request.max \in Nat /\ request.name \in Typed
         /\ \E i \in 1 .. Len(Files(host)), n \in Nat :
              Chosen(i, Key[request.name]) /\ entry = root[i - 1] /\ Copied(i, n)
BY WhenMounted, RequestMax DEF Used, Driven, Read

LEMMA ReadClusterDriven == Used /\ ReadCluster => Driven'
<1> SUFFICES ASSUME Used, ReadCluster PROVE Driven'
  OBVIOUS
<1>1. /\ phase = "written" /\ UNCHANGED buildVars /\ state = "read" /\ Driver!ReadCluster
      /\ UNCHANGED <<fs, state, request, entry, answer, cursor, listed>>
  BY DEF ReadCluster, Use, Driver!ReadCluster
<1>2. /\ Seen /\ request.max \in Nat /\ request.name \in Typed
      /\ \E i \in 1 .. Len(Files(host)), n \in Nat :
           Chosen(i, Key[request.name]) /\ entry = root[i - 1] /\ Copied(i, n)
  BY <1>1, FileRead
<1>3. PICK i \in 1 .. Len(Files(host)), n \in Nat :
        Chosen(i, Key[request.name]) /\ entry = root[i - 1] /\ Copied(i, n)
  BY <1>2
<1>4. Copied(i, n + 1)'
  BY <1>1, <1>2, <1>3, TurnCopies
<1>5. Read'
  <2>1. /\ Chosen(i, Key[request.name])' /\ entry' = root'[i - 1]
        /\ Files(host)' = Files(host) /\ request' = request
    BY <1>1, <1>3 DEF buildVars, Chosen, Named
  <2>2. n + 1 \in Nat
    OBVIOUS
  <2> QED BY <1>2, <1>4, <2>1, <2>2 DEF Read
<1>6. phase' = "written" /\ fs' = Driver!Volume(host.stage1)' /\ Catalogue'
  <2>1. fs = Driver!Volume(host.stage1) /\ Catalogue
    BY <1>1 DEF Used, Driven
  <2>2. Catalogue'
    BY <1>1, <2>1, CatalogueStays
  <2> QED BY <1>1, <2>1, <2>2 DEF buildVars, Driver!Volume
<1>7. at' \in 0 .. 4095 /\ Len(buf') \in Nat /\ Len(buf') <= request'.max
  <2>1. LET f == FirstCluster(i)
            c == Clustered(i)
        IN  /\ Len(Data(i)) \in Nat /\ c \in Nat
            /\ (c # 0 => f \in 2 .. LastCluster /\ f + c - 1 <= LastCluster)
    BY <1>2, FileSeen
  <2> DEFINE f == FirstCluster(i)
             c == Clustered(i)
             size == Len(Data(i))
  <2>2. /\ n + 1 \in 0 .. c
        /\ at' = IF n + 1 < c THEN f + (n + 1) ELSE IF n + 1 = 0 THEN 0 ELSE 4095
        /\ Len(buf') = Cut(At(n + 1), Cut(size, request.max))
    <3>1. f' = f /\ c' = c /\ size' = size /\ request' = request
      BY <1>1 DEF buildVars, FirstCluster, Clustered, Data
    <3> QED BY <1>4, <3>1 DEF Copied, At
  <2>3. At(n + 1) \in Nat
    <3>1. 0 \in Int /\ n + 1 \in Int /\ 0 <= n + 1
      OBVIOUS
    <3>2. At(0) <= At(n + 1) /\ At(n + 1) \in Int /\ At(0) = 0
      BY <3>1, AtFacts
    <3> QED BY <3>2
  <2>4. size \in Nat /\ c \in Nat /\ (c # 0 => f \in 2 .. LastCluster /\ f + c - 1 <= LastCluster)
    BY <2>1
  <2> HIDE DEF f, c, size
  <2>5. at' \in 0 .. 4095
    <3>1. n + 1 \in 0 .. c /\ n + 1 # 0 /\ at' = IF n + 1 < c THEN f + (n + 1) ELSE 4095
      BY <2>2
    <3>2. c # 0 /\ f \in 2 .. LastCluster /\ f + c - 1 <= LastCluster
      BY <2>4, <3>1
    <3>3. CASE n + 1 < c
      BY <2>4, <3>1, <3>2, <3>3, ClusterIsEntry
    <3>4. CASE ~(n + 1 < c)
      BY <3>1, <3>4
    <3> QED BY <3>3, <3>4
  <2>6. Len(buf') \in Nat /\ Len(buf') <= request.max
    BY <1>2, <2>2, <2>3, <2>4 DEF Cut
  <2> QED BY <1>1, <2>5, <2>6
<1>8. state' = "read" /\ request' = request /\ answer' = answer
  BY <1>1
<1>9. request \in [name : Typed, max : Limits] \cup {Driver!NoRequest} /\ answer \in BOOLEAN
      /\ state \in Driver!States
  BY DEF Used, Driven
<1> QED BY <1>1, <1>5, <1>6, <1>7, <1>8, <1>9 DEF Driven

LEMMA EndReadDriven == Used /\ EndRead => Driven'
<1> SUFFICES ASSUME Used, EndRead PROVE Driven'
  OBVIOUS
<1>1. /\ phase = "written" /\ UNCHANGED buildVars /\ state = "read" /\ state' = "idle"
      /\ answer' = Driver!ReadSucceeds
      /\ UNCHANGED <<fs, request, entry, at, buf, cursor, listed>>
  BY DEF EndRead, Use, Driver!EndRead
<1>2. answer' \in BOOLEAN
  BY <1>1 DEF Driver!ReadSucceeds
<1>3. phase' = "written" /\ fs' = Driver!Volume(host.stage1)' /\ Catalogue'
  <2>1. fs = Driver!Volume(host.stage1) /\ Catalogue
    BY <1>1 DEF Used, Driven
  <2>2. Catalogue'
    BY <1>1, <2>1, CatalogueStays
  <2> QED BY <1>1, <2>1, <2>2 DEF buildVars, Driver!Volume
<1> QED BY <1>1, <1>2, <1>3 DEF Used, Driven, Driver!States

LEMMA DirDriven == Used /\ Dir => Driven'
<1> SUFFICES ASSUME Used, Dir PROVE Driven'
  OBVIOUS
<1>1. /\ phase = "written" /\ UNCHANGED buildVars /\ state = "idle" /\ state' = "list"
      /\ cursor' = 0 /\ listed' = <<>> /\ UNCHANGED <<fs, request, entry, at, buf, answer>>
  BY DEF Dir, Use, Driver!Dir
<1>2. Catalogue'
  <2>1. Len(Files(host)) \in Nat /\ host' = host
    BY <1>1, FilesOf DEF buildVars, Used, Built, BuildTypeOK
  <2>2. <<>> = [k \in 1 .. 0 |-> Shown(k)']
    OBVIOUS
  <2> QED BY <1>1, <2>1, <2>2 DEF Catalogue
<1>3. phase' = "written" /\ fs' = Driver!Volume(host.stage1)'
  BY <1>1 DEF Used, Driven, buildVars, Driver!Volume
<1> QED BY <1>1, <1>2, <1>3 DEF Used, Driven, Driver!States

LEMMA ListRootDriven == Used /\ ListRoot => Driven'
<1> SUFFICES ASSUME Used, ListRoot PROVE Driven'
  OBVIOUS
<1> DEFINE n == Len(Files(host))
           A == Driver!Ahead
<1>1. /\ phase = "written" /\ UNCHANGED buildVars /\ state = "list"
      /\ UNCHANGED <<fs, request, entry, at, buf, answer>>
      /\ \/ /\ A # {}
            /\ listed' = Append(listed, [name |-> Driver!entry_name(root[Driver!Least(A)].name),
                                         size |-> root[Driver!Least(A)].size])
            /\ cursor' = Driver!Least(A) + 1 /\ state' = "list"
         \/ A = {} /\ state' = "idle" /\ UNCHANGED <<cursor, listed>>
  BY DEF ListRoot, Use, Driver!ListRoot, Driver!CursorAfter
<1>2. Seen /\ Catalogue
  BY <1>1, WhenMounted DEF Used, Driven
<1>3. n \in Nat /\ Driver!Usable = 0 .. n - 1 /\ cursor \in 0 .. n
      /\ listed = [k \in 1 .. cursor |-> Shown(k)]
  BY <1>2, DirectorySeen DEF Catalogue
<1>4. A = cursor .. n - 1
  BY <1>3 DEF Driver!Ahead
<1> HIDE DEF n, A
<1>5. Catalogue'
  <2>1. n' = n /\ \A k : Shown(k)' = Shown(k)
    BY <1>1 DEF buildVars, n, Shown
  <2>2. CASE A # {} /\ state' = "list"
    <3>1. cursor \in A /\ (\A j \in A : cursor <= j) /\ cursor < n /\ A \subseteq Int
      BY <1>3, <1>4, <2>2
    <3>2. Driver!Least(A) \in A /\ \A j \in A : Driver!Least(A) <= j
      BY <3>1, Zenon DEF Driver!Least
    <3>3. Driver!Least(A) = cursor
      <4>1. Driver!Least(A) <= cursor /\ cursor <= Driver!Least(A)
        BY <3>1, <3>2
      <4>2. Driver!Least(A) \in Int /\ cursor \in Int
        BY <3>1, <3>2
      <4> QED BY <4>1, <4>2
    <3>4. cursor' = cursor + 1 /\ cursor' \in 0 .. n /\ (cursor + 1) - 1 = cursor /\ cursor \in Nat
      BY <1>1, <1>3, <2>2, <3>1, <3>3
    <3>5. listed' = Append(listed, Shown(cursor + 1))
      BY <1>1, <2>2, <3>3, <3>4, DriverConversions DEF Shown
    <3> DEFINE S == {Shown(k) : k \in 1 .. cursor + 1}
    <3>6. listed \in Seq(S) /\ Len(listed) = cursor
      BY <1>3, <3>4
    <3>7. Shown(cursor + 1) \in S
      BY <3>4
    <3> HIDE DEF S
    <3>8. /\ listed' \in Seq(S) /\ Len(listed') = Len(listed) + 1
          /\ \A k \in 1 .. Len(listed) : listed'[k] = listed[k]
          /\ listed'[Len(listed) + 1] = Shown(cursor + 1)
      BY <3>5, <3>6, <3>7, AppendProperties
    <3>9. listed' = [k \in 1 .. cursor + 1 |-> listed'[k]]
      BY <3>6, <3>8
    <3>10. \A k \in 1 .. cursor + 1 : listed'[k] = Shown(k)
      BY <1>3, <3>4, <3>6, <3>8
    <3>11. listed' = [k \in 1 .. cursor' |-> Shown(k)']
      BY <2>1, <3>4, <3>9, <3>10
    <3> QED BY <2>1, <2>2, <3>4, <3>11 DEF Catalogue, n
  <2>3. CASE A = {} /\ state' = "idle" /\ UNCHANGED <<cursor, listed>>
    <3>1. cursor = n
      BY <1>3, <1>4, <2>3
    <3> QED BY <1>3, <2>1, <2>3, <3>1 DEF Catalogue, n
  <2> QED BY <1>1, <2>2, <2>3
<1>6. phase' = "written" /\ fs' = Driver!Volume(host.stage1)'
  BY <1>1 DEF Used, Driven, buildVars, Driver!Volume
<1>7. state' \in {"list", "idle"}
  BY <1>1
<1> QED BY <1>1, <1>5, <1>6, <1>7 DEF Used, Driven, Driver!States

LEMMA AlwaysUsed == Spec => []Used
<1>1. Init => Used
  <2> SUFFICES ASSUME Init PROVE Driven
    BY InitBuilt, InitCatalogued DEF Init, Used
  <2>1. /\ fs = Driver!NoVolume /\ state = "off" /\ request = Driver!NoRequest
        /\ at = 0 /\ buf = <<>> /\ answer = FALSE /\ cursor = 0 /\ listed = <<>>
    BY DEF Init, Driver!DriverInit
  <2>2. request.max = 0 /\ Len(buf) = 0
    BY <2>1 DEF Driver!NoRequest
  <2>3. state \in Driver!States /\ state \in {"off", "failed"} /\ state # "read"
    BY <2>1 DEF Driver!States
  <2>4. request \in [name : Typed, max : Limits] \cup {Driver!NoRequest}
    BY <2>1
  <2>5. at \in 0 .. 4095 /\ answer \in BOOLEAN
    <3>1. at = 0 /\ answer = FALSE
      BY <2>1
    <3>2. answer \in BOOLEAN
      BY <3>1, Zenon
    <3> QED BY <3>1, <3>2
  <2>7. Len(buf) \in Nat /\ Len(buf) <= request.max
    BY <2>2
  <2>6. fs = Driver!NoVolume /\ buf = <<>> /\ answer = FALSE /\ cursor = 0 /\ listed = <<>>
    BY <2>1
  <2> QED BY <2>3, <2>4, <2>5, <2>6, <2>7 DEF Driven
<1>2. Used /\ [Next]_vars => Used'
  <2> SUFFICES ASSUME Used, [Next]_vars PROVE Driven'
    BY NextBuilt, NextCatalogued DEF Used
  <2> QED BY BuildDriven, StillDriven, MountDriven, OpenFileDriven, ReadClusterDriven,
             EndReadDriven, DirDriven, ListRootDriven DEF Next
<1> QED BY <1>1, <1>2, PTL DEF Spec
-----------------------------------------------------------------------------
(* Theorems about builder and driver. *)

\* Builder and driver keep their types, whatever the geometry and the names.
THEOREM FloppyTypeCorrect == Spec => []TypeOK
<1>1. Used => TypeOK
  <2> SUFFICES ASSUME Used PROVE TypeOK
    OBVIOUS
  <2>1. cursor \in 0 .. fs.root_entries /\ Len(listed) <= cursor
    <3>1. CASE state \in {"off", "failed"}
      <4>1. cursor = 0 /\ listed = <<>> /\ fs = Driver!NoVolume
        BY <3>1 DEF Used, Driven
      <4> QED BY <4>1 DEF Driver!NoVolume
    <3>2. CASE state \notin {"off", "failed"}
      <4>1. Seen /\ Catalogue
        BY <3>2, WhenMounted DEF Used, Driven
      <4>2. cursor \in 0 .. Len(Files(host)) /\ listed = [k \in 1 .. cursor |-> Shown(k)]
        BY <4>1 DEF Catalogue
      <4>3. Len(Files(host)) \in Nat /\ Len(Files(host)) <= RootEntries /\ RootEntries \in Nat
        BY <4>1, DirectorySeen
      <4>4. fs.root_entries = RootEntries
        BY <4>1, VolumeIs
      <4> QED BY <4>2, <4>3, <4>4
    <3> QED BY <3>1, <3>2
  <2>2. Driver!DriverTypeOK
    BY <2>1 DEF Used, Driven, Driver!DriverTypeOK
  <2> QED BY <2>2 DEF Used, Built, TypeOK
<1> QED BY <1>1, AlwaysUsed, PTL

\* A call that has read all there is has what was asked for.
LEMMA EndReadDelivers == Used /\ EndRead => Files12!Next
<1> SUFFICES ASSUME Used, EndRead PROVE Files12!Next
  OBVIOUS
<1>1. /\ phase = "written" /\ UNCHANGED buildVars /\ state = "read" /\ state' = "idle"
      /\ answer' = Driver!ReadSucceeds /\ ~Driver!MoreToRead
      /\ UNCHANGED <<fs, request, entry, at, buf, cursor, listed>>
  BY DEF EndRead, Use, Driver!EndRead
<1>2. /\ Seen /\ request.max \in Nat /\ request.name \in Typed
      /\ \E i \in 1 .. Len(Files(host)), n \in Nat :
           Chosen(i, Key[request.name]) /\ entry = root[i - 1] /\ Copied(i, n)
  BY <1>1, FileRead
<1>3. PICK i \in 1 .. Len(Files(host)), n \in Nat :
        Chosen(i, Key[request.name]) /\ entry = root[i - 1] /\ Copied(i, n)
  BY <1>2
<1> DEFINE data == Data(i)
           size == Len(data)
           max == request.max
<1>4. Len(buf) = Cut(size, max)
  BY <1>1, <1>2, <1>3, TurnStarts
<1>5. data \in Seq(Nat) /\ size \in Nat /\ entry.size = size
  BY <1>2, <1>3, FileSeen
<1>6. buf \in Seq(Nat) /\ \A k \in 1 .. Len(buf) : buf[k] = data[k]
  BY <1>3 DEF Copied
<1>7. ContentsOf(host, Key[request.name]) = data
  <2>1. Named(host, Key[request.name]) \subseteq 1 .. Len(Files(host)) /\ Len(Files(host)) \in Nat
    BY <1>2, MatchesAre, DirectorySeen
  <2> QED BY <1>3, <2>1, ContentsAre
<1>8. answer' = TRUE
  <2>1. Len(buf) = entry.size \/ Len(buf) = request.max
    BY <1>4, <1>5 DEF Cut
  <2> QED BY <1>1, <2>1 DEF Driver!ReadSucceeds
<1>9. buf = Files12!Start(data, max)
  <2> DEFINE total == IF size < max THEN size ELSE max
  <2>1. Files12!Start(data, max) = SubSeq(data, 1, total) /\ Len(buf) = total
    BY <1>4 DEF Files12!Start, Cut
  <2>2. total \in Nat /\ total <= size
    BY <1>2, <1>5
  <2> HIDE DEF total
  <2>3. SubSeq(data, 1, total) = [k \in 1 .. total |-> data[k]]
    <3>1. \A k \in 1 .. total : data[k] \in Nat
      BY <1>5, <2>2
    <3> HIDE DEF data
    <3>2. /\ SubSeq(data, 1, total) \in Seq(Nat)
          /\ Len(SubSeq(data, 1, total)) = IF 1 <= total THEN total - 1 + 1 ELSE 0
          /\ \A k \in 1 .. total - 1 + 1 : SubSeq(data, 1, total)[k] = data[1 + k - 1]
      BY <2>2, <3>1, SubSeqProperties
    <3> DEFINE part == SubSeq(data, 1, total)
    <3> HIDE DEF part
    <3>3. part \in Seq(Nat) /\ Len(part) = total
      BY <2>2, <3>2 DEF part
    <3>4. \A k \in 1 .. total : part[k] = data[k]
      BY <2>2, <3>2 DEF part
    <3>5. part = [k \in 1 .. total |-> part[k]]
      BY <3>3
    <3>6. part = [k \in 1 .. total |-> data[k]]
      BY <3>4, <3>5
    <3> QED BY <3>6 DEF part
  <2>4. buf = [k \in 1 .. total |-> data[k]]
    <3>1. buf = [k \in 1 .. total |-> buf[k]]
      BY <1>6, <2>1
    <3> QED BY <1>6, <2>1, <3>1
  <2> QED BY <2>1, <2>3, <2>4
<1> HIDE DEF data, max
<1>10. Asked.key = Key[request.name] /\ Asked.max = max /\ Asked' = Asked /\ host' = host
  BY <1>1 DEF Asked, buildVars, max, Key
<1>11. (IF state' = "read" THEN <<>> ELSE buf') = Files12!Start(ContentsOf(host, Asked.key), Asked.max)
  BY <1>1, <1>7, <1>9, <1>10
<1> QED BY <1>1, <1>8, <1>10, <1>11 DEF Files12!Next, Files12!Deliver

\* A call is refused when no file has the name, and taken when one has.
LEMMA OpenFileAnswers == Used /\ OpenFile => Files12!Next
<1> SUFFICES ASSUME Used, OpenFile PROVE Files12!Next
  OBVIOUS
<1>1. PICK name \in Typed, max \in Limits :
        /\ phase = "written" /\ UNCHANGED buildVars /\ state = "idle"
        /\ request' = [name |-> name, max |-> max] /\ buf' = <<>>
        /\ \/ Driver!Matches(name) = {} /\ answer' = FALSE /\ state' = state
           \/ Driver!Matches(name) # {} /\ state' = "read" /\ answer' = answer
  BY DEF OpenFile, Use, Driver!OpenFile
<1>2. Seen
  BY <1>1, WhenMounted
<1>3. Driver!Matches(name) = {} <=> ~Holds(host, Key[name])
  BY <1>2, FoundIsChosen
<1>4. Asked'.key = Key[name] /\ host' = host
  BY <1>1 DEF Asked, Key, buildVars
<1>5. (IF state' = "read" THEN <<>> ELSE buf') = <<>>
  BY <1>1
<1>6. CASE Driver!Matches(name) = {}
  <2>1. Files12!Refuse
    BY <1>1, <1>3, <1>4, <1>5, <1>6 DEF Files12!Refuse
  <2> QED BY <1>4, <2>1 DEF Files12!Next
<1>7. CASE Driver!Matches(name) # {}
  <2>1. Files12!Accept
    BY <1>1, <1>3, <1>4, <1>5, <1>7 DEF Files12!Accept
  <2> QED BY <1>4, <2>1 DEF Files12!Next
<1> QED BY <1>6, <1>7

\* The driver gives back what mkfloppy.py was given, through chains, shared FAT
\* bytes and part-filled clusters: for every geometry, every set of files and every
\* max_len, the bytes of the image and the two programs together are a store that
\* answers each read_file call with the start of the file, or refuses the name.
THEOREM ReadsBackWhatWasBuilt == Spec => ImplementsFileStore
<1>1. Init => Files12!Init
  BY DEF Init, Driver!DriverInit, Files12!Init
<1>2. Used /\ [Next]_vars => [Files12!Next]_(Files12!storeVars)
  <2> SUFFICES ASSUME Used, [Next]_vars PROVE [Files12!Next]_(Files12!storeVars)
    OBVIOUS
  <2>1. ASSUME host' = host, Asked' = Asked, (state' = "read") = (state = "read"),
               answer' = answer, state = "read" \/ buf' = buf
        PROVE  UNCHANGED Files12!storeVars
    BY <2>1 DEF Files12!storeVars
  <2>2. CASE Build
    BY <2>1, <2>2 DEF Build, driverVars, Asked, BuildNext, ReadInputs, BeginFile, ChainCluster,
       WriteEntry, WriteImage, Raise
  <2>3. CASE Mount
    BY <2>1, <2>3 DEF Mount, Use, Driver!Mount, Asked, buildVars
  <2>4. CASE ReadCluster
    BY <2>1, <2>4 DEF ReadCluster, Use, Driver!ReadCluster, Asked, buildVars
  <2>5. CASE Dir
    BY <2>1, <2>5 DEF Dir, Use, Driver!Dir, Asked, buildVars
  <2>6. CASE ListRoot
    BY <2>1, <2>6 DEF ListRoot, Use, Driver!ListRoot, Asked, buildVars
  <2>7. CASE UNCHANGED vars
    BY <2>1, <2>7 DEF vars, Asked
  <2> QED BY <2>2, <2>3, <2>4, <2>5, <2>6, <2>7, OpenFileAnswers, EndReadDelivers DEF Next
<1> QED BY <1>1, <1>2, AlwaysUsed, PTL DEF Spec, ImplementsFileStore, Files12!Spec

-----------------------------------------------------------------------------
(* What validate-image.py finds in the image. *)

\* The name of the kernel is one that an entry holds whole.
LEMMA KernelNameFacts ==
  /\ KernelName \in Seq(DOMAIN UpperOf) /\ UpperCase(KernelName) = KernelName
  /\ KernelName[Len(KernelName)] # Dot
  /\ \E k \in 1 .. Len(KernelName) : KernelName[k] = Dot
<1>1. /\ KernelName \in Seq(DOMAIN UpperOf) /\ UpperCase(KernelName) = KernelName
      /\ KernelName[Len(KernelName)] # Dot
      /\ \E k \in 1 .. Len(KernelName) - 1 : KernelName[k] = Dot
  BY KernelNameAssumption, Zenon DEF Dot
<1>2. \A k \in 1 .. Len(KernelName) - 1 : k \in 1 .. Len(KernelName)
  BY <1>1
<1> QED BY <1>1, <1>2

LEMMA RequiredFacts == \A name \in Required : name[Len(name)] # Dot
BY RequiredAssumption, Zenon DEF Dot

LEMMA DirFile ==
  ASSUME NEW h \in Hosts, NEW i \in 2 .. Len(Files(h))
  PROVE  i - 1 \in 1 .. Len(h.dir) /\ Files(h)[i] = h.dir[i - 1]
<1> DEFINE R == [name : Seq(DOMAIN UpperOf), data : Seq(Nat)]
           head == [name |-> KernelName, data |-> h.kernel]
           one == <<head>>
<1>1. head \in R /\ h.dir \in Seq(R)
  BY HostAssumption, KernelNameAssumption
<1>2. Files(h) = one \o h.dir
  BY DEF Files
<1> HIDE DEF R, head
<1>3. one \in Seq(R) /\ Len(one) = 1
  BY <1>1
<1> HIDE DEF one
<1>4. /\ Len(one \o h.dir) = Len(one) + Len(h.dir)
      /\ \A k \in 1 .. Len(one) + Len(h.dir) :
           (one \o h.dir)[k] = IF k <= Len(one) THEN one[k] ELSE h.dir[k - Len(one)]
  BY <1>1, <1>3, ConcatProperties
<1>5. Len(h.dir) \in Nat
  BY <1>1
<1>6. /\ i \in 1 .. Len(one) + Len(h.dir) /\ ~(i <= Len(one)) /\ i - Len(one) = i - 1
      /\ i - 1 \in 1 .. Len(h.dir)
  BY <1>2, <1>3, <1>4, <1>5
<1> QED BY <1>2, <1>4, <1>6

\* Every file has an entry, and every entry in use is a file's.
LEMMA EntriesAre ==
  ASSUME Built, Catalogued, phase = "written", NEW n, n = Len(Files(host))
  PROVE  /\ n \in Nat /\ n >= 1 /\ index = n /\ host \in Hosts
         /\ \A i \in 1 .. n : Recorded(i) /\ root[i - 1] # Free /\ i - 1 \in DOMAIN root
         /\ \A i \in DOMAIN root : root[i] # Free => i + 1 \in 1 .. n /\ (i + 1) - 1 = i
<1>1. /\ n \in Nat /\ n >= 1 /\ index = n /\ n <= RootEntries /\ host \in Hosts
      /\ DOMAIN root = 0 .. RootEntries - 1 /\ RootEntries \in Nat
  BY FilesOf, HostAssumption, GeometryAssumption DEF Built, Order, BuildTypeOK
<1>2. ASSUME NEW i \in 1 .. n PROVE Recorded(i) /\ root[i - 1] # Free /\ i - 1 \in DOMAIN root
  <2>1. Recorded(i)
    BY <1>1 DEF Catalogued
  <2>2. root[i - 1].attr = 32 /\ Free.attr = 0
    BY <2>1 DEF Recorded, Archive, Free
  <2>3. i - 1 \in DOMAIN root
    BY <1>1
  <2> QED BY <2>1, <2>2, <2>3
<1>3. ASSUME NEW i \in DOMAIN root, root[i] # Free PROVE i + 1 \in 1 .. n /\ (i + 1) - 1 = i
  <2>1. i \notin n .. RootEntries - 1
    BY <1>1, <1>3 DEF Catalogued
  <2> QED BY <1>1, <2>1
<1> QED BY <1>1, <1>2, <1>3

\* mkfloppy.py makes an image that validate-image.py accepts of every kernel that
\* is not empty and every directory that holds the required files.
THEOREM BuiltImagesAccepted == Spec => []BuiltImagesValidate
<1>1. Used => BuiltImagesValidate
  <2> SUFFICES ASSUME Built, Catalogued, phase = "written", host.kernel # <<>>,
                      Required \subseteq {UpperCase(Files(host)[i].name) : i \in DOMAIN Files(host)}
               PROVE  Validates
    BY DEF Used, BuiltImagesValidate
  <2> DEFINE n == Len(Files(host))
             Name(i) == Files(host)[i].name
  <2>1. /\ n \in Nat /\ n >= 1 /\ index = n /\ host \in Hosts
        /\ \A i \in 1 .. n : Recorded(i) /\ root[i - 1] # Free /\ i - 1 \in DOMAIN root
        /\ \A i \in DOMAIN root : root[i] # Free => i + 1 \in 1 .. n /\ (i + 1) - 1 = i
    BY EntriesAre
  <2> HIDE DEF n, Name
  <2>2. \A i \in 1 .. n : /\ Name(i) \in Seq(DOMAIN UpperOf) /\ IsDosName(Name(i))
                          /\ root[i - 1].name = dos_name(Name(i))
    BY <2>1, HostNamesAre DEF Recorded, n, Name
  <2>3. Acceptable(host)
    BY DEF Catalogued
  <2>4. GoodStage1(host.stage1)
    BY <2>3 DEF Acceptable
  <2>5. 0 \in KernelEntries
    <3>1. 1 \in 1 .. n /\ 1 - 1 = 0
      BY <2>1
    <3>2. Name(1) = KernelName
      <4>1. Files(host)[1] = [name |-> KernelName, data |-> host.kernel]
        <5> DEFINE head == [name |-> KernelName, data |-> host.kernel]
                   R == [name : Seq(DOMAIN UpperOf), data : Seq(Nat)]
        <5>1. head \in R /\ host.dir \in Seq(R)
          BY <2>1, HostAssumption, KernelNameAssumption
        <5>2. Files(host) = <<head>> \o host.dir
          BY DEF Files
        <5> HIDE DEF head, R
        <5>3. Files(host)[1] = head
          BY <5>1, <5>2, Prepended
        <5> QED BY <5>3 DEF head
      <4> QED BY <4>1 DEF Name
    <3>3. entry_name(dos_name(KernelName)) = KernelName
      BY <2>2, <3>1, <3>2, KernelNameFacts, EntryNameWhole
    <3>4. root[0].name = dos_name(KernelName) /\ root[0] # Free /\ 0 \in DOMAIN root
      BY <2>1, <2>2, <3>1, <3>2
    <3> QED BY <3>3, <3>4 DEF KernelEntries
  <2>6. ASSUME NEW i \in KernelEntries PROVE i = 0
    <3>1. i \in DOMAIN root /\ root[i] # Free /\ entry_name(root[i].name) = KernelName
      BY DEF KernelEntries
    <3> DEFINE j == i + 1
    <3>2. j \in 1 .. n /\ j - 1 = i
      BY <2>1, <3>1
    <3> HIDE DEF j
    <3>3. UpperCase(Name(j)) = KernelName
      <4>1. entry_name(dos_name(Name(j))) = KernelName
        BY <2>2, <3>1, <3>2
      <4> QED BY <2>2, <3>2, <4>1, KernelNameFacts, EntryNameWhole
    <3>4. CASE j = 1
      BY <3>2, <3>4
    <3>5. CASE j # 1
      <4>1. j \in 2 .. n
        BY <3>2, <3>5, <2>1
      <4>2. j - 1 \in 1 .. Len(host.dir) /\ Files(host)[j] = host.dir[j - 1]
        BY <2>1, <4>1, DirFile DEF n
      <4>3. UpperCase(host.dir[j - 1].name) # KernelName
        BY <2>3, <4>2 DEF Acceptable
      <4> QED BY <3>3, <4>2, <4>3 DEF Name
    <3> QED BY <3>4, <3>5
  <2>7. KernelEntry = root[0]
    <3> DEFINE i == CHOOSE k \in KernelEntries : \A j \in KernelEntries : j <= k
    <3>1. i \in KernelEntries
      <4>1. \A j \in KernelEntries : j <= 0
        BY <2>6
      <4> QED BY <2>5, <4>1, Zenon
    <3>2. i = 0
      BY <2>6, <3>1
    <3> QED BY <3>2 DEF KernelEntry
  <2>8. /\ manifest = [kernel_lba |-> KernelLba(FirstCluster(1)),
                       kernel_sectors |-> Clustered(1), kernel_size |-> Len(Data(1))]
        /\ Done(1) /\ Recorded(1)
    BY <2>1 DEF Built, KernelNamed
  <2>9. Data(1) = host.kernel /\ Data(1) \in Seq(Nat)
    BY <2>1, FilesOf DEF Data, n
  <2>10. Clustered(1) # 0
    <3>1. Len(host.kernel) > 0
      <4>1. host.kernel \in Seq(Nat)
        BY <2>9
      <4>2. Len(host.kernel) # 0 /\ Len(host.kernel) \in Nat
        BY <4>1, EmptySeq
      <4> QED BY <4>2
    <3> QED BY <2>9, <3>1, CountFacts DEF Clustered
  <2>11. manifest.kernel_lba = DataLba + KernelEntry.cluster - 2
    <3>1. root[0].cluster = FirstCluster(1)
      BY DEF FirstCluster
    <3>2. FirstCluster(1) \in 2 .. LastCluster
      BY <2>8, <2>10 DEF Done
    <3>3. DataLba \in Int
      BY Layout
    <3>4. DataLba + (FirstCluster(1) - 2) = DataLba + FirstCluster(1) - 2
      BY <3>2, <3>3
    <3> QED BY <2>7, <2>8, <3>1, <3>4 DEF KernelLba
  <2>12. manifest.kernel_size = KernelEntry.size /\ manifest.kernel_sectors # 0
    BY <2>7, <2>8, <2>10 DEF Recorded
  <2>13. Required \subseteq Names
    <3> SUFFICES ASSUME NEW r \in Required PROVE r \in Names
      OBVIOUS
    <3>1. PICK i \in DOMAIN Files(host) : r = UpperCase(Name(i))
      BY DEF Name
    <3>2. i \in 1 .. n
      <4>1. DOMAIN Files(host) = 1 .. n
        BY <2>1, FilesOf DEF n
      <4> QED BY <4>1
    <3>3. r[Len(r)] # Dot
      BY RequiredFacts
    <3>4. entry_name(dos_name(Name(i))) = r
      BY <2>2, <3>1, <3>2, <3>3, EntryNameWhole
    <3>5. i - 1 \in DOMAIN root /\ root[i - 1] # Free /\ entry_name(root[i - 1].name) = r
      BY <2>1, <2>2, <3>2, <3>4
    <3> QED BY <3>5 DEF Names
  <2> QED BY <2>4, <2>5, <2>11, <2>12, <2>13 DEF Validates
<1> QED BY <1>1, AlwaysUsed, PTL

\* DIR shows every file of the image once and in order, and each name it shows is
\* one the driver finds.
THEOREM DirShowsEveryFile == Spec => []ListingComplete
<1>1. Used => ListingComplete
  <2> SUFFICES ASSUME Used PROVE ListingComplete
    OBVIOUS
  <2> DEFINE n == Len(Files(host))
  <2>1. CASE state \in {"off", "failed"}
    <3>1. cursor = 0 /\ listed = <<>>
      BY <2>1 DEF Used, Driven
    <3> QED BY <3>1 DEF ListingComplete
  <2>2. CASE state \notin {"off", "failed"}
    <3>1. /\ phase = "written" /\ cursor \in 0 .. n /\ listed = [k \in 1 .. cursor |-> Shown(k)]
          /\ state # "list" => cursor = 0 \/ cursor = n
      BY <2>2 DEF Used, Driven, Catalogue
    <3>2. /\ n \in Nat /\ host \in Hosts /\ \A i \in 1 .. n : Recorded(i)
      BY <3>1, EntriesAre DEF Used
    <3>3. ASSUME NEW i \in DOMAIN listed PROVE Listed(i)
      <4>1. i \in 1 .. n /\ listed[i] = Shown(i) /\ i <= n
        BY <3>1, <3>2
      <4> DEFINE name == Files(host)[i].name
      <4>2. name \in Seq(DOMAIN UpperOf) /\ IsDosName(name) /\ root[i - 1].name = dos_name(name)
            /\ root[i - 1].size = Len(Files(host)[i].data)
        BY <3>2, <4>1, HostNamesAre DEF Recorded, Data
      <4> HIDE DEF name
      <4>3. /\ listed[i].name = entry_name(dos_name(name))
            /\ listed[i].size = Len(Files(host)[i].data)
        BY <4>1, <4>2 DEF Shown
      <4>4. Is83(listed[i].name) /\ make_83(listed[i].name) = dos_name(name)
        BY <4>2, <4>3, ListedNameFinds
      <4> QED BY <4>1, <4>2, <4>3, <4>4 DEF Listed
    <3>4. Len(listed) = cursor
      BY <3>1, <3>2
    <3> QED BY <3>1, <3>3, <3>4 DEF ListingComplete
  <2> QED BY <2>1, <2>2
<1> QED BY <1>1, AlwaysUsed, PTL
=============================================================================
