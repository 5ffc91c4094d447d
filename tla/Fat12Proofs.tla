---------------------------- MODULE Fat12Proofs ----------------------------
(***************************************************************************)
(* Theorems about the FAT12 driver, for every image: whatever the root     *)
(* directory and the FAT hold, chains that circle or lead outside          *)
(* included, read_file copies what the chain holds, reports success only   *)
(* with all the bytes, and reads nothing outside the image.                *)
(***************************************************************************)
EXTENDS Fat12, SequenceTheorems, WellFoundedInduction, TLAPS

DriverSpec == ImageTypeOK /\ DriverInit /\ [][Next]_vars

IsList(s) == \E S : s \in Seq(S)

\* While a file is read the buffer outgrows neither the file nor max_len; when it
\* has been read, what is reported is what the buffer holds.
Reading ==
  /\ state = "read" =>
       entry.size \in Nat /\ Len(buf) <= entry.size /\ Len(buf) <= request.max
  /\ state # "read" /\ answer => Len(buf) = Smaller(entry.size, request.max)

Mounted ==
  /\ fs.sectors_per_cluster \in Nat /\ fs.root_entries \in Nat
  /\ 0 .. fs.root_entries - 1 \subseteq DOMAIN root

Driven == ImageTypeOK /\ Mounted /\ request.max \in Nat /\ IsList(buf) /\ Reading

\* The first of several root entries.
LEMMA LeastFound ==
  ASSUME NEW T \in SUBSET Nat, T # {}
  PROVE  Least(T) \in T
<1>1. PICK i \in T : \A j \in T : ~(<<j, i>> \in OpToRel(<, Nat))
  BY NatLessThanWellFounded, WFMin
<1>2. ASSUME NEW j \in T PROVE ~(j < i)
  <2>1. <<j, i>> \in Nat \X Nat
    OBVIOUS
  <2>2. j < i => <<j, i>> \in OpToRel(<, Nat)
    BY <2>1, Zenon DEF OpToRel
  <2> QED BY <1>1, <2>2
<1>3. \A j \in T : i <= j
  BY <1>2
<1> QED BY <1>3 DEF Least

\* Induction over the natural numbers, for a set of them.
LEMMA NatInductionOnSet ==
  ASSUME NEW S \in SUBSET Nat, 0 \in S, \A n \in S : n + 1 \in S
  PROVE  S = Nat
<1> SUFFICES ASSUME Nat \ S # {} PROVE FALSE
  OBVIOUS
<1>1. PICK m \in Nat \ S : \A j \in Nat \ S : ~(<<j, m>> \in OpToRel(<, Nat))
  BY NatLessThanWellFounded, WFMin
<1>2. m - 1 \in Nat
  OBVIOUS
<1>3. <<m - 1, m>> \in OpToRel(<, Nat)
  <2>1. <<m - 1, m>> \in Nat \X Nat /\ m - 1 < m
    BY <1>2
  <2> QED BY <2>1, Zenon DEF OpToRel
<1>4. m - 1 \in S
  BY <1>1, <1>2, <1>3
<1> QED BY <1>4

-----------------------------------------------------------------------------
(* Chains. *)

\* A function on 0 .. n that is the chain from first as far as it goes.
Prefix(table, first, n, f) ==
  /\ f = [k \in 0 .. n |-> f[k]]
  /\ f[0] = first
  /\ \A k \in 1 .. n : f[k] = fat_next(table, f[k - 1])

LEMMA PrefixesExist ==
  ASSUME NEW table, NEW first
  PROVE  \A n \in Nat : \E f : Prefix(table, first, n, f)
<1> DEFINE S == {n \in Nat : \E f : Prefix(table, first, n, f)}
<1>1. 0 \in S
  <2>1. Prefix(table, first, 0, [k \in 0 .. 0 |-> first])
    BY DEF Prefix
  <2> QED BY <2>1
<1>2. ASSUME NEW n \in S PROVE n + 1 \in S
  <2>1. PICK f : Prefix(table, first, n, f)
    OBVIOUS
  <2> DEFINE g == [k \in 0 .. n + 1 |-> IF k = n + 1 THEN fat_next(table, f[n]) ELSE f[k]]
  <2>2. g = [k \in 0 .. n + 1 |-> g[k]] /\ g[0] = first
    BY <2>1 DEF Prefix
  <2>3. ASSUME NEW k \in 1 .. n + 1 PROVE g[k] = fat_next(table, g[k - 1])
    <3>1. k - 1 \in 0 .. n
      OBVIOUS
    <3>2. g[k - 1] = f[k - 1]
      BY <3>1
    <3>3. CASE k = n + 1
      BY <3>2, <3>3
    <3>4. CASE k # n + 1
      <4>1. k \in 1 .. n /\ g[k] = f[k]
        BY <3>4
      <4>2. f[k] = fat_next(table, f[k - 1])
        BY <2>1, <4>1 DEF Prefix
      <4> QED BY <3>2, <4>1, <4>2
    <3> QED BY <3>3, <3>4
  <2> HIDE DEF g
  <2>4. Prefix(table, first, n + 1, g)
    BY <2>2, <2>3 DEF Prefix
  <2>5. n + 1 \in Nat
    OBVIOUS
  <2> QED BY <2>4, <2>5
<1> HIDE DEF S
<1>3. S = Nat
  <2>1. S \in SUBSET Nat
    BY DEF S
  <2> QED BY <1>1, <1>2, <2>1, NatInductionOnSet
<1> QED BY <1>3 DEF S

LEMMA PrefixesAgree ==
  ASSUME NEW table, NEW first, NEW n \in Nat, NEW m \in Nat,
         NEW f, Prefix(table, first, n, f), NEW g, Prefix(table, first, m, g), n <= m
  PROVE  f[n] = g[n]
<1> DEFINE S == {k \in Nat : k <= n => f[k] = g[k]}
<1>1. 0 \in S
  BY DEF Prefix
<1>2. ASSUME NEW k \in S PROVE k + 1 \in S
  <2> SUFFICES ASSUME k + 1 <= n PROVE f[k + 1] = g[k + 1]
    OBVIOUS
  <2>1. k + 1 \in 1 .. n /\ k + 1 \in 1 .. m /\ (k + 1) - 1 = k /\ f[k] = g[k]
    OBVIOUS
  <2> QED BY <2>1 DEF Prefix
<1> HIDE DEF S
<1>3. S = Nat
  <2>1. S \in SUBSET Nat
    BY DEF S
  <2> QED BY <1>1, <1>2, <2>1, NatInductionOnSet
<1> QED BY <1>3 DEF S

\* The recursion that defines Walk has a solution, for every table.
LEMMA WalkSteps ==
  ASSUME NEW table, NEW first
  PROVE  /\ Walk(table, first)[0] = first
         /\ \A n \in Nat :
              Walk(table, first)[n + 1] = fat_next(table, Walk(table, first)[n])
<1> DEFINE h(n) == CHOOSE f : Prefix(table, first, n, f)
           u == [n \in Nat |-> h(n)[n]]
<1>1. \A n \in Nat : Prefix(table, first, n, h(n))
  BY PrefixesExist
<1> HIDE DEF h
<1>2. u[0] = first
  BY <1>1 DEF Prefix
<1>3. ASSUME NEW n \in Nat PROVE u[n + 1] = fat_next(table, u[n])
  <2>1. Prefix(table, first, n, h(n)) /\ Prefix(table, first, n + 1, h(n + 1))
    BY <1>1
  <2>2. n + 1 \in Nat /\ n <= n + 1 /\ n + 1 \in 1 .. n + 1 /\ (n + 1) - 1 = n
    OBVIOUS
  <2>3. h(n)[n] = h(n + 1)[n]
    BY <2>1, <2>2, PrefixesAgree
  <2>4. h(n + 1)[n + 1] = fat_next(table, h(n + 1)[n])
    BY <2>1, <2>2 DEF Prefix
  <2> QED BY <2>2, <2>3, <2>4
<1> DEFINE Solves(w) ==
             w = [k \in Nat |-> IF k = 0 THEN first ELSE fat_next(table, w[k - 1])]
<1>4. Solves(u)
  <2>1. ASSUME NEW k \in Nat
        PROVE  u[k] = IF k = 0 THEN first ELSE fat_next(table, u[k - 1])
    <3>1. CASE k = 0
      BY <1>2, <3>1
    <3>2. CASE k # 0
      <4>1. k - 1 \in Nat /\ (k - 1) + 1 = k
        BY <3>2
      <4>2. u[(k - 1) + 1] = fat_next(table, u[k - 1])
        BY <1>3, <4>1
      <4> QED BY <3>2, <4>1, <4>2
    <3> QED BY <3>1, <3>2
  <2>2. u = [k \in Nat |-> u[k]]
    OBVIOUS
  <2> HIDE DEF u
  <2> QED BY <2>1, <2>2
<1>5. Walk(table, first) = CHOOSE w : Solves(w)
  BY DEF Walk
<1> DEFINE walk == Walk(table, first)
<1>6. Solves(walk)
  <2> HIDE DEF Solves, u
  <2> QED BY <1>4, <1>5
<1> HIDE DEF walk
<1>7. walk[0] = first /\ \A n \in Nat : walk[n + 1] = fat_next(table, walk[n])
  <2>1. walk[0] = first
    BY <1>6
  <2>2. ASSUME NEW n \in Nat PROVE walk[n + 1] = fat_next(table, walk[n])
    <3>1. n + 1 \in Nat /\ n + 1 # 0 /\ (n + 1) - 1 = n
      OBVIOUS
    <3> QED BY <1>6, <3>1
  <2> QED BY <2>1, <2>2
<1> QED BY <1>7 DEF walk

-----------------------------------------------------------------------------
(* Reads. *)

LEMMA FoundIsSized ==
  ASSUME Driven, NEW name, Matches(name) # {}
  PROVE  RootFile(name).size \in Nat /\ RootFile(name).cluster \in Nat
<1>1. Matches(name) \subseteq 0 .. fs.root_entries - 1
  BY DEF Matches, Usable
<1>2. Matches(name) \in SUBSET Nat
  BY <1>1
<1>3. Least(Matches(name)) \in DOMAIN root
  BY <1>1, <1>2, LeastFound DEF Driven, Mounted
<1> QED BY <1>3 DEF RootFile, Driven, ImageTypeOK

\* A cluster's worth of bytes at most, and no more than is missing.
LEMMA ChunkFits ==
  ASSUME Driven, state = "read", MoreToRead
  PROVE  /\ Chunk \in Nat /\ Len(buf) \in Nat
         /\ Len(buf) + Chunk <= entry.size /\ Len(buf) + Chunk <= request.max
<1>1. /\ entry.size \in Nat /\ request.max \in Nat
      /\ Len(buf) < entry.size /\ Len(buf) < request.max
  BY DEF Driven, Reading, MoreToRead
<1>2. Len(buf) \in Nat
  <2>1. PICK S : buf \in Seq(S)
    BY DEF Driven, IsList
  <2> QED BY <2>1
<1>3. ClusterBytes \in Nat
  <2>1. fs.sectors_per_cluster \in Nat /\ SectorBytes \in Nat
    BY DriverAssumption DEF Driven, Mounted
  <2> DEFINE n == fs.sectors_per_cluster
  <2> HIDE DEF n
  <2>2. n \in Nat => n * SectorBytes \in Nat
    BY <2>1
  <2> QED BY <2>1, <2>2 DEF ClusterBytes, n
<1> DEFINE b == entry.size - Len(buf)
           c == request.max - Len(buf)
<1>4. b \in Nat /\ c \in Nat
  BY <1>1, <1>2
<1>5. Chunk = Smaller(Smaller(ClusterBytes, b), c)
  BY DEF Chunk
<1> HIDE DEF b, c
<1>6. Chunk \in Nat /\ Chunk <= b /\ Chunk <= c
  BY <1>3, <1>4, <1>5 DEF Smaller
<1> QED BY <1>1, <1>2, <1>6 DEF b, c

LEMMA Extended ==
  ASSUME NEW s, IsList(s), NEW n \in Nat, NEW f, f = [k \in 1 .. n |-> f[k]]
  PROVE  IsList(s \o f) /\ Len(s \o f) = Len(s) + n
<1>1. PICK S : s \in Seq(S)
  BY DEF IsList
<1> DEFINE T == S \cup {f[k] : k \in 1 .. n}
<1>2. f \in Seq(T) /\ Len(f) = n
  OBVIOUS
<1>3. s \in Seq(T)
  BY <1>1
<1> HIDE DEF T
<1>4. s \o f \in Seq(T) /\ Len(s \o f) = Len(s) + Len(f)
  BY <1>2, <1>3, ConcatProperties
<1> QED BY <1>2, <1>4 DEF IsList

LEMMA InitDriven == ImageTypeOK /\ DriverInit => Driven
<1>1. <<>> \in Seq(Nat) /\ 0 .. 0 - 1 = {}
  OBVIOUS
<1> QED BY <1>1 DEF DriverInit, Driven, Mounted, Reading, IsList, NoVolume, NoRequest

LEMMA NextDriven == Driven /\ [Next]_vars => Driven'
<1> SUFFICES ASSUME Driven, [Next]_vars PROVE Driven'
  OBVIOUS
<1>1. ImageTypeOK'
  BY DEF Driven, ImageTypeOK, ImageBytes, Next, imageVars, vars
<1>2. CASE Mount /\ UNCHANGED imageVars
  <2>1. Mounted'
    BY <1>2 DEF Mount, Mountable, Volume, Driven, Mounted, ImageTypeOK, imageVars
  <2>2. /\ state # "read" /\ state' # "read"
        /\ UNCHANGED <<request, entry, buf, answer>>
    BY <1>2 DEF Mount
  <2> QED BY <1>1, <2>1, <2>2 DEF Driven, Reading, IsList
<1>3. CASE OpenFile /\ UNCHANGED imageVars
  <2>1. PICK name \in Typed, max \in Limits :
          /\ request' = [name |-> name, max |-> max] /\ buf' = <<>>
          /\ \/ answer' = FALSE /\ state' = state
             \/ Matches(name) # {} /\ entry' = RootFile(name) /\ state' = "read"
    BY <1>3 DEF OpenFile
  <2>2. state = "idle" /\ UNCHANGED fs
    BY <1>3 DEF OpenFile
  <2>3. request'.max \in Nat /\ IsList(buf') /\ Len(buf') = 0
    <3>1. <<>> \in Seq(Nat)
      OBVIOUS
    <3> QED BY <2>1, <3>1, DriverAssumption DEF IsList
  <2>4. Reading'
    BY <2>1, <2>2, <2>3, FoundIsSized DEF Reading
  <2>5. Mounted'
    BY <1>3, <2>2 DEF Driven, Mounted, imageVars
  <2> QED BY <1>1, <2>3, <2>4, <2>5 DEF Driven
<1>4. CASE ReadCluster /\ UNCHANGED imageVars
  <2> DEFINE f == [k \in 1 .. Chunk |-> image[FileOffset + k - 1]]
  <2>1. /\ state = "read" /\ MoreToRead /\ buf' = buf \o f
        /\ UNCHANGED <<fs, state, request, entry, answer>>
    BY <1>4 DEF ReadCluster
  <2>2. /\ Chunk \in Nat /\ Len(buf) \in Nat
        /\ Len(buf) + Chunk <= entry.size /\ Len(buf) + Chunk <= request.max
    BY <2>1, ChunkFits
  <2>3. f = [k \in 1 .. Chunk |-> f[k]]
    OBVIOUS
  <2> HIDE DEF f
  <2>4. IsList(buf') /\ Len(buf') = Len(buf) + Chunk
    BY <2>1, <2>2, <2>3, Extended DEF Driven
  <2>5. Reading' /\ Mounted'
    BY <1>4, <2>1, <2>2, <2>4 DEF Driven, Reading, Mounted, imageVars
  <2> QED BY <1>1, <2>1, <2>4, <2>5 DEF Driven
<1>5. CASE EndRead /\ UNCHANGED imageVars
  <2>1. /\ state = "read" /\ state' = "idle" /\ answer' = ReadSucceeds
        /\ UNCHANGED <<fs, request, entry, buf>>
    BY <1>5 DEF EndRead
  <2>2. /\ entry.size \in Nat /\ request.max \in Nat
        /\ Len(buf) <= entry.size /\ Len(buf) <= request.max
    BY <2>1 DEF Driven, Reading
  <2>3. ReadSucceeds => Len(buf) = Smaller(entry.size, request.max)
    BY <2>2 DEF ReadSucceeds, Smaller
  <2>4. Reading'
    BY <2>1, <2>3 DEF Reading
  <2>5. Mounted'
    BY <1>5, <2>1 DEF Driven, Mounted, imageVars
  <2> QED BY <1>1, <2>1, <2>4, <2>5 DEF Driven, IsList
<1>6. CASE (Dir \/ ListRoot) /\ UNCHANGED imageVars
  <2>1. /\ state # "read" /\ state' # "read"
        /\ UNCHANGED <<fs, request, entry, buf, answer>>
    BY <1>6 DEF Dir, ListRoot
  <2> QED BY <1>1, <1>6, <2>1 DEF Driven, Reading, Mounted, IsList, imageVars
<1>7. CASE UNCHANGED vars
  BY <1>1, <1>7 DEF vars, Driven, Reading, Mounted, IsList
<1> QED BY <1>2, <1>3, <1>4, <1>5, <1>6, <1>7 DEF Next, DriverNext, Working

-----------------------------------------------------------------------------
(* What a read copies. *)

\* Once mount has accepted the image, the volume is what its boot sector says.
OnVolume ==
  /\ state \in {"off", "failed"} => buf = <<>>
  /\ state \notin {"off", "failed"} => Mountable(boot) /\ fs = Volume(boot)

\* The driver stands at a cluster of the chain, after as many whole clusters as
\* lie before it, unless the copy is complete.
AtChain ==
  /\ at \in Nat
  /\ \E n \in Nat :
       /\ at = Walk(Fat, entry.cluster)[n]
       /\ Len(buf) = n * ClusterBytes \/ Len(buf) \in {entry.size, request.max}

Copied == \A k \in 1 .. Len(buf) : buf[k] = ByteOf(Walk(Fat, entry.cluster), k - 1)

Followed == OnVolume /\ (state = "read" => AtChain) /\ Copied

LEMMA Products ==
  /\ \A a, b \in Nat : a * b \in Nat
  /\ \A a, b \in Nat : b > 0 => a <= a * b
  /\ \A a, b \in Nat : a > 0 /\ b > 0 => a * b > 0
<1>1. \A a, b \in Nat : a * b \in Nat
  OBVIOUS
<1>2. ASSUME NEW a \in Nat, NEW b \in Nat, b > 0 PROVE a <= a * b
  BY <1>2
<1>3. ASSUME NEW a \in Nat, NEW b \in Nat, a > 0, b > 0 PROVE a * b > 0
  BY <1>3
<1> QED BY <1>1, <1>2, <1>3

\* The root directory of a mountable volume takes at least one sector.
LEMMA RootTakesSectors ==
  ASSUME ImageTypeOK, Mountable(boot)
  PROVE  RootSectorsOf(boot) \in Nat /\ RootSectorsOf(boot) >= 1
<1> DEFINE x == boot.root_entries * EntryBytes
           q == (x + SectorBytes - 1) \div SectorBytes
           r == (x + SectorBytes - 1) % SectorBytes
<1>1. boot.root_entries \in Nat /\ boot.root_entries > 0
      /\ EntryBytes \in Nat /\ EntryBytes > 0
  BY DriverAssumption DEF ImageTypeOK, Mountable
<1>2. x \in Nat /\ x > 0
  BY <1>1, Products
<1> HIDE DEF x
<1>3. /\ SectorBytes \in Nat /\ SectorBytes > 1
      /\ x + SectorBytes - 1 = SectorBytes * q + r /\ r \in 0 .. SectorBytes - 1
      /\ q \in Int
  BY <1>2, DriverAssumption
<1> HIDE DEF q, r
<1>4. q >= 1
  <2> SUFFICES ASSUME q <= 0 PROVE FALSE
    BY <1>3
  <2>1. SectorBytes * q <= 0
    BY <1>3
  <2> QED BY <1>2, <1>3, <2>1
<1>5. RootSectorsOf(boot) = q
  BY DEF RootSectorsOf, Mountable, q, x
<1> QED BY <1>3, <1>4, <1>5

LEMMA VolumeFacts ==
  ASSUME ImageTypeOK, Mountable(boot), fs = Volume(boot)
  PROVE  /\ fs.sectors_per_cluster \in Nat /\ fs.sectors_per_cluster > 0
         /\ fs.reserved_sectors \in Nat /\ fs.data_lba \in Nat
         /\ fs.reserved_sectors + 2 <= fs.data_lba
         /\ ClusterBytes \in Nat /\ ClusterBytes > 0
<1>1. /\ boot.fat_count \in Nat /\ boot.fat_count > 0
      /\ boot.sectors_per_fat \in Nat /\ boot.sectors_per_fat > 0
      /\ boot.sectors_per_cluster \in Nat /\ boot.sectors_per_cluster > 0
      /\ boot.reserved_sectors \in Nat
      /\ SectorBytes \in Nat /\ SectorBytes > 1
  BY DriverAssumption DEF ImageTypeOK, Mountable
<1>2. /\ boot.fat_count * boot.sectors_per_fat \in Nat
      /\ boot.fat_count * boot.sectors_per_fat > 0
  BY <1>1, Products
<1>3. RootSectorsOf(boot) \in Nat /\ RootSectorsOf(boot) >= 1
  BY RootTakesSectors
<1>4. /\ fs.sectors_per_cluster = boot.sectors_per_cluster
      /\ fs.reserved_sectors = boot.reserved_sectors
      /\ fs.data_lba = boot.reserved_sectors + boot.fat_count * boot.sectors_per_fat
                        + RootSectorsOf(boot)
  BY DEF Volume, RootLbaOf
<1>5. ClusterBytes \in Nat /\ ClusterBytes > 0
  <2>1. ClusterBytes = boot.sectors_per_cluster * SectorBytes
    BY <1>4 DEF ClusterBytes
  <2>2. SectorBytes > 0
    BY <1>1
  <2> QED BY <1>1, <2>1, <2>2, Products
<1> DEFINE f == boot.fat_count * boot.sectors_per_fat
<1> HIDE DEF f
<1>6. /\ fs.data_lba \in Nat /\ boot.reserved_sectors + 2 <= fs.data_lba
  BY <1>1, <1>2, <1>3, <1>4 DEF f
<1> QED BY <1>1, <1>4, <1>5, <1>6

\* The bytes of a cluster that the guard lets through, and its entry in the FAT,
\* lie in the image: fat_next never reads past the end of it, though it never asks.
LEMMA NextIsInImage ==
  ASSUME ImageTypeOK, Mountable(boot), fs = Volume(boot),
         at \in Nat, at >= 2, FileOffset + ClusterBytes <= ImageBytes
  PROVE  /\ FileOffset \in Nat
         /\ Offset(at) \in DOMAIN Fat /\ Offset(at) + 1 \in DOMAIN Fat
         /\ fat_next(Fat, at) \in Nat
<1> DEFINE B == SectorBytes
           c == fs.sectors_per_cluster
           d == fs.data_lba
           e == fs.reserved_sectors
           m == (at - 2) * c
           x == d + m
<1>1. /\ B \in Nat /\ B > 1 /\ c \in Nat /\ c > 0 /\ d \in Nat /\ e \in Nat
      /\ e + 2 <= d
  BY VolumeFacts, DriverAssumption
<1>2. FileOffset = x * B /\ ClusterBytes = c * B
  BY DEF FileOffset, ClusterBytes
<1>3. ImageBytes \in Nat /\ \A k \in 0 .. ImageBytes - 1 : image[k] \in Byte
  BY DEF ImageTypeOK
<1>4. m \in Nat /\ at - 2 <= m
  <2>1. at - 2 \in Nat
    OBVIOUS
  <2> QED BY <1>1, <2>1, Products
<1> HIDE DEF B, c, d, e, m
<1>5. x \in Nat /\ e + at <= x
  BY <1>1, <1>4
<1> HIDE DEF x
<1>6. /\ x * B \in Nat /\ c * B \in Nat /\ e * B \in Nat
      /\ e * B + at * B + B <= x * B + c * B
  <2>1. x * B \in Nat /\ c * B \in Nat /\ e * B \in Nat
    BY <1>1, <1>5, Products
  <2>2. (e + at) * B <= x * B
    BY <1>1, <1>5
  <2>3. (e + at) * B = e * B + at * B
    BY <1>1
  <2>4. B <= c * B
    BY <1>1
  <2>5. at * B \in Nat
    BY <1>1, Products
  <2> QED BY <1>1, <2>1, <2>2, <2>3, <2>4, <2>5
<1>7. at * B \in Nat /\ 2 * at <= at * B
  BY <1>1
<1> DEFINE eb == e * B
           ab == at * B
           z == x * B + c * B
<1>8. eb + 2 * at + 2 <= ImageBytes
  <2>1. eb \in Nat /\ ab \in Nat /\ z \in Nat /\ eb + ab + B <= z /\ 2 * at <= ab
        /\ z <= ImageBytes
    BY <1>2, <1>6, <1>7
  <2> HIDE DEF eb, ab, z
  <2> QED BY <1>1, <1>3, <2>1
<1>9. Offset(at) \in Nat /\ Offset(at) + 1 <= 2 * at
  BY DEF Offset
<1>10. DOMAIN Fat = 0 .. ImageBytes - eb - 1
  BY DEF Fat, e, B
<1>11. \A k \in DOMAIN Fat : Fat[k] \in Byte
  <2> SUFFICES ASSUME NEW k \in 0 .. ImageBytes - eb - 1 PROVE Fat[k] \in Byte
    BY <1>10
  <2>1. eb \in Nat
    BY <1>6
  <2>2. Fat[k] = image[eb + k]
    BY DEF Fat, e, B
  <2> HIDE DEF eb
  <2>3. eb + k \in 0 .. ImageBytes - 1
    BY <1>3, <2>1
  <2> QED BY <1>3, <2>2, <2>3
<1>12. Offset(at) \in DOMAIN Fat /\ Offset(at) + 1 \in DOMAIN Fat
  <2>1. eb \in Nat
    BY <1>6
  <2> HIDE DEF eb
  <2> QED BY <1>3, <1>8, <1>9, <1>10, <2>1
<1>13. fat_next(Fat, at) \in Nat
  <2>1. Fat[Offset(at)] \in Byte /\ Fat[Offset(at) + 1] \in Byte
    BY <1>11, <1>12
  <2>2. PICK v \in Nat : v = Fat[Offset(at)] + 256 * Fat[Offset(at) + 1]
    <3>1. PICK low \in Byte, high \in Byte :
            low = Fat[Offset(at)] /\ high = Fat[Offset(at) + 1]
      BY <2>1
    <3>2. low + 256 * high \in Nat
      BY DEF Byte
    <3> QED BY <3>1, <3>2
  <2>3. fat_next(Fat, at) = IF Odd(at) THEN v \div 16 ELSE v % 4096
    BY <2>2 DEF fat_next
  <2>4. v \div 16 \in Nat /\ v % 4096 \in Nat
    OBVIOUS
  <2> QED BY <2>3, <2>4
<1> QED BY <1>2, <1>6, <1>12, <1>13

\* Where a byte of a cluster lies in the file.
LEMMA ByteInCluster ==
  ASSUME NEW c \in Nat, c > 0, NEW n \in Nat, NEW j \in 0 .. c - 1
  PROVE  (n * c + j) \div c = n /\ (n * c + j) % c = j
<1> DEFINE a == n * c + j
           q == a \div c
           r == a % c
<1>1. a \in Nat
  OBVIOUS
<1>2. a = c * q + r /\ q \in Int /\ r \in 0 .. c - 1
  BY <1>1
<1> HIDE DEF q, r
<1>3. q = n
  <2>1. c * n - c * q = r - j /\ c * (n - q) = c * n - c * q
    BY <1>2
  <2>2. ~(n - q >= 1)
    <3> SUFFICES ASSUME n - q >= 1 PROVE FALSE
      OBVIOUS
    <3>1. c * (n - q) >= c
      BY <1>2
    <3> QED BY <1>2, <2>1, <3>1
  <2>3. ~(n - q <= -1)
    <3> SUFFICES ASSUME n - q <= -1 PROVE FALSE
      OBVIOUS
    <3>1. c * (n - q) <= -c
      BY <1>2
    <3> QED BY <1>2, <2>1, <3>1
  <2> QED BY <1>2, <2>2, <2>3
<1>4. r = j
  BY <1>2, <1>3
<1> QED BY <1>3, <1>4 DEF q, r

LEMMA ClusterIsCopied ==
  ASSUME Driven, Followed, ReadCluster, UNCHANGED imageVars
  PROVE  Copied' /\ AtChain'
<1> DEFINE w == Walk(Fat, entry.cluster)
           f == [k \in 1 .. Chunk |-> image[FileOffset + k - 1]]
           c == ClusterBytes
           len == Len(buf)
<1>1. /\ state = "read" /\ MoreToRead /\ buf' = buf \o f /\ at' = fat_next(Fat, at)
      /\ UNCHANGED <<fs, state, request, entry, answer, image>>
  BY DEF ReadCluster, imageVars
<1>2. Mountable(boot) /\ fs = Volume(boot) /\ ImageTypeOK
  BY <1>1 DEF Followed, OnVolume, Driven
<1>3. PICK n \in Nat : at = w[n] /\ len = n * c
  <2>1. PICK n \in Nat : at = w[n] /\ (len = n * c \/ len \in {entry.size, request.max})
    BY <1>1 DEF Followed, AtChain
  <2>2. /\ len < entry.size /\ len < request.max
        /\ len \in Nat /\ entry.size \in Nat /\ request.max \in Nat
    BY <1>1, ChunkFits DEF MoreToRead, Driven, Reading
  <2>3. len \notin {entry.size, request.max}
    BY <2>2
  <2> QED BY <2>1, <2>3
<1>4. /\ at \in Nat /\ at >= 2 /\ FileOffset + ClusterBytes <= ImageBytes
  BY <1>1 DEF Followed, AtChain, MoreToRead
<1>5. FileOffset \in Nat /\ fat_next(Fat, at) \in Nat
  BY <1>2, <1>4, NextIsInImage
<1>6. c \in Nat /\ c > 0
  BY <1>2, VolumeFacts
<1>7. /\ Chunk \in Nat /\ len \in Nat /\ Chunk <= c
      /\ Chunk = c \/ len + Chunk \in {entry.size, request.max}
  <2>1. Chunk \in Nat /\ len \in Nat
    BY <1>1, ChunkFits
  <2>2. PICK a \in Nat, b \in Nat : a = entry.size - len /\ b = request.max - len
    BY <1>1, <2>1 DEF MoreToRead, Driven, Reading
  <2>3. Chunk = Smaller(Smaller(c, a), b)
    BY <2>2 DEF Chunk
  <2>4. entry.size = len + a /\ request.max = len + b
    BY <1>1, <2>1, <2>2 DEF Driven, Reading
  <2> HIDE DEF c, len
  <2>5. Chunk <= c /\ (Chunk = c \/ Chunk = a \/ Chunk = b)
    BY <1>6, <2>3 DEF Smaller
  <2> QED BY <2>1, <2>4, <2>5
<1>8. Fat' = Fat /\ ClusterBytes' = ClusterBytes
      /\ \A walk, k : ByteOf(walk, k)' = ByteOf(walk, k)
  BY <1>1 DEF Fat, ImageBytes, ClusterBytes, ByteOf
<1> HIDE DEF f
<1>9. /\ Len(f) = Chunk /\ \A k \in 1 .. Chunk : f[k] = image[FileOffset + k - 1]
      /\ f = [k \in 1 .. Chunk |-> f[k]]
  BY <1>7 DEF f
<1>10. /\ Len(buf') = len + Chunk
       /\ \A k \in 1 .. len : buf'[k] = buf[k]
       /\ \A k \in 1 .. Chunk : buf'[len + k] = f[k]
  <2>1. Len(buf') = len + Chunk
    BY <1>1, <1>7, <1>9, Extended DEF Driven
  <2>2. PICK S : buf \in Seq(S)
    BY DEF Driven, IsList
  <2> DEFINE T == S \cup {f[k] : k \in 1 .. Chunk}
  <2>3. f \in Seq(T) /\ Len(f) = Chunk
    BY <1>7, <1>9
  <2>4. buf \in Seq(T)
    BY <2>2
  <2> HIDE DEF T
  <2>5. /\ \A k \in 1 .. Len(buf) + Len(f) :
            (buf \o f)[k] = IF k <= Len(buf) THEN buf[k] ELSE f[k - Len(buf)]
    BY <2>3, <2>4, ConcatProperties
  <2> QED BY <1>1, <1>7, <1>9, <2>1, <2>5
<1>11. ASSUME NEW k \in 1 .. Chunk PROVE f[k] = ByteOf(w, len + k - 1)
  <2>1. PICK j \in 0 .. c - 1 : j = k - 1
    BY <1>6, <1>7
  <2>2. len + k - 1 = n * c + j
    BY <1>3, <1>7, <2>1
  <2>3. (len + k - 1) \div c = n /\ (len + k - 1) % c = j
    BY <1>6, <2>2, ByteInCluster
  <2>4. ByteOf(w, len + k - 1) = image[FileOffset + j]
    <3> HIDE DEF w, len
    <3> QED BY <1>3, <2>3 DEF ByteOf, FileOffset
  <2>5. FileOffset + k - 1 = FileOffset + j
    BY <1>5, <2>1
  <2> QED BY <1>9, <2>4, <2>5
<1>12. Copied'
  <2> SUFFICES ASSUME NEW k \in 1 .. len + Chunk PROVE buf'[k] = ByteOf(w, k - 1)
    BY <1>1, <1>8, <1>10 DEF Copied
  <2>1. CASE k <= len
    <3>1. k \in 1 .. len
      BY <1>7, <2>1
    <3> QED BY <1>10, <3>1 DEF Followed, Copied
  <2>2. CASE ~(k <= len)
    <3>1. PICK i \in 1 .. Chunk : k = len + i
      <4>1. k - len \in 1 .. Chunk /\ k = len + (k - len)
        BY <1>7, <2>2
      <4> QED BY <4>1
    <3>2. k - 1 = len + i - 1
      BY <1>7, <3>1
    <3> QED BY <1>10, <1>11, <3>1, <3>2
  <2> QED BY <2>1, <2>2
<1>13. AtChain'
  <2>1. at' = w[n + 1]
    BY <1>1, <1>3, WalkSteps
  <2>2. Len(buf') = (n + 1) * c \/ Len(buf') \in {entry.size, request.max}
    <3>1. (n + 1) * c = n * c + c
      BY <1>6
    <3> QED BY <1>3, <1>7, <1>10, <3>1
  <2>3. n + 1 \in Nat /\ at' \in Nat
    BY <1>1, <1>5
  <2> QED BY <1>1, <1>8, <2>1, <2>2, <2>3 DEF AtChain
<1> QED BY <1>12, <1>13

LEMMA InitFollowed == DriverInit => Followed
BY DEF DriverInit, Followed, OnVolume, Copied

LEMMA NextFollowed == Driven /\ Followed /\ [Next]_vars => Followed'
<1> SUFFICES ASSUME Driven, Followed, [Next]_vars PROVE Followed'
  OBVIOUS
<1>1. UNCHANGED imageVars
  BY DEF Next, vars, imageVars
<1>2. Mountable(boot)' = Mountable(boot) /\ Volume(boot)' = Volume(boot)
  BY <1>1 DEF imageVars, Mountable, ImageBytes, Volume, RootLbaOf, RootSectorsOf
<1>3. ASSUME fs' = fs
      PROVE  /\ Fat' = Fat /\ ClusterBytes' = ClusterBytes
             /\ \A walk, k : ByteOf(walk, k)' = ByteOf(walk, k)
  BY <1>1, <1>3 DEF imageVars, Fat, ImageBytes, ClusterBytes, ByteOf
<1>4. CASE Mount
  <2>1. buf = <<>> /\ buf' = <<>> /\ state' # "read"
    BY <1>4 DEF Mount, Followed, OnVolume
  <2>2. OnVolume'
    BY <1>2, <1>4, <2>1 DEF Mount, Followed, OnVolume
  <2>3. Copied'
    BY <2>1 DEF Copied
  <2> QED BY <2>1, <2>2, <2>3 DEF Followed
<1>5. CASE OpenFile
  <2>1. PICK name \in Typed :
          /\ state = "idle" /\ buf' = <<>> /\ UNCHANGED fs
          /\ \/ state' = state
             \/ /\ Matches(name) # {} /\ state' = "read"
                /\ entry' = RootFile(name) /\ at' = RootFile(name).cluster
    BY <1>5 DEF OpenFile
  <2>2. OnVolume'
    BY <1>2, <2>1 DEF Followed, OnVolume
  <2>3. Copied'
    BY <2>1 DEF Copied
  <2>4. state' = "read" => AtChain'
    <3> SUFFICES ASSUME state' = "read" PROVE AtChain'
      OBVIOUS
    <3>1. /\ Matches(name) # {} /\ entry' = RootFile(name)
          /\ at' = RootFile(name).cluster
      BY <2>1
    <3>2. at' \in Nat
      BY <3>1, FoundIsSized
    <3>3. at' = Walk(Fat', entry'.cluster)[0]
      BY <3>1, WalkSteps
    <3>4. Len(buf') = 0 * ClusterBytes'
      <4>1. ClusterBytes \in Nat
        BY <2>1, VolumeFacts DEF Driven, Followed, OnVolume
      <4> QED BY <1>3, <2>1, <4>1
    <3> QED BY <3>2, <3>3, <3>4 DEF AtChain
  <2> QED BY <2>2, <2>3, <2>4 DEF Followed
<1>6. CASE ReadCluster
  <2>1. OnVolume'
    BY <1>2, <1>6 DEF ReadCluster, Followed, OnVolume
  <2> QED BY <1>1, <1>6, <2>1, ClusterIsCopied DEF Followed
<1>7. CASE EndRead \/ Dir \/ ListRoot \/ UNCHANGED vars
  <2>1. UNCHANGED <<fs, request, entry, at, buf>>
    BY <1>7 DEF EndRead, Dir, ListRoot, vars
  <2>2. Copied'
    BY <1>3, <2>1 DEF Followed, Copied
  <2>3. OnVolume'
    BY <1>2, <1>7, <2>1 DEF EndRead, Dir, ListRoot, vars, Followed, OnVolume
  <2>4. state' = "read" => AtChain'
    <3> SUFFICES ASSUME state' = "read" PROVE AtChain'
      OBVIOUS
    <3>1. state = "read"
      BY <1>7 DEF EndRead, Dir, ListRoot, vars
    <3> QED BY <1>3, <2>1, <3>1 DEF Followed, AtChain
  <2> QED BY <2>2, <2>3, <2>4 DEF Followed
<1> QED BY <1>4, <1>5, <1>6, <1>7 DEF Next, DriverNext, Working

-----------------------------------------------------------------------------
(* Theorems. *)

\* read_file returns 1 only when the buffer holds the whole file, or max_len bytes
\* of it: a chain that ends or leaves the image too early is an error.
THEOREM SuccessMeansAll == DriverSpec => []SuccessIsComplete
<1>1. ImageTypeOK /\ DriverInit => Driven
  BY InitDriven
<1>2. Driven => SuccessIsComplete
  BY DEF Driven, Reading, SuccessIsComplete
<1> QED BY <1>1, <1>2, NextDriven, PTL DEF DriverSpec

\* Whatever the directory and the FAT hold, what read_file has copied is what the
\* chain of the entry holds, byte for byte, and never more than the size in the
\* entry or max_len: also along a chain that circles or runs out of the image.
THEOREM ReadsFollowChains == DriverSpec => []ReadFollowsChain
<1>1. ImageTypeOK /\ DriverInit => Driven /\ Followed
  BY InitDriven, InitFollowed
<1>2. Driven /\ Followed /\ [Next]_vars => Driven' /\ Followed'
  BY NextDriven, NextFollowed
<1>3. Driven /\ Followed => ReadFollowsChain
  BY DEF Driven, Reading, Followed, Copied, ReadFollowsChain
<1> QED BY <1>1, <1>2, <1>3, PTL DEF DriverSpec

\* The bytes one turn of the loop of read_file takes from the image: the chunk it
\* copies and the two bytes of the entry that fat_next reads.
BytesTaken ==
  {FileOffset + k - 1 : k \in 1 .. Chunk}
  \cup {fs.reserved_sectors * SectorBytes + Offset(at) + k : k \in 0 .. 1}

ReadsInside == state = "read" /\ MoreToRead => BytesTaken \subseteq DOMAIN image

\* No read leaves the image, whatever the directory and the FAT hold: the one guard
\* on the cluster's bytes covers the entry in the FAT too, which has no guard.
THEOREM ReadsStayInside == DriverSpec => []ReadsInside
<1>1. ImageTypeOK /\ DriverInit => Driven /\ Followed
  BY InitDriven, InitFollowed
<1>2. Driven /\ Followed /\ [Next]_vars => Driven' /\ Followed'
  BY NextDriven, NextFollowed
<1>3. Driven /\ Followed => ReadsInside
  <2> SUFFICES ASSUME Driven, Followed, state = "read", MoreToRead
               PROVE  BytesTaken \subseteq DOMAIN image
    BY DEF ReadsInside
  <2>1. /\ ImageTypeOK /\ Mountable(boot) /\ fs = Volume(boot)
        /\ at \in Nat /\ at >= 2 /\ FileOffset + ClusterBytes <= ImageBytes
    BY DEF Driven, Followed, OnVolume, AtChain, MoreToRead
  <2>2. /\ FileOffset \in Nat
        /\ Offset(at) \in DOMAIN Fat /\ Offset(at) + 1 \in DOMAIN Fat
    BY <2>1, NextIsInImage
  <2>3. ImageBytes \in Nat /\ DOMAIN image = 0 .. ImageBytes - 1
    BY <2>1 DEF ImageTypeOK
  <2>4. ClusterBytes \in Nat /\ fs.reserved_sectors \in Nat
    BY <2>1, VolumeFacts
  <2>5. Chunk \in Nat /\ Chunk <= ClusterBytes
    <3>1. PICK a \in Nat, b \in Nat :
            a = entry.size - Len(buf) /\ b = request.max - Len(buf)
      BY ChunkFits DEF MoreToRead, Driven, Reading
    <3>2. Chunk = Smaller(Smaller(ClusterBytes, a), b)
      BY <3>1 DEF Chunk
    <3> QED BY <2>4, <3>2 DEF Smaller
  <2>6. \A k \in 1 .. Chunk : FileOffset + k - 1 \in 0 .. ImageBytes - 1
    <3> TAKE k \in 1 .. Chunk
    <3>1. PICK x \in Nat, c \in Nat : x = FileOffset /\ c = ClusterBytes
      BY <2>2, <2>4
    <3> QED BY <2>1, <2>3, <2>5, <3>1
  <2>7. PICK e \in Nat : e = fs.reserved_sectors * SectorBytes
    <3>1. fs.reserved_sectors * SectorBytes \in Nat
      BY <2>4, Products, DriverAssumption
    <3> QED BY <3>1
  <2>8. DOMAIN Fat = 0 .. ImageBytes - e - 1
    BY <2>7 DEF Fat
  <2>9. /\ e + Offset(at) + 0 \in 0 .. ImageBytes - 1
        /\ e + Offset(at) + 1 \in 0 .. ImageBytes - 1
    BY <2>2, <2>3, <2>7, <2>8
  <2> QED BY <2>3, <2>6, <2>7, <2>9 DEF BytesTaken
<1> QED BY <1>1, <1>2, <1>3, PTL DEF DriverSpec

\* What read_file has still to copy, and cmd_dir still to ask for.
BytesLeft == Smaller(entry.size, request.max) - Len(buf)
EntriesLeft == fs.root_entries - cursor

LEMMA ChunkIsSome ==
  ASSUME Driven, Followed, state = "read", MoreToRead
  PROVE  Chunk > 0 /\ Chunk \in Nat /\ Len(buf) \in Nat
<1>1. Chunk \in Nat /\ Len(buf) \in Nat
  BY ChunkFits
<1>2. entry.size \in Nat /\ request.max \in Nat /\ Len(buf) < entry.size /\ Len(buf) < request.max
  BY DEF Driven, Reading, MoreToRead
<1>3. ClusterBytes \in Nat /\ ClusterBytes > 0
  <2>1. ImageTypeOK /\ Mountable(boot) /\ fs = Volume(boot)
    BY DEF Driven, Followed, OnVolume
  <2> QED BY <2>1, VolumeFacts
<1> DEFINE b == entry.size - Len(buf)
           c == request.max - Len(buf)
<1>4. b \in Nat /\ b > 0 /\ c \in Nat /\ c > 0
  BY <1>1, <1>2
<1>5. Chunk = Smaller(Smaller(ClusterBytes, b), c)
  BY DEF Chunk
<1> HIDE DEF b, c
<1>6. Chunk > 0
  BY <1>3, <1>4, <1>5 DEF Smaller
<1> QED BY <1>1, <1>6

\* Whatever a FAT holds, a chain that circles included, a turn of read_file's loop
\* goes on with fewer bytes to come, so that the loop has no more turns than the
\* caller's buffer has bytes.
THEOREM ReadsAreBounded ==
  DriverSpec => /\ [](state = "read" => BytesLeft \in Nat)
                /\ [][ReadCluster => BytesLeft' < BytesLeft]_vars
<1>1. Driven => (state = "read" => BytesLeft \in Nat)
  <2> SUFFICES ASSUME Driven, state = "read" PROVE BytesLeft \in Nat
    OBVIOUS
  <2>1. /\ entry.size \in Nat /\ request.max \in Nat
        /\ Len(buf) <= entry.size /\ Len(buf) <= request.max
    BY DEF Driven, Reading
  <2>2. PICK S : buf \in Seq(S)
    BY DEF Driven, IsList
  <2>3. Len(buf) \in Nat
    BY <2>2
  <2> QED BY <2>1, <2>3 DEF BytesLeft, Smaller
<1>2. Driven /\ Followed /\ [Next]_vars => [ReadCluster => BytesLeft' < BytesLeft]_vars
  <2> SUFFICES ASSUME Driven, Followed, ReadCluster PROVE BytesLeft' < BytesLeft
    OBVIOUS
  <2> DEFINE f == [k \in 1 .. Chunk |-> image[FileOffset + k - 1]]
  <2>1. /\ state = "read" /\ MoreToRead /\ buf' = buf \o f /\ UNCHANGED <<request, entry>>
    BY DEF ReadCluster
  <2>2. Chunk \in Nat /\ Chunk > 0 /\ Len(buf) \in Nat
    BY <2>1, ChunkIsSome
  <2>3. f = [k \in 1 .. Chunk |-> f[k]]
    OBVIOUS
  <2> HIDE DEF f
  <2>4. Len(buf') = Len(buf) + Chunk
    BY <2>1, <2>2, <2>3, Extended DEF Driven
  <2>5. Smaller(entry.size, request.max) \in Nat
    BY <2>1 DEF Driven, Reading, Smaller
  <2> QED BY <2>1, <2>2, <2>4, <2>5 DEF BytesLeft
<1>3. ImageTypeOK /\ DriverInit => Driven /\ Followed
  BY InitDriven, InitFollowed
<1>4. Driven /\ Followed /\ [Next]_vars => Driven' /\ Followed'
  BY NextDriven, NextFollowed
<1> QED BY <1>1, <1>2, <1>3, <1>4, PTL DEF DriverSpec

\* The cursor of cmd_dir, which a mount does not move.
CursorOK ==
  /\ cursor \in Nat /\ cursor <= fs.root_entries
  /\ state = "off" => cursor = 0

LEMMA AheadIsAhead ==
  ASSUME Driven, CursorOK, Ahead # {}
  PROVE  Least(Ahead) \in Nat /\ Least(Ahead) >= cursor /\ Least(Ahead) < fs.root_entries
<1>1. Ahead \subseteq {i \in 0 .. fs.root_entries - 1 : i >= cursor} /\ fs.root_entries \in Nat
  BY DEF Ahead, Usable, Driven, Mounted
<1>2. Ahead \in SUBSET Nat
  BY <1>1
<1>3. Least(Ahead) \in Ahead
  BY <1>2, LeastFound
<1>4. Least(Ahead) \in 0 .. fs.root_entries - 1 /\ Least(Ahead) >= cursor
  BY <1>1, <1>3
<1> QED BY <1>1, <1>4

LEMMA NextCursorOK == Driven /\ Driven' /\ CursorOK /\ [Next]_vars => CursorOK'
<1> SUFFICES ASSUME Driven, Driven', CursorOK, [Next]_vars PROVE CursorOK'
  OBVIOUS
<1>1. CASE Mount
  <2>1. cursor = 0 /\ cursor' = 0 /\ state' # "off"
    BY <1>1 DEF Mount, CursorOK
  <2>2. fs'.root_entries \in Nat
    BY DEF Driven, Mounted
  <2> QED BY <2>1, <2>2 DEF CursorOK
<1>2. CASE Dir
  BY <1>2 DEF Dir, CursorOK, Driven, Mounted
<1>3. CASE ListRoot
  <2>1. CASE Ahead # {}
    <3>1. cursor' = Least(Ahead) + 1 /\ fs' = fs /\ state' = "list"
      BY <1>3, <2>1 DEF ListRoot, CursorAfter
    <3>2. fs.root_entries \in Nat
      BY DEF Driven, Mounted
    <3> QED BY <2>1, <3>1, <3>2, AheadIsAhead DEF CursorOK
  <2>2. CASE Ahead = {}
    BY <1>3, <2>2 DEF ListRoot, CursorOK
  <2> QED BY <2>1, <2>2
<1>4. CASE OpenFile \/ ReadCluster \/ EndRead
  BY <1>4 DEF OpenFile, ReadCluster, EndRead, CursorOK
<1>5. CASE UNCHANGED vars
  BY <1>5 DEF vars, CursorOK
<1> QED BY <1>1, <1>2, <1>3, <1>4, <1>5 DEF Next, DriverNext, Working

\* DIR ends for every root directory: a call of list_root that returns an entry
\* leaves fewer behind it, deleted entries and labels it passes over included.
THEOREM ListingsAreBounded ==
  DriverSpec => /\ [](EntriesLeft \in Nat)
                /\ [][ListRoot /\ state' = "list" => EntriesLeft' < EntriesLeft]_vars
<1>1. Driven /\ CursorOK => EntriesLeft \in Nat
  BY DEF Driven, Mounted, CursorOK, EntriesLeft
<1>2. Driven /\ CursorOK /\ [Next]_vars =>
        [ListRoot /\ state' = "list" => EntriesLeft' < EntriesLeft]_vars
  <2> SUFFICES ASSUME Driven, CursorOK, ListRoot, state' = "list" PROVE EntriesLeft' < EntriesLeft
    OBVIOUS
  <2>1. Ahead # {} /\ cursor' = Least(Ahead) + 1 /\ fs' = fs
    BY DEF ListRoot, CursorAfter
  <2>2. fs.root_entries \in Nat /\ cursor \in Nat
    BY DEF Driven, Mounted, CursorOK
  <2> QED BY <2>1, <2>2, AheadIsAhead DEF EntriesLeft
<1>3. DriverInit => CursorOK
  BY DEF DriverInit, CursorOK, NoVolume
<1> QED BY <1>1, <1>2, <1>3, InitDriven, NextDriven, NextCursorOK, PTL DEF DriverSpec
=============================================================================
