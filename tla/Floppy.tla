------------------------------- MODULE Floppy -------------------------------
(***************************************************************************)
(* A floppy image from its making to its use: mkfloppy.py builds it,       *)
(* validate-image.py looks it over, and the FAT12 driver of the kernel     *)
(* mounts it and reads it.  The two sides were written apart, in Python    *)
(* and in C, and share nothing but the bytes of the image.                 *)
(***************************************************************************)
EXTENDS ImageBuilder

CONSTANTS
  Typed,    \* the names a user asks for
  Limits,   \* the values of max_len callers pass
  Required  \* the names validate-image.py insists on

ASSUME LimitsAssumption == Limits \subseteq Nat

\* No required name ends in a dot.
ASSUME RequiredAssumption ==
  \A name \in Required : name # <<>> /\ name[Len(name)] # "."

VARIABLES fs, state, request, entry, at, buf, answer, cursor, listed

Driver == INSTANCE Fat12 WITH boot <- host.stage1, SectorBytes <- BytesPerSector

driverVars == <<fs, state, request, entry, at, buf, answer, cursor, listed>>
vars == <<host, phase, fat, image, root, manifest, index, next_cluster, first_cluster,
          cluster, fs, state, request, entry, at, buf, answer, cursor, listed>>

Init == BuildInit /\ Driver!DriverInit

Build == BuildNext /\ UNCHANGED driverVars
Use(A) == phase = "written" /\ A /\ UNCHANGED buildVars

Mount == Use(Driver!Mount)
OpenFile == Use(Driver!OpenFile)
ReadCluster == Use(Driver!ReadCluster)
EndRead == Use(Driver!EndRead)
Dir == Use(Driver!Dir)
ListRoot == Use(Driver!ListRoot)

Next ==
  Build \/ Mount \/ OpenFile \/ ReadCluster \/ EndRead \/ Dir \/ ListRoot

Spec == Init /\ [][Next]_vars

TypeOK == BuildTypeOK /\ Driver!DriverTypeOK
-----------------------------------------------------------------------------
(* scripts/validate-image.py *)

Names == {entry_name(root[i].name) : i \in {j \in DOMAIN root : root[j] # Free}}

\* A later entry of the same name takes the place of an earlier one.
KernelEntries ==
  {i \in DOMAIN root : root[i] # Free /\ entry_name(root[i].name) = KernelName}
KernelEntry ==
  root[CHOOSE i \in KernelEntries : \A j \in KernelEntries : j <= i]

Validates ==
  /\ GoodStage1(host.stage1)
  /\ KernelEntries # {}
  /\ manifest.kernel_lba = DataLba + KernelEntry.cluster - 2
  /\ manifest.kernel_size = KernelEntry.size
  /\ manifest.kernel_sectors # 0
  /\ Required \subseteq Names
-----------------------------------------------------------------------------
(* Properties. *)

\* What a host directory holds, under the names the image gives it; the first of
\* two files of one name is the one that is found.
Named(h, key) ==
  {i \in 1 .. Len(Files(h)) :
     IsDosName(Files(h)[i].name) /\ dos_name(Files(h)[i].name) = key}
Holds(h, key) == Named(h, key) # {}
ContentsOf(h, key) ==
  Files(h)[CHOOSE i \in Named(h, key) : \A j \in Named(h, key) : i <= j].data

\* The driver gives back what the builder was given, whole or cut to max_len,
\* through chains, shared FAT bytes, part-filled clusters and empty files.
Key == [name \in Typed \cup {<<>>} |-> IF Is83(name) THEN make_83(name) ELSE <<>>]
Asked == [key |-> Key[request.name], max |-> request.max]
Files12 == INSTANCE FileStore WITH
  Has <- Holds, Contents <- ContentsOf, store <- host, asked <- Asked, busy <- state = "read", ok <- answer,
  data <- IF state = "read" THEN <<>> ELSE buf
ImplementsFileStore == Files12!Spec

\* An image that validate-image.py accepts is one the boot loader can use: the
\* sectors the manifest names, read in one run without the FAT, are the kernel.
KernelWhereManifestSays ==
  phase = "written" /\ Validates =>
    /\ manifest.kernel_size = Len(host.kernel)
    /\ manifest.kernel_sectors * BytesPerSector >= Len(host.kernel)
    /\ \A k \in 1 .. Len(host.kernel) :
         image[manifest.kernel_lba * BytesPerSector + k - 1] = host.kernel[k]

\* validate-image.py accepts what mkfloppy.py makes of a kernel that is not empty
\* and a directory that holds the required files.
BuiltImagesValidate ==
  (phase = "written" /\ host.kernel # <<>>
     /\ Required \subseteq {UpperCase(Files(host)[i].name) : i \in DOMAIN Files(host)})
  => Validates

\* DIR shows every file of the image once, in order, and a name it shows is a
\* name the driver finds (entry_name against make_83).
Listed(i) ==
  /\ i <= Len(Files(host))
  /\ listed[i].size = Len(Files(host)[i].data)
  /\ Is83(listed[i].name) /\ make_83(listed[i].name) = root[i - 1].name
ListingComplete ==
  /\ \A i \in DOMAIN listed : Listed(i)
  /\ state = "idle" /\ cursor > 0 => Len(listed) = Len(Files(host))
=============================================================================
