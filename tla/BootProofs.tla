----------------------------- MODULE BootProofs -----------------------------
(***************************************************************************)
(* Proofs about Boot, for floppies, memory layouts and first bytes of any  *)
(* kind.  The invariant adds to the properties what each phase has done:   *)
(* the manifest in memory is that of the floppy in the drive as soon as    *)
(* stage 1 is past it, the sectors below current_lba are in place, and     *)
(* unreal mode is on when the kernel is copied.                            *)
(***************************************************************************)
EXTENDS Boot, TLAPS

AfterStage1 == {"stage2", "load", "copy", "verify", "copied", "kmain", "running"}
AfterLoad == {"verify", "copied", "kmain", "running"}
AfterCopy == {"copied", "kmain", "running"}

ManifestRead ==
  /\ pc = "stage1" => (lba > ManifestLba => manifest = disk.manifest)
  /\ pc \in AfterStage1 => manifest = disk.manifest

LoadedUpTo(n) == \A k \in 0 .. n - 1 : ram[ImageBase + k] = disk.sectors[k]

Loaded ==
  /\ pc \in {"load", "copy"} => lba <= manifest.total /\ LoadedUpTo(lba)
  /\ pc = "copy" => lba < manifest.total /\ bounce = disk.sectors[lba]
  /\ pc \in AfterLoad /\ Built(disk) => LoadedUpTo(Total)

KernelCopied ==
  pc \in AfterCopy /\ Built(disk) =>
    \A k \in 0 .. disk.manifest.kernel_sectors - 1 :
      ram[KernelLoad + k] = disk.sectors[disk.manifest.kernel_lba + k]

InfoWritten ==
  Handed => /\ info.image_base = ImageBase /\ info.image_size = Total
            /\ info # NoInfo

ModeKept == pc = "verify" => unreal

Inductive ==
  /\ TypeOK /\ ManifestRead /\ Loaded /\ KernelCopied /\ InfoWritten /\ ModeKept
  /\ OnlyTheDriveStopsIt /\ OnlyA20Crashes

-----------------------------------------------------------------------------
(* What the assumptions say of the floppy in the drive. *)

LEMMA DiskFacts ==
  ASSUME disk \in Floppies
  PROVE  /\ disk.sectors \in [Lba -> Sector] /\ disk.manifest \in Manifest
         /\ disk.manifest.total \in 0 .. Total
         /\ disk.manifest.kernel_lba \in Lba
         /\ disk.manifest.kernel_sectors \in 0 .. Total
         /\ disk.manifest.kernel_lba + disk.manifest.kernel_sectors <= Total
BY FloppyAssumption DEF Manifest

LEMMA Layout ==
  /\ Total \in Nat /\ RamSectors \in Nat /\ ImageBase \in Nat /\ KernelLoad \in Nat
  /\ Total > 0 /\ ImageBase + Total <= KernelLoad /\ KernelLoad + Total <= RamSectors
  /\ ManifestLba \in Nat /\ Stage2Sectors \in Nat /\ ManifestLba >= 1
  /\ ManifestLba <= Stage2Sectors /\ Stage2Sectors < Total
  /\ MaxBoots \in Nat /\ Junk \in Sector
BY LayoutAssumption

LEMMA InitInductive == Init => Inductive
<1> SUFFICES ASSUME Init PROVE Inductive
    OBVIOUS
<1>1. NoManifest \in Manifest /\ NoInfo \in [image_base : Addr, image_size : 0 .. Total, kernel_load : Addr]
  BY Layout DEF NoManifest, Manifest, NoInfo, Addr, Lba
<1>2. TypeOK
  <2>1. disk \in Floppies /\ pc = "stage1" /\ lba = 1 /\ manifest \in Manifest /\ bounce \in Sector
    BY <1>1, Layout DEF Init
  <2>2. lba \in 0 .. Total /\ boots \in 0 .. MaxBoots
    <3>1. 1 \in 0 .. Total /\ 0 \in 0 .. MaxBoots
      BY Layout
    <3> QED
      BY <3>1 DEF Init
  <2>3. ram \in [Addr -> Sector] /\ unreal \in BOOLEAN /\ a20 \in BOOLEAN
        /\ info \in [image_base : Addr, image_size : 0 .. Total, kernel_load : Addr]
    BY <1>1, Layout DEF Init
  <2> QED
    BY <2>1, <2>2, <2>3 DEF TypeOK
<1> QED
  <2>1. pc = "stage1" /\ ~(lba > ManifestLba)
    <3>1. ~(1 > ManifestLba)
      BY Layout
    <3> QED
      BY <3>1 DEF Init
  <2> QED
    BY <1>2, <2>1 DEF Inductive, ManifestRead, Loaded, KernelCopied, InfoWritten, ModeKept,
       OnlyTheDriveStopsIt, OnlyA20Crashes, AfterStage1, AfterLoad, AfterCopy, Handed

-----------------------------------------------------------------------------
(* A halt, a crash and a reset keep the invariant wherever they happen. *)

LEMMA HaltKeeps ==
  ASSUME Inductive, NEW text, Halt(text), Built(disk) => text = "Disk read error"
  PROVE  Inductive'
<1>1. TypeOK'
  BY DEF Inductive, TypeOK, Halt, low, Ends
<1> QED
  BY <1>1 DEF Inductive, Halt, low, ManifestRead, Loaded, KernelCopied, InfoWritten, ModeKept,
     OnlyTheDriveStopsIt, OnlyA20Crashes, AfterStage1, AfterLoad, AfterCopy, Handed, Built

LEMMA CrashKeeps ==
  ASSUME Inductive, Crash, ~a20
  PROVE  Inductive'
<1>1. TypeOK'
  BY DEF Inductive, TypeOK, Crash, low, Ends
<1> QED
  BY <1>1 DEF Inductive, Crash, low, ManifestRead, Loaded, KernelCopied, InfoWritten, ModeKept,
     OnlyTheDriveStopsIt, OnlyA20Crashes, AfterStage1, AfterLoad, AfterCopy, Handed

LEMMA ResetKeeps ==
  ASSUME Inductive, Reset
  PROVE  Inductive'
<1>0. 1 \in 0 .. Total /\ ~(1 > ManifestLba) /\ lba' = 1 /\ pc' = "stage1"
  <2>1. 1 \in 0 .. Total /\ ~(1 > ManifestLba)
    BY Layout
  <2> QED
    BY <2>1 DEF Reset
<1>1. TypeOK'
  <2>1. boots' \in 0 .. MaxBoots
    <3>1. boots \in 0 .. MaxBoots
      BY DEF Inductive, TypeOK
    <3>2. boots < MaxBoots /\ boots' = boots + 1
      BY DEF Reset
    <3> QED
      BY <3>1, <3>2, Layout
  <2> QED
    BY <1>0, <2>1 DEF Inductive, TypeOK, Reset, low
<1> QED
  <2>1. pc' = "stage1" /\ ~(lba' > ManifestLba)
    BY <1>0
  <2> QED
    BY <1>1, <2>1 DEF Inductive, ManifestRead, Loaded, KernelCopied, InfoWritten, ModeKept,
       OnlyTheDriveStopsIt, OnlyA20Crashes, AfterStage1, AfterLoad, AfterCopy, Handed

-----------------------------------------------------------------------------
(* The steps of the loader, one lemma each. *)

LEMMA Stage1ReadKeeps ==
  ASSUME Inductive, Stage1Read
  PROVE  Inductive'
<1>1. CASE DiskError
  BY <1>1, HaltKeeps DEF DiskError
<1>2. CASE ~DiskError
  <2>1. /\ pc = "stage1" /\ lba <= Stage2Sectors /\ lba' = lba + 1 /\ pc' = pc
        /\ manifest' = IF lba = ManifestLba THEN disk.manifest ELSE manifest
        /\ UNCHANGED <<disk, msg, bounce, ram, unreal, a20, info, boots>>
    BY <1>2, Layout DEF Stage1Read, Stage2Loaded, Inductive, TypeOK
  <2>2. TypeOK'
    BY <2>1, Layout, DiskFacts DEF Inductive, TypeOK
  <2>3. ManifestRead'
    BY <2>1, Layout DEF Inductive, TypeOK, ManifestRead, AfterStage1
  <2> QED
    BY <2>1, <2>2, <2>3 DEF Inductive, Loaded, KernelCopied, InfoWritten, ModeKept,
       OnlyTheDriveStopsIt, OnlyA20Crashes, AfterLoad, AfterCopy, Handed
<1> QED
  BY <1>1, <1>2

LEMMA Stage1JumpKeeps ==
  ASSUME Inductive, Stage1Jump
  PROVE  Inductive'
<1>1. TypeOK'
  BY DEF Inductive, TypeOK, Stage1Jump, low
<1>2. ManifestRead'
  BY Layout DEF Inductive, TypeOK, Stage1Jump, Stage2Loaded, ManifestRead, AfterStage1, low
<1> QED
  BY <1>1, <1>2 DEF Inductive, Stage1Jump, Loaded, KernelCopied, InfoWritten, ModeKept,
     OnlyTheDriveStopsIt, OnlyA20Crashes, AfterLoad, AfterCopy, Handed

LEMMA Stage2StartKeeps ==
  ASSUME Inductive, Stage2Start
  PROVE  Inductive'
<1>1. CASE Halt("Manifest error") /\ ~manifest.magic
  <2>1. ~Built(disk)
    BY <1>1 DEF Inductive, ManifestRead, AfterStage1, Stage2Start, Built
  <2> QED
    BY <1>1, <2>1, HaltKeeps
<1>2. CASE manifest.magic
  <2>1. /\ pc = "stage2" /\ pc' = "load" /\ lba' = 0 /\ a20' \in BOOLEAN /\ unreal' \in BOOLEAN
        /\ UNCHANGED <<disk, msg, ram, low, boots>>
    BY <1>2 DEF Stage2Start, EnteredMode
  <2>2. manifest = disk.manifest /\ disk \in Floppies
    BY <2>1 DEF Inductive, TypeOK, ManifestRead, AfterStage1
  <2>3. TypeOK'
    BY <2>1, Layout DEF Inductive, TypeOK, low
  <2>4. Loaded'
    BY <2>1, <2>2, DiskFacts DEF Loaded, LoadedUpTo, AfterLoad, low
  <2> QED
    BY <2>1, <2>2, <2>3, <2>4 DEF Inductive, ManifestRead, KernelCopied, InfoWritten, ModeKept,
       OnlyTheDriveStopsIt, OnlyA20Crashes, AfterStage1, AfterCopy, Handed, low
<1> QED
  BY <1>1, <1>2 DEF Stage2Start

LEMMA ReadSectorKeeps ==
  ASSUME Inductive, ReadSector
  PROVE  Inductive'
<1>1. CASE DiskError
  BY <1>1, HaltKeeps DEF DiskError
<1>2. CASE ~DiskError
  <2>1. /\ pc = "load" /\ ~(lba >= manifest.total)
        /\ bounce' = disk.sectors[lba] /\ unreal' \in {unreal, FALSE} /\ pc' = "copy"
        /\ UNCHANGED <<disk, msg, lba, ram, a20, manifest, info, boots>>
    BY <1>2 DEF ReadSector, LoadDone, AfterBios
  <2>2. manifest = disk.manifest /\ disk \in Floppies /\ lba \in Nat
    BY <2>1, Layout DEF Inductive, TypeOK, ManifestRead, AfterStage1
  <2>3. lba < manifest.total /\ lba \in Lba
    BY <2>1, <2>2, DiskFacts, Layout DEF Lba
  <2>4. TypeOK'
    BY <2>1, <2>2, <2>3, DiskFacts DEF Inductive, TypeOK
  <2>5. Loaded'
    BY <2>1, <2>3 DEF Inductive, Loaded, LoadedUpTo, AfterLoad
  <2> QED
    BY <2>1, <2>2, <2>4, <2>5 DEF Inductive, ManifestRead, KernelCopied, InfoWritten, ModeKept,
       OnlyTheDriveStopsIt, OnlyA20Crashes, AfterStage1, AfterCopy, Handed
<1> QED
  BY <1>1, <1>2

LEMMA CopySectorKeeps ==
  ASSUME Inductive, CopySector
  PROVE  Inductive'
<1>0. /\ pc = "copy" /\ manifest = disk.manifest /\ disk \in Floppies /\ lba \in Nat
      /\ lba < manifest.total /\ bounce = disk.sectors[lba] /\ lba \in Lba
  <2>1. pc = "copy" /\ disk \in Floppies /\ lba \in 0 .. Total
    BY DEF CopySector, Inductive, TypeOK
  <2>2. manifest = disk.manifest /\ lba \in Nat
    BY <2>1, Layout DEF Inductive, ManifestRead, AfterStage1
  <2> QED
    BY <2>1, <2>2, DiskFacts, Layout DEF Inductive, Loaded, Lba
<1>1. CASE BadBounce /\ Halt("Kernel read error")
  <2>1. ~Built(disk)
    BY <1>0, <1>1 DEF BadBounce, Built
  <2> QED
    BY <1>1, <2>1, HaltKeeps
<1>2. CASE ~(EnteredMode /\ a20) /\ Crash
  BY <1>2, CrashKeeps DEF EnteredMode
<1>3. CASE ~BadBounce /\ EnteredMode /\ a20
  <2>1. /\ ram' = [ram EXCEPT ![ImageBase + lba] = bounce] /\ pc' = "load"
        /\ lba' = lba + 1 /\ unreal' = TRUE
        /\ UNCHANGED <<disk, msg, a20, low, boots>>
    BY <1>3 DEF CopySector, NextLba
  <2>2. TypeOK'
    <3>1. lba' \in 0 .. Total
      BY <2>1, <1>0, Layout DEF Lba
    <3>2. bounce \in Sector /\ ram \in [Addr -> Sector]
      BY DEF Inductive, TypeOK
    <3>3. ram' \in [Addr -> Sector]
      BY <2>1, <3>2
    <3> QED
      BY <2>1, <3>1, <3>3 DEF Inductive, TypeOK, low
  <2>3. LoadedUpTo(lba)
    BY <1>0 DEF Inductive, Loaded
  <2>4. ram \in [Addr -> Sector] /\ ImageBase + lba \in Addr
    BY <1>0, Layout DEF Inductive, TypeOK, Addr, Lba
  <2>5. Loaded'
    <3>1. \A k \in 0 .. lba : ram'[ImageBase + k] = disk'.sectors[k]
      <4> SUFFICES ASSUME NEW k \in 0 .. lba PROVE ram'[ImageBase + k] = disk.sectors[k]
          BY <2>1
      <4>1. CASE k = lba
        BY <4>1, <2>1, <2>4, <1>0
      <4>2. CASE k # lba
        <5>1. k \in 0 .. lba - 1 /\ ImageBase + k # ImageBase + lba /\ ImageBase + k \in Addr
          BY <4>2, <1>0, Layout DEF Addr, Lba
        <5>2. ram'[ImageBase + k] = ram[ImageBase + k]
          BY <5>1, <2>1, <2>4
        <5> QED
          BY <5>1, <5>2, <2>3 DEF LoadedUpTo
      <4> QED
        BY <4>1, <4>2
    <3>2. lba' <= manifest'.total /\ lba' - 1 = lba
      BY <1>0, <2>1, DiskFacts DEF low
    <3> QED
      BY <3>1, <3>2, <2>1 DEF Loaded, LoadedUpTo, AfterLoad
  <2> QED
    BY <1>0, <2>1, <2>2, <2>5 DEF Inductive, ManifestRead, KernelCopied, InfoWritten, ModeKept,
       OnlyTheDriveStopsIt, OnlyA20Crashes, AfterStage1, AfterCopy, Handed, low
<1> QED
  BY <1>1, <1>2, <1>3 DEF CopySector

LEMMA LoadEndKeeps ==
  ASSUME Inductive, LoadEnd
  PROVE  Inductive'
<1>1. /\ pc = "load" /\ lba >= manifest.total /\ pc' = "verify" /\ unreal' = TRUE
      /\ UNCHANGED <<disk, msg, lba, ram, a20, low, boots>>
  BY DEF LoadEnd, LoadDone, EnteredMode
<1>2. manifest = disk.manifest /\ disk \in Floppies /\ lba \in 0 .. Total /\ LoadedUpTo(lba)
  BY <1>1 DEF Inductive, TypeOK, ManifestRead, AfterStage1, Loaded
<1>3. TypeOK'
  BY <1>1 DEF Inductive, TypeOK, low
<1>4. Built(disk) => lba = Total
  BY <1>1, <1>2, Layout DEF Built
<1>5. Loaded'
  BY <1>1, <1>2, <1>4 DEF Loaded, LoadedUpTo, AfterLoad, Built
<1> QED
  BY <1>1, <1>2, <1>3, <1>5 DEF Inductive, ManifestRead, KernelCopied, InfoWritten, ModeKept,
     OnlyTheDriveStopsIt, OnlyA20Crashes, AfterStage1, AfterCopy, Handed, low

\* What the loader knows of a floppy of the builder once it is loaded.
LEMMA LoadedFloppy ==
  ASSUME Inductive, pc \in AfterLoad, Built(disk)
  PROVE  /\ ram[ImageBase] = disk.sectors[0]
         /\ ram[ImageBase + disk.manifest.kernel_lba] = disk.sectors[disk.manifest.kernel_lba]
<1>1. LoadedUpTo(Total) /\ disk \in Floppies
  BY DEF Inductive, Loaded, TypeOK
<1>2. 0 \in 0 .. Total - 1 /\ disk.manifest.kernel_lba \in 0 .. Total - 1 /\ ImageBase + 0 = ImageBase
  BY <1>1, DiskFacts, Layout DEF Lba
<1> QED
  BY <1>1, <1>2 DEF LoadedUpTo

LEMMA CopyKernelKeeps ==
  ASSUME Inductive, CopyKernel
  PROVE  Inductive'
<1>0. /\ pc = "verify" /\ manifest = disk.manifest /\ disk \in Floppies /\ unreal
      /\ ram \in [Addr -> Sector] /\ manifest \in Manifest
  BY DEF CopyKernel, Inductive, TypeOK, ManifestRead, AfterStage1, ModeKept
<1>1. CASE ~(unreal /\ a20) /\ Crash
  BY <1>0, <1>1, CrashKeeps
<1>2. CASE FirstByte[ram[ImageBase]] # "EB" /\ Halt("Image base error")
  <2>1. ~Built(disk)
    BY <1>0, <1>2, LoadedFloppy DEF AfterLoad, Built
  <2> QED
    BY <1>2, <2>1, HaltKeeps
<1>3. CASE FirstByte[ram[Source]] # "FC" /\ Halt("Kernel source error")
  <2>1. ~Built(disk)
    BY <1>0, <1>3, LoadedFloppy DEF AfterLoad, Built, Source
  <2> QED
    BY <1>3, <2>1, HaltKeeps
<1>4. CASE /\ pc' = "copied" /\ UNCHANGED <<disk, msg, lba, unreal, a20, low, boots>>
           /\ ram' = [a \in Addr |->
                IF a - manifest.kernel_load \in 0 .. CopiedSectors - 1
                THEN ram[Source + (a - manifest.kernel_load)] ELSE ram[a]]
  <2>1. /\ manifest.kernel_load \in Nat /\ manifest.kernel_lba \in Nat
        /\ manifest.kernel_sectors \in Nat
        /\ manifest.kernel_lba + manifest.kernel_sectors <= Total
    BY <1>0, DiskFacts, Layout DEF Manifest, Lba, Addr
  <2>2. ASSUME NEW k \in 0 .. manifest.kernel_sectors - 1
        PROVE  Source + k \in Addr
    BY <2>1, Layout DEF Source, Addr
  <2>3. ram' \in [Addr -> Sector]
    <3>1. ASSUME NEW a \in Addr
          PROVE  (IF a - manifest.kernel_load \in 0 .. CopiedSectors - 1
                  THEN ram[Source + (a - manifest.kernel_load)] ELSE ram[a]) \in Sector
      BY <2>2, <1>0 DEF CopiedSectors
    <3> QED
      BY <1>4, <3>1
  <2>4. TypeOK'
    BY <1>4, <2>3 DEF Inductive, TypeOK, low
  <2>5. ASSUME Built(disk)
        PROVE  LoadedUpTo(Total)' /\ KernelCopied'
    <3>1. manifest.kernel_load = KernelLoad /\ LoadedUpTo(Total)
      BY <2>5, <1>0 DEF Built, Inductive, Loaded, AfterLoad
    <3>2. ram' = [a \in Addr |-> IF a - KernelLoad \in 0 .. CopiedSectors - 1
                                 THEN ram[Source + (a - KernelLoad)] ELSE ram[a]]
      BY <1>4, <3>1
    <3>3. ASSUME NEW k \in 0 .. Total - 1
          PROVE  ram'[ImageBase + k] = disk.sectors[k]
      <4>1. ImageBase + k \in Addr /\ ~(ImageBase + k - KernelLoad \in 0 .. CopiedSectors - 1)
        BY Layout DEF Addr
      <4>2. ram'[ImageBase + k] = ram[ImageBase + k]
        BY <3>2, <4>1, <2>1, Layout DEF CopiedSectors
      <4> QED
        BY <4>2, <3>1 DEF LoadedUpTo
    <3>4. ASSUME NEW k \in 0 .. disk.manifest.kernel_sectors - 1
          PROVE  ram'[KernelLoad + k] = disk.sectors[disk.manifest.kernel_lba + k]
      <4>1. /\ KernelLoad + k \in Addr /\ KernelLoad + k - KernelLoad = k
            /\ KernelLoad + k - KernelLoad \in 0 .. CopiedSectors - 1
            /\ Source + k = ImageBase + (disk.manifest.kernel_lba + k)
            /\ disk.manifest.kernel_lba + k \in 0 .. Total - 1
        BY <1>0, <2>1, Layout DEF Addr, CopiedSectors, Source
      <4>2. ram'[KernelLoad + k] = ram[Source + k]
        BY <3>2, <4>1, <2>1, Layout DEF CopiedSectors
      <4> QED
        BY <4>1, <4>2, <3>1 DEF LoadedUpTo
    <3>5. disk' = disk
      BY <1>4
    <3> QED
      BY <3>3, <3>4, <3>5 DEF LoadedUpTo, KernelCopied
  <2> QED
    BY <1>0, <1>4, <2>4, <2>5 DEF Inductive, ManifestRead, Loaded, KernelCopied, InfoWritten,
       ModeKept, OnlyTheDriveStopsIt, OnlyA20Crashes, AfterStage1, AfterLoad, AfterCopy, Handed,
       Built, low
<1> QED
  BY <1>1, <1>2, <1>3, <1>4 DEF CopyKernel

LEMMA EnterKernelKeeps ==
  ASSUME Inductive, EnterKernel
  PROVE  Inductive'
<1>0. pc = "copied" /\ manifest = disk.manifest /\ disk \in Floppies /\ manifest \in Manifest
  BY DEF EnterKernel, Inductive, TypeOK, ManifestRead, AfterStage1
<1>1. CASE FirstByte[ram[KernelLoad]] # "FC" /\ Halt("Kernel copy error")
  <2>1. ~Built(disk)
    <3> SUFFICES ASSUME Built(disk) PROVE FirstByte[ram[KernelLoad]] = "FC"
        BY <1>1
    <3>1. /\ 0 \in 0 .. disk.manifest.kernel_sectors - 1
          /\ KernelLoad + 0 = KernelLoad
          /\ disk.manifest.kernel_lba + 0 = disk.manifest.kernel_lba
      BY <1>0, DiskFacts, Layout DEF Built, Lba
    <3>2. ram[KernelLoad + 0] = disk.sectors[disk.manifest.kernel_lba + 0]
      BY <1>0, <3>1 DEF Inductive, KernelCopied, AfterCopy
    <3> QED
      BY <3>1, <3>2 DEF Built
  <2> QED
    BY <1>1, <2>1, HaltKeeps
<1>2. CASE /\ info' = [image_base |-> manifest.image_base, image_size |-> manifest.total,
                       kernel_load |-> manifest.kernel_load]
           /\ pc' = "kmain"
           /\ UNCHANGED <<disk, msg, lba, ram, unreal, a20, manifest, bounce, boots>>
  <2>1. TypeOK'
    BY <1>0, <1>2 DEF Inductive, TypeOK, Manifest
  <2>2. InfoWritten'
    <3>1. Built(disk) => /\ info'.image_base = ImageBase /\ info'.image_size = Total
      BY <1>0, <1>2 DEF Built
    <3>2. info'.image_size = Total => info' # NoInfo
      BY Layout DEF NoInfo
    <3> QED
      BY <1>2, <3>1, <3>2 DEF InfoWritten, Handed, Built, NoInfo
  <2> QED
    BY <1>0, <1>2, <2>1, <2>2 DEF Inductive, ManifestRead, Loaded, LoadedUpTo, KernelCopied,
       ModeKept, OnlyTheDriveStopsIt, OnlyA20Crashes, AfterStage1, AfterLoad, AfterCopy, Built
<1> QED
  BY <1>1, <1>2 DEF EnterKernel

LEMMA KmainKeeps ==
  ASSUME Inductive, Kmain
  PROVE  Inductive'
<1>1. CASE /\ ~(info # NoInfo /\ ram[info.image_base] \in Volumes)
           /\ Halt(IF info = NoInfo THEN "Invalid boot info" ELSE "Image mount failed")
  <2>1. pc = "kmain"
    BY DEF Kmain
  <2>2. ~Built(disk)
    <3> SUFFICES ASSUME Built(disk) PROVE info # NoInfo /\ ram[info.image_base] \in Volumes
        BY <1>1
    <3>1. info # NoInfo /\ info.image_base = ImageBase
      BY <2>1 DEF Inductive, InfoWritten, Handed
    <3> QED
      BY <2>1, <3>1, LoadedFloppy DEF AfterLoad, Built
  <2> QED
    BY <1>1, <2>2, HaltKeeps
<1>2. CASE pc' = "running" /\ UNCHANGED <<disk, msg, lba, ram, unreal, a20, low, boots>>
  <2>1. pc = "kmain"
    BY DEF Kmain
  <2>2. TypeOK'
    BY <1>2 DEF Inductive, TypeOK, low, Ends
  <2> QED
    BY <1>2, <2>1, <2>2 DEF Inductive, ManifestRead, Loaded, LoadedUpTo, KernelCopied, InfoWritten,
       ModeKept, OnlyTheDriveStopsIt, OnlyA20Crashes, AfterStage1, AfterLoad, AfterCopy, Handed,
       Built, low
<1> QED
  BY <1>1, <1>2 DEF Kmain

-----------------------------------------------------------------------------
LEMMA NextInductive == Inductive /\ [Next]_vars => Inductive'
<1> SUFFICES ASSUME Inductive, [Next]_vars PROVE Inductive'
    OBVIOUS
<1>1. CASE Loader
  BY <1>1, Stage1ReadKeeps, Stage1JumpKeeps, Stage2StartKeeps, ReadSectorKeeps, CopySectorKeeps,
     LoadEndKeeps, CopyKernelKeeps, EnterKernelKeeps, KmainKeeps DEF Loader
<1>2. CASE Reset
  BY <1>2, ResetKeeps
<1>3. CASE UNCHANGED vars
  <2>1. TypeOK'
    BY <1>3 DEF Inductive, TypeOK, vars, low
  <2> QED
    BY <1>3, <2>1 DEF Inductive, ManifestRead, Loaded, LoadedUpTo, KernelCopied, InfoWritten,
       ModeKept, OnlyTheDriveStopsIt, OnlyA20Crashes, AfterStage1, AfterLoad, AfterCopy, Handed,
       Built, vars, low
<1> QED
  BY <1>1, <1>2, <1>3 DEF Next

LEMMA AlwaysInductive == Spec => []Inductive
BY InitInductive, NextInductive, PTL DEF Spec

\* The registers, buffers and RAM of the loader keep their types: no copy is made
\* outside RAM, for any floppy whose kernel lies on it.
THEOREM TypeCorrect == Spec => []TypeOK
<1>1. Inductive => TypeOK
  BY DEF Inductive
<1> QED
  BY <1>1, AlwaysInductive, PTL

\* The shell only ever runs over the whole image of the floppy in the drive.
THEOREM ImageIsInPlace == Spec => []ImageInPlace
<1>1. Inductive => ImageInPlace
  BY Layout DEF Inductive, Loaded, LoadedUpTo, InfoWritten, ImageInPlace, Handed, AfterLoad, Lba
<1> QED
  BY <1>1, AlwaysInductive, PTL

\* The kernel that runs is the whole kernel of that floppy, whatever was booted
\* before it.
THEOREM KernelIsInPlace == Spec => []KernelInPlace
<1>1. Inductive => KernelInPlace
  BY DEF Inductive, KernelCopied, KernelInPlace, Handed, AfterCopy
<1> QED
  BY <1>1, AlwaysInductive, PTL

\* No verify_ step of the loader refuses a floppy of the builder.
THEOREM GoodFloppiesBoot == Spec => []OnlyTheDriveStopsIt
<1>1. Inductive => OnlyTheDriveStopsIt
  BY DEF Inductive
<1> QED
  BY <1>1, AlwaysInductive, PTL

\* No access above 1 MB happens after a BIOS call that left unreal mode.
THEOREM UnrealModeHolds == Spec => []OnlyA20Crashes
<1>1. Inductive => OnlyA20Crashes
  BY DEF Inductive
<1> QED
  BY <1>1, AlwaysInductive, PTL

\* What a boot has still to do at most: two turns for each sector of the image, one
\* for each sector before it, and the steps between the loops.
StepsLeft ==
  CASE pc = "stage1" -> 3 * Total + 7 - lba
    [] pc = "stage2" -> 2 * Total + 6
    [] pc = "load" -> 2 * (Total - lba) + 5
    [] pc = "copy" -> 2 * (Total - lba) + 4
    [] pc = "verify" -> 3
    [] pc = "copied" -> 2
    [] pc = "kmain" -> 1
    [] OTHER -> 0

LEMMA LoaderGoesOn ==
  ASSUME Inductive, Loader
  PROVE  StepsLeft' < StepsLeft
<1>1. lba \in Nat /\ lba <= Total /\ Total \in Nat
  BY Layout DEF Inductive, TypeOK
<1>2. ASSUME pc' \in Ends, pc \notin Ends PROVE StepsLeft' < StepsLeft
  <2>1. StepsLeft' = 0
    BY <1>2 DEF StepsLeft, Ends
  <2>2. pc \in {"stage1", "stage2", "load", "copy", "verify", "copied", "kmain"}
    BY <1>2 DEF Inductive, TypeOK
  <2>3. StepsLeft > 0
    BY <1>1, <2>2 DEF StepsLeft
  <2> QED BY <2>1, <2>3
<1>3. CASE Stage1Read \/ Stage1Jump
  <2>1. /\ pc = "stage1"
        /\ \/ pc' = "halt"
           \/ pc' = "stage1" /\ lba' = lba + 1
           \/ pc' = "stage2"
    BY <1>3 DEF Stage1Read, Stage1Jump, DiskError, Halt
  <2>2. CASE pc' = "halt"
    BY <1>2, <2>1, <2>2 DEF Ends
  <2>3. CASE pc' \in {"stage1", "stage2"}
    BY <1>1, <2>1, <2>3 DEF StepsLeft
  <2> QED BY <2>1, <2>2, <2>3
<1>4. CASE Stage2Start
  <2>1. pc = "stage2" /\ (pc' = "halt" \/ (pc' = "load" /\ lba' = 0))
    BY <1>4 DEF Stage2Start, Halt
  <2>2. CASE pc' = "halt"
    BY <1>2, <2>1, <2>2 DEF Ends
  <2>3. CASE pc' = "load" /\ lba' = 0
    BY <1>1, <2>1, <2>3 DEF StepsLeft
  <2> QED BY <2>1, <2>2, <2>3
<1>5. CASE ReadSector
  <2>1. pc = "load" /\ (pc' = "halt" \/ (pc' = "copy" /\ lba' = lba))
    BY <1>5 DEF ReadSector, DiskError, Halt
  <2>2. CASE pc' = "halt"
    BY <1>2, <2>1, <2>2 DEF Ends
  <2>3. CASE pc' = "copy" /\ lba' = lba
    BY <1>1, <2>1, <2>3 DEF StepsLeft
  <2> QED BY <2>1, <2>2, <2>3
<1>6. CASE CopySector
  <2>1. pc = "copy" /\ (pc' \in {"halt", "crash"} \/ (pc' = "load" /\ lba' = lba + 1))
    BY <1>6 DEF CopySector, Halt, Crash, NextLba
  <2>2. CASE pc' \in {"halt", "crash"}
    BY <1>2, <2>1, <2>2 DEF Ends
  <2>3. CASE pc' = "load" /\ lba' = lba + 1
    BY <1>1, <2>1, <2>3 DEF StepsLeft
  <2> QED BY <2>1, <2>2, <2>3
<1>7. CASE LoadEnd
  <2>1. pc = "load" /\ pc' = "verify"
    BY <1>7 DEF LoadEnd
  <2> QED BY <1>1, <2>1 DEF StepsLeft
<1>8. CASE CopyKernel
  <2>1. pc = "verify" /\ pc' \in {"halt", "crash", "copied"}
    BY <1>8 DEF CopyKernel, Halt, Crash
  <2> QED BY <2>1 DEF StepsLeft
<1>9. CASE EnterKernel
  <2>1. pc = "copied" /\ pc' \in {"halt", "kmain"}
    BY <1>9 DEF EnterKernel, Halt
  <2> QED BY <2>1 DEF StepsLeft
<1>10. CASE Kmain
  <2>1. pc = "kmain" /\ pc' \in {"halt", "running"}
    BY <1>10 DEF Kmain, Halt
  <2> QED BY <2>1 DEF StepsLeft
<1> QED BY <1>3, <1>4, <1>5, <1>6, <1>7, <1>8, <1>9, <1>10 DEF Loader

\* No boot goes on for ever, on any floppy and whatever the BIOS does: each step of
\* the loader lowers a natural number that only a reset raises, so the loops over
\* sectors in both stages end.
THEOREM BootsAreBounded ==
  Spec => [](StepsLeft \in Nat) /\ [][Loader => StepsLeft' < StepsLeft]_vars
<1>1. Inductive => StepsLeft \in Nat
  <2> SUFFICES ASSUME Inductive PROVE StepsLeft \in Nat
    OBVIOUS
  <2>1. lba \in Nat /\ lba <= Total /\ Total \in Nat
    BY Layout DEF Inductive, TypeOK
  <2> QED BY <2>1 DEF StepsLeft
<1>2. Inductive /\ [Next]_vars => [Loader => StepsLeft' < StepsLeft]_vars
  BY LoaderGoesOn
<1> QED BY <1>1, <1>2, AlwaysInductive, PTL DEF Spec
=============================================================================
