-------------------------------- MODULE Boot --------------------------------
(***************************************************************************)
(* The boot of 64DOS: boot/stage1.asm, boot/stage2.asm, kernel/entry.asm   *)
(* and the first lines of kmain.  Sector by sector the floppy goes through *)
(* a buffer below 1 MB to RAM above it, which real mode reaches only in    *)
(* unreal mode: every BIOS call may leave that mode.  The BIOS may fail a  *)
(* read; a reset leaves in memory what the last boot put there, and the    *)
(* floppy in the drive may be another one by then.                         *)
(*                                                                         *)
(* Addresses and sizes are in sectors.  Low memory is kept by what it      *)
(* holds: the manifest, the bounce buffer, the boot info.                  *)
(***************************************************************************)
EXTENDS Integers

CONSTANTS
  Sector,         \* what a sector can hold
  Junk,           \* what RAM holds at power-on
  FirstByte,      \* its first byte: "EB" (a boot sector), "FC" (a kernel) or other
  Volumes,        \* the boot sectors the FAT12 driver mounts (Mountable in Fat12)
  Floppies,       \* [sectors, manifest]
  Total,          \* sectors of a floppy (2880)
  Stage2Sectors,  \* STAGE2_SECTORS (31), read from sector 1 on
  ManifestLba,    \* the last of them, at MANIFEST_ADDR
  ImageBase,      \* IMAGE_BASE (1 MB)
  KernelLoad,     \* KERNEL_LOAD (3 MB)
  RamSectors,     \* end of RAM
  MaxBoots        \* bound on the number of resets

Lba == 0 .. Total - 1
Addr == 0 .. RamSectors - 1
Manifest == [magic : BOOLEAN, total : 0 .. Total, kernel_lba : Lba,
             kernel_sectors : 0 .. Total, image_base : Addr, kernel_load : Addr]
NoManifest == [magic |-> FALSE, total |-> 0, kernel_lba |-> 0, kernel_sectors |-> 0,
               image_base |-> 0, kernel_load |-> 0]

ASSUME LayoutAssumption ==
  /\ Total \in Nat \ {0} /\ RamSectors \in Nat /\ ImageBase \in Nat /\ KernelLoad \in Nat
  /\ ImageBase + Total <= KernelLoad /\ KernelLoad + Total <= RamSectors
  /\ ManifestLba \in 1 .. Stage2Sectors /\ Stage2Sectors \in 1 .. Total - 1
  /\ MaxBoots \in Nat /\ Junk \in Sector

ASSUME FloppyAssumption ==
  \A d \in Floppies :
    /\ d.sectors \in [Lba -> Sector] /\ d.manifest \in Manifest
    /\ d.manifest.kernel_lba + d.manifest.kernel_sectors <= Total

VARIABLES
  disk,      \* the floppy in the drive
  pc,        \* what the processor executes
  msg,       \* the message a failed boot leaves on the screen
  lba,       \* ax in stage 1, current_lba in stage 2
  manifest,  \* at MANIFEST_ADDR
  bounce,    \* at BOUNCE_BUFFER
  ram,       \* memory from 1 MB on, and what real mode sees below
  unreal,    \* fs has the limit of 4 GB
  a20,       \* address line 20 is not masked
  info,      \* at BOOTINFO_ADDR
  boots      \* resets so far

low == <<manifest, bounce, info>>
vars == <<disk, pc, msg, lba, ram, unreal, a20, low, boots>>

NoInfo == [image_base |-> 0, image_size |-> 0, kernel_load |-> 0]
Ends == {"running", "halt", "crash"}

TypeOK ==
  /\ disk \in Floppies
  /\ pc \in {"stage1", "stage2", "load", "copy", "verify", "copied", "kmain"} \cup Ends
  /\ lba \in 0 .. Total /\ manifest \in Manifest /\ bounce \in Sector
  /\ ram \in [Addr -> Sector] /\ unreal \in BOOLEAN /\ a20 \in BOOLEAN
  /\ info \in [image_base : Addr, image_size : 0 .. Total, kernel_load : Addr]
  /\ boots \in 0 .. MaxBoots

Init ==
  /\ disk \in Floppies /\ pc = "stage1" /\ msg = "" /\ lba = 1
  /\ manifest = NoManifest /\ bounce = Junk /\ ram = [a \in Addr |-> Junk]
  /\ unreal = FALSE /\ a20 = FALSE /\ info = NoInfo /\ boots = 0

Halt(text) ==
  /\ pc' = "halt" /\ msg' = text
  /\ UNCHANGED <<disk, lba, ram, unreal, a20, low, boots>>

\* Without unreal mode or with the line masked, an access above 1 MB faults or
\* hits the interrupt table and the loader itself.
Crash ==
  /\ pc' = "crash"
  /\ UNCHANGED <<disk, msg, lba, ram, unreal, a20, low, boots>>

\* int 13h sets carry: there is no second try.
DiskError == Halt("Disk read error")

-----------------------------------------------------------------------------
(* stage1.asm *)

Stage2Loaded == lba > Stage2Sectors

Stage1Read ==
  /\ pc = "stage1" /\ ~Stage2Loaded
  /\ \/ DiskError
     \/ /\ lba' = lba + 1
        /\ manifest' = IF lba = ManifestLba THEN disk.manifest ELSE manifest
        /\ UNCHANGED <<disk, pc, msg, bounce, ram, unreal, a20, info, boots>>

Stage1Jump ==
  /\ pc = "stage1" /\ Stage2Loaded /\ pc' = "stage2"
  /\ UNCHANGED <<disk, msg, lba, ram, unreal, a20, low, boots>>

-----------------------------------------------------------------------------
(* stage2.asm *)

\* puts and int 13h go through the BIOS.  The interrupts that the sti of
\* enter_unreal_mode lets in between two calls are taken to keep the mode.
AfterBios == {unreal, FALSE}

\* Mutant: enter_unreal_mode is called once only.
KeptMode == unreal

\* enter_unreal_mode
EnteredMode == TRUE

\* The manifest must be there; port 92h opens line 20 on the machines that have
\* it.  verify_unreal_mode comes straight after enter_unreal_mode and probes 0x280000,
\* which is RAM (LayoutAssumption) between image and kernel and has bit 20 clear: it
\* passes with the line open or masked, and its "Unreal mode error" is never met.
Stage2Start ==
  /\ pc = "stage2"
  /\ \/ ~manifest.magic /\ Halt("Manifest error")
     \/ /\ manifest.magic
        /\ pc' = "load" /\ lba' = 0
        /\ a20' \in BOOLEAN /\ unreal' \in {EnteredMode, FALSE}
        /\ UNCHANGED <<disk, msg, ram, low, boots>>

\* Mutant: the last sector is left out.
DoneEarly == lba + 1 >= manifest.total

LoadDone == lba >= manifest.total

ReadSector ==
  /\ pc = "load" /\ ~LoadDone
  /\ \/ DiskError
     \/ /\ bounce' = disk.sectors[lba] /\ unreal' \in AfterBios /\ pc' = "copy"
        /\ UNCHANGED <<disk, msg, lba, ram, a20, manifest, info, boots>>

\* Mutant: every sector is taken for the kernel's first.
BadSector == FirstByte[bounce] # "FC"

\* verify_kernel_bounce
BadBounce == lba = manifest.kernel_lba /\ FirstByte[bounce] # "FC"

\* Mutants: the sector counter is not raised, or by the read and by the copy.
SameLba == lba
CountedTwice == lba + 2

NextLba == lba + 1

\* copy_bounce_to_dest; dest_addr follows current_lba.
CopySector ==
  /\ pc = "copy"
  /\ \/ BadBounce /\ Halt("Kernel read error")
     \/ ~BadBounce /\ ~(EnteredMode /\ a20) /\ Crash
     \/ /\ ~BadBounce /\ EnteredMode /\ a20
        /\ ram' = [ram EXCEPT ![ImageBase + lba] = bounce]
        /\ unreal' = TRUE /\ lba' = NextLba /\ pc' = "load"
        /\ UNCHANGED <<disk, msg, a20, low, boots>>

LoadEnd ==
  /\ pc = "load" /\ LoadDone
  /\ pc' = "verify" /\ unreal' = EnteredMode
  /\ UNCHANGED <<disk, msg, lba, ram, a20, low, boots>>

\* Mutant: a last sector that is filled in part is not counted.
FullSectors == manifest.kernel_sectors - 1

CopiedSectors == manifest.kernel_sectors

Source == ImageBase + manifest.kernel_lba

\* verify_image_base, verify_kernel_source, copy_kernel
CopyKernel ==
  /\ pc = "verify"
  /\ \/ ~(unreal /\ a20) /\ Crash
     \/ /\ unreal /\ a20
        /\ \/ FirstByte[ram[ImageBase]] # "EB" /\ Halt("Image base error")
           \/ /\ FirstByte[ram[ImageBase]] = "EB" /\ FirstByte[ram[Source]] # "FC"
              /\ Halt("Kernel source error")
           \/ /\ FirstByte[ram[ImageBase]] = "EB" /\ FirstByte[ram[Source]] = "FC"
              /\ ram' = [a \in Addr |->
                   IF a - manifest.kernel_load \in 0 .. CopiedSectors - 1
                   THEN ram[Source + (a - manifest.kernel_load)] ELSE ram[a]]
              /\ pc' = "copied"
              /\ UNCHANGED <<disk, msg, lba, unreal, a20, low, boots>>

\* verify_kernel_copy looks at the constant the loader jumps to, the copy went
\* where the manifest says; write_boot_info, long mode, entry.asm.
EnterKernel ==
  /\ pc = "copied"
  /\ \/ FirstByte[ram[KernelLoad]] # "FC" /\ Halt("Kernel copy error")
     \/ /\ FirstByte[ram[KernelLoad]] = "FC"
        /\ info' = [image_base |-> manifest.image_base, image_size |-> manifest.total,
                    kernel_load |-> manifest.kernel_load]
        /\ pc' = "kmain"
        /\ UNCHANGED <<disk, msg, lba, ram, unreal, a20, manifest, bounce, boots>>

\* kmain checks the boot info and mounts the image it speaks of.
Kmain ==
  /\ pc = "kmain"
  /\ \/ /\ ~(info # NoInfo /\ ram[info.image_base] \in Volumes)
           /\ Halt(IF info = NoInfo THEN "Invalid boot info" ELSE "Image mount failed")
     \/ /\ info # NoInfo /\ ram[info.image_base] \in Volumes
        /\ pc' = "running"
        /\ UNCHANGED <<disk, msg, lba, ram, unreal, a20, low, boots>>

\* REBOOT or the reset button, at any moment.
Reset ==
  /\ boots < MaxBoots /\ boots' = boots + 1
  /\ disk' \in Floppies /\ pc' = "stage1" /\ msg' = "" /\ lba' = 1
  /\ unreal' = FALSE /\ a20' = FALSE
  /\ UNCHANGED <<ram, low>>

Loader ==
  Stage1Read \/ Stage1Jump \/ Stage2Start \/ ReadSector \/ CopySector \/ LoadEnd
  \/ CopyKernel \/ EnterKernel \/ Kmain
Next == Loader \/ Reset

\* The processor runs until it halts; nobody has to press reset.
Spec == Init /\ [][Next]_vars
FairSpec == Spec /\ WF_vars(Loader)
-----------------------------------------------------------------------------
(* Properties, of floppies as mkfloppy.py builds them (ImageBuilder). *)

Built(d) ==
  /\ d.manifest.magic /\ d.manifest.total = Total
  /\ d.manifest.image_base = ImageBase /\ d.manifest.kernel_load = KernelLoad
  /\ FirstByte[d.sectors[0]] = "EB" /\ d.sectors[0] \in Volumes
  /\ FirstByte[d.sectors[d.manifest.kernel_lba]] = "FC"
  /\ d.manifest.kernel_sectors > 0

Handed == pc \in {"kmain", "running"} /\ Built(disk)

\* When kmain runs, every sector of the floppy in the drive is at its place in
\* RAM and the boot info points there, whatever an earlier boot left and however
\* the BIOS treated unreal mode (load_floppy_image, write_boot_info).
ImageInPlace ==
  Handed =>
    /\ \A k \in Lba : ram[ImageBase + k] = disk.sectors[k]
    /\ info.image_base = ImageBase /\ info.image_size = Total

\* The kernel that runs is the whole kernel of this floppy, not that of the one
\* booted before, which may still be in RAM and also starts with FC (copy_kernel).
KernelInPlace ==
  Handed =>
    \A k \in 0 .. disk.manifest.kernel_sectors - 1 :
      ram[KernelLoad + k] = disk.sectors[disk.manifest.kernel_lba + k]

\* A boot of such a floppy ends in an error message only if the drive failed: no
\* verify_ step refuses a good floppy, whatever the RAM held before.
OnlyTheDriveStopsIt == pc = "halt" /\ Built(disk) => msg = "Disk read error"

\* No access above 1 MB is made outside unreal mode: each enter_unreal_mode comes
\* after the last BIOS call before the access.  What is left is a machine whose
\* line 20 port 92h does not open, which verify_unreal_mode does not notice.
OnlyA20Crashes == pc = "crash" => ~a20

\* Every boot ends: in the shell, in a message, or in the crash above.
BootEnds == pc \notin Ends ~> pc \in Ends
=============================================================================
