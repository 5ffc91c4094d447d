------------------------------- MODULE MCBoot -------------------------------
(***************************************************************************)
(* Boot for TLC: floppies of five sectors (boot sector, stage 2, manifest, *)
(* and two for the kernel and a file): three good ones with kernels that   *)
(* differ in place and length, and one for each thing the loader checks.   *)
(***************************************************************************)
EXTENDS Boot, Sequences, TLC

MCSector == {"junk", "boot", "text", "head1", "tail1", "head2"}
MCFirstByte ==
  [s \in MCSector |-> CASE s = "boot" -> "EB" [] s \in {"head1", "head2"} -> "FC" [] OTHER -> "00"]
MCVolumes == {"boot"}

Floppy(fields, sectors) ==
  [manifest |-> fields, sectors |-> [k \in Lba |-> sectors[k + 1]]]
Fields(first, count) ==
  [magic |-> TRUE, total |-> Total, kernel_lba |-> first, kernel_sectors |-> count,
   image_base |-> ImageBase, kernel_load |-> KernelLoad]

One == Floppy(Fields(3, 2), <<"boot", "text", "text", "head1", "tail1">>)
Two == Floppy(Fields(3, 1), <<"boot", "text", "text", "head2", "text">>)
Three == Floppy(Fields(4, 1), <<"boot", "text", "text", "text", "head2">>)

MCFloppies ==
  {One, Two, Three,
   [One EXCEPT !.manifest.magic = FALSE],
   [One EXCEPT !.sectors[3] = "text"],
   [One EXCEPT !.sectors[0] = "text"],
   [One EXCEPT !.manifest.total = 0], [One EXCEPT !.manifest.total = 2],
   [One EXCEPT !.manifest.kernel_load = KernelLoad + 1],
   [One EXCEPT !.manifest.image_base = ImageBase + 1]}
=============================================================================
