------------------------------ MODULE FatTable ------------------------------
(***************************************************************************)
(* The 12-bit entries of a FAT, packed two to three bytes: how mkfloppy.py *)
(* writes one (set_fat12_entry) and how the kernel reads one (fat_next in  *)
(* fs_fat12.c).  Neighbouring entries share a byte.  A FAT is a function   *)
(* from 0 .. n - 1 to bytes.                                               *)
(***************************************************************************)
EXTENDS Integers

Byte == 0 .. 255
Entry12 == 0 .. 4095

Offset(cluster) == cluster + (cluster \div 2)
Odd(cluster) == cluster % 2 = 1

\* The clusters whose entry lies within a FAT of n bytes.
Clusters(n) == {c \in Nat : Offset(c) + 1 < n}

\* Mutant: the nibble of the neighbour is not kept.
CarelessEntry(fat, cluster, value) ==
  LET o == Offset(cluster)
  IN  IF Odd(cluster)
      THEN [fat EXCEPT ![o] = 16 * (value % 16), ![o + 1] = value \div 16]
      ELSE [fat EXCEPT ![o] = value % 256, ![o + 1] = value \div 256]

set_fat12_entry(fat, cluster, value) ==
  LET o == Offset(cluster)
  IN  IF Odd(cluster)
      THEN [fat EXCEPT ![o] = (@ % 16) + 16 * (value % 16),
                       ![o + 1] = value \div 16]
      ELSE [fat EXCEPT ![o] = value % 256,
                       ![o + 1] = 16 * (@ \div 16) + value \div 256]

\* Mutant: the parity is ignored.
EvenNext(fat, cluster) ==
  (fat[Offset(cluster)] + 256 * fat[Offset(cluster) + 1]) % 4096

fat_next(fat, cluster) ==
  LET value == fat[Offset(cluster)] + 256 * fat[Offset(cluster) + 1]
  IN  IF Odd(cluster) THEN value \div 16 ELSE value % 4096
=============================================================================
