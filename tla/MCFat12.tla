------------------------------ MODULE MCFat12 ------------------------------
(***************************************************************************)
(* The FAT12 driver over floppies of three clusters that other tools have  *)
(* written or damage has changed: every FAT, chains that circle, stop      *)
(* short, meet, or lead nowhere; erased entries, labels, hidden            *)
(* directories and free entries;                                           *)
(* one or two sectors per cluster; boot sectors mount must refuse.         *)
(***************************************************************************)
EXTENDS Fat12, TLC

Upper == [c \in {"a", "A", "B", "."} |-> IF c = "a" THEN "A" ELSE c]

Boot ==
  [signature |-> TRUE, bytes_per_sector |-> 2, sectors_per_cluster |-> 1,
   reserved_sectors |-> 1, fat_count |-> 1, root_entries |-> 2, sectors_per_fat |-> 4]

BadBoots ==
  {[Boot EXCEPT !.signature = FALSE], [Boot EXCEPT !.bytes_per_sector = 4],
   [Boot EXCEPT !.root_entries = 0], [Boot EXCEPT !.reserved_sectors = 9]}

Disk(b, table, entries) ==
  [boot |-> b, root |-> [i \in 0 .. 1 |-> entries[i + 1]],
   image |-> [k \in 0 .. 17 |-> IF k \in 2 .. 9 THEN table[k - 2] ELSE 100 + k]]

\* The FATs of every successor of clusters 2, 3 and 4.
Table(a, b, c) ==
  set_fat12_entry(set_fat12_entry(set_fat12_entry(
    [k \in 0 .. 7 |-> 0], 2, a), 3, b), 4, c)
Links == {0, 2, 3, 4, 4095}

Entry(attr, cluster, size) ==
  [name |-> <<"A", " ", " ">>, attr |-> attr, cluster |-> cluster, size |-> size]
FileEntries == {Entry(32, c, n) : c \in {0, 2, 3}, n \in {0, 1, 3, 5}}
Roots ==
  {<<e, NoEntry>> : e \in FileEntries}
  \cup {<<e, Entry(32, 3, 3)>> :
           e \in {[Entry(32, 2, 1) EXCEPT !.name[1] = Erased], Entry(VolumeLabel + 32, 0, 0),
                  Entry(Directory, 4, 0), Entry(Directory + 2, 4, 0), NoEntry}}

Disks12 ==
  {Disk(b, Table(x, y, z), r) :
     b \in {Boot, [Boot EXCEPT !.sectors_per_cluster = 2]},
     x \in Links, y \in Links, z \in Links, r \in Roots}
  \cup {Disk(b, Table(3, 4, 4095), <<Entry(32, 2, 3), NoEntry>>) : b \in BadBoots}

TypedNames == {<<"a">>, <<"B">>}
MaxLens == {2, 6}

Init ==
  /\ \E d \in Disks12 : boot = d.boot /\ image = d.image /\ root = d.root
  /\ DriverInit

Spec ==
  /\ Init /\ [][Next]_vars
  /\ WF_vars(Mount /\ UNCHANGED imageVars) /\ WF_vars(Working /\ UNCHANGED imageVars)
=============================================================================
