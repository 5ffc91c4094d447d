----------------------------- MODULE MCFloppy -----------------------------
(***************************************************************************)
(* Instances of Floppy for TLC: a disk of five clusters of two bytes,      *)
(* built from a kernel and up to two files in every size from nothing to   *)
(* more than fits.                                                         *)
(***************************************************************************)
EXTENDS Floppy, TLC

MCUpperOf ==
  ("a" :> "A") @@ ("b" :> "B") @@ ("A" :> "A") @@ ("B" :> "B") @@ ("K" :> "K") @@ ("k" :> "K")
  @@ ("." :> ".") @@ (" " :> " ") @@ ("\\" :> "\\")

MCKernelName == <<"K", ".", "B">>

Stage1 ==
  [length |-> 2, signature |-> TRUE, bytes_per_sector |-> 2, sectors_per_cluster |-> 1,
   reserved_sectors |-> 3, fat_count |-> 2, root_entries |-> 3, total_sectors |-> 22,
   sectors_per_fat |-> 6, sectors_per_track |-> 11, heads |-> 2]

\* Every byte of every file is a number of its own.
Contents(f, n) == [k \in 1 .. n |-> 10 * f + k]

\* In the order sorted() puts names: capitals first.
HostNames ==
  << <<"A">>, <<"A", ".", "B">>, <<"a">>, <<"a", "b", "a">> >>

Dirs(sizes) ==
  {<<>>}
  \cup {<<[name |-> HostNames[i], data |-> Contents(2, n)]>> :
          i \in DOMAIN HostNames, n \in sizes}
  \cup {<<[name |-> HostNames[p[1]], data |-> Contents(2, m)],
          [name |-> HostNames[p[2]], data |-> Contents(3, n)]>> :
          p \in {q \in (1 .. 4) \X (1 .. 4) : q[1] < q[2]},
          m \in sizes, n \in sizes}

Host(kernel, stage2, dir, stage1) ==
  [stage1 |-> stage1, stage2 |-> Contents(0, stage2), kernel |-> Contents(1, kernel),
   dir |-> dir]

ThreeFiles ==
  [i \in 1 .. 3 |-> [name |-> HostNames[i], data |-> Contents(1 + i, 1)]]

GoodHosts == {Host(k, 2, d, Stage1) : k \in {0, 1, 3}, d \in Dirs(0 .. 4)}
BadHosts ==
  {Host(1, 3, <<>>, Stage1), Host(1, 2, ThreeFiles, Stage1),
        Host(1, 2, <<>>, [Stage1 EXCEPT !.fat_count = 1]),
        Host(1, 2, <<>>, [Stage1 EXCEPT !.length = 3]), Host(1, 2, <<>>, [Stage1 EXCEPT !.heads = 1]),
        Host(1, 2, <<[name |-> <<"k", ".", "b">>, data |-> <<9>>]>>, Stage1)}

\* Written as a filter, so that TLC evaluates the set once.
MCHosts == {h \in GoodHosts \cup BadHosts : TRUE}

\* Ways a user writes the names, and one that is not there.
MCTyped ==
  {<<"A">>, <<"a", ".", "b">>, <<"\\", "K", ".", "b", " ", "A">>, <<"a", "b", "a">>}
MCLimits == {3, 6}
MCRequired == {<<"A">>}
=============================================================================
