------------------------------ MODULE DosNames ------------------------------
(***************************************************************************)
(* File names, as sequences of characters: the host names mkfloppy.py      *)
(* turns into root entries (dos_name), the words of a command line the     *)
(* FAT12 driver looks up (make_83), and the names it lists (entry_name).   *)
(* Upper case is one function for str.upper and for the driver's upper, so *)
(* the characters are those on which the two agree.                        *)
(***************************************************************************)
EXTENDS Integers, Sequences, FiniteSets

CONSTANTS
  UpperOf,  \* upper case: a function on the characters considered
  Allowed,  \* the characters dos_name accepts
  StemLen,  \* 8
  ExtLen    \* 3

ASSUME NameLengths == StemLen \in Nat \ {0} /\ ExtLen \in Nat \ {0}

\* The characters that part the words of a path, none of them a letter.
Marks == {".", ":", "\\", "/", " ", "\t"}

\* The byte 0xE5, which a deletion writes over the first character of an entry's name.
Erased == "erased"

ASSUME AllowedAssumption ==
  Marks \cap Allowed = {} /\ Erased \notin Allowed
  /\ \A c \in Allowed : c \in DOMAIN UpperOf /\ UpperOf[c] = c
ASSUME UpperOfAssumption ==
  \A c \in DOMAIN UpperOf : {c, UpperOf[c]} \cap Marks # {} => UpperOf[c] = c

Letters(s) == {s[k] : k \in DOMAIN s}
UpperCase(s) == [k \in DOMAIN s |-> UpperOf[s[k]]]
Where(s, chars) == {k \in DOMAIN s : s[k] \in chars}
First(s, chars) ==
  CHOOSE k \in Where(s, chars) : \A j \in Where(s, chars) : k <= j
Final(s, chars) ==
  CHOOSE k \in Where(s, chars) : \A j \in Where(s, chars) : j <= k

\* What comes before the first, or after the last, of some characters.
Until(s, chars) ==
  IF Where(s, chars) = {} THEN s ELSE SubSeq(s, 1, First(s, chars) - 1)
After(s, chars) ==
  IF Where(s, chars) = {} THEN <<>> ELSE SubSeq(s, Final(s, chars) + 1, Len(s))
DropRun(s, chars) ==
  SubSeq(s, CHOOSE k \in 1 .. Len(s) + 1 :
              /\ \A j \in 1 .. k - 1 : s[j] \in chars
              /\ k <= Len(s) => s[k] \notin chars, Len(s))

Pad(s, n) == s \o [k \in 1 .. n - Len(s) |-> " "]
Packed(stem, ext) == Pad(stem, StemLen) \o Pad(ext, ExtLen)

-----------------------------------------------------------------------------
(* mkfloppy.py: dos_name splits at the last dot. *)

HostStem(s) ==
  IF Where(s, {"."}) = {} THEN s ELSE SubSeq(s, 1, Final(s, {"."}) - 1)
HostExt(s) == After(s, {"."})

IsDosName(name) ==
  LET s == UpperCase(name)
  IN  /\ HostStem(s) # <<>> /\ Len(HostStem(s)) <= StemLen /\ Len(HostExt(s)) <= ExtLen
      /\ Letters(HostStem(s) \o HostExt(s)) \subseteq Allowed

dos_name(name) ==
  LET s == UpperCase(name) IN Packed(HostStem(s), HostExt(s))

-----------------------------------------------------------------------------
(* fs_fat12.c: make_83 splits at the first dot, and knows drive and root. *)

Slashes == {"\\", "/"}
Space == {" ", "\t"}

WithoutDrive(s) ==
  IF Len(s) >= 3 /\ SubSeq(s, 1, 2) = <<"A", ":">> /\ s[3] \in Slashes
  THEN SubSeq(s, 4, Len(s)) ELSE s

Base(name) == DropRun(WithoutDrive(name), Slashes)
Stem83(name) == Until(Base(name), {"."} \cup Space)
Rest83(name) == SubSeq(Base(name), Len(Stem83(name)) + 1, Len(Base(name)))
Ext83(name) ==
  IF Rest83(name) # <<>> /\ Rest83(name)[1] = "." THEN Until(Tail(Rest83(name)), Space)
                                                 ELSE <<>>

\* Mutant: one character more than an entry has room for.
IsLonger83(name) ==
  Stem83(name) # <<>> /\ Len(Stem83(name)) <= StemLen + 1 /\ Len(Ext83(name)) <= ExtLen

Is83(name) ==
  Stem83(name) # <<>> /\ Len(Stem83(name)) <= StemLen /\ Len(Ext83(name)) <= ExtLen

\* Mutant: letters are taken as they are typed.
AsTyped83(name) == Packed(Stem83(name), Ext83(name))

make_83(name) == Packed(UpperCase(Stem83(name)), UpperCase(Ext83(name)))

\* entry_name: each part up to its first space.
entry_name(dos) ==
  LET stem == Until(SubSeq(dos, 1, StemLen), {" "})
      ext  == Until(SubSeq(dos, StemLen + 1, StemLen + ExtLen), {" "})
  IN  IF dos[StemLen + 1] # " " THEN stem \o <<".">> \o ext ELSE stem
-----------------------------------------------------------------------------
(* How the three conversions fit together, for one name. *)

\* A file that mkfloppy.py takes is found by the driver under its host name, in
\* whatever case it is typed (dos_name against make_83).
HostNameFinds(name) ==
  IsDosName(name) => Is83(name) /\ make_83(name) = dos_name(name)

\* A typed name finds no file but the one it names: past drive, slashes and what
\* follows a space, it is the name mkfloppy.py was given.
TypedNameFindsItsFile(name) ==
  Is83(name) /\ Letters(make_83(name)) \subseteq Allowed \cup {" "} =>
    LET base == Until(Base(name), Space)
    IN  IsDosName(base) /\ dos_name(base) = make_83(name)
=============================================================================
