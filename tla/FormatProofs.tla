---------------------------- MODULE FormatProofs ----------------------------
(***************************************************************************)
(* Theorems about what the two sides of a floppy share.  FAT entries that  *)
(* share a byte do not disturb each other: what set_fat12_entry            *)
(* (mkfloppy.py) writes, fat_next (fs_fat12.c) reads back, and every other *)
(* entry reads as before.  Names, for strings of any length: make_83 of    *)
(* the driver finds exactly the names dos_name of the builder wrote, and   *)
(* entry_name gives them back.                                             *)
(***************************************************************************)
EXTENDS DosNames, FatTable, SequenceTheorems, WellFoundedInduction, TLAPS

Fat(n) == [0 .. n - 1 -> Byte]

\* An entry's two bytes lie within the table.
LEMMA OffsetInTable ==
  ASSUME NEW n \in Nat, NEW c \in Clusters(n)
  PROVE  /\ c \in Nat /\ Offset(c) \in Nat
         /\ Offset(c) \in 0 .. n - 1 /\ Offset(c) + 1 \in 0 .. n - 1
BY DEF Clusters, Offset

\* The bytes set_fat12_entry stores are bytes.
LEMMA StoredBytes ==
  /\ \A a \in Byte, v \in Entry12 : (a % 16) + 16 * (v % 16) \in Byte
  /\ \A v \in Entry12 : v \div 16 \in Byte
  /\ \A v \in Entry12 : v % 256 \in Byte
  /\ \A b \in Byte, v \in Entry12 : 16 * (b \div 16) + v \div 256 \in Byte
<1>1. \A a \in Byte, v \in Entry12 : (a % 16) + 16 * (v % 16) \in Byte
  BY DEF Byte, Entry12
<1>2. \A v \in Entry12 : v \div 16 \in Byte  BY DEF Byte, Entry12
<1>3. \A v \in Entry12 : v % 256 \in Byte  BY DEF Byte, Entry12
<1>4. \A b \in Byte, v \in Entry12 : 16 * (b \div 16) + v \div 256 \in Byte
  BY DEF Byte, Entry12
<1> QED  BY <1>1, <1>2, <1>3, <1>4

\* The two bytes after a write, and all the others.
LEMMA WrittenBytes ==
  ASSUME NEW n \in Nat, NEW fat \in Fat(n), NEW c \in Clusters(n), NEW v \in Entry12
  PROVE  LET o == Offset(c)
             new == set_fat12_entry(fat, c, v)
         IN  /\ new \in Fat(n)
             /\ Odd(c) => /\ new[o] = (fat[o] % 16) + 16 * (v % 16)
                          /\ new[o + 1] = v \div 16
             /\ ~Odd(c) => /\ new[o] = v % 256
                           /\ new[o + 1] = 16 * (fat[o + 1] \div 16) + v \div 256
             /\ \A k \in 0 .. n - 1 : k # o /\ k # o + 1 => new[k] = fat[k]
<1> DEFINE o == Offset(c)
           new == set_fat12_entry(fat, c, v)
<1>1. o \in 0 .. n - 1 /\ o + 1 \in 0 .. n - 1 /\ o # o + 1  BY OffsetInTable
<1>2. fat[o] \in Byte /\ fat[o + 1] \in Byte  BY <1>1 DEF Fat
<1>3. Odd(c) => new = [fat EXCEPT ![o] = (fat[o] % 16) + 16 * (v % 16),
                                  ![o + 1] = v \div 16]
  BY DEF set_fat12_entry
<1>4. ~Odd(c) => new = [fat EXCEPT ![o] = v % 256,
                                   ![o + 1] = 16 * (fat[o + 1] \div 16) + v \div 256]
  BY <1>1 DEF set_fat12_entry
<1> HIDE DEF o, new
<1>5. CASE Odd(c)
  <2> DEFINE x == (fat[o] % 16) + 16 * (v % 16)
             y == v \div 16
  <2>1. x \in Byte /\ y \in Byte  BY <1>2, StoredBytes
  <2>2. new = [fat EXCEPT ![o] = x, ![o + 1] = y]  BY <1>3, <1>5
  <2> HIDE DEF x, y
  <2>3. /\ new \in Fat(n) /\ new[o] = x /\ new[o + 1] = y
        /\ \A k \in 0 .. n - 1 : k # o /\ k # o + 1 => new[k] = fat[k]
    BY <1>1, <2>1, <2>2 DEF Fat
  <2> QED  BY <1>5, <2>3 DEF o, new, x, y
<1>6. CASE ~Odd(c)
  <2> DEFINE x == v % 256
             y == 16 * (fat[o + 1] \div 16) + v \div 256
  <2>1. x \in Byte /\ y \in Byte  BY <1>2, StoredBytes
  <2>2. new = [fat EXCEPT ![o] = x, ![o + 1] = y]  BY <1>4, <1>6
  <2> HIDE DEF x, y
  <2>3. /\ new \in Fat(n) /\ new[o] = x /\ new[o + 1] = y
        /\ \A k \in 0 .. n - 1 : k # o /\ k # o + 1 => new[k] = fat[k]
    BY <1>1, <2>1, <2>2 DEF Fat
  <2> QED  BY <1>6, <2>3 DEF o, new, x, y
<1> QED  BY <1>5, <1>6

\* Twelve bits survive the split into a nibble and a byte.
LEMMA SplitValue ==
  /\ \A a \in Byte, v \in Entry12 :
       ((a % 16) + 16 * (v % 16) + 256 * (v \div 16)) \div 16 = v
  /\ \A b \in Byte, v \in Entry12 :
       ((v % 256) + 256 * (16 * (b \div 16) + v \div 256)) % 4096 = v
<1>1. \A a \in Byte, v \in Entry12 :
        ((a % 16) + 16 * (v % 16) + 256 * (v \div 16)) \div 16 = v
  BY DEF Byte, Entry12
<1>2. \A b \in Byte, v \in Entry12 :
        ((v % 256) + 256 * (16 * (b \div 16) + v \div 256)) % 4096 = v
  BY DEF Byte, Entry12
<1> QED  BY <1>1, <1>2

\* Neither does the neighbour see the nibble that changes beside its own.
LEMMA NeighbourNibble ==
  /\ \A a, b \in Byte, v \in Entry12 :
       (b + 256 * ((a % 16) + 16 * (v % 16))) % 4096 = (b + 256 * a) % 4096
  /\ \A a, b \in Byte, v \in Entry12 :
       ((16 * (a \div 16) + v \div 256) + 256 * b) \div 16 = (a + 256 * b) \div 16
<1>1. \A a, b \in Byte, v \in Entry12 :
        (b + 256 * ((a % 16) + 16 * (v % 16))) % 4096 = (b + 256 * a) % 4096
  BY DEF Byte, Entry12
<1>2. \A a, b \in Byte, v \in Entry12 :
        ((16 * (a \div 16) + v \div 256) + 256 * b) \div 16 = (a + 256 * b) \div 16
  BY DEF Byte, Entry12
<1> QED  BY <1>1, <1>2

\* What set_fat12_entry writes for a cluster is what fat_next reads for it.
THEOREM EntryReadsBack ==
  ASSUME NEW n \in Nat, NEW fat \in Fat(n), NEW c \in Clusters(n), NEW v \in Entry12
  PROVE  fat_next(set_fat12_entry(fat, c, v), c) = v
<1> DEFINE o == Offset(c)
           new == set_fat12_entry(fat, c, v)
<1>1. fat[o] \in Byte /\ fat[o + 1] \in Byte  BY OffsetInTable DEF Fat
<1>2. /\ Odd(c) => /\ new[o] = (fat[o] % 16) + 16 * (v % 16)
                   /\ new[o + 1] = v \div 16
      /\ ~Odd(c) => /\ new[o] = v % 256
                    /\ new[o + 1] = 16 * (fat[o + 1] \div 16) + v \div 256
  BY WrittenBytes
<1> HIDE DEF o, new
<1>3. CASE Odd(c)
  <2>1. (new[o] + 256 * new[o + 1]) \div 16 = v  BY <1>1, <1>2, <1>3, SplitValue
  <2> QED  BY <1>3, <2>1 DEF fat_next, o, new
<1>4. CASE ~Odd(c)
  <2>1. (new[o] + 256 * new[o + 1]) % 4096 = v  BY <1>1, <1>2, <1>4, SplitValue
  <2> QED  BY <1>4, <2>1 DEF fat_next, o, new
<1> QED  BY <1>3, <1>4

\* Where two entries overlap.
LEMMA Overlaps ==
  ASSUME NEW c \in Nat, NEW d \in Nat, c # d
  PROVE  \/ Offset(d) + 1 = Offset(c) /\ Odd(c) /\ ~Odd(d)
         \/ Offset(c) + 1 = Offset(d) /\ Odd(d) /\ ~Odd(c)
         \/ {Offset(d), Offset(d) + 1} \cap {Offset(c), Offset(c) + 1} = {}
<1>1. PICK i \in Nat, p \in {0, 1} : c = 2 * i + p
  <2>1. c = 2 * (c \div 2) + (c % 2) /\ c \div 2 \in Nat /\ c % 2 \in {0, 1}  OBVIOUS
  <2> QED  BY <2>1
<1>2. PICK j \in Nat, q \in {0, 1} : d = 2 * j + q
  <2>1. d = 2 * (d \div 2) + (d % 2) /\ d \div 2 \in Nat /\ d % 2 \in {0, 1}  OBVIOUS
  <2> QED  BY <2>1
<1>3. Offset(c) = 3 * i + p /\ (Odd(c) <=> p = 1)  BY <1>1 DEF Offset, Odd
<1>4. Offset(d) = 3 * j + q /\ (Odd(d) <=> q = 1)  BY <1>2 DEF Offset, Odd
<1> QED  BY <1>1, <1>2, <1>3, <1>4

\* Every other cluster's entry reads as it did, although neighbours share a byte.
THEOREM OtherEntriesKept ==
  ASSUME NEW n \in Nat, NEW fat \in Fat(n), NEW c \in Clusters(n), NEW v \in Entry12,
         NEW d \in Clusters(n), d # c
  PROVE  fat_next(set_fat12_entry(fat, c, v), d) = fat_next(fat, d)
<1> DEFINE o == Offset(c)
           p == Offset(d)
           new == set_fat12_entry(fat, c, v)
<1>1. /\ o \in 0 .. n - 1 /\ o + 1 \in 0 .. n - 1 /\ o # o + 1
      /\ p \in 0 .. n - 1 /\ p + 1 \in 0 .. n - 1 /\ p # p + 1
  BY OffsetInTable
<1>2. /\ fat[o] \in Byte /\ fat[o + 1] \in Byte
      /\ fat[p] \in Byte /\ fat[p + 1] \in Byte
  BY <1>1 DEF Fat
<1>3. /\ Odd(c) => /\ new[o] = (fat[o] % 16) + 16 * (v % 16)
                   /\ new[o + 1] = v \div 16
      /\ ~Odd(c) => /\ new[o] = v % 256
                    /\ new[o + 1] = 16 * (fat[o + 1] \div 16) + v \div 256
      /\ \A k \in 0 .. n - 1 : k # o /\ k # o + 1 => new[k] = fat[k]
  BY WrittenBytes
<1>4. \/ p + 1 = o /\ Odd(c) /\ ~Odd(d)
      \/ o + 1 = p /\ Odd(d) /\ ~Odd(c)
      \/ {p, p + 1} \cap {o, o + 1} = {}
  BY OffsetInTable, Overlaps
<1> HIDE DEF o, p, new
<1>5. CASE p + 1 = o /\ Odd(c) /\ ~Odd(d)
  <2>1. new[p] = fat[p] /\ new[p + 1] = (fat[p + 1] % 16) + 16 * (v % 16)
    BY <1>1, <1>3, <1>5
  <2>2. (new[p] + 256 * new[p + 1]) % 4096 = (fat[p] + 256 * fat[p + 1]) % 4096
    BY <1>2, <2>1, NeighbourNibble
  <2> QED  BY <1>5, <2>2 DEF fat_next, p, new
<1>6. CASE o + 1 = p /\ Odd(d) /\ ~Odd(c)
  <2>1. new[p + 1] = fat[p + 1] /\ new[p] = 16 * (fat[p] \div 16) + v \div 256
    BY <1>1, <1>3, <1>6
  <2>2. (new[p] + 256 * new[p + 1]) \div 16 = (fat[p] + 256 * fat[p + 1]) \div 16
    BY <1>2, <2>1, NeighbourNibble
  <2> QED  BY <1>6, <2>2 DEF fat_next, p, new
<1>7. CASE {p, p + 1} \cap {o, o + 1} = {}
  <2>1. new[p] = fat[p] /\ new[p + 1] = fat[p + 1]  BY <1>1, <1>3, <1>7
  <2> QED  BY <2>1 DEF fat_next, p, new
<1> QED  BY <1>4, <1>5, <1>6, <1>7

-----------------------------------------------------------------------------
(* Names. *)

\* The characters of a root entry's name.
Upper == {UpperOf[c] : c \in DOMAIN UpperOf}
Blank == " "
Chars == Upper \cup {Blank}

LEMMA Filled ==
  ASSUME NEW S, NEW b \in S, NEW s \in Seq(S), NEW n \in Nat, Len(s) <= n,
         NEW t, t = s \o [k \in 1 .. n - Len(s) |-> b]
  PROVE  /\ t \in Seq(S) /\ Len(t) = n
         /\ \A k \in 1 .. n : t[k] = IF k <= Len(s) THEN s[k] ELSE b
<1> DEFINE m == n - Len(s)
           rest == [k \in 1 .. m |-> b]
<1>1. Len(s) \in Nat /\ m \in Nat /\ Len(s) + m = n
  OBVIOUS
<1>2. t = s \o rest
  OBVIOUS
<1> HIDE DEF m
<1>3. rest \in Seq(S) /\ Len(rest) = m /\ \A k \in 1 .. m : rest[k] = b
  BY <1>1
<1> HIDE DEF rest
<1>4. /\ s \o rest \in Seq(S) /\ Len(s \o rest) = Len(s) + Len(rest)
      /\ \A k \in 1 .. Len(s) + Len(rest) :
           (s \o rest)[k] = IF k <= Len(s) THEN s[k] ELSE rest[k - Len(s)]
  BY <1>3, ConcatProperties
<1>5. ASSUME NEW k \in 1 .. n PROVE t[k] = IF k <= Len(s) THEN s[k] ELSE b
  <2>1. k \in 1 .. Len(s) + Len(rest) /\ (k > Len(s) => k - Len(s) \in 1 .. m)
    BY <1>1, <1>3
  <2> QED BY <1>1, <1>2, <1>3, <1>4, <2>1
<1> QED BY <1>1, <1>2, <1>3, <1>4, <1>5

LEMMA PadFacts ==
  ASSUME NEW s \in Seq(Chars), NEW n \in Nat, Len(s) <= n
  PROVE  /\ Pad(s, n) \in Seq(Chars) /\ Len(Pad(s, n)) = n
         /\ \A k \in 1 .. n : Pad(s, n)[k] = IF k <= Len(s) THEN s[k] ELSE Blank
<1>1. Blank \in Chars
  BY DEF Chars
<1>2. Pad(s, n) = s \o [k \in 1 .. n - Len(s) |-> Blank]
  BY DEF Pad, Blank
<1> QED BY <1>1, <1>2, Filled

LEMMA Joined ==
  ASSUME NEW S, NEW a \in Seq(S), NEW b \in Seq(S)
  PROVE  /\ a \o b \in Seq(S) /\ Len(a \o b) = Len(a) + Len(b)
         /\ \A k \in 1 .. Len(a) : (a \o b)[k] = a[k]
         /\ \A k \in 1 .. Len(b) : (a \o b)[Len(a) + k] = b[k]
<1>1. /\ a \o b \in Seq(S) /\ Len(a \o b) = Len(a) + Len(b)
      /\ \A k \in 1 .. Len(a) + Len(b) :
           (a \o b)[k] = IF k <= Len(a) THEN a[k] ELSE b[k - Len(a)]
  BY ConcatProperties
<1> DEFINE m == Len(a)
           n == Len(b)
<1>2. m \in Nat /\ n \in Nat
  OBVIOUS
<1> HIDE DEF m, n
<1>3. \A k \in 1 .. n : m + k \in 1 .. m + n /\ ~(m + k <= m) /\ (m + k) - m = k
  BY <1>2
<1>4. \A k \in 1 .. m : k \in 1 .. m + n /\ k <= m
  BY <1>2
<1> QED BY <1>1, <1>3, <1>4 DEF m, n

LEMMA PackedFacts ==
  ASSUME NEW stem \in Seq(Chars), NEW ext \in Seq(Chars),
         Len(stem) <= StemLen, Len(ext) <= ExtLen
  PROVE  /\ Packed(stem, ext) \in Seq(Chars) /\ Len(Packed(stem, ext)) = StemLen + ExtLen
         /\ \A k \in 1 .. StemLen :
              Packed(stem, ext)[k] = IF k <= Len(stem) THEN stem[k] ELSE Blank
         /\ \A k \in 1 .. ExtLen :
              Packed(stem, ext)[StemLen + k] = IF k <= Len(ext) THEN ext[k] ELSE Blank
<1> DEFINE a == Pad(stem, StemLen)
           b == Pad(ext, ExtLen)
<1>1. StemLen \in Nat /\ ExtLen \in Nat
  BY NameLengths
<1>2. /\ a \in Seq(Chars) /\ Len(a) = StemLen
      /\ \A k \in 1 .. StemLen : a[k] = IF k <= Len(stem) THEN stem[k] ELSE Blank
  BY <1>1, PadFacts
<1>3. /\ b \in Seq(Chars) /\ Len(b) = ExtLen
      /\ \A k \in 1 .. ExtLen : b[k] = IF k <= Len(ext) THEN ext[k] ELSE Blank
  BY <1>1, PadFacts
<1>4. Packed(stem, ext) = a \o b
  BY DEF Packed
<1> HIDE DEF a, b
<1> DEFINE t == Packed(stem, ext)
<1>5. t = a \o b
  BY <1>4
<1> HIDE DEF t
<1>6. /\ t \in Seq(Chars) /\ Len(t) = StemLen + ExtLen
      /\ \A k \in 1 .. StemLen : t[k] = a[k]
      /\ \A k \in 1 .. ExtLen : t[StemLen + k] = b[k]
  <2>1. a \in Seq(Chars) /\ b \in Seq(Chars)
    BY <1>2, <1>3
  <2>3. Len(a) = StemLen /\ Len(b) = ExtLen
    BY <1>2, <1>3
  <2>2. /\ a \o b \in Seq(Chars) /\ Len(a \o b) = Len(a) + Len(b)
        /\ \A k \in 1 .. Len(a) : (a \o b)[k] = a[k]
        /\ \A k \in 1 .. Len(b) : (a \o b)[Len(a) + k] = b[k]
    BY <2>1, Joined
  <2> QED BY <1>5, <2>2, <2>3
<1> QED BY <1>2, <1>3, <1>6 DEF t

LEMMA LeastNumber ==
  ASSUME NEW T \in SUBSET Nat, T # {}
  PROVE  \E m \in T : \A j \in T : m <= j
<1>1. PICK m \in T : \A j \in T : ~(<<j, m>> \in OpToRel(<, Nat))
  BY NatLessThanWellFounded, WFMin
<1>2. ASSUME NEW j \in T PROVE ~(j < m)
  <2>1. <<j, m>> \in Nat \X Nat
    OBVIOUS
  <2>2. j < m => <<j, m>> \in OpToRel(<, Nat)
    BY <2>1, Zenon DEF OpToRel
  <2> QED BY <1>1, <2>2
<1>3. \A j \in T : m <= j
  BY <1>2
<1> QED BY <1>3

\* The greatest position of a character, as Final finds it.
LEMMA FinalFound ==
  ASSUME NEW S, NEW s \in Seq(S), NEW chars, Where(s, chars) # {}
  PROVE  /\ Final(s, chars) \in 1 .. Len(s) /\ s[Final(s, chars)] \in chars
         /\ \A j \in 1 .. Len(s) : s[j] \in chars => j <= Final(s, chars)
<1> DEFINE W == Where(s, chars)
           back == {Len(s) - k : k \in W}
<1>1. W \in SUBSET (1 .. Len(s)) /\ W # {} /\ Len(s) \in Nat
  BY DEF Where
<1> HIDE DEF W
<1>2. back \in SUBSET Nat
  BY <1>1
<1>3. back # {}
  BY <1>1
<1>4. PICK m \in back : \A j \in back : m <= j
  <2> HIDE DEF back
  <2> QED BY <1>2, <1>3, LeastNumber
<1>5. PICK k \in W : m = Len(s) - k
  BY <1>4
<1>6. \A j \in W : j <= k
  <2> SUFFICES ASSUME NEW j \in W PROVE j <= k
    OBVIOUS
  <2>1. Len(s) - j \in back
    OBVIOUS
  <2>2. m <= Len(s) - j
    BY <1>4, <2>1
  <2>3. j \in Int /\ k \in Int /\ Len(s) \in Int
    BY <1>1
  <2> HIDE DEF back
  <2> QED BY <1>5, <2>2, <2>3
<1>7. Final(s, chars) \in W /\ \A j \in W : j <= Final(s, chars)
  BY <1>6, Zenon DEF Final, W
<1> QED BY <1>1, <1>7 DEF W, Where

LEMMA UpperCaseIs ==
  ASSUME NEW name \in Seq(DOMAIN UpperOf)
  PROVE  /\ UpperCase(name) \in Seq(Upper) /\ Len(UpperCase(name)) = Len(name)
         /\ \A k \in 1 .. Len(name) : UpperCase(name)[k] = UpperOf[name[k]]
<1>1. DOMAIN name = 1 .. Len(name) /\ Len(name) \in Nat
      /\ \A k \in 1 .. Len(name) : name[k] \in DOMAIN UpperOf
  OBVIOUS
<1>2. UpperCase(name) = [k \in 1 .. Len(name) |-> UpperOf[name[k]]]
  BY <1>1 DEF UpperCase
<1>3. \A k \in 1 .. Len(name) : UpperOf[name[k]] \in Upper
  BY <1>1 DEF Upper
<1> QED BY <1>1, <1>2, <1>3

\* dos_name splits a name at its last dot.
LEMMA HostParts ==
  ASSUME NEW S, NEW s \in Seq(S)
  PROVE  HostStem(s) \in Seq(S) /\ HostExt(s) \in Seq(S)
<1>1. CASE Where(s, {"."}) = {}
  BY <1>1 DEF HostStem, HostExt, After
<1>2. CASE Where(s, {"."}) # {}
  <2>1. Final(s, {"."}) \in 1 .. Len(s)
    BY <1>2, FinalFound
  <2> DEFINE f == Final(s, {"."})
  <2>2. HostStem(s) = SubSeq(s, 1, f - 1) /\ HostExt(s) = SubSeq(s, f + 1, Len(s))
    BY <1>2 DEF HostStem, HostExt, After
  <2> HIDE DEF f
  <2>3. SubSeq(s, 1, f - 1) \in Seq(S) /\ SubSeq(s, f + 1, Len(s)) \in Seq(S)
    <3>1. f \in 1 .. Len(s) /\ Len(s) \in Nat
      BY <2>1 DEF f
    <3>2. /\ 1 \in Int /\ f - 1 \in Int /\ f + 1 \in Int /\ Len(s) \in Int
          /\ \A k \in 1 .. f - 1 : s[k] \in S
          /\ \A k \in f + 1 .. Len(s) : s[k] \in S
      BY <3>1
    <3> QED BY <3>2, SubSeqProperties
  <2> QED BY <2>2, <2>3
<1> QED BY <1>1, <1>2

LEMMA DosNameFacts ==
  ASSUME NEW name \in Seq(DOMAIN UpperOf), IsDosName(name)
  PROVE  dos_name(name) \in Seq(Chars) /\ Len(dos_name(name)) = StemLen + ExtLen
         /\ dos_name(name) # <<>>
<1> DEFINE s == UpperCase(name)
           stem == HostStem(s)
           ext == HostExt(s)
<1>1. s \in Seq(Upper)
  BY UpperCaseIs
<1>2. Len(stem) <= StemLen /\ Len(ext) <= ExtLen /\ dos_name(name) = Packed(stem, ext)
  BY DEF IsDosName, dos_name
<1> HIDE DEF s
<1>3. stem \in Seq(Upper) /\ ext \in Seq(Upper)
  BY <1>1, HostParts
<1> HIDE DEF stem, ext
<1>4. stem \in Seq(Chars) /\ ext \in Seq(Chars)
  <2>1. \A c \in Upper : c \in Chars
    BY DEF Chars
  <2> QED BY <1>3, <2>1
<1> DEFINE t == dos_name(name)
<1> HIDE DEF t
<1>5. t \in Seq(Chars) /\ Len(t) = StemLen + ExtLen
  BY <1>2, <1>4, PackedFacts DEF t
<1>6. StemLen + ExtLen > 0
  BY NameLengths
<1> QED BY <1>5, <1>6 DEF t

LEMMA NoneFound ==
  ASSUME NEW S, NEW s \in Seq(S), NEW chars, \A j \in 1 .. Len(s) : s[j] \notin chars
  PROVE  Where(s, chars) = {}
  BY DEF Where

LEMMA FinalIs ==
  ASSUME NEW S, NEW s \in Seq(S), NEW chars, NEW k \in 1 .. Len(s), s[k] \in chars,
         \A j \in 1 .. Len(s) : s[j] \in chars => j <= k
  PROVE  Where(s, chars) # {} /\ Final(s, chars) = k
<1>1. Where(s, chars) # {}
  BY DEF Where
<1>2. /\ Final(s, chars) \in 1 .. Len(s) /\ s[Final(s, chars)] \in chars
      /\ \A j \in 1 .. Len(s) : s[j] \in chars => j <= Final(s, chars)
  BY <1>1, FinalFound
<1> DEFINE f == Final(s, chars)
<1> HIDE DEF f
<1>3. f \in 1 .. Len(s) /\ f <= k /\ k <= f
  BY <1>2 DEF f
<1>4. f = k
  BY <1>3
<1> QED BY <1>1, <1>4 DEF f

\* The first of some characters in a string, or the place after it.
LEMMA Cutting ==
  ASSUME NEW S, NEW s \in Seq(S), NEW chars
  PROVE  \E d \in 1 .. Len(s) + 1 :
           /\ \A j \in 1 .. d - 1 : s[j] \notin chars
           /\ d <= Len(s) => s[d] \in chars
<1> DEFINE T == {d \in 1 .. Len(s) + 1 : d <= Len(s) => s[d] \in chars}
<1>1. Len(s) \in Nat
  OBVIOUS
<1>2. T \in SUBSET Nat /\ Len(s) + 1 \in T
  BY <1>1
<1>3. PICK d \in T : \A j \in T : d <= j
  <2> HIDE DEF T
  <2> QED BY <1>2, LeastNumber
<1>4. ASSUME NEW j \in 1 .. d - 1 PROVE s[j] \notin chars
  <2>1. j \in 1 .. Len(s) + 1 /\ ~(d <= j)
    BY <1>1
  <2>2. j \notin T
    BY <1>3, <2>1
  <2> QED BY <2>1, <2>2
<1> QED BY <1>3, <1>4

LEMMA WholeSeq ==
  ASSUME NEW S, NEW s \in Seq(S)
  PROVE  SubSeq(s, 1, Len(s)) = s
  BY SubSeqFull

LEMMA UntilIs ==
  ASSUME NEW S, NEW s \in Seq(S), NEW chars, NEW d \in 1 .. Len(s) + 1,
         \A j \in 1 .. d - 1 : s[j] \notin chars, d <= Len(s) => s[d] \in chars
  PROVE  Until(s, chars) = SubSeq(s, 1, d - 1)
<1>1. Len(s) \in Nat /\ d \in Nat
  OBVIOUS
<1>2. CASE d = Len(s) + 1
  <2>1. \A j \in 1 .. Len(s) : s[j] \notin chars
    BY <1>1, <1>2
  <2>2. Where(s, chars) = {}
    BY <2>1, NoneFound
  <2>3. d - 1 = Len(s)
    BY <1>1, <1>2
  <2> QED BY <2>2, <2>3, WholeSeq DEF Until
<1>3. CASE d <= Len(s)
  <2>1. d \in Where(s, chars) /\ Where(s, chars) \in SUBSET (1 .. Len(s))
    BY <1>1, <1>3 DEF Where
  <2>2. \A j \in Where(s, chars) : j \in Nat /\ s[j] \in chars
    BY <2>1 DEF Where
  <2>3. \A j \in Where(s, chars) : d <= j
    <3> SUFFICES ASSUME NEW j \in Where(s, chars), ~(d <= j) PROVE FALSE
      OBVIOUS
    <3>1. j \in 1 .. Len(s)
      BY <2>1
    <3>2. j \in 1 .. d - 1
      BY <1>1, <3>1
    <3> QED BY <2>2, <3>2
  <2> DEFINE W == Where(s, chars)
             f == First(s, chars)
  <2>4. f \in W /\ \A j \in W : f <= j
    BY <2>1, <2>3, Zenon DEF First
  <2> HIDE DEF W, f
  <2>5. f <= d /\ d <= f /\ f \in Nat
    BY <2>1, <2>2, <2>3, <2>4 DEF W
  <2>6. f = d
    BY <1>1, <2>5
  <2>7. W # {}
    BY <2>4
  <2> QED BY <2>6, <2>7 DEF Until, f, W
<1> QED BY <1>1, <1>2, <1>3

LEMMA DropRunStarts ==
  ASSUME NEW S, NEW s \in Seq(S), NEW chars
  PROVE  /\ DropRun(s, chars) \in Seq(S)
         /\ s # <<>> /\ s[1] \notin chars => DropRun(s, chars) = s
<1> DEFINE P(k) == /\ \A j \in 1 .. k - 1 : s[j] \in chars
                   /\ k <= Len(s) => s[k] \notin chars
           first == CHOOSE k \in 1 .. Len(s) + 1 : P(k)
<1>1. Len(s) \in Nat
  OBVIOUS
<1>2. \E k \in 1 .. Len(s) + 1 : P(k)
  <2> DEFINE T == {d \in 1 .. Len(s) + 1 : d <= Len(s) => s[d] \notin chars}
  <2>2. T \in SUBSET Nat /\ Len(s) + 1 \in T
    BY <1>1
  <2>3. PICK d \in T : \A j \in T : d <= j
    <3> HIDE DEF T
    <3> QED BY <2>2, LeastNumber
  <2>4. ASSUME NEW j \in 1 .. d - 1 PROVE s[j] \in chars
    <3>1. j \in 1 .. Len(s) + 1 /\ ~(d <= j)
      BY <1>1
    <3>2. j \notin T
      BY <2>3, <3>1
    <3> QED BY <3>1, <3>2
  <2> QED BY <2>3, <2>4
<1>3. first \in 1 .. Len(s) + 1 /\ P(first)
  <2> HIDE DEF P
  <2> QED BY <1>2, Zenon
<1>4. DropRun(s, chars) = SubSeq(s, first, Len(s))
  BY DEF DropRun
<1> HIDE DEF first
<1>5. SubSeq(s, first, Len(s)) \in Seq(S)
  <2>1. /\ first \in Int /\ Len(s) \in Int
        /\ \A k \in first .. Len(s) : s[k] \in S
    BY <1>1, <1>3
  <2> QED BY <2>1, SubSeqProperties
<1>6. ASSUME s # <<>>, s[1] \notin chars PROVE DropRun(s, chars) = s
  <2>1. first = 1
    <3>1. first > 1 => 1 \in 1 .. first - 1
      BY <1>1, <1>3
    <3> QED BY <1>1, <1>3, <1>6, <3>1
  <2> QED BY <1>4, <2>1, WholeSeq
<1> QED BY <1>4, <1>5, <1>6

Dot == "."
Front(t, d) == SubSeq(t, 1, d - 1)
Back(t, d) == SubSeq(t, d + 1, Len(t))

\* A name of two parts: no character but the one at d, a dot, is a mark.  Where
\* d is past the end, the name has no dot.
Dotted(t, d) ==
  /\ d \in 2 .. Len(t) + 1 /\ (d <= Len(t) => t[d] = Dot)
  /\ \A j \in 1 .. Len(t) : j # d => t[j] \notin Marks

LEMMA MarksAre ==
  /\ Dot \in Marks /\ Blank \in Marks /\ Space \subseteq Marks /\ Slashes \subseteq Marks
  /\ ":" \in Marks /\ Dot # ":" /\ Blank # Dot
  /\ \A c : c \in {"."} <=> c = Dot
  /\ \A c : c \in {"."} \cup Space => c \in Marks
  /\ Dot \in {"."} \cup Space /\ Blank \in Space /\ Dot \notin Space
  /\ \A c : c \in {"."} \cup Space <=> (c = Dot \/ c \in Space)
  /\ \A c : c \in {" "} <=> c = Blank
  BY Zenon DEF Marks, Dot, Blank, Space, Slashes

LEMMA FrontFacts ==
  ASSUME NEW S, NEW t \in Seq(S), NEW d \in 2 .. Len(t) + 1
  PROVE  /\ Front(t, d) \in Seq(S) /\ Len(Front(t, d)) = d - 1
         /\ \A j \in 1 .. d - 1 : Front(t, d)[j] = t[j]
<1>1. /\ 1 \in Int /\ d - 1 \in Int /\ 1 <= d - 1
      /\ \A k \in 1 .. d - 1 : t[k] \in S
  OBVIOUS
<1>2. /\ SubSeq(t, 1, d - 1) \in Seq(S)
      /\ Len(SubSeq(t, 1, d - 1)) = IF 1 <= d - 1 THEN d - 1 - 1 + 1 ELSE 0
      /\ \A i \in 1 .. d - 1 - 1 + 1 : SubSeq(t, 1, d - 1)[i] = t[1 + i - 1]
  BY <1>1, SubSeqProperties
<1> QED BY <1>1, <1>2 DEF Front

LEMMA BackFacts ==
  ASSUME NEW S, NEW t \in Seq(S), NEW d \in 2 .. Len(t) + 1
  PROVE  /\ Back(t, d) \in Seq(S)
         /\ Len(Back(t, d)) = IF d <= Len(t) THEN Len(t) - d ELSE 0
         /\ \A j \in 1 .. Len(t) - d : Back(t, d)[j] = t[d + j]
<1> DEFINE n == Len(t)
<1>1. /\ d + 1 \in Int /\ n \in Int /\ d \in Int /\ d <= n + 1
      /\ \A k \in d + 1 .. n : t[k] \in S
  OBVIOUS
<1> HIDE DEF n
<1>2. /\ SubSeq(t, d + 1, n) \in Seq(S)
      /\ Len(SubSeq(t, d + 1, n)) = IF d + 1 <= n THEN n - (d + 1) + 1 ELSE 0
      /\ \A i \in 1 .. n - (d + 1) + 1 : SubSeq(t, d + 1, n)[i] = t[(d + 1) + i - 1]
  BY <1>1, SubSeqProperties
<1>3. /\ Back(t, d) \in Seq(S)
      /\ Len(Back(t, d)) = IF d <= n THEN n - d ELSE 0
      /\ \A j \in 1 .. n - d : Back(t, d)[j] = t[d + j]
  BY <1>1, <1>2 DEF Back, n
<1> QED BY <1>3 DEF n

LEMMA HostSplit ==
  ASSUME NEW S, NEW t \in Seq(S), NEW d, Dotted(t, d)
  PROVE  HostStem(t) = Front(t, d) /\ HostExt(t) = Back(t, d)
<1>1. /\ d \in 2 .. Len(t) + 1 /\ (d <= Len(t) => t[d] = Dot)
      /\ \A j \in 1 .. Len(t) : j # d => t[j] \notin Marks
  BY DEF Dotted
<1>2. Len(t) \in Nat /\ d \in Nat /\ d >= 2
  BY <1>1
<1> DEFINE dots == {"."}
<1>3. /\ HostStem(t) = IF Where(t, dots) = {} THEN t ELSE SubSeq(t, 1, Final(t, dots) - 1)
      /\ HostExt(t) = IF Where(t, dots) = {} THEN <<>>
                      ELSE SubSeq(t, Final(t, dots) + 1, Len(t))
  BY DEF HostStem, HostExt, After
<1>4. (\A c : c \in dots <=> c = Dot) /\ Dot \in Marks
  BY MarksAre
<1> HIDE DEF dots
<1>5. \A j \in 1 .. Len(t) : t[j] \in dots => j = d
  BY <1>1, <1>4
<1>6. CASE d = Len(t) + 1
  <2>1. \A j \in 1 .. Len(t) : t[j] \notin dots
    BY <1>2, <1>5, <1>6
  <2>2. Where(t, dots) = {}
    BY <2>1, NoneFound
  <2>3. Front(t, d) = t
    <3>1. d - 1 = Len(t)
      BY <1>2, <1>6
    <3> QED BY <3>1, WholeSeq DEF Front
  <2>4. Back(t, d) = <<>>
    BY <1>1, <1>2, <1>6, FrontFacts, BackFacts, EmptySeq
  <2> QED BY <1>3, <2>2, <2>3, <2>4
<1>7. CASE d <= Len(t)
  <2>1. d \in 1 .. Len(t) /\ t[d] \in dots
    BY <1>1, <1>2, <1>4, <1>7
  <2>2. \A j \in 1 .. Len(t) : t[j] \in dots => j <= d
    BY <1>2, <1>5
  <2>3. Where(t, dots) # {} /\ Final(t, dots) = d
    BY <2>1, <2>2, FinalIs
  <2> QED BY <1>3, <2>3 DEF Front, Back
<1> QED BY <1>1, <1>2, <1>6, <1>7

LEMMA NoDrive ==
  ASSUME NEW S, NEW t \in Seq(S), NEW d, Dotted(t, d)
  PROVE  WithoutDrive(t) = t
<1>1. /\ d \in 2 .. Len(t) + 1 /\ (d <= Len(t) => t[d] = Dot)
      /\ \A j \in 1 .. Len(t) : j # d => t[j] \notin Marks
  BY DEF Dotted
<1> DEFINE Colon == ":"
           Drive == <<"A", Colon>>
<1>2. Len(t) >= 3 => t[2] # Colon
  <2>1. Colon \in Marks /\ Dot # Colon
    BY MarksAre
  <2> HIDE DEF Colon
  <2>2. Len(t) >= 3 => 2 \in 1 .. Len(t) /\ (d = 2 => d <= Len(t))
    BY <1>1
  <2> QED BY <1>1, <2>1, <2>2
<1>3. Drive[2] = Colon
  <2> HIDE DEF Colon
  <2> QED OBVIOUS
<1> HIDE DEF Drive
<1> HIDE DEF Colon
<1>4. ASSUME Len(t) >= 3 PROVE SubSeq(t, 1, 2) # Drive
  <2>1. /\ 1 \in Int /\ 2 \in Int /\ \A k \in 1 .. 2 : t[k] \in S
    BY <1>4
  <2>2. \A i \in 1 .. 2 - 1 + 1 : SubSeq(t, 1, 2)[i] = t[1 + i - 1]
    BY <2>1, SubSeqProperties
  <2>3. SubSeq(t, 1, 2)[2] = t[2]
    BY <2>2
  <2> QED BY <1>2, <1>3, <1>4, <2>3
<1>5. Len(t) >= 3 /\ SubSeq(t, 1, 2) = Drive /\ t[3] \in Slashes <=> FALSE
  BY <1>4
<1> QED BY <1>5, Zenon DEF WithoutDrive, Drive, Colon

LEMMA FromPlace ==
  ASSUME NEW S, NEW t \in Seq(S), NEW d \in 2 .. Len(t), NEW rest, rest = SubSeq(t, d, Len(t))
  PROVE  rest # <<>> /\ rest[1] = t[d] /\ Tail(rest) = Back(t, d)
<1> DEFINE n == Len(t)
<1>1. n \in Nat /\ d \in Nat /\ d <= n
  OBVIOUS
<1>2. /\ rest \in Seq(S) /\ Len(rest) = (IF d <= n THEN n - d + 1 ELSE 0)
      /\ \A j \in 1 .. n - d + 1 : rest[j] = t[d + j - 1]
  <2>1. d \in Int /\ n \in Int /\ \A k \in d .. n : t[k] \in S
    BY <1>1
  <2> QED BY <2>1, SubSeqProperties
<1>3. d \in 2 .. Len(t) + 1
  BY <1>1
<1>4. /\ Back(t, d) \in Seq(S)
      /\ Len(Back(t, d)) = IF d <= n THEN n - d ELSE 0
      /\ \A j \in 1 .. n - d : Back(t, d)[j] = t[d + j]
  BY <1>3, BackFacts
<1> HIDE DEF n
<1>5. rest # <<>> /\ rest[1] = t[d]
  <2>1. Len(rest) > 0 /\ 1 \in 1 .. n - d + 1 /\ d + 1 - 1 = d
    BY <1>1, <1>2
  <2> QED BY <1>2, <2>1
<1>6. Tail(rest) = Back(t, d)
  <2>1. /\ Tail(rest) \in Seq(S) /\ Len(Tail(rest)) = Len(rest) - 1
        /\ \A j \in 1 .. Len(Tail(rest)) : Tail(rest)[j] = rest[j + 1]
    <3>1. rest \in Seq(S) /\ rest # <<>>
      BY <1>2, <1>5
    <3>2. /\ Tail(rest) \in Seq(S) /\ Len(Tail(rest)) = Len(rest) - 1
          /\ \A i \in 1 .. Len(Tail(rest)) : Tail(rest)[i] = rest[i + 1]
      BY <3>1, HeadTailProperties
    <3> QED BY <3>2
  <2>2. Len(Tail(rest)) = Len(Back(t, d)) /\ Len(Tail(rest)) = n - d
    <3> DEFINE m == Len(rest)
               k == Len(Tail(rest))
               b == Len(Back(t, d))
    <3>1. m = n - d + 1 /\ k = m - 1 /\ b = n - d
      BY <1>1, <1>2, <1>4, <2>1
    <3> HIDE DEF m, k, b
    <3>2. k = b /\ k = n - d
      BY <1>1, <3>1
    <3> QED BY <3>2 DEF m, k, b
  <2>3. ASSUME NEW j \in 1 .. n - d PROVE Tail(rest)[j] = Back(t, d)[j]
    <3>1. j + 1 \in 1 .. n - d + 1 /\ d + (j + 1) - 1 = d + j
      BY <1>1
    <3> QED BY <1>2, <1>4, <2>1, <2>2, <3>1
  <2> QED BY <1>4, <2>1, <2>2, <2>3, SeqEqual
<1> QED BY <1>5, <1>6

LEMMA TypedSplit ==
  ASSUME NEW S, NEW t \in Seq(S), NEW d, Dotted(t, d)
  PROVE  Base(t) = t /\ Stem83(t) = Front(t, d) /\ Ext83(t) = Back(t, d)
<1>1. /\ d \in 2 .. Len(t) + 1 /\ (d <= Len(t) => t[d] = Dot)
      /\ \A j \in 1 .. Len(t) : j # d => t[j] \notin Marks
  BY DEF Dotted
<1> DEFINE stops == {"."} \cup Space
<1>2. /\ \A c \in stops \cup Space \cup Slashes : c \in Marks
      /\ Dot \in stops
  <2>1. /\ \A c : c \in stops => c \in Marks
        /\ Dot \in stops /\ Space \subseteq Marks /\ Slashes \subseteq Marks
    BY MarksAre, Zenon
  <2> HIDE DEF stops
  <2> QED BY <2>1
<1>3. /\ Base(t) = DropRun(WithoutDrive(t), Slashes)
      /\ Stem83(t) = Until(Base(t), stops)
      /\ Rest83(t) = SubSeq(Base(t), Len(Stem83(t)) + 1, Len(Base(t)))
      /\ Ext83(t) = IF Rest83(t) # <<>> /\ Rest83(t)[1] = Dot THEN Until(Tail(Rest83(t)), Space)
                    ELSE <<>>
  BY Zenon DEF Base, Stem83, Rest83, Ext83, Dot
<1> HIDE DEF stops
<1>4. Base(t) = t
  <2>1. t # <<>> /\ t[1] \notin Slashes
    BY <1>1, <1>2
  <2>2. DropRun(t, Slashes) = t
    BY <2>1, DropRunStarts
  <2> QED BY <1>3, <2>2, NoDrive
<1>5. Stem83(t) = Front(t, d)
  <2>1. d \in 1 .. Len(t) + 1 /\ \A j \in 1 .. d - 1 : t[j] \notin stops
    BY <1>1, <1>2
  <2>2. d <= Len(t) => t[d] \in stops
    BY <1>1, <1>2
  <2>3. Until(t, stops) = SubSeq(t, 1, d - 1)
    BY <2>1, <2>2, UntilIs
  <2> QED BY <1>3, <1>4, <2>3 DEF Front
<1> DEFINE rest == SubSeq(t, d, Len(t))
<1>6. /\ Len(t) \in Nat /\ d \in Nat /\ d >= 2
      /\ Len(Front(t, d)) = d - 1 /\ Back(t, d) \in Seq(S)
      /\ Len(Back(t, d)) = IF d <= Len(t) THEN Len(t) - d ELSE 0
      /\ \A j \in 1 .. Len(t) - d : Back(t, d)[j] = t[d + j]
  <2>1. Len(t) \in Nat /\ d \in Nat /\ d >= 2
    BY <1>1
  <2>2. Len(Front(t, d)) = d - 1
    BY <1>1, FrontFacts
  <2>3. /\ Back(t, d) \in Seq(S)
        /\ Len(Back(t, d)) = IF d <= Len(t) THEN Len(t) - d ELSE 0
        /\ \A j \in 1 .. Len(t) - d : Back(t, d)[j] = t[d + j]
    BY <1>1, BackFacts
  <2> QED BY <2>1, <2>2, <2>3
<1>7. Rest83(t) = rest
  <2>1. (d - 1) + 1 = d
    BY <1>6
  <2> QED BY <1>3, <1>4, <1>5, <1>6, <2>1
<1> HIDE DEF rest
<1>9. CASE d = Len(t) + 1
  <2>1. rest = <<>> /\ Back(t, d) = <<>>
    <3>1. d > Len(t) /\ d + 1 > Len(t) /\ d \in Int /\ d + 1 \in Int /\ Len(t) \in Int
      BY <1>6, <1>9
    <3> QED BY <3>1, SubSeqEmpty DEF rest, Back
  <2> QED BY <1>3, <1>4, <1>5, <1>7, <2>1
<1>10. CASE d <= Len(t)
  <2>1. d \in 2 .. Len(t)
    BY <1>6, <1>10
  <2>2. rest # <<>> /\ rest[1] = Dot /\ Tail(rest) = Back(t, d)
    BY <1>1, <1>10, <2>1, FromPlace DEF rest
  <2>3. Until(Back(t, d), Space) = Back(t, d)
    <3> DEFINE b == Back(t, d)
               n == Len(t) - d
    <3>1. b \in Seq(S) /\ Len(b) = n /\ n \in Nat /\ \A j \in 1 .. n : b[j] = t[d + j]
      BY <1>6, <1>10
    <3>2. \A j \in 1 .. n : d + j \in 1 .. Len(t) /\ d + j # d
      BY <1>6, <1>10
    <3>3. \A j \in 1 .. n : t[d + j] \notin Space
      BY <1>1, <1>2, <3>2
    <3> HIDE DEF b, n
    <3>4. \A j \in 1 .. n : b[j] \notin Space
      BY <3>1, <3>3
    <3>5. Where(b, Space) = {}
      BY <3>1, <3>4, NoneFound
    <3> QED BY <3>5 DEF Until, b
  <2> QED BY <1>3, <1>4, <1>5, <1>7, <2>2, <2>3
<1> QED BY <1>1, <1>6, <1>9, <1>10

LEMMA UpperMarks ==
  ASSUME NEW c \in DOMAIN UpperOf
  PROVE  (c \in Marks \/ UpperOf[c] \in Marks) => UpperOf[c] = c
  BY UpperOfAssumption

LEMMA UpperParts ==
  ASSUME NEW t \in Seq(DOMAIN UpperOf), NEW d \in 2 .. Len(t) + 1
  PROVE  /\ UpperCase(Front(t, d)) = Front(UpperCase(t), d)
         /\ UpperCase(Back(t, d)) = Back(UpperCase(t), d)
         /\ Len(UpperCase(t)) = Len(t)
<1> DEFINE D == DOMAIN UpperOf
           s == UpperCase(t)
<1>1. /\ s \in Seq(Upper) /\ Len(s) = Len(t)
      /\ \A k \in 1 .. Len(t) : s[k] = UpperOf[t[k]]
  BY UpperCaseIs
<1> HIDE DEF s, D
<1>2. t \in Seq(D)
  BY DEF D
<1>3. /\ Len(t) \in Nat /\ d \in Nat /\ d >= 2 /\ d <= Len(t) + 1
      /\ Front(t, d) \in Seq(D) /\ Len(Front(t, d)) = d - 1
      /\ \A j \in 1 .. d - 1 : Front(t, d)[j] = t[j]
      /\ Back(t, d) \in Seq(D)
      /\ Len(Back(t, d)) = (IF d <= Len(t) THEN Len(t) - d ELSE 0)
      /\ \A j \in 1 .. Len(t) - d : Back(t, d)[j] = t[d + j]
  <2>1. Len(t) \in Nat /\ d \in Nat /\ d >= 2 /\ d <= Len(t) + 1
    BY <1>2
  <2>2. /\ Front(t, d) \in Seq(D) /\ Len(Front(t, d)) = d - 1
        /\ \A j \in 1 .. d - 1 : Front(t, d)[j] = t[j]
    BY <1>2, FrontFacts
  <2>3. /\ Back(t, d) \in Seq(D)
        /\ Len(Back(t, d)) = (IF d <= Len(t) THEN Len(t) - d ELSE 0)
        /\ \A j \in 1 .. Len(t) - d : Back(t, d)[j] = t[d + j]
    BY <1>2, BackFacts
  <2> QED BY <2>1, <2>2, <2>3
<1>4. /\ Front(s, d) \in Seq(Upper) /\ Len(Front(s, d)) = d - 1
      /\ \A j \in 1 .. d - 1 : Front(s, d)[j] = s[j]
      /\ Back(s, d) \in Seq(Upper)
      /\ Len(Back(s, d)) = (IF d <= Len(t) THEN Len(t) - d ELSE 0)
      /\ \A j \in 1 .. Len(t) - d : Back(s, d)[j] = s[d + j]
  <2>1. d \in 2 .. Len(s) + 1
    BY <1>1
  <2>2. /\ Front(s, d) \in Seq(Upper) /\ Len(Front(s, d)) = d - 1
        /\ \A j \in 1 .. d - 1 : Front(s, d)[j] = s[j]
    BY <1>1, <2>1, FrontFacts
  <2>3. /\ Back(s, d) \in Seq(Upper)
        /\ Len(Back(s, d)) = (IF d <= Len(s) THEN Len(s) - d ELSE 0)
        /\ \A j \in 1 .. Len(s) - d : Back(s, d)[j] = s[d + j]
    BY <1>1, <2>1, BackFacts
  <2> QED BY <1>1, <2>2, <2>3
<1>5. UpperCase(Front(t, d)) = Front(s, d)
  <2> DEFINE a == Front(t, d)
             u == UpperCase(a)
             b == Front(s, d)
  <2>1. /\ u \in Seq(Upper) /\ Len(u) = Len(a)
        /\ \A k \in 1 .. Len(a) : u[k] = UpperOf[a[k]]
    BY <1>3, UpperCaseIs DEF D
  <2>2. Len(u) = Len(b) /\ u \in Seq(Upper) /\ b \in Seq(Upper)
    BY <1>3, <1>4, <2>1
  <2>3. ASSUME NEW j \in 1 .. Len(u) PROVE u[j] = b[j]
    <3>1. j \in 1 .. d - 1 /\ j \in 1 .. Len(t) /\ j \in 1 .. Len(a)
      BY <1>3, <2>1
    <3> QED BY <1>1, <1>3, <1>4, <2>1, <3>1
  <2> HIDE DEF u, b
  <2>4. u = b
    BY <2>2, <2>3, SeqEqual
  <2> QED BY <2>4 DEF u, b
<1>6. UpperCase(Back(t, d)) = Back(s, d)
  <2> DEFINE a == Back(t, d)
             u == UpperCase(a)
             b == Back(s, d)
  <2>1. /\ u \in Seq(Upper) /\ Len(u) = Len(a)
        /\ \A k \in 1 .. Len(a) : u[k] = UpperOf[a[k]]
    BY <1>3, UpperCaseIs DEF D
  <2>2. Len(u) = Len(b) /\ u \in Seq(Upper) /\ b \in Seq(Upper)
    BY <1>3, <1>4, <2>1
  <2>3. ASSUME NEW j \in 1 .. Len(u) PROVE u[j] = b[j]
    <3>1. j \in 1 .. Len(t) - d /\ d + j \in 1 .. Len(t) /\ j \in 1 .. Len(a)
      BY <1>3, <2>1
    <3> QED BY <1>1, <1>3, <1>4, <2>1, <3>1
  <2> HIDE DEF u, b
  <2>4. u = b
    BY <2>2, <2>3, SeqEqual
  <2> QED BY <2>4 DEF u, b
<1> QED BY <1>1, <1>5, <1>6 DEF s

LEMMA UpperDotted ==
  ASSUME NEW t \in Seq(DOMAIN UpperOf), NEW d
  PROVE  Dotted(UpperCase(t), d) <=> Dotted(t, d)
<1> DEFINE s == UpperCase(t)
<1>1. /\ s \in Seq(Upper) /\ Len(s) = Len(t)
      /\ \A k \in 1 .. Len(t) : s[k] = UpperOf[t[k]]
  BY UpperCaseIs
<1> HIDE DEF s
<1>2. \A k \in 1 .. Len(t) : (t[k] \in Marks \/ s[k] \in Marks) => s[k] = t[k]
  <2> TAKE k \in 1 .. Len(t)
  <2>1. t[k] \in DOMAIN UpperOf /\ s[k] = UpperOf[t[k]]
    BY <1>1
  <2> QED BY <2>1, UpperMarks
<1>3. Dot \in Marks
  BY MarksAre
<1>4. d \in 2 .. Len(t) + 1 /\ d <= Len(t) => d \in 1 .. Len(t)
  OBVIOUS
<1>5. (\A j \in 1 .. Len(s) : j # d => s[j] \notin Marks)
        <=> \A j \in 1 .. Len(t) : j # d => t[j] \notin Marks
  BY <1>1, <1>2
<1>6. d \in 2 .. Len(t) + 1 =>
        ((d <= Len(s) => s[d] = Dot) <=> (d <= Len(t) => t[d] = Dot))
  BY <1>1, <1>2, <1>3, <1>4
<1> QED BY <1>1, <1>5, <1>6 DEF Dotted, s

LEMMA LettersOf ==
  ASSUME NEW S, NEW a \in Seq(S), NEW b \in Seq(S), NEW A
  PROVE  Letters(a \o b) \subseteq A <=>
           (\A k \in 1 .. Len(a) : a[k] \in A) /\ (\A k \in 1 .. Len(b) : b[k] \in A)
<1> DEFINE c == a \o b
<1>1. /\ c \in Seq(S) /\ Len(c) = Len(a) + Len(b)
      /\ \A k \in 1 .. Len(a) : c[k] = a[k]
      /\ \A k \in 1 .. Len(b) : c[Len(a) + k] = b[k]
  BY Joined
<1>2. Len(a) \in Nat /\ Len(b) \in Nat
  OBVIOUS
<1> HIDE DEF c
<1>3. \A k \in 1 .. Len(c) : k \in 1 .. Len(a) \/ \E j \in 1 .. Len(b) : k = Len(a) + j
  <2> TAKE k \in 1 .. Len(c)
  <2> DEFINE j == k - Len(a)
  <2>1. k \in Int /\ j \in Int /\ k = Len(a) + j /\ (k \in 1 .. Len(a) \/ j \in 1 .. Len(b))
    BY <1>1, <1>2
  <2> QED BY <2>1
<1>4. \A k \in 1 .. Len(a) : k \in 1 .. Len(c)
  BY <1>1, <1>2
<1>5. \A k \in 1 .. Len(b) : Len(a) + k \in 1 .. Len(c)
  BY <1>1, <1>2
<1>6. Letters(c) \subseteq A <=> \A k \in 1 .. Len(c) : c[k] \in A
  <2>1. DOMAIN c = 1 .. Len(c)
    BY <1>1
  <2>2. Letters(c) = {c[k] : k \in 1 .. Len(c)}
    BY <2>1 DEF Letters
  <2> QED BY <2>2
<1>7. (\A k \in 1 .. Len(c) : c[k] \in A) <=>
        (\A k \in 1 .. Len(a) : a[k] \in A) /\ (\A k \in 1 .. Len(b) : b[k] \in A)
  BY <1>1, <1>3, <1>4, <1>5
<1> QED BY <1>6, <1>7 DEF c

\* No file the builder stores looks like an erased entry.
LEMMA DosNameIsLive ==
  ASSUME NEW name \in Seq(DOMAIN UpperOf), IsDosName(name)
  PROVE  dos_name(name)[1] # Erased
<1> DEFINE s == UpperCase(name)
           stem == HostStem(s)
           ext == HostExt(s)
<1>1. /\ stem # <<>> /\ Len(stem) <= StemLen /\ Len(ext) <= ExtLen
      /\ Letters(stem \o ext) \subseteq Allowed
      /\ dos_name(name) = Packed(stem, ext)
  BY DEF IsDosName, dos_name
<1>2. stem \in Seq(Upper) /\ ext \in Seq(Upper)
  BY UpperCaseIs, HostParts
<1> HIDE DEF s, stem, ext
<1>3. stem \in Seq(Chars) /\ ext \in Seq(Chars)
  <2>1. \A c \in Upper : c \in Chars
    BY DEF Chars
  <2> QED BY <1>2, <2>1
<1>4. 1 \in 1 .. Len(stem) /\ 1 \in 1 .. StemLen
  BY <1>1, <1>2, EmptySeq, NameLengths
<1>5. stem[1] \in Allowed
  BY <1>1, <1>2, <1>4, LettersOf
<1>6. Packed(stem, ext)[1] = stem[1]
  BY <1>1, <1>3, <1>4, PackedFacts
<1> QED BY <1>1, <1>5, <1>6, AllowedAssumption

\* A name dos_name accepts is one of two parts.
LEMMA HostNameDotted ==
  ASSUME NEW t \in Seq(DOMAIN UpperOf), IsDosName(t)
  PROVE  \E d \in 2 .. Len(t) + 1 : Dotted(t, d)
<1> DEFINE s == UpperCase(t)
           dots == {"."}
<1>1. /\ s \in Seq(Upper) /\ Len(s) = Len(t)
  BY UpperCaseIs
<1>2. /\ HostStem(s) # <<>>
      /\ Letters(HostStem(s) \o HostExt(s)) \subseteq Allowed
  BY DEF IsDosName
<1>3. /\ HostStem(s) = IF Where(s, dots) = {} THEN s ELSE SubSeq(s, 1, Final(s, dots) - 1)
      /\ HostExt(s) = IF Where(s, dots) = {} THEN <<>>
                      ELSE SubSeq(s, Final(s, dots) + 1, Len(s))
  BY DEF HostStem, HostExt, After
<1>4. \A c : c \in dots <=> c = Dot
  BY MarksAre
<1> HIDE DEF s, dots
<1>5. HostStem(s) \in Seq(Upper) /\ HostExt(s) \in Seq(Upper)
  BY <1>1, HostParts
<1>6. /\ \A k \in 1 .. Len(HostStem(s)) : HostStem(s)[k] \in Allowed
      /\ \A k \in 1 .. Len(HostExt(s)) : HostExt(s)[k] \in Allowed
  BY <1>2, <1>5, LettersOf
<1>7. \A c \in Allowed : c \notin Marks
  BY AllowedAssumption
<1>8. Len(s) \in Nat
  BY <1>1
<1>9. CASE Where(s, dots) = {}
  <2> DEFINE d == Len(s) + 1
  <2>1. HostStem(s) = s
    BY <1>3, <1>9
  <2>2. Len(s) # 0
    BY <1>1, <1>2, <2>1, EmptySeq
  <2>3. d \in 2 .. Len(s) + 1 /\ ~(d <= Len(s)) /\ \A j \in 1 .. Len(s) : s[j] \notin Marks
    BY <1>6, <1>7, <1>8, <2>1, <2>2
  <2> HIDE DEF d
  <2>4. Dotted(s, d)
    BY <2>3 DEF Dotted
  <2> QED BY <1>1, <2>3, <2>4, UpperDotted DEF s
<1>10. CASE Where(s, dots) # {}
  <2> DEFINE d == Final(s, dots)
  <2>1. d \in 1 .. Len(s) /\ s[d] \in dots
    BY <1>1, <1>10, FinalFound
  <2> HIDE DEF d
  <2>2. HostStem(s) = Front(s, d) /\ HostExt(s) = Back(s, d)
    BY <1>3, <1>10 DEF d, Front, Back
  <2>3. d # 1
    <3> SUFFICES ASSUME d = 1 PROVE FALSE
      OBVIOUS
    <3>1. HostStem(s) = SubSeq(s, 1, 0)
      BY <2>2 DEF Front
    <3> QED BY <1>1, <1>2, <3>1, SubSeqEmpty
  <2>4. d \in 2 .. Len(s) + 1
    BY <1>8, <2>1, <2>3
  <2>5. /\ Len(Front(s, d)) = d - 1
        /\ \A j \in 1 .. d - 1 : Front(s, d)[j] = s[j]
        /\ Len(Back(s, d)) = (IF d <= Len(s) THEN Len(s) - d ELSE 0)
        /\ \A j \in 1 .. Len(s) - d : Back(s, d)[j] = s[d + j]
    <3>1. /\ Len(Front(s, d)) = d - 1
          /\ \A j \in 1 .. d - 1 : Front(s, d)[j] = s[j]
      BY <1>1, <2>4, FrontFacts
    <3>2. /\ Len(Back(s, d)) = (IF d <= Len(s) THEN Len(s) - d ELSE 0)
          /\ \A j \in 1 .. Len(s) - d : Back(s, d)[j] = s[d + j]
      BY <1>1, <2>4, BackFacts
    <3> QED BY <3>1, <3>2
  <2>6. \A j \in 1 .. d - 1 : s[j] \in Allowed
    BY <1>6, <2>2, <2>5
  <2>7. \A j \in 1 .. Len(s) - d : s[d + j] \in Allowed
    <3>1. Len(HostExt(s)) = Len(s) - d
      BY <2>1, <2>2, <2>5
    <3> QED BY <1>6, <2>2, <2>5, <3>1
  <2>8. ASSUME NEW j \in 1 .. Len(s), j # d PROVE s[j] \in Allowed
    <3>1. CASE j < d
      <4>1. j \in 1 .. d - 1
        BY <2>1, <3>1
      <4> QED BY <2>6, <4>1
    <3>2. CASE j > d
      <4>1. j - d \in 1 .. Len(s) - d /\ d + (j - d) = j
        BY <2>1, <3>2, <1>8
      <4> QED BY <2>7, <4>1
    <3> QED BY <2>1, <2>8, <3>1, <3>2
  <2>9. Dotted(s, d)
    BY <1>4, <1>7, <2>1, <2>4, <2>8 DEF Dotted
  <2> QED BY <1>1, <2>4, <2>9, UpperDotted DEF s
<1> QED BY <1>9, <1>10

\* A file that mkfloppy.py takes is found by the driver under its host name,
\* however long the two name parts may be and whatever a character set holds.
THEOREM HostNamesAreFound ==
  \A name \in Seq(DOMAIN UpperOf) : HostNameFinds(name)
<1> SUFFICES ASSUME NEW t \in Seq(DOMAIN UpperOf), IsDosName(t)
             PROVE  Is83(t) /\ make_83(t) = dos_name(t)
  BY DEF HostNameFinds
<1> DEFINE s == UpperCase(t)
<1>1. PICK d \in 2 .. Len(t) + 1 : Dotted(t, d)
  BY HostNameDotted
<1>2. s \in Seq(Upper) /\ Len(s) = Len(t)
  BY UpperCaseIs
<1>3. Stem83(t) = Front(t, d) /\ Ext83(t) = Back(t, d)
  BY <1>1, TypedSplit
<1>4. HostStem(s) = Front(s, d) /\ HostExt(s) = Back(s, d)
  BY <1>1, <1>2, UpperDotted, HostSplit
<1>5. UpperCase(Front(t, d)) = Front(s, d) /\ UpperCase(Back(t, d)) = Back(s, d)
  BY <1>1, UpperParts
<1>6. make_83(t) = dos_name(t)
  BY <1>3, <1>4, <1>5 DEF make_83, dos_name
<1>7. /\ Len(Front(t, d)) = Len(Front(s, d)) /\ Len(Back(t, d)) = Len(Back(s, d))
      /\ Len(Front(t, d)) = d - 1 /\ d >= 2
  <2>1. d \in 2 .. Len(s) + 1
    BY <1>2
  <2>2. Len(Front(t, d)) = d - 1 /\ Len(Front(s, d)) = d - 1 /\ d >= 2
    BY <1>2, <2>1, FrontFacts
  <2>3. Len(Back(s, d)) = IF d <= Len(s) THEN Len(s) - d ELSE 0
    BY <1>2, <2>1, BackFacts
  <2>4. Len(Back(t, d)) = IF d <= Len(t) THEN Len(t) - d ELSE 0
    BY BackFacts
  <2> QED BY <1>2, <2>2, <2>3, <2>4
<1>8. Front(t, d) # <<>>
  <2>1. Front(t, d) \in Seq(DOMAIN UpperOf) /\ d - 1 # 0
    BY <1>1, FrontFacts, BackFacts
  <2> QED BY <1>7, <2>1, EmptySeq
<1>9. Len(HostStem(s)) <= StemLen /\ Len(HostExt(s)) <= ExtLen
  BY DEF IsDosName
<1>10. Is83(t)
  BY <1>3, <1>4, <1>7, <1>8, <1>9 DEF Is83
<1> QED BY <1>6, <1>10

\* The start of a string.
LEMMA StartOf ==
  ASSUME NEW S, NEW s \in Seq(S), NEW n \in 0 .. Len(s)
  PROVE  /\ SubSeq(s, 1, n) \in Seq(S) /\ Len(SubSeq(s, 1, n)) = n
         /\ \A j \in 1 .. n : SubSeq(s, 1, n)[j] = s[j]
<1>1. /\ 1 \in Int /\ n \in Int /\ n >= 0 /\ \A k \in 1 .. n : s[k] \in S
  OBVIOUS
<1>2. /\ SubSeq(s, 1, n) \in Seq(S)
      /\ Len(SubSeq(s, 1, n)) = (IF 1 <= n THEN n - 1 + 1 ELSE 0)
      /\ \A i \in 1 .. n - 1 + 1 : SubSeq(s, 1, n)[i] = s[1 + i - 1]
  BY <1>1, SubSeqProperties
<1> QED BY <1>1, <1>2

\* The parts make_83 takes from a typed name, drive and slashes dropped, are the
\* two sides of the first dot before any space.
LEMMA TypedParts ==
  ASSUME NEW S, NEW name, NEW b \in Seq(S), b = Base(name), Stem83(name) # <<>>,
         NEW u, u = Until(b, Space)
  PROVE  /\ u \in Seq(S)
         /\ \E p \in 2 .. Len(u) + 1 :
              /\ Stem83(name) = Front(u, p) /\ Ext83(name) = Back(u, p)
              /\ p <= Len(u) => u[p] = Dot
              /\ \A j \in 1 .. Len(u) : u[j] \notin Space
<1> DEFINE stops == {"."} \cup Space
           n == Len(b)
<1>1. /\ \A c : c \in stops <=> (c = Dot \/ c \in Space)
      /\ Dot \notin Space
  BY MarksAre
<1>2. /\ Stem83(name) = Until(b, stops)
      /\ Rest83(name) = SubSeq(b, Len(Stem83(name)) + 1, n)
      /\ Ext83(name) = IF Rest83(name) # <<>> /\ Rest83(name)[1] = Dot
                       THEN Until(Tail(Rest83(name)), Space) ELSE <<>>
  BY Zenon DEF Stem83, Rest83, Ext83, Dot
<1> HIDE DEF stops
<1>3. PICK p \in 1 .. Len(b) + 1 :
        (\A j \in 1 .. p - 1 : b[j] \notin stops) /\ (p <= Len(b) => b[p] \in stops)
  BY Cutting
<1>4. PICK q \in 1 .. Len(b) + 1 :
        (\A j \in 1 .. q - 1 : b[j] \notin Space) /\ (q <= Len(b) => b[q] \in Space)
  BY Cutting
<1>5. n \in Nat /\ p \in Nat /\ q \in Nat /\ p >= 1 /\ q >= 1 /\ p <= n + 1 /\ q <= n + 1
  BY <1>3, <1>4
<1>6. Stem83(name) = SubSeq(b, 1, p - 1)
  BY <1>2, <1>3, UntilIs
<1>7. u = SubSeq(b, 1, q - 1)
  BY <1>4, UntilIs
<1>8. p # 1
  BY <1>6, SubSeqEmpty
<1>9. p <= q
  <2> SUFFICES ASSUME ~(p <= q) PROVE FALSE
    OBVIOUS
  <2>1. q \in 1 .. p - 1 /\ q <= n
    BY <1>5
  <2> QED BY <1>1, <1>3, <1>4, <2>1
<1>10. /\ u \in Seq(S) /\ Len(u) = q - 1
       /\ \A j \in 1 .. q - 1 : u[j] = b[j]
  <2>1. q - 1 \in 0 .. Len(b)
    BY <1>5
  <2> QED BY <1>7, <2>1, StartOf
<1>11. /\ Len(Stem83(name)) = p - 1 /\ Stem83(name) \in Seq(S)
       /\ \A j \in 1 .. p - 1 : Stem83(name)[j] = b[j]
  <2>1. p - 1 \in 0 .. Len(b)
    BY <1>5
  <2> QED BY <1>6, <2>1, StartOf
<1>12. p \in 2 .. Len(u) + 1
  BY <1>5, <1>8, <1>9, <1>10
<1>13. Stem83(name) = Front(u, p)
  <2> DEFINE a == Stem83(name)
             c == Front(u, p)
  <2>1. /\ c \in Seq(S) /\ Len(c) = p - 1
        /\ \A j \in 1 .. p - 1 : c[j] = u[j]
    BY <1>10, <1>12, FrontFacts
  <2>2. \A j \in 1 .. p - 1 : j \in 1 .. q - 1
    BY <1>5, <1>9
  <2>3. a \in Seq(S) /\ Len(a) = Len(c) /\ \A j \in 1 .. Len(a) : a[j] = c[j]
    BY <1>10, <1>11, <2>1, <2>2
  <2> HIDE DEF a, c
  <2>4. a = c
    BY <2>1, <2>3, SeqEqual
  <2> QED BY <2>4 DEF a, c
<1>14. Rest83(name) = SubSeq(b, p, n)
  <2>1. (p - 1) + 1 = p
    BY <1>5
  <2> QED BY <1>2, <1>11, <2>1
<1>15. p < q => p <= n /\ b[p] = Dot
  <2>1. p < q => p <= n /\ p \in 1 .. q - 1
    BY <1>5
  <2> QED BY <1>1, <1>3, <1>4, <2>1
<1>16. Ext83(name) = Back(u, p)
  <2>1. CASE p = q
    <3>1. Back(u, p) = <<>>
      <4>1. Len(Back(u, p)) = 0 /\ Back(u, p) \in Seq(S)
        <5>1. /\ Back(u, p) \in Seq(S)
              /\ Len(Back(u, p)) = IF p <= Len(u) THEN Len(u) - p ELSE 0
          BY <1>10, <1>12, BackFacts
        <5> QED BY <1>5, <1>10, <2>1, <5>1
      <4> QED BY <4>1, EmptySeq
    <3>2. CASE p <= n
      <4>1. p \in 2 .. Len(b)
        BY <1>5, <1>8, <3>2
      <4>2. Rest83(name)[1] = b[p]
        BY <1>14, <4>1, FromPlace
      <4>3. b[p] # Dot
        BY <1>1, <1>4, <2>1, <3>2
      <4> QED BY <1>2, <3>1, <4>2, <4>3
    <3>3. CASE p = n + 1
      <4>1. Rest83(name) = <<>>
        <5>1. p > n /\ p \in Int /\ n \in Int
          BY <1>5, <3>3
        <5> QED BY <1>14, <5>1, SubSeqEmpty
      <4> QED BY <1>2, <3>1, <4>1
    <3> QED BY <1>5, <3>2, <3>3
  <2>2. CASE p < q
    <3> DEFINE e == Back(b, p)
               r == Back(u, p)
               x == SubSeq(e, 1, q - p - 1)
    <3>1. p \in 2 .. Len(b) /\ p \in 2 .. Len(b) + 1
      BY <1>5, <1>8, <1>15, <2>2
    <3>2. Rest83(name) # <<>> /\ Rest83(name)[1] = Dot /\ Tail(Rest83(name)) = e
      BY <1>14, <1>15, <2>2, <3>1, FromPlace
    <3>3. Ext83(name) = Until(e, Space)
      BY <1>2, <3>2
    <3>4. /\ e \in Seq(S) /\ \A j \in 1 .. Len(b) - p : e[j] = b[p + j]
          /\ Len(e) = IF p <= Len(b) THEN Len(b) - p ELSE 0
      BY <3>1, BackFacts
    <3>5. /\ r \in Seq(S) /\ \A j \in 1 .. Len(u) - p : r[j] = u[p + j]
          /\ Len(r) = IF p <= Len(u) THEN Len(u) - p ELSE 0
      <4>1. r \in Seq(S)
        BY <1>10, <1>12, BackFacts
      <4>2. \A j \in 1 .. Len(u) - p : r[j] = u[p + j]
        <5>1. u \in Seq(S)
          BY <1>10
        <5> QED BY <1>12, <5>1, BackFacts, Zenon
      <4>3. Len(r) = IF p <= Len(u) THEN Len(u) - p ELSE 0
        BY <1>10, <1>12, BackFacts
      <4> QED BY <4>1, <4>2, <4>3
    <3> HIDE DEF e, r
    <3>6. Len(e) = n - p /\ Len(r) = q - p - 1
      <4>1. Len(e) = n - p
        BY <1>5, <3>1, <3>4
      <4>2. Len(r) = q - 1 - p
        BY <1>5, <1>10, <2>2, <3>5
      <4> QED BY <1>5, <4>1, <4>2
    <3>7. q - p \in 1 .. Len(e) + 1
      BY <1>5, <2>2, <3>6
    <3>8. \A j \in 1 .. q - p - 1 : e[j] = b[p + j] /\ p + j \in 1 .. q - 1
      <4>1. \A j \in 1 .. q - p - 1 : j \in 1 .. Len(b) - p /\ p + j \in 1 .. q - 1
        BY <1>5
      <4> QED BY <3>4, <4>1
    <3>9. q - p <= Len(e) => e[q - p] \in Space
      <4>1. q - p <= Len(e) => q - p \in 1 .. Len(b) - p /\ p + (q - p) = q /\ q <= Len(b)
        BY <1>5, <2>2, <3>6
      <4> QED BY <1>4, <3>4, <4>1
    <3>10. Until(e, Space) = x
      <4>1. \A j \in 1 .. q - p - 1 : e[j] \notin Space
        BY <1>4, <3>8
      <4> QED BY <3>4, <3>7, <3>9, <4>1, UntilIs
    <3>11. x \in Seq(S) /\ Len(x) = q - p - 1 /\ \A j \in 1 .. q - p - 1 : x[j] = e[j]
      <4>1. q - p - 1 \in 0 .. Len(e)
        BY <1>5, <2>2, <3>6
      <4> QED BY <3>4, <4>1, StartOf
    <3> HIDE DEF x
    <3>12. ASSUME NEW j \in 1 .. Len(x) PROVE x[j] = r[j]
      <4>1. j \in 1 .. q - p - 1 /\ j \in 1 .. Len(u) - p /\ p + j \in 1 .. q - 1
        BY <1>5, <1>10, <3>11
      <4> QED BY <1>10, <3>5, <3>8, <3>11, <4>1
    <3>13. x = r
      BY <3>5, <3>6, <3>11, <3>12, SeqEqual
    <3> QED BY <3>3, <3>10, <3>13 DEF r
  <2> QED BY <1>5, <1>9, <2>1, <2>2
<1>17. p <= Len(u) => u[p] = Dot
  <2>1. p <= Len(u) => p < q /\ p \in 1 .. q - 1
    BY <1>5, <1>10
  <2> QED BY <1>10, <1>15, <2>1
<1>18. \A j \in 1 .. Len(u) : u[j] \notin Space
  BY <1>4, <1>10
<1> QED BY <1>10, <1>12, <1>13, <1>16, <1>17, <1>18

LEMMA BaseIs ==
  ASSUME NEW S, NEW name \in Seq(S)
  PROVE  Base(name) \in Seq(S)
<1> DEFINE w == WithoutDrive(name)
<1>1. w \in Seq(S)
  <2>1. w = name \/ (Len(name) >= 3 /\ w = SubSeq(name, 4, Len(name)))
    BY Zenon DEF WithoutDrive
  <2>2. Len(name) >= 3 => SubSeq(name, 4, Len(name)) \in Seq(S)
    <3>1. 4 \in Int /\ Len(name) \in Int /\ \A k \in 4 .. Len(name) : name[k] \in S
      OBVIOUS
    <3> QED BY <3>1, SubSeqProperties
  <2> HIDE DEF w
  <2> QED BY <2>1, <2>2
<1>2. Base(name) = DropRun(w, Slashes)
  BY DEF Base
<1> HIDE DEF w
<1> QED BY <1>1, <1>2, DropRunStarts

\* A typed name finds no file but the one it names: what make_83 makes of it is
\* what dos_name makes of the name without drive, slashes and what a space ends.
THEOREM TypedNamesAreExact ==
  \A name \in Seq(DOMAIN UpperOf) : TypedNameFindsItsFile(name)
<1> SUFFICES ASSUME NEW name \in Seq(DOMAIN UpperOf), Is83(name),
                    Letters(make_83(name)) \subseteq Allowed \cup {Blank},
                    NEW u, u = Until(Base(name), Space)
             PROVE  IsDosName(u) /\ dos_name(u) = make_83(name)
  BY Zenon DEF TypedNameFindsItsFile, Blank
<1> DEFINE D == DOMAIN UpperOf
           stem == Stem83(name)
           ext == Ext83(name)
           us == UpperCase(stem)
           ue == UpperCase(ext)
           made == make_83(name)
           key == UpperCase(u)
<1>1. stem # <<>> /\ Len(stem) <= StemLen /\ Len(ext) <= ExtLen
  BY DEF Is83
<1>2. Base(name) \in Seq(D)
  BY BaseIs
<1>3. u \in Seq(D) /\ \E p \in 2 .. Len(u) + 1 :
        /\ stem = Front(u, p) /\ ext = Back(u, p)
        /\ p <= Len(u) => u[p] = Dot
        /\ \A j \in 1 .. Len(u) : u[j] \notin Space
  <2> HIDE DEF D, us, ue, made, key
  <2> QED BY <1>1, <1>2, TypedParts
<1>4. PICK p \in 2 .. Len(u) + 1 :
        /\ stem = Front(u, p) /\ ext = Back(u, p)
        /\ p <= Len(u) => u[p] = Dot
        /\ \A j \in 1 .. Len(u) : u[j] \notin Space
  BY <1>3
<1>5. made = Packed(us, ue)
  BY DEF make_83
<1>6. /\ us = Front(key, p) /\ ue = Back(key, p) /\ Len(key) = Len(u)
  BY <1>3, <1>4, UpperParts
<1> HIDE DEF stem, ext
<1>7. /\ stem \in Seq(D) /\ Len(stem) = p - 1
      /\ \A j \in 1 .. p - 1 : stem[j] = u[j]
  <2> HIDE DEF D
  <2> QED BY <1>3, <1>4, FrontFacts
<1>8. /\ ext \in Seq(D) /\ Len(ext) = (IF p <= Len(u) THEN Len(u) - p ELSE 0)
      /\ \A j \in 1 .. Len(u) - p : ext[j] = u[p + j]
  <2> HIDE DEF D
  <2>1. /\ Back(u, p) \in Seq(D)
        /\ Len(Back(u, p)) = IF p <= Len(u) THEN Len(u) - p ELSE 0
        /\ \A j \in 1 .. Len(u) - p : Back(u, p)[j] = u[p + j]
    BY <1>3, BackFacts
  <2> QED BY <1>4, <2>1
<1>9. /\ us \in Seq(Upper) /\ Len(us) = Len(stem)
      /\ \A k \in 1 .. Len(stem) : us[k] = UpperOf[stem[k]]
  BY <1>7, UpperCaseIs
<1>10. /\ ue \in Seq(Upper) /\ Len(ue) = Len(ext)
       /\ \A k \in 1 .. Len(ext) : ue[k] = UpperOf[ext[k]]
  BY <1>8, UpperCaseIs
<1> HIDE DEF us, ue, made, key, D
<1>11. /\ Len(made) = StemLen + ExtLen /\ made \in Seq(Chars)
       /\ \A k \in 1 .. Len(us) : made[k] = us[k]
       /\ \A k \in 1 .. Len(ue) : made[StemLen + k] = ue[k]
  <2>1. us \in Seq(Chars) /\ ue \in Seq(Chars) /\ Len(us) <= StemLen /\ Len(ue) <= ExtLen
    <3>1. \A c \in Upper : c \in Chars
      BY DEF Chars
    <3> QED BY <1>1, <1>9, <1>10, <3>1
  <2>2. /\ Packed(us, ue) \in Seq(Chars) /\ Len(Packed(us, ue)) = StemLen + ExtLen
        /\ \A k \in 1 .. StemLen :
             Packed(us, ue)[k] = IF k <= Len(us) THEN us[k] ELSE Blank
        /\ \A k \in 1 .. ExtLen :
             Packed(us, ue)[StemLen + k] = IF k <= Len(ue) THEN ue[k] ELSE Blank
    BY <2>1, PackedFacts
  <2>3. \A k \in 1 .. Len(us) : k \in 1 .. StemLen /\ k <= Len(us)
    BY <1>9, <2>1, NameLengths
  <2>4. \A k \in 1 .. Len(ue) : k \in 1 .. ExtLen /\ k <= Len(ue)
    BY <1>10, <2>1, NameLengths
  <2> QED BY <1>5, <2>2, <2>3, <2>4
<1>12. \A k \in 1 .. StemLen + ExtLen : made[k] \in Allowed \/ made[k] = Blank
  <2>1. DOMAIN made = 1 .. StemLen + ExtLen
    BY <1>11
  <2>2. \A k \in DOMAIN made : made[k] \in Allowed \cup {Blank}
    BY Zenon DEF Letters, made
  <2> QED BY <2>1, <2>2
<1>13. ASSUME NEW c \in D, c \notin Space, UpperOf[c] \in Allowed \/ UpperOf[c] = Blank
       PROVE  UpperOf[c] \in Allowed /\ c \notin Marks
  <2>1. (c \in Marks \/ UpperOf[c] \in Marks) => UpperOf[c] = c
    BY UpperMarks DEF D
  <2>2. Blank \in Space /\ Blank \in Marks
    BY MarksAre
  <2>3. \A x \in Allowed : x \notin Marks
    BY AllowedAssumption
  <2> QED BY <1>13, <2>1, <2>2, <2>3
<1>14. /\ Len(u) \in Nat /\ p \in Nat /\ p >= 2 /\ p <= Len(u) + 1
  BY <1>3, <1>4
<1>15. \A k \in 1 .. p - 1 : us[k] \in Allowed /\ u[k] \notin Marks
  <2> TAKE k \in 1 .. p - 1
  <2>1. k \in 1 .. Len(u) /\ k \in 1 .. Len(stem) /\ k \in 1 .. StemLen + ExtLen
    BY <1>1, <1>7, <1>14, NameLengths
  <2>2. stem[k] = u[k] /\ u[k] \in D /\ u[k] \notin Space
    BY <1>3, <1>4, <1>7, <2>1
  <2>3. us[k] = UpperOf[u[k]] /\ made[k] = us[k]
    BY <1>9, <1>11, <2>1, <2>2
  <2> QED BY <1>12, <1>13, <2>1, <2>2, <2>3
<1>16. \A k \in 1 .. Len(ext) : ue[k] \in Allowed /\ u[p + k] \notin Marks
  <2> TAKE k \in 1 .. Len(ext)
  <2>1. p + k \in 1 .. Len(u) /\ k \in 1 .. Len(u) - p /\ StemLen + k \in 1 .. StemLen + ExtLen
    <3> DEFINE n == Len(u)
               m == Len(ext)
    <3>1. m = (IF p <= n THEN n - p ELSE 0) /\ m <= ExtLen /\ k \in 1 .. m
      BY <1>1, <1>8
    <3>2. n \in Nat /\ p \in Nat /\ StemLen \in Nat /\ ExtLen \in Nat
      BY <1>14, NameLengths
    <3> HIDE DEF n, m
    <3>3. p + k \in 1 .. n /\ k \in 1 .. n - p /\ StemLen + k \in 1 .. StemLen + ExtLen
      BY <3>1, <3>2
    <3> QED BY <3>3 DEF n
  <2>2. ext[k] = u[p + k] /\ u[p + k] \in D /\ u[p + k] \notin Space
    BY <1>3, <1>4, <1>8, <2>1
  <2>3. ue[k] = UpperOf[u[p + k]] /\ made[StemLen + k] = ue[k]
    BY <1>10, <1>11, <2>1, <2>2
  <2> QED BY <1>12, <1>13, <2>1, <2>2, <2>3
<1>17. Dotted(u, p)
  <2>1. ASSUME NEW j \in 1 .. Len(u), j # p PROVE u[j] \notin Marks
    <3>1. CASE j < p
      <4>1. j \in 1 .. p - 1
        BY <1>14, <3>1
      <4> QED BY <1>15, <4>1
    <3>2. CASE j > p
      <4>1. j - p \in 1 .. Len(ext) /\ p + (j - p) = j
        BY <1>8, <1>14, <3>2
      <4> QED BY <1>16, <4>1
    <3> QED BY <1>14, <2>1, <3>1, <3>2
  <2> QED BY <1>4, <2>1 DEF Dotted
<1>18. HostStem(key) = us /\ HostExt(key) = ue
  <2>1. Dotted(key, p)
    BY <1>3, <1>17, UpperDotted DEF D, key
  <2>2. key \in Seq(Upper)
    BY <1>3, UpperCaseIs DEF D, key
  <2> QED BY <1>6, <2>1, <2>2, HostSplit
<1>19. dos_name(u) = made
  BY <1>5, <1>18 DEF dos_name, key
<1>20. Letters(us \o ue) \subseteq Allowed
  <2>1. \A k \in 1 .. Len(us) : us[k] \in Allowed
    BY <1>7, <1>9, <1>15
  <2>2. \A k \in 1 .. Len(ue) : ue[k] \in Allowed
    BY <1>10, <1>16
  <2> QED BY <1>9, <1>10, <2>1, <2>2, LettersOf
<1>21. us # <<>> /\ Len(us) <= StemLen /\ Len(ue) <= ExtLen
  <2>1. Len(us) # 0
    BY <1>7, <1>9, <1>14
  <2> QED BY <1>1, <1>9, <1>10, <2>1, EmptySeq
<1>22. IsDosName(u)
  BY <1>18, <1>20, <1>21 DEF IsDosName, key
<1> QED BY <1>19, <1>22 DEF made

\* A field that holds a name part and then blanks gives the part back.
LEMMA FieldReadsBack ==
  ASSUME NEW s \in Seq(Chars), NEW a \in Seq(Chars), Len(a) <= Len(s),
         \A k \in 1 .. Len(a) : a[k] # Blank,
         \A k \in 1 .. Len(s) : s[k] = IF k <= Len(a) THEN a[k] ELSE Blank
  PROVE  Until(s, {Blank}) = a
<1> DEFINE d == Len(a) + 1
           chars == {Blank}
           n == Len(s)
           m == Len(a)
<1>1. m \in Nat /\ n \in Nat /\ m <= n
  OBVIOUS
<1>2. \A c : c \in chars <=> c = Blank
  OBVIOUS
<1> HIDE DEF chars, n, m
<1>3. d \in 1 .. Len(s) + 1 /\ d - 1 = m
  BY <1>1 DEF n, m
<1>4. \A j \in 1 .. m : s[j] = a[j] /\ j \in 1 .. n /\ a[j] # Blank
  BY <1>1 DEF n, m
<1>5. d <= n => s[d] = Blank
  BY <1>1 DEF n, m
<1>6. Until(s, chars) = SubSeq(s, 1, m)
  <2>1. \A j \in 1 .. d - 1 : s[j] \notin chars
    BY <1>2, <1>3, <1>4
  <2>2. d <= Len(s) => s[d] \in chars
    BY <1>2, <1>5 DEF n
  <2> HIDE DEF d
  <2>3. Until(s, chars) = SubSeq(s, 1, d - 1)
    BY <1>3, <2>1, <2>2, UntilIs
  <2> QED BY <1>3, <2>3
<1>7. SubSeq(s, 1, m) = a
  <2> DEFINE x == SubSeq(s, 1, m)
  <2>1. x \in Seq(Chars) /\ Len(x) = m /\ \A j \in 1 .. m : x[j] = s[j]
    <3>1. m \in 0 .. Len(s)
      BY <1>1 DEF n
    <3> QED BY <3>1, StartOf
  <2> HIDE DEF x
  <2>2. x = a
    <3>1. Len(x) = Len(a) /\ \A j \in 1 .. Len(x) : x[j] = a[j]
      BY <1>4, <2>1 DEF m
    <3> QED BY <2>1, <3>1, SeqEqual
  <2> QED BY <2>2 DEF x
<1> QED BY <1>6, <1>7 DEF chars

LEMMA OneMore ==
  ASSUME NEW S, NEW a \in Seq(S), NEW c \in S
  PROVE  /\ a \o <<c>> \in Seq(S) /\ Len(a \o <<c>>) = Len(a) + 1
         /\ \A k \in 1 .. Len(a) : (a \o <<c>>)[k] = a[k]
         /\ (a \o <<c>>)[Len(a) + 1] = c
<1> DEFINE g == <<c>>
<1>1. g \in Seq(S) /\ Len(g) = 1 /\ g[1] = c
  OBVIOUS
<1> HIDE DEF g
<1>2. /\ a \o g \in Seq(S) /\ Len(a \o g) = Len(a) + Len(g)
      /\ \A k \in 1 .. Len(a) : (a \o g)[k] = a[k]
      /\ \A k \in 1 .. Len(g) : (a \o g)[Len(a) + k] = g[k]
  <2>1. g \in Seq(S)
    BY <1>1
  <2> QED BY <2>1, Joined
<1> QED BY <1>1, <1>2 DEF g

LEMMA BackIs ==
  ASSUME NEW S, NEW e \in Seq(S), NEW d \in 2 .. Len(e) + 1, NEW b \in Seq(S),
         Len(e) = d + Len(b), \A k \in 1 .. Len(b) : e[d + k] = b[k]
  PROVE  Back(e, d) = b
<1> DEFINE x == Back(e, d)
<1>1. x \in Seq(S)
  BY BackFacts
<1>2. Len(x) = Len(b)
  <2>1. Len(x) = IF d <= Len(e) THEN Len(e) - d ELSE 0
    BY BackFacts
  <2>2. Len(b) \in Nat /\ d \in Nat
    OBVIOUS
  <2> HIDE DEF x
  <2> QED BY <2>1, <2>2
<1>3. \A j \in 1 .. Len(e) - d : x[j] = e[d + j]
  BY BackFacts
<1>4. Len(e) - d = Len(b)
  OBVIOUS
<1> HIDE DEF x
<1>5. \A j \in 1 .. Len(x) : x[j] = b[j]
  BY <1>2, <1>3, <1>4
<1>6. x = b
  BY <1>1, <1>2, <1>5, SeqEqual
<1> QED BY <1>6 DEF x

LEMMA FrontIs ==
  ASSUME NEW S, NEW e \in Seq(S), NEW d \in 2 .. Len(e) + 1, NEW a \in Seq(S),
         Len(a) = d - 1, \A k \in 1 .. d - 1 : e[k] = a[k]
  PROVE  Front(e, d) = a
<1> DEFINE x == Front(e, d)
<1>1. x \in Seq(S) /\ Len(x) = d - 1 /\ \A j \in 1 .. d - 1 : x[j] = e[j]
  BY FrontFacts
<1> HIDE DEF x
<1>2. Len(x) = Len(a) /\ \A j \in 1 .. Len(x) : x[j] = a[j]
  BY <1>1
<1>3. x = a
  BY <1>1, <1>2, SeqEqual
<1> QED BY <1>3 DEF x

\* Two parts around a character.
LEMMA Parted ==
  ASSUME NEW S, NEW a \in Seq(S), NEW b \in Seq(S), NEW c \in S, Len(a) >= 1,
         NEW f, f = a \o <<c>>, NEW e, e = f \o b, NEW d, d = Len(a) + 1
  PROVE  /\ e \in Seq(S) /\ Len(e) = d + Len(b)
         /\ \A k \in 1 .. d - 1 : e[k] = a[k]
         /\ e[d] = c
         /\ \A k \in 1 .. Len(b) : e[d + k] = b[k]
<1> DEFINE n == Len(b)
<1>1. /\ f \in Seq(S) /\ Len(f) = d
      /\ \A k \in 1 .. Len(a) : f[k] = a[k]
      /\ f[d] = c
  BY OneMore
<1>2. /\ e \in Seq(S) /\ Len(e) = d + n
      /\ \A k \in 1 .. d : e[k] = f[k]
      /\ \A k \in 1 .. n : e[d + k] = b[k]
  <2>1. f \in Seq(S)
    BY <1>1
  <2>2. /\ f \o b \in Seq(S) /\ Len(f \o b) = Len(f) + Len(b)
        /\ \A k \in 1 .. Len(f) : (f \o b)[k] = f[k]
        /\ \A k \in 1 .. Len(b) : (f \o b)[Len(f) + k] = b[k]
    BY <2>1, Joined
  <2> QED BY <1>1, <2>2
<1>3. d \in Nat /\ d >= 2 /\ n \in Nat /\ Len(a) = d - 1
  OBVIOUS
<1> HIDE DEF n
<1>4. /\ \A k \in 1 .. d - 1 : e[k] = a[k]
      /\ e[d] = c
  <2>1. d \in 1 .. d /\ \A k \in 1 .. d - 1 : k \in 1 .. d /\ k \in 1 .. Len(a)
    BY <1>3
  <2> QED BY <1>1, <1>2, <2>1
<1> QED BY <1>2, <1>4 DEF n

\* What entry_name makes of the name of an entry: the upper-case host name,
\* without a dot at its end.
LEMMA EntryNameIs ==
  ASSUME NEW name \in Seq(DOMAIN UpperOf), IsDosName(name),
         NEW s, s = UpperCase(name), NEW stem, stem = HostStem(s), NEW ext, ext = HostExt(s)
  PROVE  entry_name(dos_name(name)) =
           IF ext # <<>> THEN (stem \o <<Dot>>) \o ext ELSE stem
<1> DEFINE dos == dos_name(name)
           x == SubSeq(dos, 1, StemLen)
           y == SubSeq(dos, StemLen + 1, StemLen + ExtLen)
<1>1. /\ Len(stem) <= StemLen /\ Len(ext) <= ExtLen
      /\ Letters(stem \o ext) \subseteq Allowed
      /\ dos = Packed(stem, ext)
  BY DEF IsDosName, dos_name
<1>2. stem \in Seq(Upper) /\ ext \in Seq(Upper)
  BY UpperCaseIs, HostParts
<1>3. stem \in Seq(Chars) /\ ext \in Seq(Chars)
  <2>1. \A c \in Upper : c \in Chars
    BY DEF Chars
  <2> QED BY <1>2, <2>1
<1>4. /\ \A k \in 1 .. Len(stem) : stem[k] # Blank
      /\ \A k \in 1 .. Len(ext) : ext[k] # Blank
  <2>1. /\ \A k \in 1 .. Len(stem) : stem[k] \in Allowed
        /\ \A k \in 1 .. Len(ext) : ext[k] \in Allowed
    BY <1>1, <1>2, LettersOf
  <2>2. Blank \notin Allowed
    BY MarksAre, AllowedAssumption
  <2> QED BY <2>1, <2>2
<1> HIDE DEF dos
<1>5. /\ dos \in Seq(Chars) /\ Len(dos) = StemLen + ExtLen
      /\ \A k \in 1 .. StemLen : dos[k] = IF k <= Len(stem) THEN stem[k] ELSE Blank
      /\ \A k \in 1 .. ExtLen : dos[StemLen + k] = IF k <= Len(ext) THEN ext[k] ELSE Blank
  <2>1. /\ Packed(stem, ext) \in Seq(Chars) /\ Len(Packed(stem, ext)) = StemLen + ExtLen
        /\ \A k \in 1 .. StemLen :
             Packed(stem, ext)[k] = IF k <= Len(stem) THEN stem[k] ELSE Blank
        /\ \A k \in 1 .. ExtLen :
             Packed(stem, ext)[StemLen + k] = IF k <= Len(ext) THEN ext[k] ELSE Blank
    BY <1>1, <1>3, PackedFacts
  <2> QED BY <1>1, <2>1
<1>6. StemLen \in Nat /\ ExtLen \in Nat /\ ExtLen >= 1 /\ StemLen >= 1
  BY NameLengths
<1>7. x \in Seq(Chars) /\ Len(x) = StemLen /\ \A k \in 1 .. StemLen : x[k] = dos[k]
  <2>1. StemLen \in 0 .. Len(dos)
    BY <1>5, <1>6
  <2> QED BY <1>5, <2>1, StartOf
<1>8. y \in Seq(Chars) /\ Len(y) = ExtLen /\ \A k \in 1 .. ExtLen : y[k] = dos[StemLen + k]
  <2> DEFINE p == StemLen + 1
             q == StemLen + ExtLen
  <2>1. p \in Int /\ q \in Int /\ p <= q /\ \A k \in p .. q : dos[k] \in Chars
    <3>1. \A k \in p .. q : k \in 1 .. Len(dos)
      BY <1>5, <1>6
    <3> QED BY <1>5, <1>6, <3>1
  <2>2. q - p + 1 = ExtLen /\ \A k \in 1 .. ExtLen : p + k - 1 = StemLen + k
    BY <1>6
  <2> HIDE DEF p, q
  <2>3. /\ SubSeq(dos, p, q) \in Seq(Chars)
        /\ Len(SubSeq(dos, p, q)) = IF p <= q THEN q - p + 1 ELSE 0
        /\ \A i \in 1 .. q - p + 1 : SubSeq(dos, p, q)[i] = dos[p + i - 1]
    BY <2>1, SubSeqProperties
  <2>4. /\ SubSeq(dos, p, q) \in Seq(Chars) /\ Len(SubSeq(dos, p, q)) = ExtLen
        /\ \A i \in 1 .. ExtLen : SubSeq(dos, p, q)[i] = dos[StemLen + i]
    BY <2>1, <2>2, <2>3
  <2> QED BY <2>4 DEF p, q
<1> HIDE DEF x, y
<1>9. Until(x, {Blank}) = stem
  <2>1. Len(stem) <= Len(x)
    BY <1>1, <1>7
  <2>2. \A k \in 1 .. Len(x) : x[k] = IF k <= Len(stem) THEN stem[k] ELSE Blank
    BY <1>5, <1>7
  <2> QED BY <1>3, <1>4, <1>7, <2>1, <2>2, FieldReadsBack
<1>10. Until(y, {Blank}) = ext
  <2>1. Len(ext) <= Len(y)
    BY <1>1, <1>8
  <2>2. \A k \in 1 .. Len(y) : y[k] = IF k <= Len(ext) THEN ext[k] ELSE Blank
    BY <1>5, <1>8
  <2> QED BY <1>3, <1>4, <1>8, <2>1, <2>2, FieldReadsBack
<1>11. dos[StemLen + 1] # Blank <=> ext # <<>>
  <2>1. 1 \in 1 .. ExtLen
    BY <1>6
  <2>2. dos[StemLen + 1] = IF 1 <= Len(ext) THEN ext[1] ELSE Blank
    BY <1>5, <2>1
  <2>3. Len(ext) \in Nat /\ (ext = <<>> <=> Len(ext) = 0)
    BY <1>3, EmptySeq
  <2>4. 1 <= Len(ext) => 1 \in 1 .. Len(ext)
    BY <2>3
  <2> QED BY <1>4, <2>2, <2>3, <2>4
<1>12. entry_name(dos) = IF dos[StemLen + 1] # Blank
                         THEN (Until(x, {Blank}) \o <<Dot>>) \o Until(y, {Blank})
                         ELSE Until(x, {Blank})
  BY Zenon DEF entry_name, x, y, Blank, Dot
<1> QED BY <1>9, <1>10, <1>11, <1>12 DEF dos

\* The name DIR shows for a file is one under which the driver finds it.
LEMMA ListedNameFinds ==
  ASSUME NEW name \in Seq(DOMAIN UpperOf), IsDosName(name),
         NEW e, e = entry_name(dos_name(name))
  PROVE  Is83(e) /\ make_83(e) = dos_name(name)
<1> DEFINE s == UpperCase(name)
           stem == HostStem(s)
           ext == HostExt(s)
           S == Upper \cup {Dot}
           d == Len(stem) + 1
<1>1. /\ Len(stem) <= StemLen /\ Len(ext) <= ExtLen /\ stem # <<>>
      /\ Letters(stem \o ext) \subseteq Allowed
      /\ dos_name(name) = Packed(stem, ext)
  BY DEF IsDosName, dos_name
<1>2. stem \in Seq(Upper) /\ ext \in Seq(Upper)
  BY UpperCaseIs, HostParts
<1>3. e = IF ext # <<>> THEN (stem \o <<Dot>>) \o ext ELSE stem
  BY EntryNameIs
<1> HIDE DEF stem, ext, s
<1>4. stem \in Seq(S) /\ ext \in Seq(S) /\ Dot \in S
  <2>1. \A c \in Upper : c \in S
    OBVIOUS
  <2>2. Dot \in S
    OBVIOUS
  <2> HIDE DEF S
  <2> QED BY <1>2, <2>1, <2>2
<1>5. /\ \A k \in 1 .. Len(stem) : stem[k] \in Allowed
      /\ \A k \in 1 .. Len(ext) : ext[k] \in Allowed
  BY <1>1, <1>2, LettersOf
<1>6. \A c \in Allowed : c \notin Marks /\ c \in DOMAIN UpperOf /\ UpperOf[c] = c
  BY AllowedAssumption
<1>7. Len(stem) \in Nat /\ Len(stem) >= 1 /\ Len(ext) \in Nat /\ d \in Nat /\ d >= 2
  <2>1. Len(stem) # 0
    BY <1>1, <1>2, EmptySeq
  <2> QED BY <1>2, <2>1
<1> HIDE DEF S
<1>8. /\ e \in Seq(S) /\ Dotted(e, d) /\ Front(e, d) = stem /\ Back(e, d) = ext
  <2>1. CASE ext = <<>>
    <3>1. e = stem
      BY <1>3, <2>1
    <3>2. Front(e, d) = stem
      <4>1. d - 1 = Len(stem)
        BY <1>7
      <4> QED BY <1>4, <3>1, <4>1, WholeSeq DEF Front
    <3>3. Back(e, d) = ext
      <4>1. /\ d + 1 \in Int /\ Len(stem) \in Int /\ d + 1 > Len(stem)
        BY <1>7
      <4> QED BY <2>1, <3>1, <4>1, SubSeqEmpty DEF Back
    <3>4. Dotted(e, d)
      <4>1. d \in 2 .. Len(e) + 1 /\ ~(d <= Len(e))
        BY <1>7, <3>1
      <4>2. \A j \in 1 .. Len(e) : e[j] \notin Marks
        BY <1>5, <1>6, <3>1
      <4> HIDE DEF d
      <4> QED BY <4>1, <4>2 DEF Dotted
    <3> QED BY <1>4, <3>1, <3>2, <3>3, <3>4
  <2>2. CASE ext # <<>>
    <3> DEFINE f == stem \o <<Dot>>
    <3>1. e = f \o ext
      BY <1>3, <2>2
    <3> HIDE DEF d, f
    <3>2. d = Len(stem) + 1
      BY DEF d
    <3>3. /\ e \in Seq(S) /\ Len(e) = d + Len(ext)
          /\ \A k \in 1 .. d - 1 : e[k] = stem[k]
          /\ e[d] = Dot
          /\ \A k \in 1 .. Len(ext) : e[d + k] = ext[k]
          /\ Front(e, d) = stem /\ Back(e, d) = ext
      <4>1. Len(stem) >= 1 /\ stem \in Seq(S) /\ ext \in Seq(S) /\ Dot \in S
        BY <1>4, <1>7
      <4>2. f = stem \o <<Dot>>
        BY DEF f
      <4>3. e \in Seq(S)
        BY <3>1, <3>2, <4>1, <4>2, Parted
      <4>4. Len(e) = d + Len(ext)
        BY <3>1, <3>2, <4>1, <4>2, Parted
      <4>5. \A k \in 1 .. d - 1 : e[k] = stem[k]
        BY <3>1, <3>2, <4>1, <4>2, Parted
      <4>6. e[d] = Dot
        BY <3>1, <3>2, <4>1, <4>2, Parted
      <4>7. \A k \in 1 .. Len(ext) : e[d + k] = ext[k]
        BY <3>1, <3>2, <4>1, <4>2, Parted
      <4>8. d \in 2 .. Len(e) + 1 /\ Len(stem) = d - 1
        BY <1>7, <3>2, <4>4
      <4>9. Front(e, d) = stem /\ Back(e, d) = ext
        BY <4>1, <4>3, <4>4, <4>5, <4>7, <4>8, FrontIs, BackIs
      <4> QED BY <4>3, <4>4, <4>5, <4>6, <4>7, <4>8, <4>9
    <3>7. d \in 2 .. Len(e) + 1
      BY <1>7, <3>3
    <3>8. ASSUME NEW j \in 1 .. Len(e), j # d PROVE e[j] \notin Marks
      <4>1. CASE j < d
        <5>1. j \in 1 .. d - 1 /\ j \in 1 .. Len(stem)
          BY <1>7, <3>2, <4>1
        <5> QED BY <1>5, <1>6, <3>3, <5>1
      <4>2. CASE j > d
        <5>1. j - d \in 1 .. Len(ext) /\ d + (j - d) = j
          BY <1>7, <3>3, <4>2
        <5> QED BY <1>5, <1>6, <3>3, <5>1
      <4> QED BY <1>7, <3>8, <4>1, <4>2
    <3>9. Dotted(e, d)
      BY <3>3, <3>7, <3>8 DEF Dotted
    <3> QED BY <3>3, <3>9
  <2> QED BY <2>1, <2>2
<1> HIDE DEF d
<1>9. Stem83(e) = stem /\ Ext83(e) = ext
  BY <1>8, TypedSplit
<1>10. UpperCase(stem) = stem
  <2>1. DOMAIN stem = 1 .. Len(stem) /\ stem = [k \in 1 .. Len(stem) |-> stem[k]]
    BY <1>2
  <2>2. UpperCase(stem) = [k \in 1 .. Len(stem) |-> UpperOf[stem[k]]]
    BY <2>1 DEF UpperCase
  <2>3. \A k \in 1 .. Len(stem) : UpperOf[stem[k]] = stem[k]
    BY <1>5, <1>6
  <2> QED BY <2>1, <2>2, <2>3
<1>11. UpperCase(ext) = ext
  <2>1. DOMAIN ext = 1 .. Len(ext) /\ ext = [k \in 1 .. Len(ext) |-> ext[k]]
    BY <1>2
  <2>2. UpperCase(ext) = [k \in 1 .. Len(ext) |-> UpperOf[ext[k]]]
    BY <2>1 DEF UpperCase
  <2>3. \A k \in 1 .. Len(ext) : UpperOf[ext[k]] = ext[k]
    BY <1>5, <1>6
  <2> QED BY <2>1, <2>2, <2>3
<1>12. make_83(e) = dos_name(name)
  BY <1>1, <1>9, <1>10, <1>11 DEF make_83
<1>13. Is83(e)
  BY <1>1, <1>9 DEF Is83
<1> QED BY <1>12, <1>13

LEMMA EntryNameWhole ==
  ASSUME NEW name \in Seq(DOMAIN UpperOf), IsDosName(name),
         NEW s, s = UpperCase(name), NEW e, e = entry_name(dos_name(name)),
         s[Len(s)] # Dot \/ \E k \in 1 .. Len(e) : e[k] = Dot
  PROVE  e = s
<1> DEFINE S == Upper \cup {Dot}
<1>1. PICK d \in 2 .. Len(name) + 1 : Dotted(name, d)
  BY HostNameDotted
<1>2. s \in Seq(Upper) /\ Len(s) = Len(name)
  BY UpperCaseIs
<1>3. d \in 2 .. Len(s) + 1 /\ Dotted(s, d)
  BY <1>1, <1>2, UpperDotted
<1> DEFINE a == Front(s, d)
           b == Back(s, d)
<1>4. HostStem(s) = a /\ HostExt(s) = b
  BY <1>2, <1>3, HostSplit
<1>5. e = IF b # <<>> THEN (a \o <<Dot>>) \o b ELSE a
  <2> HIDE DEF a, b
  <2>1. entry_name(dos_name(name)) = IF b # <<>> THEN (a \o <<Dot>>) \o b ELSE a
    BY <1>4, EntryNameIs
  <2> QED BY <2>1
<1>6. /\ a \in Seq(Upper) /\ Len(a) = d - 1
      /\ \A j \in 1 .. d - 1 : a[j] = s[j]
  BY <1>2, <1>3, FrontFacts
<1>7. b \in Seq(Upper)
  BY <1>2, <1>3, BackFacts
<1>8. Len(b) = IF d <= Len(s) THEN Len(s) - d ELSE 0
  BY <1>2, <1>3, BackFacts
<1>9. \A j \in 1 .. Len(s) - d : b[j] = s[d + j]
  BY <1>2, <1>3, BackFacts
<1>10. /\ (d <= Len(s) => s[d] = Dot)
       /\ \A j \in 1 .. Len(s) : j # d => s[j] \notin Marks
  BY <1>3 DEF Dotted
<1>11. Len(s) \in Nat /\ d \in Nat /\ d >= 2 /\ d <= Len(s) + 1
  BY <1>2, <1>3
<1>12. b = <<>> <=> Len(b) = 0
  BY <1>7, EmptySeq
<1>13. CASE d = Len(s) + 1
  <2>1. e = a
    BY <1>5, <1>8, <1>11, <1>12, <1>13
  <2>2. d - 1 = Len(s)
    BY <1>11, <1>13
  <2> QED BY <1>2, <2>1, <2>2, WholeSeq DEF Front
<1> HIDE DEF a, b
<1>14. CASE d = Len(s)
  <2>1. e = a
    BY <1>5, <1>8, <1>11, <1>12, <1>14
  <2>2. Dot \in Marks
    BY MarksAre
  <2>3. PICK k \in 1 .. Len(e) : e[k] = Dot
    BY <1>10, <1>11, <1>14
  <2>4. k \in 1 .. d - 1 /\ k \in 1 .. Len(s) /\ k # d
    BY <1>6, <1>11, <2>1
  <2>5. e[k] = s[k]
    BY <1>6, <2>1, <2>4
  <2> QED BY <1>10, <2>2, <2>3, <2>4, <2>5
<1>15. CASE d < Len(s)
  <2> DEFINE f == a \o <<Dot>>
  <2>1. e = f \o b
    BY <1>5, <1>8, <1>11, <1>12, <1>15
  <2> HIDE DEF f
  <2>2. f = a \o <<Dot>>
    BY DEF f
  <2>3. a \in Seq(S) /\ b \in Seq(S) /\ s \in Seq(S) /\ Dot \in S
    <3>1. \A c \in Upper : c \in S
      OBVIOUS
    <3>2. Dot \in S
      OBVIOUS
    <3> HIDE DEF S
    <3> QED BY <1>2, <1>6, <1>7, <3>1, <3>2
  <2> HIDE DEF S
  <2>4. Len(a) >= 1 /\ d = Len(a) + 1
    BY <1>6, <1>11
  <2>5. e \in Seq(S)
    BY <2>1, <2>2, <2>3, <2>4, Parted
  <2>6. Len(e) = d + Len(b)
    BY <2>1, <2>2, <2>3, <2>4, Parted
  <2>7. \A k \in 1 .. d - 1 : e[k] = a[k]
    BY <2>1, <2>2, <2>3, <2>4, Parted
  <2>8. e[d] = Dot
    BY <2>1, <2>2, <2>3, <2>4, Parted
  <2>9. \A k \in 1 .. Len(b) : e[d + k] = b[k]
    BY <2>1, <2>2, <2>3, <2>4, Parted
  <2>10. Len(b) = Len(s) - d
    BY <1>8, <1>11, <1>15
  <2>11. Len(e) = Len(s)
    BY <1>11, <2>6, <2>10
  <2>12. ASSUME NEW k \in 1 .. Len(e) PROVE e[k] = s[k]
    <3>1. CASE k < d
      <4>1. k \in 1 .. d - 1
        BY <1>11, <3>1
      <4> QED BY <1>6, <2>7, <4>1
    <3>2. CASE k = d
      BY <1>10, <1>15, <2>8, <3>2, <1>11
    <3>3. CASE k > d
      <4>1. k - d \in 1 .. Len(b) /\ k - d \in 1 .. Len(s) - d /\ d + (k - d) = k
        BY <1>11, <2>10, <2>11, <3>3
      <4> QED BY <1>9, <2>9, <4>1
    <3> QED BY <1>11, <2>11, <3>1, <3>2, <3>3
  <2> QED BY <2>3, <2>5, <2>11, <2>12, SeqEqual
<1> QED BY <1>11, <1>13, <1>14, <1>15
=============================================================================
