----------------------------- MODULE TextProofs -----------------------------
(***************************************************************************)
(* Theorems about Text and Typing, for strings of any length on any        *)
(* keyboard: the files a typed name finds, the numbers that are read and   *)
(* printed, the words of a line and the lines of a file.  A loop is a      *)
(* recursive function; what it computes is shown by induction up to the    *)
(* length of the string (Recursion, UpTo).                                 *)
(***************************************************************************)
EXTENDS Typing, FormatProofs, FiniteSetTheorems

TypedOK == keys \in Keyboards /\ typed \in Seq(DOMAIN UpperOf)

\* What is typed is a string of characters that have an upper case.
LEMMA TypedIsText == Spec => []TypedOK
<1>1. Init => TypedOK
  BY EmptySeq DEF Init, TypedOK
<1>2. TypedOK /\ [Next]_vars => TypedOK'
  <2> SUFFICES ASSUME TypedOK, [Next]_vars PROVE TypedOK'
    OBVIOUS
  <2> USE DEF TypedOK
  <2>1. CASE Type
    BY <2>1, KeyboardAssumption DEF Type
  <2>2. CASE UNCHANGED vars
    BY <2>2 DEF vars
  <2> QED BY <2>1, <2>2 DEF Next
<1> QED BY <1>1, <1>2, PTL DEF Spec

\* mkfloppy.py and the driver agree on every name typed.
THEOREM HostNamesAlwaysFind == Spec => []HostNamesFind
<1>1. TypedOK => HostNamesFind
  BY HostNamesAreFound DEF TypedOK, HostNamesFind
<1> QED BY <1>1, TypedIsText, PTL

-----------------------------------------------------------------------------
(* RFS paths. *)

LEMMA Pair ==
  ASSUME NEW a, NEW b
  PROVE  /\ <<a, b>>[1] = a /\ <<a, b>>[2] = b /\ Len(<<a, b>>) = 2
         /\ <<a, b>> \in Seq({a, b})
OBVIOUS

LEMMA PairIs ==
  ASSUME NEW s, NEW a, NEW b, s = <<a, b>>
  PROVE  s[1] = a /\ s[2] = b
OBVIOUS

LEMMA Single ==
  ASSUME NEW a
  PROVE  <<a>>[1] = a /\ Len(<<a>>) = 1 /\ <<a>> \in Seq({a})
OBVIOUS

\* A name with an RFS prefix: RFS in any case, and then a mark other than a dot.
LEMMA PrefixIs ==
  ASSUME NEW name \in Seq(DOMAIN UpperOf), rfs_find_file(name) # {}
  PROVE  LET m == Len(RfsDrive)
         IN  /\ m \in Nat \ {0} /\ m + 1 <= Len(name)
             /\ \A k \in 1 .. m : UpperOf[name[k]] = RfsDrive[k]
             /\ name[m + 1] \in Marks /\ name[m + 1] # Dot /\ name[m + 1] \notin Space
<1> DEFINE m == Len(RfsDrive)
<1>1. PICK q \in RfsPrefixes : /\ Len(q) <= Len(name)
                               /\ UpperCase(SubSeq(name, 1, Len(q))) = q
  BY DEF rfs_find_file, RfsBase
<1>2. PICK p : /\ q = RfsDrive \o p
               /\ p \in {<<":", "\\">>, <<":", "/">>, <<"\\">>, <<"/">>}
  BY <1>1, Zenon DEF RfsPrefixes
<1>3. m \in Nat \ {0} /\ RfsDrive \in Seq(Allowed)
  BY RfsAssumption, EmptySeq
<1>4. \E S : p \in Seq(S) /\ Len(p) \in 1 .. 2 /\ p[1] \in {":", "\\", "/"}
  <2>1. /\ {":", "\\"} \subseteq {":", "\\", "/"} /\ {":", "/"} \subseteq {":", "\\", "/"}
        /\ 1 \in 1 .. 2 /\ 2 \in 1 .. 2
    OBVIOUS
  <2>2. CASE p = <<":", "\\">>
    BY <2>1, <2>2, Pair, Zenon
  <2>3. CASE p = <<":", "/">>
    BY <2>1, <2>3, Pair, Zenon
  <2>4. CASE p = <<"\\">>
    BY <2>1, <2>4, Single, Zenon
  <2>5. CASE p = <<"/">>
    BY <2>1, <2>5, Single, Zenon
  <2> QED BY <1>2, <2>2, <2>3, <2>4, <2>5, Zenon
<1>5. p[1] \in Marks /\ p[1] # Dot /\ p[1] \notin Space
  BY <1>4, Zenon DEF Marks, Dot, Space
<1>6. /\ Len(q) = m + Len(p) /\ q[m + 1] = p[1]
      /\ \A k \in 1 .. m : q[k] = RfsDrive[k]
  <2>1. PICK S : p \in Seq(S) /\ Len(p) \in 1 .. 2
    BY <1>4, Zenon
  <2>2. RfsDrive \in Seq(S \cup Allowed) /\ p \in Seq(S \cup Allowed)
    BY <1>3, <2>1
  <2>3. /\ Len(q) = m + Len(p)
        /\ \A k \in 1 .. m : q[k] = RfsDrive[k]
        /\ \A k \in 1 .. Len(p) : q[m + k] = p[k]
    BY <1>2, <2>2, Joined
  <2> QED BY <2>1, <2>3
<1>7. Len(p) \in 1 .. 2
  BY <1>4, Zenon
<1>8. q[m + 1] = UpperOf[name[m + 1]] /\ \A k \in 1 .. m : q[k] = UpperOf[name[k]]
  <2> DEFINE start == SubSeq(name, 1, Len(q))
  <2>1. Len(q) \in 0 .. Len(name) /\ m + 1 <= Len(q)
    BY <1>1, <1>3, <1>6, <1>7
  <2>2. /\ start \in Seq(DOMAIN UpperOf) /\ Len(start) = Len(q)
        /\ \A j \in 1 .. Len(q) : start[j] = name[j]
    BY <2>1, StartOf
  <2> HIDE DEF start
  <2>3. \A k \in 1 .. Len(start) : UpperCase(start)[k] = UpperOf[start[k]]
    BY <2>2, UpperCaseIs
  <2>4. UpperCase(start) = q
    BY <1>1 DEF start
  <2> QED BY <1>3, <2>1, <2>2, <2>3, <2>4
<1>9. m + 1 <= Len(name) /\ m + 1 \in 1 .. Len(name)
  BY <1>1, <1>3, <1>6, <1>7
<1>10. name[m + 1] = p[1]
  <2>1. name[m + 1] \in DOMAIN UpperOf
    BY <1>9
  <2> QED BY <1>5, <1>6, <1>8, <2>1, UpperMarks
<1> QED BY <1>3, <1>5, <1>6, <1>8, <1>9, <1>10

LEMMA PrefixIsNoMark ==
  ASSUME NEW name \in Seq(DOMAIN UpperOf), rfs_find_file(name) # {}
  PROVE  \A k \in 1 .. Len(RfsDrive) : name[k] \notin Marks
<1> DEFINE m == Len(RfsDrive)
<1>1. /\ m \in Nat \ {0} /\ m + 1 <= Len(name)
      /\ \A k \in 1 .. m : UpperOf[name[k]] = RfsDrive[k]
  BY PrefixIs
<1>2. \A k \in 1 .. m : name[k] \in DOMAIN UpperOf /\ RfsDrive[k] \in Allowed
  BY <1>1, RfsAssumption
<1> SUFFICES ASSUME NEW k \in 1 .. m, name[k] \in Marks PROVE FALSE
  OBVIOUS
<1>3. UpperOf[name[k]] = name[k]
  BY <1>2, UpperMarks
<1> QED BY <1>1, <1>2, <1>3, AllowedAssumption

\* A name with an RFS prefix starts neither with the drive A: nor with a slash.
LEMMA PrefixIsNoDrive ==
  ASSUME NEW name \in Seq(DOMAIN UpperOf), rfs_find_file(name) # {}
  PROVE  Base(name) = name
<1> DEFINE m == Len(RfsDrive)
<1>1. /\ m \in Nat \ {0} /\ m + 1 <= Len(name)
      /\ \A k \in 1 .. m : UpperOf[name[k]] = RfsDrive[k]
  BY PrefixIs
<1>2. \A k \in 1 .. m : name[k] \notin Marks
  BY PrefixIsNoMark
<1>3. ASSUME SubSeq(name, 1, 2) = <<"A", ":">> PROVE FALSE
  <2>1. name[1] = "A" /\ name[2] = ":"
    <3>1. 2 \in 0 .. Len(name) /\ 1 \in 1 .. 2 /\ 2 \in 1 .. 2
      BY <1>1
    <3>2. \A j \in 1 .. 2 : SubSeq(name, 1, 2)[j] = name[j]
      BY <3>1, StartOf
    <3>3. SubSeq(name, 1, 2)[1] = "A" /\ SubSeq(name, 1, 2)[2] = ":"
      BY <1>3, PairIs, Zenon
    <3> QED BY <3>1, <3>2, <3>3, Zenon
  <2>2. m = 1
    <3>1. name[2] \in Marks
      BY <2>1, MarksAre, Zenon
    <3>2. 2 \notin 1 .. m
      BY <1>2, <3>1, Zenon
    <3>3. m \in Nat \ {0}
      BY <1>1
    <3> HIDE DEF m
    <3> QED BY <3>2, <3>3
  <2>3. RfsDrive[1] = "A"
    <3>1. UpperOf[name[1]] = RfsDrive[1]
      BY <1>1, <2>2
    <3>2. UpperOf["A"] = "A"
      BY AllowedAssumption, RfsAssumption, Zenon
    <3> QED BY <2>1, <3>1, <3>2, Zenon
  <2>4. RfsDrive = <<RfsDrive[1]>>
    BY <2>2, RfsAssumption
  <2> QED BY <2>3, <2>4, RfsAssumption, Zenon
<1>4. WithoutDrive(name) = name
  BY <1>3, Zenon DEF WithoutDrive
<1>5. name # <<>> /\ name[1] \notin Slashes
  <2>1. 1 \in 1 .. m
    BY <1>1
  <2>2. name[1] \notin Slashes
    BY <1>2, <2>1, MarksAre
  <2> QED BY <1>1, <2>2
<1> QED BY <1>4, <1>5, DropRunStarts DEF Base

LEMMA PathsApart ==
  ASSUME NEW name \in Seq(DOMAIN UpperOf)
  PROVE  RfsApart(name)
<1> SUFFICES ASSUME rfs_find_file(name) # {}, Is83(name),
                    Letters(make_83(name)) \subseteq Allowed \cup {Blank}
             PROVE  FALSE
  BY Zenon DEF RfsApart, Blank
<1> DEFINE m == Len(RfsDrive)
           u == Until(name, Space)
<1>1. IsDosName(u)
  <2>1. IsDosName(Until(Base(name), Space))
    BY TypedNamesAreExact, Zenon DEF TypedNameFindsItsFile, Blank
  <2> QED BY <2>1, PrefixIsNoDrive
<1>2. /\ m \in Nat \ {0} /\ m + 1 <= Len(name)
      /\ name[m + 1] \in Marks /\ name[m + 1] # Dot /\ name[m + 1] \notin Space
  BY PrefixIs
<1>3. /\ name[m + 1] \in Marks /\ name[m + 1] # Dot
      /\ \A k \in 1 .. m + 1 : name[k] \notin Space
  <2>1. \A k \in 1 .. m : name[k] \notin Space
    BY PrefixIsNoMark, MarksAre
  <2>2. \A k \in 1 .. m + 1 : k \in 1 .. m \/ k = m + 1
    BY <1>2
  <2> HIDE DEF m
  <2> QED BY <1>2, <2>1, <2>2, Zenon
<1>4. u \in Seq(DOMAIN UpperOf) /\ m + 1 \in 1 .. Len(u) /\ u[m + 1] = name[m + 1]
  <2>1. PICK d \in 1 .. Len(name) + 1 :
          /\ \A j \in 1 .. d - 1 : name[j] \notin Space
          /\ d <= Len(name) => name[d] \in Space
    BY Cutting
  <2>2. m + 1 <= d - 1 /\ d - 1 \in 0 .. Len(name)
    <3>1. d <= Len(name) => d \notin 1 .. m + 1
      BY <1>3, <2>1, Zenon
    <3>2. m \in Nat /\ m + 1 <= Len(name) /\ Len(name) \in Nat
      BY <1>2
    <3> HIDE DEF m
    <3> QED BY <3>1, <3>2
  <2>3. u = SubSeq(name, 1, d - 1)
    BY <2>1, UntilIs
  <2>4. /\ u \in Seq(DOMAIN UpperOf) /\ Len(u) = d - 1
        /\ \A j \in 1 .. d - 1 : u[j] = name[j]
    BY <2>2, <2>3, StartOf
  <2>5. m + 1 \in 1 .. d - 1
    <3>1. m \in Nat
      BY <1>2
    <3> HIDE DEF m
    <3> QED BY <2>2, <3>1
  <2> HIDE DEF u, m
  <2> QED BY <2>4, <2>5
<1> HIDE DEF u
<1>5. PICK d : Dotted(u, d)
  BY <1>1, <1>4, HostNameDotted
<1>6. d \in 2 .. Len(u) + 1 /\ (d <= Len(u) => u[d] = Dot)
  BY <1>5 DEF Dotted
<1>7. m + 1 # d => u[m + 1] \notin Marks
  BY <1>4, <1>5 DEF Dotted
<1>8. m + 1 <= Len(u)
  BY <1>4
<1> HIDE DEF m
<1> QED BY <1>3, <1>4, <1>6, <1>7, <1>8, Zenon

\* A name typed finds no file but its own, on the floppy or in the RFS table, and
\* never one in each.
THEOREM TypedNamesAlwaysExact == Spec => []TypedNamesFindTheirFile
<1>1. TypedOK => TypedNamesFindTheirFile
  BY TypedNamesAreExact, PathsApart DEF TypedOK, TypedNamesFindTheirFile
<1> QED BY <1>1, TypedIsText, PTL

-----------------------------------------------------------------------------
(* Induction over numbers, and recursions over the characters of a string. *)

\* Induction, over a set.
LEMMA Inductive ==
  ASSUME NEW S \in SUBSET Nat, 0 \in S, \A n \in S : n + 1 \in S
  PROVE  S = Nat
<1> SUFFICES ASSUME Nat \ S # {} PROVE FALSE
  OBVIOUS
<1>1. PICK m \in Nat \ S : \A j \in Nat \ S : m <= j
  BY LeastNumber
<1>2. m - 1 \in Nat /\ m - 1 \notin Nat \ S
  BY <1>1
<1> QED BY <1>1, <1>2

Closed(step, S) == \A k \in Nat, y \in S : step[k][y] \in S
Runs(f, S, n, x, step) ==
  f \in [0 .. n -> S] /\ f[0] = x /\ \A k \in 1 .. n : f[k] = step[k][f[k - 1]]

\* A recursion over the characters of a string, or over digits, has a solution.
LEMMA Recursion ==
  ASSUME NEW V, NEW x \in V, NEW n \in Nat,
         NEW step, Closed(step, V)
  PROVE  \E f : Runs(f, V, n, x, step)
<1> DEFINE Solves(f, m) == \A k \in 1 .. m : f[k] = step[k][f[k - 1]]
           S == {m \in Nat : \E f \in [0 .. m -> V] : f[0] = x /\ Solves(f, m)}
<1>1. 0 \in S
  <2> DEFINE g == [k \in 0 .. 0 |-> x]
  <2>1. g \in [0 .. 0 -> V] /\ g[0] = x /\ Solves(g, 0)
    OBVIOUS
  <2> HIDE DEF g
  <2> QED BY <2>1
<1>2. ASSUME NEW m \in S PROVE m + 1 \in S
  <2>1. PICK f \in [0 .. m -> V] : f[0] = x /\ Solves(f, m)
    OBVIOUS
  <2>2. m \in Nat /\ m + 1 \in Nat
    OBVIOUS
  <2> DEFINE g == [k \in 0 .. m + 1 |-> IF k = m + 1 THEN step[m + 1][f[m]] ELSE f[k]]
  <2>3. step[m + 1][f[m]] \in V
    <3>1. f[m] \in V
      BY <2>2
    <3> QED BY <2>2, <3>1 DEF Closed
  <2>4. g \in [0 .. m + 1 -> V] /\ g[0] = x
    BY <2>1, <2>2, <2>3
  <2>5. ASSUME NEW k \in 1 .. m + 1 PROVE g[k] = step[k][g[k - 1]]
    <3>1. k - 1 \in 0 .. m /\ k \in 0 .. m + 1 /\ k - 1 \in 0 .. m + 1 /\ k - 1 # m + 1
      BY <2>2
    <3>2. g[k - 1] = f[k - 1]
      BY <3>1
    <3>3. CASE k = m + 1
      BY <3>1, <3>2, <3>3
    <3>4. CASE k # m + 1
      BY <2>1, <3>1, <3>2, <3>4
    <3> QED BY <3>3, <3>4
  <2> HIDE DEF g
  <2> QED BY <2>2, <2>4, <2>5
<1> HIDE DEF S
<1>3. S = Nat
  <2>1. S \in SUBSET Nat
    BY DEF S
  <2> QED BY <1>1, <1>2, <2>1, Inductive
<1> QED BY <1>3 DEF S, Runs

\* Induction, up to a number.
LEMMA UpTo ==
  ASSUME NEW n \in Nat, NEW T, 0 \in T, \A k \in 1 .. n : k - 1 \in T => k \in T
  PROVE  \A k \in 0 .. n : k \in T
<1> DEFINE S == {k \in Nat : k <= n => k \in T}
<1>1. 0 \in S
  OBVIOUS
<1>2. ASSUME NEW k \in S PROVE k + 1 \in S
  <2>1. k \in Nat /\ (k + 1) - 1 = k
    OBVIOUS
  <2>2. CASE k + 1 <= n
    <3>1. k + 1 \in 1 .. n /\ k \in T
      BY <2>1, <2>2
    <3> QED BY <2>1, <3>1
  <2> QED BY <2>1, <2>2
<1> HIDE DEF S
<1>3. S = Nat
  <2>1. S \in SUBSET Nat
    BY DEF S
  <2> QED BY <1>1, <1>2, <2>1, Inductive
<1> QED BY <1>3 DEF S

Bases == {10, 16}

LEMMA Shifted ==
  ASSUME NEW x \in Nat, NEW base \in Bases, NEW y \in 0 .. 15
  PROVE  x * base + y \in Nat /\ x <= x * base + y
<1>1. CASE base = 10
  BY <1>1
<1>2. CASE base = 16
  BY <1>2
<1> QED BY <1>1, <1>2 DEF Bases

\* What the digits of a number are worth.
LEMMA DigitValue ==
  ASSUME NEW c, NEW base \in Bases, IsDigit(c, base)
  PROVE  hex_value(c) \in 0 .. 15
<1>1. DOMAIN Hex = 1 .. 16
  BY DEF Hex
<1>2. \E k \in DOMAIN Hex : Hex[k] = UpperOf[c]
  BY <1>1 DEF IsDigit, Bases
<1> QED BY <1>1, <1>2 DEF hex_value

AddsUp(v, s, base) ==
  /\ v \in [0 .. Len(s) -> Nat] /\ v[0] = 0
  /\ \A k \in 1 .. Len(s) : v[k] = v[k - 1] * base + hex_value(s[k])
  /\ Worth(s, base) = v[Len(s)]

LEMMA WorthIs ==
  ASSUME NEW S, NEW s \in Seq(S), NEW base \in Bases, Digits(s, base)
  PROVE  \E v : AddsUp(v, s, base)
<1> DEFINE n == Len(s)
           d(k) == IF k \in 1 .. n THEN hex_value(s[k]) ELSE 0
           step == [k \in Nat |-> [x \in Nat |-> x * base + d(k)]]
           Solves(v) == v = [k \in 0 .. n |-> IF k = 0 THEN 0 ELSE v[k - 1] * base + hex_value(s[k])]
           w == CHOOSE v : Solves(v)
<1>1. n \in Nat
  OBVIOUS
<1>2. \A k \in Nat : d(k) \in 0 .. 15
  <2>1. \A k \in 1 .. n : hex_value(s[k]) \in 0 .. 15
    BY DigitValue DEF Digits
  <2> QED BY <2>1
<1>3. Closed(step, Nat)
  <2> HIDE DEF d
  <2>1. \A k, x \in Nat : x * base + d(k) \in Nat
    BY <1>2, Shifted
  <2> QED BY <2>1 DEF Closed
<1>4. PICK f : Runs(f, Nat, n, 0, step)
  <2> HIDE DEF step, n
  <2>1. 0 \in Nat
    OBVIOUS
  <2> QED BY <1>1, <1>3, <2>1, Recursion
<1>5. Solves(f)
  <2>1. ASSUME NEW k \in 1 .. n PROVE f[k] = f[k - 1] * base + hex_value(s[k])
    <3>1. k \in Nat /\ f[k - 1] \in Nat /\ d(k) = hex_value(s[k])
      BY <1>4, <2>1 DEF Runs
    <3>2. step[k][f[k - 1]] = f[k - 1] * base + d(k)
      BY <3>1
    <3>3. f[k] = step[k][f[k - 1]]
      BY <1>4 DEF Runs
    <3> QED BY <3>1, <3>2, <3>3
  <2>2. f = [k \in 0 .. n |-> f[k]]
    BY <1>4 DEF Runs
  <2> HIDE DEF step
  <2>3. \A k \in 0 .. n : f[k] = IF k = 0 THEN 0 ELSE f[k - 1] * base + hex_value(s[k])
    BY <1>4, <2>1 DEF Runs
  <2> QED BY <2>2, <2>3
<1>6. Solves(w)
  <2> HIDE DEF Solves
  <2> QED BY <1>5
<1>7. Worth(s, base) = w[n]
  BY DEF Worth
<1> HIDE DEF w
<1>8. w[0] = 0 /\ \A k \in 1 .. n : w[k] = w[k - 1] * base + hex_value(s[k])
  BY <1>1, <1>6
<1> DEFINE T == {k \in 0 .. n : w[k] \in Nat}
<1>9. ASSUME NEW k \in 1 .. n, k - 1 \in T PROVE k \in T
  <2>1. w[k - 1] \in Nat /\ k \in 0 .. n
    BY <1>9
  <2>2. hex_value(s[k]) \in 0 .. 15
    BY DigitValue DEF Digits
  <2>3. w[k - 1] * base + hex_value(s[k]) \in Nat
    BY <2>1, <2>2, Shifted
  <2> QED BY <1>8, <2>1, <2>3
<1>10. \A k \in 0 .. n : w[k] \in Nat
  <2>1. 0 \in T
    BY <1>1, <1>8
  <2>2. \A k \in 1 .. n : k - 1 \in T => k \in T
    BY <1>9
  <2> HIDE DEF T, n
  <2>3. \A k \in 0 .. n : k \in T
    BY <1>1, <2>1, <2>2, UpTo
  <2> QED BY <2>3 DEF T
<1>11. w \in [0 .. n -> Nat]
  BY <1>6, <1>10
<1>12. AddsUp(w, s, base)
  BY <1>7, <1>8, <1>11 DEF AddsUp
<1> QED BY <1>12

\* The test of parse_uint before it multiplies is exact.
LEMMA RoomIsExact ==
  ASSUME NEW value \in Nat, NEW base \in Bases, NEW digit \in 0 .. 15
  PROVE  RoomFor(value, base, digit) <=> value * base + digit <= MaxUint
<1>1. MaxUint \in Nat
  BY TextSizes DEF MaxUint
<1>2. CASE base = 10
  BY <1>1, <1>2 DEF RoomFor
<1>3. CASE base = 16
  BY <1>1, <1>3 DEF RoomFor
<1> QED BY <1>2, <1>3 DEF Bases

\* parse_uint on digits: their worth where it fits, and else nothing.
LEMMA ReadDigitsIs ==
  ASSUME NEW S, NEW s \in Seq(S), NEW base \in Bases
  PROVE  ReadDigits(s, base) =
           IF Digits(s, base) /\ Worth(s, base) <= MaxUint
           THEN [ok |-> TRUE, value |-> Worth(s, base)] ELSE Refused
<1> DEFINE n == Len(s)
           d(k) == IF k \in 1 .. n /\ IsDigit(s[k], base) THEN hex_value(s[k]) ELSE 0
           step == [k \in Nat |-> [x \in Nat |-> x * base + d(k)]]
           Good(k) == \A j \in 1 .. k : IsDigit(s[j], base)
           Solves(w) == w = [k \in 0 .. n |-> IF k = 0 THEN [ok |-> TRUE, value |-> 0]
                                              ELSE ReadDigit(w[k - 1], s[k], base)]
           acc == CHOOSE w : Solves(w)
<1>1. n \in Nat /\ MaxUint \in Nat
  BY TextSizes DEF MaxUint
<1>2. \A k \in Nat : d(k) \in 0 .. 15
  <2>1. \A k \in 1 .. n : IsDigit(s[k], base) => hex_value(s[k]) \in 0 .. 15
    BY DigitValue
  <2> QED BY <2>1
<1>3. Closed(step, Nat)
  <2> HIDE DEF d
  <2>1. \A k, x \in Nat : x * base + d(k) \in Nat
    BY <1>2, Shifted
  <2> QED BY <2>1 DEF Closed
<1>4. PICK v : Runs(v, Nat, n, 0, step)
  <2> HIDE DEF step, n
  <2>1. 0 \in Nat
    OBVIOUS
  <2> QED BY <1>1, <1>3, <2>1, Recursion
<1>5. /\ v \in [0 .. n -> Nat] /\ v[0] = 0
      /\ \A k \in 1 .. n : v[k] = v[k - 1] * base + d(k)
  <2>1. v \in [0 .. n -> Nat] /\ v[0] = 0 /\ \A k \in 1 .. n : v[k] = step[k][v[k - 1]]
    BY <1>4 DEF Runs
  <2>2. ASSUME NEW k \in 1 .. n PROVE step[k][v[k - 1]] = v[k - 1] * base + d(k)
    <3>1. k \in Nat /\ v[k - 1] \in Nat
      BY <2>1
    <3> HIDE DEF d
    <3> QED BY <3>1
  <2> HIDE DEF step, d
  <2> QED BY <2>1, <2>2
<1> HIDE DEF step
<1> DEFINE a(k) == IF Good(k) /\ v[k] <= MaxUint THEN [ok |-> TRUE, value |-> v[k]] ELSE Refused
           A == [k \in 0 .. n |-> a(k)]
<1>6. ASSUME NEW k \in 1 .. n PROVE a(k) = ReadDigit(a(k - 1), s[k], base)
  <2>1. /\ v[k] \in Nat /\ v[k - 1] \in Nat /\ d(k) \in 0 .. 15
        /\ v[k] = v[k - 1] * base + d(k)
    <3>1. k \in 0 .. n /\ k - 1 \in 0 .. n /\ k \in Nat
      BY <1>1
    <3> HIDE DEF d
    <3> QED BY <1>2, <1>5, <3>1
  <2>2. Good(k) <=> Good(k - 1) /\ IsDigit(s[k], base)
    <3>1. 1 .. k = (1 .. k - 1) \cup {k}
      OBVIOUS
    <3> QED BY <3>1
  <2>3. IsDigit(s[k], base) => d(k) = hex_value(s[k])
    OBVIOUS
  <2> HIDE DEF d, Good
  <2>4. RoomFor(v[k - 1], base, d(k)) <=> v[k] <= MaxUint
    BY <2>1, RoomIsExact
  <2>5. CASE ~IsDigit(s[k], base)
    BY <2>2, <2>5 DEF ReadDigit
  <2>6. CASE ~Good(k - 1)
    BY <2>2, <2>6 DEF ReadDigit, Refused
  <2>7. CASE IsDigit(s[k], base) /\ Good(k - 1) /\ ~(v[k - 1] <= MaxUint)
    <3>1. v[k - 1] <= v[k]
      BY <2>1, Shifted
    <3>2. ~(v[k] <= MaxUint)
      BY <1>1, <2>1, <2>7, <3>1
    <3> QED BY <2>7, <3>2 DEF ReadDigit, Refused
  <2>8. CASE IsDigit(s[k], base) /\ Good(k - 1) /\ v[k - 1] <= MaxUint
    BY <2>1, <2>2, <2>3, <2>4, <2>8 DEF ReadDigit
  <2> QED BY <2>5, <2>6, <2>7, <2>8
<1>7. a(0) = [ok |-> TRUE, value |-> 0]
  BY <1>1, <1>5
<1>8. Solves(A)
  <2> HIDE DEF a
  <2>1. \A k \in 0 .. n : A[k] = IF k = 0 THEN [ok |-> TRUE, value |-> 0]
                                 ELSE ReadDigit(A[k - 1], s[k], base)
    BY <1>1, <1>6, <1>7
  <2>2. A = [k \in 0 .. n |-> A[k]]
    OBVIOUS
  <2> HIDE DEF A
  <2> QED BY <2>1, <2>2
<1>9. Solves(acc)
  <2> HIDE DEF Solves
  <2> QED BY <1>8
<1>10. ReadDigits(s, base) = acc[n]
  BY DEF ReadDigits
<1> HIDE DEF acc, a
<1>11. ASSUME NEW k \in 1 .. n PROVE acc[k] = ReadDigit(acc[k - 1], s[k], base)
  <2>1. k \in 0 .. n /\ k # 0
    OBVIOUS
  <2> HIDE DEF n
  <2> QED BY <1>9, <2>1
<1>12. acc[n] = a(n)
  <2> DEFINE T == {k \in 0 .. n : acc[k] = a(k)}
  <2>1. 0 \in T
    BY <1>1, <1>7, <1>9
  <2>2. ASSUME NEW k \in 1 .. n, k - 1 \in T PROVE k \in T
    <3>1. acc[k - 1] = a(k - 1) /\ k \in 0 .. n
      BY <2>2
    <3>2. acc[k] = ReadDigit(acc[k - 1], s[k], base)
      BY <1>11
    <3> QED BY <1>6, <3>1, <3>2
  <2> HIDE DEF T, n
  <2>3. \A k \in 0 .. n : k \in T
    BY <1>1, <2>1, <2>2, UpTo
  <2>4. n \in 0 .. n
    BY <1>1
  <2> QED BY <2>3, <2>4 DEF T
<1>13. Good(n) <=> Digits(s, base)
  BY DEF Digits
<1>14. CASE ~Digits(s, base)
  BY <1>10, <1>12, <1>13, <1>14 DEF a
<1>15. CASE Digits(s, base)
  <2>1. PICK w : AddsUp(w, s, base)
    BY <1>15, WorthIs
  <2>2. /\ w[0] = 0 /\ \A k \in 1 .. n : w[k] = w[k - 1] * base + hex_value(s[k])
        /\ Worth(s, base) = w[n]
    BY <2>1 DEF AddsUp
  <2> DEFINE T == {k \in 0 .. n : w[k] = v[k]}
  <2>3. 0 \in T
    BY <1>1, <1>5, <2>2
  <2>4. ASSUME NEW k \in 1 .. n, k - 1 \in T PROVE k \in T
    <3>1. w[k - 1] = v[k - 1] /\ k \in 0 .. n
      BY <2>4
    <3>2. d(k) = hex_value(s[k])
      BY <1>15 DEF Digits
    <3> HIDE DEF d
    <3> QED BY <1>5, <2>2, <3>1, <3>2
  <2> HIDE DEF T, n
  <2>5. \A k \in 0 .. n : k \in T
    BY <1>1, <2>3, <2>4, UpTo
  <2>6. n \in 0 .. n
    BY <1>1
  <2>7. Worth(s, base) = v[n]
    BY <2>2, <2>5, <2>6 DEF T
  <2> HIDE DEF Good
  <2> QED BY <1>10, <1>12, <1>13, <1>15, <2>7 DEF a
<1> QED BY <1>14, <1>15

LEMMA RestOf ==
  ASSUME NEW S, NEW s \in Seq(S), NEW m \in Nat \ {0}, m <= Len(s) + 1
  PROVE  /\ SubSeq(s, m, Len(s)) \in Seq(S) /\ Len(SubSeq(s, m, Len(s))) = Len(s) - m + 1
         /\ \A k \in 1 .. Len(s) - m + 1 : SubSeq(s, m, Len(s))[k] = s[m + k - 1]
<1>1. m \in Int /\ Len(s) \in Nat /\ \A k \in m .. Len(s) : s[k] \in S
  OBVIOUS
<1>2. /\ SubSeq(s, m, Len(s)) \in Seq(S)
      /\ Len(SubSeq(s, m, Len(s))) = (IF m <= Len(s) THEN Len(s) - m + 1 ELSE 0)
      /\ \A i \in 1 .. Len(s) - m + 1 : SubSeq(s, m, Len(s))[i] = s[m + i - 1]
  BY <1>1, SubSeqProperties
<1> QED BY <1>1, <1>2

\* The base and the digits parse_uint finds.
LEMMA DigitsOf ==
  ASSUME NEW text \in Seq(DOMAIN UpperOf)
  PROVE  LET s == skip_spaces(text)
             hex == HasHexPrefix(s)
         IN  /\ (IF hex THEN SubSeq(s, 3, Len(s)) ELSE s) \in Seq(DOMAIN UpperOf)
             /\ (IF hex THEN 16 ELSE 10) \in Bases
<1> DEFINE s == skip_spaces(text)
           hex == HasHexPrefix(s)
           base == IF hex THEN 16 ELSE 10
           digits == IF hex THEN SubSeq(s, 3, Len(s)) ELSE s
<1>1. s \in Seq(DOMAIN UpperOf)
  BY DropRunStarts DEF skip_spaces
<1>2. digits \in Seq(DOMAIN UpperOf) /\ base \in Bases
  <2>1. CASE hex
    <3>1. 3 \in Nat \ {0} /\ 3 <= Len(s) + 1
      BY <1>1, <2>1 DEF HasHexPrefix
    <3> HIDE DEF s
    <3>2. SubSeq(s, 3, Len(s)) \in Seq(DOMAIN UpperOf)
      BY <1>1, <3>1, RestOf
    <3> HIDE DEF hex
    <3> QED BY <2>1, <3>2 DEF Bases
  <2>2. CASE ~hex
    <3> HIDE DEF hex, s
    <3> QED BY <1>1, <2>2 DEF Bases
  <2> QED BY <2>1, <2>2
<1> QED BY <1>2

LEMMA CountsAreExact ==
  ASSUME NEW text \in Seq(DOMAIN UpperOf)
  PROVE  CountIsExact(text)
<1> DEFINE s == skip_spaces(text)
           hex == HasHexPrefix(s)
           base == IF hex THEN 16 ELSE 10
           digits == IF hex THEN SubSeq(s, 3, Len(s)) ELSE s
           fits == s # <<>> /\ Digits(digits, base) /\ Worth(digits, base) <= MaxUint
<1>1. digits \in Seq(DOMAIN UpperOf) /\ base \in Bases
  BY DigitsOf
<1>2. parse_uint(text) = IF s = <<>> THEN Refused ELSE ReadDigits(digits, base)
  <2> HIDE DEF hex, s
  <2> QED BY DEF parse_uint, s, hex
<1>3. ReadDigits(digits, base) =
        IF Digits(digits, base) /\ Worth(digits, base) <= MaxUint
        THEN [ok |-> TRUE, value |-> Worth(digits, base)] ELSE Refused
  <2> HIDE DEF digits, base, s, hex
  <2> QED BY <1>1, ReadDigitsIs
<1>4. parse_uint(text) = IF fits THEN [ok |-> TRUE, value |-> Worth(digits, base)] ELSE Refused
  <2> HIDE DEF digits, base, s, hex
  <2> QED BY <1>2, <1>3
<1> QED BY <1>4, Zenon DEF CountIsExact

LEMMA CountsRead ==
  ASSUME NEW text \in Seq(DOMAIN UpperOf), parse_uint(text).ok
  PROVE  \E n \in 0 .. MaxUint : parse_uint(text) = [ok |-> TRUE, value |-> n]
<1> DEFINE s == skip_spaces(text)
           hex == HasHexPrefix(s)
           base == IF hex THEN 16 ELSE 10
           digits == IF hex THEN SubSeq(s, 3, Len(s)) ELSE s
           fits == s # <<>> /\ Digits(digits, base) /\ Worth(digits, base) <= MaxUint
<1>1. digits \in Seq(DOMAIN UpperOf) /\ base \in Bases
  BY DigitsOf
<1>2. parse_uint(text) = IF fits THEN [ok |-> TRUE, value |-> Worth(digits, base)] ELSE Refused
  BY CountsAreExact, Zenon DEF CountIsExact
<1> HIDE DEF base, digits
<1>3. fits
  <2> HIDE DEF fits
  <2> QED BY <1>2 DEF Refused
<1>4. Worth(digits, base) \in Nat
  <2>1. PICK v : AddsUp(v, digits, base)
    BY <1>1, <1>3, WorthIs
  <2> QED BY <1>1, <2>1 DEF AddsUp
<1>5. Worth(digits, base) \in 0 .. MaxUint
  BY <1>3, <1>4, TextSizes DEF MaxUint
<1> HIDE DEF fits
<1> QED BY <1>2, <1>3, <1>5

\* A number typed is taken exactly or refused, whatever the width of an integer.
THEOREM CountsAlwaysExact == Spec => []CountsExact
<1>1. TypedOK => CountsExact
  BY CountsAreExact DEF TypedOK, CountsExact
<1> QED BY <1>1, TypedIsText, PTL

-----------------------------------------------------------------------------
(* Digits. *)

\* Sixteen different characters, none of them a sign or a space.
LEMMA HexIs ==
  /\ DOMAIN Hex = 1 .. 16
  /\ \A i, j \in 1 .. 16 : Hex[i] = Hex[j] => i = j
  /\ \A i \in 1 .. 16 : Hex[i] \notin Space /\ Hex[i] # "-" /\ Hex[i] # "X"
  /\ Hex[1] = "0"
<1>1. DOMAIN Hex = 1 .. 16 /\ Hex[1] = "0"
  BY DEF Hex
<1>2. \A i, j \in 1 .. 16 : Hex[i] = Hex[j] => i = j
  BY DEF Hex
<1>3. \A i \in 1 .. 16 :
        Hex[i] \in {"0", "1", "2", "3", "4", "5", "6", "7",
                    "8", "9", "A", "B", "C", "D", "E", "F"}
  BY DEF Hex
<1>4. \A i \in 1 .. 16 : Hex[i] # "-" /\ Hex[i] # "X"
  BY DEF Hex
<1>5. \A i \in 1 .. 16 : Hex[i] \notin Space
  BY <1>3, Zenon DEF Space
<1> QED BY <1>1, <1>2, <1>4, <1>5

LEMMA DigitIs ==
  ASSUME NEW base \in Bases, NEW d \in 0 .. base - 1
  PROVE  /\ Hex[d + 1] \in DOMAIN UpperOf
         /\ IsDigit(Hex[d + 1], base) /\ hex_value(Hex[d + 1]) = d
<1>1. d + 1 \in 1 .. 16 /\ d + 1 \in 1 .. base
  BY DEF Bases
<1>2. Hex[d + 1] \in DOMAIN UpperOf /\ UpperOf[Hex[d + 1]] = Hex[d + 1]
  BY <1>1, HexIs, DigitsAssumption
<1>3. IsDigit(Hex[d + 1], base)
  BY <1>1, <1>2 DEF IsDigit
<1>4. \A k \in DOMAIN Hex : Hex[k] = UpperOf[Hex[d + 1]] <=> k = d + 1
  BY <1>1, <1>2, HexIs
<1>5. hex_value(Hex[d + 1]) = (d + 1) - 1
  BY <1>1, <1>4, HexIs DEF hex_value
<1> QED BY <1>2, <1>3, <1>5

-----------------------------------------------------------------------------
(* Numerals. *)

Divides(q, n, base, k) ==
  /\ q \in [0 .. k -> Nat] /\ q[0] = n /\ \A j \in 1 .. k : q[j] = q[j - 1] \div base
  /\ Quotient(n, base, k) = q[k]

LEMMA QuotientRuns ==
  ASSUME NEW n \in Nat, NEW base \in Bases, NEW k \in Nat
  PROVE  \E q : Divides(q, n, base, k)
<1> DEFINE step == [j \in Nat |-> [x \in Nat |-> x \div base]]
           Solves(w) == w = [j \in 0 .. k |-> IF j = 0 THEN n ELSE w[j - 1] \div base]
           w == CHOOSE f : Solves(f)
<1>1. \A x \in Nat : x \div base \in Nat
  <2>1. CASE base = 10
    BY <2>1
  <2>2. CASE base = 16
    BY <2>2
  <2> QED BY <2>1, <2>2 DEF Bases
<1>2. Closed(step, Nat)
  BY <1>1 DEF Closed
<1>3. PICK f : Runs(f, Nat, k, n, step)
  <2> HIDE DEF step
  <2> QED BY <1>2, Recursion
<1>4. /\ f \in [0 .. k -> Nat] /\ f[0] = n
      /\ \A j \in 1 .. k : f[j] = step[j][f[j - 1]]
  BY <1>3 DEF Runs
<1>5. \A j \in 1 .. k : f[j] = f[j - 1] \div base
  <2> SUFFICES ASSUME NEW j \in 1 .. k PROVE f[j] = f[j - 1] \div base
    OBVIOUS
  <2>1. j \in Nat /\ f[j - 1] \in Nat
    BY <1>4
  <2>2. step[j][f[j - 1]] = f[j - 1] \div base
    BY <2>1
  <2> HIDE DEF step
  <2> QED BY <1>4, <2>2
<1> HIDE DEF step
<1>6. Solves(f)
  <2>1. \A j \in 0 .. k : f[j] = IF j = 0 THEN n ELSE f[j - 1] \div base
    BY <1>4, <1>5
  <2>2. f = [j \in 0 .. k |-> f[j]]
    BY <1>4
  <2> QED BY <2>1, <2>2
<1>7. Solves(w)
  <2> HIDE DEF Solves
  <2> QED BY <1>6
<1>8. Quotient(n, base, k) = w[k]
  BY DEF Quotient
<1> HIDE DEF w
<1>9. w[0] = n
  BY <1>7
<1>10. ASSUME NEW j \in 1 .. k PROVE w[j] = w[j - 1] \div base
  <2>1. j \in 0 .. k /\ j # 0
    OBVIOUS
  <2> QED BY <1>7, <2>1
<1> DEFINE T == {j \in 0 .. k : w[j] \in Nat}
<1>11. \A j \in 0 .. k : j \in T
  <2>1. 0 \in T
    BY <1>9
  <2>2. ASSUME NEW j \in 1 .. k, j - 1 \in T PROVE j \in T
    BY <1>1, <1>10, <2>2
  <2> HIDE DEF T
  <2> QED BY <2>1, <2>2, UpTo
<1>12. w \in [0 .. k -> Nat]
  BY <1>7, <1>11
<1>13. Divides(w, n, base, k)
  BY <1>8, <1>9, <1>10, <1>12 DEF Divides
<1> QED BY <1>13

LEMMA QuotientIs ==
  ASSUME NEW n \in Nat, NEW base \in Bases
  PROVE  /\ Quotient(n, base, 0) = n
         /\ \A k \in Nat : Quotient(n, base, k) \in Nat
         /\ \A k \in Nat : Quotient(n, base, k + 1) = Quotient(n, base, k) \div base
<1>1. Quotient(n, base, 0) = n
  <2>1. 0 \in Nat
    OBVIOUS
  <2>2. PICK q : Divides(q, n, base, 0)
    BY <2>1, QuotientRuns
  <2> QED BY <2>2 DEF Divides
<1>2. \A k \in Nat : Quotient(n, base, k) \in Nat
  <2> SUFFICES ASSUME NEW k \in Nat PROVE Quotient(n, base, k) \in Nat
    OBVIOUS
  <2>1. PICK q : Divides(q, n, base, k)
    BY QuotientRuns
  <2> QED BY <2>1 DEF Divides
<1>3. ASSUME NEW k \in Nat
      PROVE  Quotient(n, base, k + 1) = Quotient(n, base, k) \div base
  <2>1. PICK q : Divides(q, n, base, k)
    BY QuotientRuns
  <2>2. k + 1 \in Nat
    OBVIOUS
  <2>3. PICK p : Divides(p, n, base, k + 1)
    BY <2>2, QuotientRuns
  <2>4. /\ q[0] = n /\ \A j \in 1 .. k : q[j] = q[j - 1] \div base
        /\ Quotient(n, base, k) = q[k]
    BY <2>1 DEF Divides
  <2>5. /\ p[0] = n /\ \A j \in 1 .. k + 1 : p[j] = p[j - 1] \div base
        /\ Quotient(n, base, k + 1) = p[k + 1]
    BY <2>3 DEF Divides
  <2> DEFINE T == {j \in 0 .. k : p[j] = q[j]}
  <2>6. \A j \in 0 .. k : j \in T
    <3>1. 0 \in T
      BY <2>4, <2>5
    <3>2. ASSUME NEW j \in 1 .. k, j - 1 \in T PROVE j \in T
      <4>1. j \in 0 .. k /\ j \in 1 .. k + 1 /\ p[j - 1] = q[j - 1]
        BY <3>2
      <4> QED BY <2>4, <2>5, <4>1
    <3> HIDE DEF T
    <3> QED BY <3>1, <3>2, UpTo
  <2>7. p[k] = q[k] /\ k + 1 \in 1 .. k + 1 /\ (k + 1) - 1 = k
    BY <2>6
  <2> QED BY <2>4, <2>5, <2>7
<1> QED BY <1>1, <1>2, <1>3

LEMMA QuotientGrows ==
  ASSUME NEW n \in Nat, NEW m \in Nat, n <= m, NEW base \in Bases, NEW k \in Nat
  PROVE  Quotient(n, base, k) <= Quotient(m, base, k)
<1> DEFINE S == {j \in Nat : Quotient(n, base, j) <= Quotient(m, base, j)}
<1>1. 0 \in S
  BY QuotientIs
<1>2. \A x, y \in Nat : x <= y => x \div base <= y \div base
  <2>1. CASE base = 10
    BY <2>1
  <2>2. CASE base = 16
    BY <2>2
  <2> QED BY <2>1, <2>2 DEF Bases
<1>3. ASSUME NEW j \in S PROVE j + 1 \in S
  <2>1. /\ Quotient(n, base, j) \in Nat /\ Quotient(m, base, j) \in Nat
        /\ Quotient(n, base, j) <= Quotient(m, base, j)
    BY QuotientIs
  <2>2. Quotient(n, base, j) \div base <= Quotient(m, base, j) \div base
    BY <1>2, <2>1
  <2>3. /\ Quotient(n, base, j + 1) = Quotient(n, base, j) \div base
        /\ Quotient(m, base, j + 1) = Quotient(m, base, j) \div base
    BY QuotientIs
  <2> QED BY <2>2, <2>3
<1> HIDE DEF S
<1>4. S = Nat
  <2>1. S \in SUBSET Nat
    BY DEF S
  <2> QED BY <1>1, <1>3, <2>1, Inductive
<1> QED BY <1>4 DEF S

Figures(base) == {Hex[d + 1] : d \in 0 .. base - 1}

\* What a numeral shows is the number, if it has digits enough.
LEMMA NumeralIs ==
  ASSUME NEW n \in Nat, NEW base \in Bases, NEW count \in Nat \ {0},
         Quotient(n, base, count) = 0, NEW s, s = Numeral(n, base, count)
  PROVE  /\ s \in Seq(DOMAIN UpperOf) /\ Len(s) = count
         /\ \A k \in 1 .. count : s[k] \in Figures(base)
         /\ Digits(s, base) /\ Worth(s, base) = n
<1> DEFINE Q(k) == Quotient(n, base, count - k)
<1>1. ASSUME NEW k \in 0 .. count PROVE Q(k) \in Nat
  <2>1. count - k \in Nat
    OBVIOUS
  <2> QED BY <2>1, QuotientIs
<1>2. ASSUME NEW k \in 1 .. count PROVE Q(k - 1) = Q(k) \div base
  <2>1. count - k \in Nat /\ count - (k - 1) = (count - k) + 1
    OBVIOUS
  <2> QED BY <2>1, QuotientIs
<1> HIDE DEF Q
<1>3. \A x \in Nat : x % base \in 0 .. base - 1 /\ (x \div base) * base + (x % base) = x
  <2>1. CASE base = 10
    BY <2>1
  <2>2. CASE base = 16
    BY <2>2
  <2> QED BY <2>1, <2>2 DEF Bases
<1>4. s = [k \in 1 .. count |-> Hex[(Q(k) % base) + 1]]
  BY DEF Numeral, Q
<1>5. ASSUME NEW k \in 1 .. count
      PROVE  /\ s[k] = Hex[(Q(k) % base) + 1] /\ Q(k) % base \in 0 .. base - 1
             /\ s[k] \in DOMAIN UpperOf /\ IsDigit(s[k], base)
             /\ hex_value(s[k]) = Q(k) % base
  <2>1. s[k] = Hex[(Q(k) % base) + 1]
    BY <1>4
  <2>2. Q(k) % base \in 0 .. base - 1
    BY <1>1, <1>3
  <2> QED BY <2>1, <2>2, DigitIs
<1>6. s \in Seq(DOMAIN UpperOf) /\ Len(s) = count
  <2>1. s \in [1 .. count -> DOMAIN UpperOf]
    BY <1>4, <1>5
  <2> QED BY <2>1
<1>7. Digits(s, base)
  BY <1>5, <1>6 DEF Digits
<1>8. PICK v : AddsUp(v, s, base)
  BY <1>6, <1>7, WorthIs
<1>9. /\ v[0] = 0 /\ \A k \in 1 .. Len(s) : v[k] = v[k - 1] * base + hex_value(s[k])
      /\ Worth(s, base) = v[Len(s)]
  BY <1>8 DEF AddsUp
<1> DEFINE T == {k \in 0 .. count : v[k] = Q(k)}
<1>10. \A k \in 0 .. count : k \in T
  <2>1. 0 \in T
    BY <1>9 DEF Q
  <2>2. ASSUME NEW k \in 1 .. count, k - 1 \in T PROVE k \in T
    <3>1. v[k - 1] = Q(k - 1) /\ k \in 0 .. count
      BY <2>2
    <3>2. v[k] = v[k - 1] * base + hex_value(s[k])
      BY <1>6, <1>9
    <3>3. v[k] = (Q(k) \div base) * base + (Q(k) % base)
      BY <1>2, <1>5, <3>1, <3>2
    <3>4. v[k] = Q(k)
      BY <1>1, <1>3, <3>1, <3>3
    <3> QED BY <3>1, <3>4
  <2> HIDE DEF T
  <2> QED BY <2>1, <2>2, UpTo
<1>11. Worth(s, base) = n
  <2>1. count \in T /\ count - count = 0
    BY <1>10
  <2>2. Q(count) = n
    BY <2>1, QuotientIs DEF Q
  <2> QED BY <1>6, <1>9, <2>1, <2>2
<1>12. \A k \in 1 .. count : s[k] \in Figures(base)
  BY <1>5 DEF Figures
<1> QED BY <1>6, <1>7, <1>11, <1>12

-----------------------------------------------------------------------------
(* What is printed. *)

LEMMA PrintedDec ==
  ASSUME NEW n \in 0 .. MaxUint
  PROVE  \E c \in Nat \ {0} : print_dec(n) = Numeral(n, 10, c) /\ Quotient(n, 10, c) = 0
<1> DEFINE IsCount(k) == /\ \A j \in 1 .. k - 1 : Quotient(n, 10, j) # 0
                         /\ k = DecCap \/ Quotient(n, 10, k) = 0
           c == CHOOSE k \in 1 .. DecCap : IsCount(k)
           T == {k \in 1 .. DecCap : k = DecCap \/ Quotient(n, 10, k) = 0}
<1>1. DecCap \in Nat \ {0} /\ MaxUint \in Nat
  BY TextSizes DEF MaxUint
<1>2. \E k \in 1 .. DecCap : IsCount(k)
  <2>1. T \in SUBSET Nat /\ DecCap \in T
    BY <1>1
  <2>2. PICK k \in T : \A j \in T : k <= j
    <3> HIDE DEF T
    <3> QED BY <2>1, LeastNumber
  <2>3. ASSUME NEW j \in 1 .. k - 1 PROVE Quotient(n, 10, j) # 0
    <3>1. j \in 1 .. DecCap /\ j < k
      BY <1>1
    <3>2. j \notin T
      BY <2>2, <3>1
    <3> QED BY <3>1, <3>2
  <2> QED BY <2>3
<1>3. c \in 1 .. DecCap /\ IsCount(c)
  <2> HIDE DEF IsCount
  <2> QED BY <1>2
<1>4. print_dec(n) = Numeral(n, 10, c)
  BY DEF print_dec
<1> HIDE DEF c
<1>5. Quotient(n, 10, DecCap) = 0
  <2>1. 10 \in Bases
    BY DEF Bases
  <2>2. Quotient(n, 10, DecCap) <= Quotient(MaxUint, 10, DecCap)
    BY <1>1, <2>1, QuotientGrows
  <2>3. Quotient(n, 10, DecCap) \in Nat
    BY <1>1, <2>1, QuotientIs
  <2> QED BY <2>2, <2>3, WidthAssumption
<1>6. Quotient(n, 10, c) = 0 /\ c \in Nat \ {0}
  BY <1>1, <1>3, <1>5
<1> QED BY <1>4, <1>6

\* A printed number: digits that are worth the number, and no prefix.
LEMMA DecIs ==
  ASSUME NEW n \in 0 .. MaxUint, NEW s, s = print_dec(n)
  PROVE  /\ s \in Seq(DOMAIN UpperOf) /\ s # <<>>
         /\ Digits(s, 10) /\ Worth(s, 10) = n
         /\ skip_spaces(s) = s /\ ~HasHexPrefix(s) /\ s[1] # "-"
<1>1. PICK c \in Nat \ {0} : s = Numeral(n, 10, c) /\ Quotient(n, 10, c) = 0
  BY PrintedDec
<1>2. n \in Nat /\ 10 \in Bases
  BY TextSizes DEF MaxUint, Bases
<1>3. /\ s \in Seq(DOMAIN UpperOf) /\ Len(s) = c
      /\ \A k \in 1 .. c : s[k] \in Figures(10)
      /\ Digits(s, 10) /\ Worth(s, 10) = n
  BY <1>1, <1>2, NumeralIs
<1>4. ASSUME NEW k \in 1 .. c
      PROVE  s[k] \notin Space /\ s[k] # "-" /\ UpperOf[s[k]] # "X"
  <2>1. PICK d \in 0 .. 9 : s[k] = Hex[d + 1]
    BY <1>3 DEF Figures
  <2>2. d + 1 \in 1 .. 16
    OBVIOUS
  <2> QED BY <2>1, <2>2, HexIs, DigitsAssumption
<1>5. s # <<>> /\ 1 \in 1 .. c
  BY <1>3
<1>6. skip_spaces(s) = s
  BY <1>3, <1>4, <1>5, DropRunStarts DEF skip_spaces
<1>7. ~HasHexPrefix(s)
  <2>1. Len(s) >= 2 => 2 \in 1 .. c
    BY <1>3
  <2> QED BY <1>4, <2>1, Zenon DEF HasHexPrefix
<1> QED BY <1>3, <1>4, <1>5, <1>6, <1>7

LEMMA DecReadsBack ==
  ASSUME NEW n \in 0 .. MaxUint
  PROVE  parse_uint(print_dec(n)) = [ok |-> TRUE, value |-> n]
<1> DEFINE s == print_dec(n)
<1>1. /\ s \in Seq(DOMAIN UpperOf) /\ s # <<>>
      /\ Digits(s, 10) /\ Worth(s, 10) = n
      /\ skip_spaces(s) = s /\ ~HasHexPrefix(s)
  BY DecIs
<1> HIDE DEF s
<1>2. parse_uint(s) = ReadDigits(s, 10)
  BY <1>1 DEF parse_uint
<1>3. 10 \in Bases /\ n <= MaxUint
  BY TextSizes DEF Bases, MaxUint
<1>4. ReadDigits(s, 10) = [ok |-> TRUE, value |-> n]
  BY <1>1, <1>3, ReadDigitsIs
<1> QED BY <1>2, <1>4 DEF s

LEMMA HexReadsBack ==
  ASSUME NEW n \in 0 .. MaxUint
  PROVE  parse_uint(print_hex32(n)) = [ok |-> TRUE, value |-> n]
<1> DEFINE t == Numeral(n, 16, HexCount)
           p == <<"0", "x">>
           s == p \o t
<1>1. n \in Nat /\ MaxUint \in Nat /\ n <= MaxUint /\ 16 \in Bases /\ HexCount \in Nat \ {0}
  BY TextSizes DEF Bases, MaxUint
<1>2. Quotient(n, 16, HexCount) = 0
  <2>1. Quotient(n, 16, HexCount) <= Quotient(MaxUint, 16, HexCount)
    BY <1>1, QuotientGrows
  <2>2. Quotient(n, 16, HexCount) \in Nat
    BY <1>1, QuotientIs
  <2> QED BY <2>1, <2>2, WidthAssumption
<1>3. t \in Seq(DOMAIN UpperOf) /\ Len(t) = HexCount /\ Digits(t, 16) /\ Worth(t, 16) = n
  BY <1>1, <1>2, NumeralIs
<1> HIDE DEF t
<1>4. p[1] = "0" /\ p[2] = "x" /\ Len(p) = 2 /\ p \in Seq({"0", "x"})
  BY Pair, Zenon
<1>5. "0" \in DOMAIN UpperOf /\ "x" \in DOMAIN UpperOf
  <2>1. 1 \in DOMAIN Hex /\ Hex[1] = "0"
    BY HexIs
  <2> QED BY <2>1, DigitsAssumption, Zenon
<1> DEFINE D == DOMAIN UpperOf
<1>6. p \in Seq(D)
  <2>1. {"0", "x"} \subseteq D
    BY <1>5
  <2> HIDE DEF p, D
  <2> QED BY <1>4, <2>1
<1> HIDE DEF p
<1>7. /\ s \in Seq(D) /\ Len(s) = 2 + HexCount
      /\ s[1] = "0" /\ s[2] = "x" /\ \A k \in 1 .. HexCount : s[2 + k] = t[k]
  <2>1. /\ s \in Seq(D) /\ Len(s) = Len(p) + Len(t)
        /\ \A k \in 1 .. Len(p) : s[k] = p[k]
        /\ \A k \in 1 .. Len(t) : s[Len(p) + k] = t[k]
    <3> HIDE DEF D, s
    <3> QED BY <1>3, <1>6, Joined DEF s, D
  <2>2. 1 \in 1 .. Len(p) /\ 2 \in 1 .. Len(p)
    BY <1>4
  <2> HIDE DEF s
  <2>3. s[1] = "0" /\ s[2] = "x"
    BY <1>4, <2>1, <2>2, Zenon
  <2>4. Len(p) = 2
    BY <1>4
  <2> HIDE DEF D
  <2> QED BY <1>3, <2>1, <2>3, <2>4
<1>8. print_hex32(n) = s
  BY DEF print_hex32, p, t
<1> HIDE DEF s
<1>9. s # <<>> /\ skip_spaces(s) = s
  <2>1. s[1] \notin Space
    <3>1. 1 \in 1 .. 16 /\ Hex[1] = "0"
      BY HexIs
    <3>2. Hex[1] \notin Space
      BY <3>1, HexIs
    <3> QED BY <1>7, <3>1, <3>2, Zenon
  <2>2. s # <<>>
    BY <1>1, <1>7
  <2> HIDE DEF D
  <2> QED BY <1>7, <2>1, <2>2, DropRunStarts DEF skip_spaces
<1>10. HasHexPrefix(s)
  <2>1. Len(s) >= 2
    BY <1>1, <1>7
  <2> QED BY <1>7, <2>1, DigitsAssumption, Zenon DEF HasHexPrefix
<1>11. SubSeq(s, 3, Len(s)) = t
  <2> DEFINE r == SubSeq(s, 3, Len(s))
  <2>1. 3 \in Nat \ {0} /\ 3 <= Len(s) + 1
    BY <1>1, <1>7
  <2>2. /\ r \in Seq(D) /\ Len(r) = Len(s) - 3 + 1
        /\ \A k \in 1 .. Len(s) - 3 + 1 : r[k] = s[3 + k - 1]
    <3> HIDE DEF D
    <3> QED BY <1>7, <2>1, RestOf
  <2> HIDE DEF r
  <2>3. Len(r) = HexCount
    BY <1>1, <1>7, <2>2
  <2>4. \A k \in 1 .. HexCount : r[k] = t[k]
    <3> SUFFICES ASSUME NEW k \in 1 .. HexCount PROVE r[k] = t[k]
      OBVIOUS
    <3>1. k \in 1 .. Len(s) - 3 + 1 /\ 3 + k - 1 = 2 + k
      BY <1>1, <1>7
    <3> QED BY <1>7, <2>2, <3>1
  <2> HIDE DEF D
  <2> QED BY <1>3, <2>2, <2>3, <2>4 DEF r, D
<1>12. parse_uint(s) = ReadDigits(t, 16)
  BY <1>9, <1>10, <1>11 DEF parse_uint
<1>13. ReadDigits(t, 16) = [ok |-> TRUE, value |-> n]
  BY <1>1, <1>3, ReadDigitsIs
<1> QED BY <1>8, <1>12, <1>13

Wraps(u, s) ==
  /\ u \in [0 .. Len(s) -> Nat] /\ u[0] = 0 /\ Wrapped(s) = u[Len(s)]
  /\ \A k \in 1 .. Len(s) : u[k] = (u[k - 1] * 10 + hex_value(s[k])) % (2 * HalfRange)

LEMMA WrappedIs ==
  ASSUME NEW S, NEW s \in Seq(S), Digits(s, 10)
  PROVE  \E u : Wraps(u, s)
<1> DEFINE n == Len(s)
           M == 2 * HalfRange
           d(k) == IF k \in 1 .. n THEN hex_value(s[k]) ELSE 0
           step == [k \in Nat |-> [x \in Nat |-> (x * 10 + d(k)) % M]]
           Solves(w) == w = [k \in 0 .. n |-> IF k = 0 THEN 0
                                              ELSE (w[k - 1] * 10 + hex_value(s[k])) % M]
           u == CHOOSE w : Solves(w)
<1>1. n \in Nat /\ M \in Nat \ {0}
  BY TextSizes
<1> HIDE DEF M
<1>2. \A k \in Nat : d(k) \in 0 .. 15
  <2>1. \A k \in 1 .. n : hex_value(s[k]) \in 0 .. 15
    BY DigitValue DEF Digits, Bases
  <2> QED BY <2>1
<1>3. \A x \in Nat, y \in 0 .. 15 : (x * 10 + y) % M \in Nat
  BY <1>1
<1>4. Closed(step, Nat)
  <2> HIDE DEF d
  <2> QED BY <1>2, <1>3 DEF Closed
<1>5. PICK v : Runs(v, Nat, n, 0, step)
  <2> HIDE DEF step, n
  <2>1. 0 \in Nat
    OBVIOUS
  <2> QED BY <1>1, <1>4, <2>1, Recursion
<1>6. /\ v \in [0 .. n -> Nat] /\ v[0] = 0
      /\ \A k \in 1 .. n : v[k] = step[k][v[k - 1]]
  BY <1>5 DEF Runs
<1>7. ASSUME NEW k \in 1 .. n PROVE v[k] = (v[k - 1] * 10 + hex_value(s[k])) % M
  <2>1. k \in Nat /\ v[k - 1] \in Nat /\ d(k) = hex_value(s[k])
    BY <1>6
  <2> HIDE DEF d
  <2>2. step[k][v[k - 1]] = (v[k - 1] * 10 + d(k)) % M
    BY <2>1
  <2> HIDE DEF step
  <2> QED BY <1>6, <2>1, <2>2
<1> HIDE DEF step
<1>8. Solves(v)
  <2>1. \A k \in 0 .. n : v[k] = IF k = 0 THEN 0 ELSE (v[k - 1] * 10 + hex_value(s[k])) % M
    BY <1>6, <1>7
  <2>2. v = [k \in 0 .. n |-> v[k]]
    BY <1>6
  <2> QED BY <2>1, <2>2
<1>9. Solves(u)
  <2> HIDE DEF Solves
  <2> QED BY <1>8
<1>10. Wrapped(s) = u[n]
  BY DEF Wrapped, M
<1> HIDE DEF u
<1>11. u[0] = 0
  BY <1>1, <1>9
<1>12. ASSUME NEW k \in 1 .. n PROVE u[k] = (u[k - 1] * 10 + hex_value(s[k])) % M
  <2>1. k \in 0 .. n /\ k # 0
    OBVIOUS
  <2> HIDE DEF n
  <2> QED BY <1>9, <2>1
<1> DEFINE T == {k \in 0 .. n : u[k] \in Nat}
<1>13. \A k \in 0 .. n : k \in T
  <2>1. 0 \in T
    BY <1>1, <1>11
  <2>2. ASSUME NEW k \in 1 .. n, k - 1 \in T PROVE k \in T
    <3>1. k \in 0 .. n /\ u[k - 1] \in Nat
      BY <2>2
    <3>2. hex_value(s[k]) \in 0 .. 15
      BY DigitValue DEF Digits, Bases
    <3>3. u[k] \in Nat
      BY <1>3, <1>12, <3>1, <3>2
    <3> QED BY <3>1, <3>3
  <2> HIDE DEF T, n
  <2> QED BY <1>1, <2>1, <2>2, UpTo
<1>14. u \in [0 .. n -> Nat]
  BY <1>9, <1>13
<1>15. Wraps(u, s)
  BY <1>10, <1>11, <1>12, <1>14 DEF Wraps, M
<1> QED BY <1>15

\* parse_int32 on digits whose worth fits: nothing wraps on the way.
LEMMA NothingWraps ==
  ASSUME NEW S, NEW s \in Seq(S), Digits(s, 10), Worth(s, 10) <= MaxUint
  PROVE  Wrapped(s) = Worth(s, 10)
<1> DEFINE n == Len(s)
           M == 2 * HalfRange
<1>1. n \in Nat /\ M \in Nat \ {0} /\ MaxUint = M - 1 /\ 10 \in Bases
  BY TextSizes DEF MaxUint, Bases
<1>2. PICK v : AddsUp(v, s, 10)
  BY <1>1, WorthIs
<1>3. /\ v \in [0 .. n -> Nat] /\ v[0] = 0 /\ v[n] = Worth(s, 10)
      /\ \A k \in 1 .. n : v[k] = v[k - 1] * 10 + hex_value(s[k])
  BY <1>2 DEF AddsUp
<1>4. PICK u : Wraps(u, s)
  BY WrappedIs
<1>5. /\ u[0] = 0 /\ Wrapped(s) = u[n]
       /\ \A k \in 1 .. n : u[k] = (u[k - 1] * 10 + hex_value(s[k])) % M
  BY <1>4 DEF Wraps
<1>6. \A k \in 0 .. n : v[k] \in Nat
  BY <1>3
<1> HIDE DEF M
<1>7. \A k \in 1 .. n : v[k - 1] <= v[k]
  <2> SUFFICES ASSUME NEW k \in 1 .. n PROVE v[k - 1] <= v[k]
    OBVIOUS
  <2>1. hex_value(s[k]) \in 0 .. 15
    BY <1>1, DigitValue DEF Digits
  <2>2. v[k - 1] \in Nat /\ v[k] = v[k - 1] * 10 + hex_value(s[k])
    BY <1>3
  <2>3. \A x \in Nat, y \in 0 .. 15 : x <= x * 10 + y
    OBVIOUS
  <2> QED BY <2>1, <2>2, <2>3
<1>8. \A k \in 0 .. n : v[n - k] <= MaxUint
  <2> DEFINE T == {k \in 0 .. n : v[n - k] <= MaxUint}
  <2>1. 0 \in T
    BY <1>1, <1>3
  <2>2. ASSUME NEW k \in 1 .. n, k - 1 \in T PROVE k \in T
    <3>1. k \in 0 .. n /\ v[n - (k - 1)] <= MaxUint
      BY <2>2
    <3>2. n - (k - 1) \in 1 .. n /\ (n - (k - 1)) - 1 = n - k /\ n - k \in 0 .. n
      BY <1>1
    <3>3. v[n - k] <= v[n - (k - 1)]
      BY <1>7, <3>2
    <3>4. v[n - k] \in Nat /\ v[n - (k - 1)] \in Nat /\ MaxUint \in Int
      <4>1. n - (k - 1) \in 0 .. n
        BY <3>2
      <4> HIDE DEF n
      <4> QED BY <1>1, <1>6, <3>2, <4>1
    <3> QED BY <3>1, <3>3, <3>4
  <2> HIDE DEF T, n
  <2>3. \A k \in 0 .. n : k \in T
    BY <1>1, <2>1, <2>2, UpTo
  <2> QED BY <2>3 DEF T
<1>9. ASSUME NEW k \in 0 .. n PROVE v[k] \in 0 .. M - 1
  <2>1. n - k \in 0 .. n /\ n - (n - k) = k
    BY <1>1
  <2>2. v[k] <= MaxUint
    BY <1>8, <2>1
  <2>3. v[k] \in Nat
    BY <1>3
  <2> QED BY <1>1, <2>2, <2>3
<1>10. \A x \in 0 .. M - 1 : x % M = x
  BY <1>1
<1>11. \A k \in 1 .. n : v[k] = (v[k - 1] * 10 + hex_value(s[k])) % M
  <2> SUFFICES ASSUME NEW k \in 1 .. n
               PROVE  v[k] = (v[k - 1] * 10 + hex_value(s[k])) % M
    OBVIOUS
  <2>1. v[k] \in 0 .. M - 1
    BY <1>1, <1>9
  <2> QED BY <1>3, <1>10, <2>1
<1>12. u[n] = v[n]
  <2> DEFINE T == {k \in 0 .. n : u[k] = v[k]}
  <2>1. 0 \in T
    BY <1>1, <1>3, <1>5
  <2>2. ASSUME NEW k \in 1 .. n, k - 1 \in T PROVE k \in T
    <3>1. u[k - 1] = v[k - 1] /\ k \in 0 .. n
      BY <2>2
    <3> QED BY <1>5, <1>11, <3>1
  <2> HIDE DEF T, n
  <2>3. \A k \in 0 .. n : k \in T
    BY <1>1, <2>1, <2>2, UpTo
  <2>4. n \in 0 .. n
    BY <1>1
  <2> QED BY <2>3, <2>4 DEF T
<1> QED BY <1>3, <1>5, <1>12

\* An int32_t, its bits, and the bits as an int32_t.
LEMMA BitsAndBack ==
  /\ \A x \in Int : Signed(x) \in -HalfRange .. HalfRange - 1
  /\ \A v \in -HalfRange .. HalfRange - 1 :
       v % (2 * HalfRange) \in 0 .. MaxUint /\ Signed(v % (2 * HalfRange)) = v
<1> DEFINE H == HalfRange
           M == 2 * H
<1>1. H \in Nat \ {0} /\ M = H + H /\ M \in Nat \ {0} /\ MaxUint = M - 1
  BY TextSizes DEF MaxUint
<1>2. \A x \in Int : x % M \in 0 .. M - 1
  BY <1>1
<1>3. \A x \in 0 .. M - 1 : x % M = x /\ (x + M) % M = x /\ (x - M) % M = x
  BY <1>1
<1>4. ASSUME NEW x \in Int PROVE Signed(x) \in -H .. H - 1
  <2>1. x + H \in Int /\ (x + H) % M \in 0 .. M - 1
    BY <1>1, <1>2
  <2> HIDE DEF H
  <2> QED BY <1>1, <2>1 DEF Signed, H
<1>5. ASSUME NEW v \in -H .. H - 1
      PROVE  v % M \in 0 .. MaxUint /\ Signed(v % M) = v
  <2>1. CASE v >= 0
    <3>1. v \in 0 .. M - 1 /\ v + H \in 0 .. M - 1
      BY <1>1, <2>1
    <3>2. v % M = v /\ (v + H) % M = v + H
      BY <1>3, <3>1
    <3> QED BY <1>1, <3>1, <3>2 DEF Signed
  <2>2. CASE v < 0
    <3>1. v + M \in 0 .. M - 1 /\ v + H \in 0 .. M - 1 /\ (v + M) - M = v
      BY <1>1, <2>2
    <3>2. v % M = v + M
      BY <1>3, <3>1
    <3>3. ((v + H) + M) % M = v + H /\ (v + H) + M = (v + M) + H
      BY <1>1, <1>3, <3>1
    <3> QED BY <1>1, <3>1, <3>2, <3>3 DEF Signed
  <2> QED BY <1>1, <2>1, <2>2
<1> QED BY <1>4, <1>5

LEMMA SignedReadsBack ==
  ASSUME NEW v \in -HalfRange .. HalfRange - 1
  PROVE  parse_int32(Shown(v)) = [ok |-> TRUE, value |-> v]
<1> DEFINE m == v % (2 * HalfRange)
           s == Shown(v)
<1>1. m \in 0 .. MaxUint /\ Signed(m) = v
  BY BitsAndBack
<1> HIDE DEF m
<1>2. s = print_dec(m)
  BY DEF Shown, m
<1>3. /\ s \in Seq(DOMAIN UpperOf) /\ s # <<>>
      /\ Digits(s, 10) /\ Worth(s, 10) = m /\ s[1] # "-"
  BY <1>1, <1>2, DecIs
<1> HIDE DEF s
<1>4. Wrapped(s) = m
  <2>1. m <= MaxUint
    BY <1>1
  <2> QED BY <1>3, <2>1, NothingWraps
<1>5. ~(s # <<>> /\ s[1] = "-")
  BY <1>3
<1>6. ~(s = <<>> \/ \E k \in DOMAIN s : ~IsDigit(s[k], 10))
  BY <1>3 DEF Digits
<1>7. parse_int32(s) = [ok |-> TRUE, value |-> Signed(Wrapped(s))]
  BY <1>5, <1>6, Zenon DEF parse_int32
<1> QED BY <1>1, <1>4, <1>7 DEF s

LEMMA ReadIntIs ==
  ASSUME NEW text \in Seq(DOMAIN UpperOf), parse_int32(text).ok
  PROVE  \E x \in Int : parse_int32(text) = [ok |-> TRUE, value |-> Signed(x)]
<1> DEFINE neg == text # <<>> /\ text[1] = "-"
           digits == IF neg THEN Tail(text) ELSE text
           refused == digits = <<>> \/ \E k \in DOMAIN digits : ~IsDigit(digits[k], 10)
           x == IF neg THEN -Wrapped(digits) ELSE Wrapped(digits)
<1>1. parse_int32(text) = IF refused THEN Refused ELSE [ok |-> TRUE, value |-> Signed(x)]
  BY Zenon DEF parse_int32
<1>2. digits \in Seq(DOMAIN UpperOf)
  <2>1. text # <<>> => Tail(text) \in Seq(DOMAIN UpperOf)
    OBVIOUS
  <2>2. neg => text # <<>>
    OBVIOUS
  <2> HIDE DEF neg
  <2> QED BY <2>1, <2>2
<1> HIDE DEF neg
<1>3. ~refused
  <2> HIDE DEF refused
  <2> QED BY <1>1 DEF Refused
<1>4. Digits(digits, 10)
  BY <1>3 DEF Digits
<1> HIDE DEF digits
<1>5. Wrapped(digits) \in Nat
  <2>1. PICK u : Wraps(u, digits)
    BY <1>2, <1>4, WrappedIs
  <2> QED BY <1>2, <2>1 DEF Wraps
<1>6. x \in Int
  BY <1>5
<1> HIDE DEF x, refused
<1> QED BY <1>1, <1>3, <1>6

LEMMA ColorReadsBack ==
  ASSUME NEW text, parse_color(text).ok
  PROVE  parse_color(print_hex8(parse_color(text).value)) = parse_color(text)
<1> DEFINE s == skip_spaces(text)
           two == Len(s) = 2 /\ IsDigit(s[1], 16) /\ IsDigit(s[2], 16)
           a == hex_value(s[1])
           b == hex_value(s[2])
           v == a * 16 + b
           t == print_hex8(v)
<1>1. parse_color(text) = IF two THEN [ok |-> TRUE, value |-> v] ELSE Refused
  BY Zenon DEF parse_color
<1>2. two
  <2> HIDE DEF two
  <2> QED BY <1>1 DEF Refused
<1>3. a \in 0 .. 15 /\ b \in 0 .. 15
  <2>1. 16 \in Bases
    BY DEF Bases
  <2> HIDE DEF s
  <2> QED BY <1>2, <2>1, DigitValue
<1> HIDE DEF two, a, b
<1>4. v \div 16 = a /\ v % 16 = b
  BY <1>3
<1> HIDE DEF v
<1>5. t = <<Hex[a + 1], Hex[b + 1]>>
  BY <1>4 DEF print_hex8
<1> HIDE DEF t
<1>6. /\ t[1] = Hex[a + 1] /\ t[2] = Hex[b + 1] /\ Len(t) = 2
      /\ t \in Seq({Hex[a + 1], Hex[b + 1]})
  BY <1>5, Pair, Zenon
<1>7. /\ IsDigit(t[1], 16) /\ hex_value(t[1]) = a
      /\ IsDigit(t[2], 16) /\ hex_value(t[2]) = b
  <2>1. 16 \in Bases /\ a \in 0 .. 16 - 1 /\ b \in 0 .. 16 - 1
    BY <1>3 DEF Bases
  <2>2. IsDigit(Hex[a + 1], 16) /\ hex_value(Hex[a + 1]) = a
    BY <2>1, DigitIs
  <2>3. IsDigit(Hex[b + 1], 16) /\ hex_value(Hex[b + 1]) = b
    BY <2>1, DigitIs
  <2> QED BY <1>6, <2>2, <2>3, Zenon
<1>8. skip_spaces(t) = t
  <2>1. a + 1 \in 1 .. 16
    BY <1>3
  <2>2. t[1] \notin Space
    BY <1>6, <2>1, HexIs
  <2>3. t # <<>>
    BY <1>6
  <2> QED BY <1>6, <2>2, <2>3, DropRunStarts DEF skip_spaces
<1>9. parse_color(t) = [ok |-> TRUE, value |-> a * 16 + b]
  <2>1. parse_color(t) =
          IF Len(t) = 2 /\ IsDigit(t[1], 16) /\ IsDigit(t[2], 16)
          THEN [ok |-> TRUE, value |-> hex_value(t[1]) * 16 + hex_value(t[2])] ELSE Refused
    BY <1>8, Zenon DEF parse_color
  <2> QED BY <1>6, <1>7, <2>1
<1>10. parse_color(text) = [ok |-> TRUE, value |-> v]
  BY <1>1, <1>2
<1>11. parse_color(text).value = v
  BY <1>10
<1>12. v = a * 16 + b
  BY DEF v
<1> QED BY <1>9, <1>10, <1>11, <1>12 DEF t

LEMMA NumbersReadBack ==
  ASSUME NEW text \in Seq(DOMAIN UpperOf)
  PROVE  PrintedReadsBack(text)
<1>1. ASSUME parse_uint(text).ok
      PROVE  /\ parse_uint(print_dec(parse_uint(text).value)) = parse_uint(text)
             /\ parse_uint(print_hex32(parse_uint(text).value)) = parse_uint(text)
  <2>1. PICK n \in 0 .. MaxUint : parse_uint(text) = [ok |-> TRUE, value |-> n]
    BY <1>1, CountsRead
  <2>2. parse_uint(text).value = n
    BY <2>1
  <2> QED BY <2>1, <2>2, DecReadsBack, HexReadsBack
<1>2. ASSUME parse_int32(text).ok
      PROVE  parse_int32(Shown(parse_int32(text).value)) = parse_int32(text)
  <2>1. PICK x \in Int : parse_int32(text) = [ok |-> TRUE, value |-> Signed(x)]
    BY <1>2, ReadIntIs
  <2>2. parse_int32(text).value = Signed(x)
    BY <2>1
  <2>3. Signed(x) \in -HalfRange .. HalfRange - 1
    BY BitsAndBack
  <2> QED BY <2>1, <2>2, <2>3, SignedReadsBack
<1> QED BY <1>1, <1>2, ColorReadsBack DEF PrintedReadsBack

\* Every number the kernel prints it can read again, whatever the width of an
\* integer and the size of its buffers, as long as they hold the largest.
THEOREM PrintsAlwaysReadBack == Spec => []PrintReadsBack
<1>1. TypedOK => PrintReadsBack
  BY NumbersReadBack DEF TypedOK, PrintReadsBack
<1> QED BY <1>1, TypedIsText, PTL
-----------------------------------------------------------------------------
(* Words: a cursor in a line, and what take_token takes from there. *)

LEMMA DropRunIs ==
  ASSUME NEW S, NEW s \in Seq(S), NEW chars, NEW d \in 1 .. Len(s) + 1,
         \A j \in 1 .. d - 1 : s[j] \in chars, d <= Len(s) => s[d] \notin chars
  PROVE  DropRun(s, chars) = SubSeq(s, d, Len(s))
<1> DEFINE P(k) == /\ \A j \in 1 .. k - 1 : s[j] \in chars
                   /\ k <= Len(s) => s[k] \notin chars
           first == CHOOSE k \in 1 .. Len(s) + 1 : P(k)
<1>1. Len(s) \in Nat /\ P(d)
  OBVIOUS
<1>2. first \in 1 .. Len(s) + 1 /\ P(first)
  <2> HIDE DEF P
  <2> QED BY <1>1, Zenon
<1>3. DropRun(s, chars) = SubSeq(s, first, Len(s))
  BY DEF DropRun
<1> HIDE DEF first
<1>4. first = d
  <2>1. CASE first < d
    <3>1. first \in 1 .. d - 1 /\ first <= Len(s)
      BY <1>1, <1>2, <2>1
    <3> QED BY <1>2, <3>1
  <2>2. CASE d < first
    <3>1. d \in 1 .. first - 1 /\ d <= Len(s)
      BY <1>1, <1>2, <2>2
    <3> QED BY <1>2, <3>1
  <2> QED BY <1>1, <1>2, <2>1, <2>2
<1> QED BY <1>3, <1>4

\* The first place from a on where there is none of some characters, or the end.
LEMMA NextPlace ==
  ASSUME NEW S, NEW s \in Seq(S), NEW chars, NEW a \in 1 .. Len(s) + 1
  PROVE  \E b \in a .. Len(s) + 1 :
           /\ \A j \in a .. b - 1 : s[j] \in chars
           /\ b <= Len(s) => s[b] \notin chars
<1> DEFINE T == {b \in a .. Len(s) + 1 : b <= Len(s) => s[b] \notin chars}
<1>1. Len(s) \in Nat /\ a \in Nat
  OBVIOUS
<1>2. T \in SUBSET Nat /\ Len(s) + 1 \in T
  BY <1>1
<1>3. PICK b \in T : \A j \in T : b <= j
  <2> HIDE DEF T
  <2> QED BY <1>2, LeastNumber
<1>4. ASSUME NEW j \in a .. b - 1 PROVE s[j] \in chars
  <2>1. j \in a .. Len(s) + 1 /\ ~(b <= j)
    BY <1>1
  <2>2. j \notin T
    BY <1>3, <2>1
  <2> QED BY <2>1, <2>2
<1> QED BY <1>3, <1>4

\* The same, where there is one of them.
LEMMA NextOne ==
  ASSUME NEW S, NEW s \in Seq(S), NEW chars, NEW a \in 1 .. Len(s) + 1
  PROVE  \E b \in a .. Len(s) + 1 :
           /\ \A j \in a .. b - 1 : s[j] \notin chars
           /\ b <= Len(s) => s[b] \in chars
<1>1. PICK b \in a .. Len(s) + 1 :
        /\ \A j \in a .. b - 1 : s[j] \in S \ chars
        /\ b <= Len(s) => s[b] \notin S \ chars
  BY NextPlace
<1>2. Len(s) \in Nat /\ a \in Nat /\ b \in Nat
  OBVIOUS
<1>3. b <= Len(s) => s[b] \in S
  BY <1>2
<1> QED BY <1>1, <1>3

Rest(s, a) == SubSeq(s, a, Len(s))

LEMMA RestOfRest ==
  ASSUME NEW S, NEW s \in Seq(S), NEW a \in 1 .. Len(s) + 1, NEW b \in a .. Len(s) + 1
  PROVE  /\ Rest(s, a) \in Seq(S) /\ Len(Rest(s, a)) = Len(s) - a + 1
         /\ \A j \in 1 .. Len(s) - a + 1 : Rest(s, a)[j] = s[a + j - 1]
         /\ Rest(Rest(s, a), b - a + 1) = Rest(s, b)
<1> DEFINE n == Len(s)
           r == Rest(s, a)
           q == Rest(s, b)
           m == b - a + 1
           p == Rest(r, m)
<1>1. n \in Nat /\ a \in Nat \ {0} /\ b \in Nat \ {0} /\ a <= n + 1 /\ b <= n + 1 /\ a <= b
  OBVIOUS
<1>2. r \in Seq(S) /\ Len(r) = n - a + 1 /\ \A j \in 1 .. n - a + 1 : r[j] = s[a + j - 1]
  BY <1>1, RestOf DEF Rest
<1>3. q \in Seq(S) /\ Len(q) = n - b + 1 /\ \A j \in 1 .. n - b + 1 : q[j] = s[b + j - 1]
  BY <1>1, RestOf DEF Rest
<1> HIDE DEF r, q, n
<1>4. m \in Nat \ {0} /\ m <= Len(r) + 1
  BY <1>1, <1>2
<1>5. p \in Seq(S) /\ Len(p) = Len(r) - m + 1
      /\ \A j \in 1 .. Len(r) - m + 1 : p[j] = r[m + j - 1]
  <2> HIDE DEF m
  <2> QED BY <1>2, <1>4, RestOf DEF Rest
<1> HIDE DEF p
<1>6. Len(p) = Len(q) /\ Len(r) - m + 1 = n - b + 1
  BY <1>1, <1>2, <1>3, <1>5
<1>7. ASSUME NEW j \in 1 .. n - b + 1 PROVE p[j] = q[j]
  <2>1. m + j - 1 \in 1 .. n - a + 1 /\ a + (m + j - 1) - 1 = b + j - 1
    BY <1>1
  <2>2. p[j] = r[m + j - 1] /\ q[j] = s[b + j - 1]
    BY <1>3, <1>5, <1>6
  <2> QED BY <1>2, <2>1, <2>2
<1>8. p = q
  BY <1>3, <1>5, <1>6, <1>7, SeqEqual
<1> QED BY <1>2, <1>8 DEF p, q, r, n

LEMMA SkipFrom ==
  ASSUME NEW S, NEW s \in Seq(S), NEW a \in 1 .. Len(s) + 1, NEW b \in a .. Len(s) + 1,
         \A j \in a .. b - 1 : s[j] \in Space, b <= Len(s) => s[b] \notin Space
  PROVE  skip_spaces(Rest(s, a)) = Rest(s, b)
<1> DEFINE n == Len(s)
           r == Rest(s, a)
           d == b - a + 1
<1>1. n \in Nat /\ a \in Nat \ {0} /\ b \in Nat \ {0} /\ a <= n + 1 /\ b <= n + 1 /\ a <= b
  OBVIOUS
<1>2. /\ r \in Seq(S) /\ Len(r) = n - a + 1
      /\ \A j \in 1 .. n - a + 1 : r[j] = s[a + j - 1]
      /\ Rest(r, d) = Rest(s, b)
  BY RestOfRest
<1> HIDE DEF r
<1>3. d \in 1 .. Len(r) + 1
  BY <1>1, <1>2
<1>4. \A j \in 1 .. d - 1 : r[j] \in Space
  <2> SUFFICES ASSUME NEW j \in 1 .. d - 1 PROVE r[j] \in Space
    OBVIOUS
  <2>1. a + j - 1 \in a .. b - 1 /\ j \in 1 .. n - a + 1
    BY <1>1
  <2> QED BY <1>2, <2>1
<1>5. d <= Len(r) => r[d] \notin Space
  <2> SUFFICES ASSUME d <= Len(r) PROVE r[d] \notin Space
    OBVIOUS
  <2>1. b <= n /\ d \in 1 .. n - a + 1 /\ a + d - 1 = b
    BY <1>1, <1>2
  <2>2. r[d] = s[b]
    <3> HIDE DEF d
    <3> QED BY <1>2, <2>1
  <2> QED BY <2>1, <2>2
<1> HIDE DEF d, n
<1>6. skip_spaces(r) = Rest(r, d)
  BY <1>2, <1>3, <1>4, <1>5, DropRunIs DEF skip_spaces, Rest
<1> QED BY <1>2, <1>6 DEF r

\* From a cursor with a word behind it: the word stands from p to e - 1, and the
\* cursor goes on to b.
LEMMA TakesWord ==
  ASSUME NEW S, NEW s \in Seq(S), NEW a \in 1 .. Len(s) + 1,
         NEW p \in a .. Len(s), NEW e \in p .. Len(s) + 1, NEW b \in e .. Len(s) + 1,
         \A j \in a .. p - 1 : s[j] \in Space, s[p] \notin Space,
         \A j \in p .. e - 1 : s[j] \notin Space, e <= Len(s) => s[e] \in Space,
         \A j \in e .. b - 1 : s[j] \in Space, b <= Len(s) => s[b] \notin Space
  PROVE  Token(Rest(s, a)) # <<>> /\ Cursor(Rest(s, a)) = Rest(s, b)
<1> DEFINE n == Len(s)
           r == Rest(s, p)
           d == e - p + 1
<1>1. /\ n \in Nat /\ a \in Nat \ {0} /\ p \in Nat \ {0} /\ e \in Nat \ {0} /\ b \in Nat \ {0}
      /\ a <= p /\ p <= n /\ p <= e /\ e <= n + 1 /\ e <= b /\ b <= n + 1
  OBVIOUS
<1>2. skip_spaces(Rest(s, a)) = r
  <2>1. p \in a .. n + 1
    BY <1>1
  <2> QED BY <2>1, SkipFrom
<1>3. /\ r \in Seq(S) /\ Len(r) = n - p + 1
      /\ \A j \in 1 .. n - p + 1 : r[j] = s[p + j - 1]
      /\ Rest(r, d) = Rest(s, e)
  <2>1. p \in 1 .. n + 1 /\ e \in p .. n + 1
    BY <1>1
  <2> QED BY <2>1, RestOfRest
<1> HIDE DEF r
<1>4. d \in 1 .. Len(r) + 1 /\ d - 1 \in 0 .. Len(r)
  BY <1>1, <1>3
<1>5. e # p
  BY <1>1
<1>6. \A j \in 1 .. d - 1 : r[j] \notin Space
  <2> SUFFICES ASSUME NEW j \in 1 .. d - 1 PROVE r[j] \notin Space
    OBVIOUS
  <2>1. p + j - 1 \in p .. e - 1 /\ j \in 1 .. n - p + 1
    BY <1>1
  <2> QED BY <1>3, <2>1
<1>7. d <= Len(r) => r[d] \in Space
  <2> SUFFICES ASSUME d <= Len(r) PROVE r[d] \in Space
    OBVIOUS
  <2>1. e <= n /\ d \in 1 .. n - p + 1 /\ p + d - 1 = e
    BY <1>1, <1>3
  <2>2. r[d] = s[e]
    <3> HIDE DEF d
    <3> QED BY <1>3, <2>1
  <2> QED BY <2>1, <2>2
<1>8. d - 1 > 0
  BY <1>1, <1>5
<1> HIDE DEF d, n
<1>9. Token(Rest(s, a)) = SubSeq(r, 1, d - 1)
  <2>1. Until(r, Space) = SubSeq(r, 1, d - 1)
    BY <1>3, <1>4, <1>6, <1>7, UntilIs
  <2> QED BY <1>2, <2>1 DEF Token
<1>10. Len(Token(Rest(s, a))) = d - 1
  BY <1>3, <1>4, <1>9, StartOf
<1>11. Token(Rest(s, a)) # <<>>
  BY <1>8, <1>10
<1>14. Token(r) = Token(Rest(s, a))
  <2>1. r # <<>> /\ r[1] \notin Space
    <3>1. 1 \in 1 .. d - 1
      BY <1>4, <1>8
    <3>2. Len(r) # 0
      BY <1>3, <1>4, <1>8
    <3> QED BY <1>3, <1>6, <3>1, <3>2
  <2>2. skip_spaces(r) = r
    BY <1>3, <2>1, DropRunStarts DEF skip_spaces
  <2> QED BY <1>2, <2>2 DEF Token
<1>12. Cursor(Rest(s, a)) = skip_spaces(Rest(r, d))
  <2> DEFINE x == Rest(s, a)
  <2>1. Len(Token(x)) + 1 = d /\ skip_spaces(x) = r /\ Token(r) = Token(x)
    BY <1>2, <1>4, <1>10, <1>14
  <2> HIDE DEF x
  <2>2. Cursor(x) = skip_spaces(SubSeq(r, d, Len(r)))
    BY <2>1, Zenon DEF Cursor
  <2> QED BY <2>2 DEF x, Rest
<1>13. skip_spaces(Rest(s, e)) = Rest(s, b)
  <2>1. e \in 1 .. Len(s) + 1
    BY <1>1 DEF n
  <2> QED BY <2>1, SkipFrom
<1> QED BY <1>3, <1>11, <1>12, <1>13

\* Without a word behind it, there is nothing more to take.
LEMMA TakesNothing ==
  ASSUME NEW S, NEW s \in Seq(S), NEW a \in 1 .. Len(s) + 1,
         \A j \in a .. Len(s) : s[j] \in Space
  PROVE  Token(Rest(s, a)) = <<>> /\ Cursor(Rest(s, a)) = Rest(s, Len(s) + 1)
<1> DEFINE n == Len(s)
           none == Rest(s, n + 1)
<1>1. n \in Nat /\ a \in Nat \ {0} /\ a <= n + 1
  OBVIOUS
<1>2. none = <<>>
  <2>1. n + 1 \in 1 .. n + 1 /\ n + 1 \in n + 1 .. n + 1
    BY <1>1
  <2>2. none \in Seq(S) /\ Len(none) = n - (n + 1) + 1
    BY <2>1, RestOfRest
  <2>3. none \in Seq(S) /\ Len(none) = 0
    BY <1>1, <2>2
  <2> HIDE DEF none
  <2> QED BY <2>3
<1>3. skip_spaces(Rest(s, a)) = none
  <2>1. n + 1 \in a .. n + 1 /\ (n + 1) - 1 = n
    BY <1>1
  <2> QED BY <2>1, SkipFrom
<1>4. skip_spaces(<<>>) = <<>> /\ Until(<<>>, Space) = <<>> /\ SubSeq(<<>>, 1, 0) = <<>>
  <2> DEFINE e == <<>>
  <2>1. e \in Seq(S) /\ Len(e) = 0
    OBVIOUS
  <2> HIDE DEF e
  <2>2. 1 \in 1 .. Len(e) + 1 /\ ~(1 <= Len(e))
    BY <2>1
  <2>3. DropRun(e, Space) = SubSeq(e, 1, Len(e))
    <3>1. \A j \in 1 .. 1 - 1 : e[j] \in Space
      OBVIOUS
    <3>2. 1 <= Len(e) => e[1] \notin Space
      BY <2>2
    <3> QED BY <2>1, <2>2, <3>1, <3>2, DropRunIs, Zenon
  <2>4. Until(e, Space) = SubSeq(e, 1, 1 - 1)
    <3>1. \A j \in 1 .. 1 - 1 : e[j] \notin Space
      OBVIOUS
    <3>2. 1 <= Len(e) => e[1] \in Space
      BY <2>2
    <3> QED BY <2>1, <2>2, <3>1, <3>2, UntilIs, Zenon
  <2>5. SubSeq(e, 1, Len(e)) = e
    BY <2>1, WholeSeq
  <2>6. 1 - 1 = 0
    OBVIOUS
  <2>7. SubSeq(e, 1, 0) = e /\ Until(e, Space) = e /\ DropRun(e, Space) = e
    BY <2>1, <2>3, <2>4, <2>5, <2>6
  <2> QED BY <2>7 DEF e, skip_spaces
<1>5. Token(Rest(s, a)) = <<>>
  BY <1>2, <1>3, <1>4 DEF Token
<1>6. SubSeq(<<>>, Len(<<>>) + 1, Len(<<>>)) = <<>>
  BY <1>4
<1>7. Cursor(Rest(s, a)) = <<>>
  <2> DEFINE x == Rest(s, a)
  <2>1. skip_spaces(x) = <<>> /\ Token(<<>>) = <<>>
    BY <1>2, <1>3, <1>4 DEF Token
  <2> HIDE DEF x
  <2>2. Cursor(x) = skip_spaces(<<>>)
    BY <1>6, <2>1, Zenon DEF Cursor
  <2> QED BY <1>4, <2>2 DEF x
<1> QED BY <1>2, <1>5, <1>7
LEMMA TrimmedIs ==
  ASSUME NEW S, NEW s \in Seq(S)
  PROVE  trim_right(s) \in Seq(S)
<1> DEFINE P(k) == /\ \A j \in k + 1 .. Len(s) : s[j] \in Space
                   /\ k > 0 => s[k] \notin Space
           T == {k \in 0 .. Len(s) : \A j \in k + 1 .. Len(s) : s[j] \in Space}
           last == CHOOSE k \in 0 .. Len(s) : P(k)
<1>1. Len(s) \in Nat
  OBVIOUS
<1>2. T \in SUBSET Nat /\ Len(s) \in T
  BY <1>1
<1>3. PICK k \in T : \A j \in T : k <= j
  <2> HIDE DEF T
  <2> QED BY <1>2, LeastNumber
<1>4. k > 0 => s[k] \notin Space
  <2> SUFFICES ASSUME k > 0, s[k] \in Space PROVE FALSE
    OBVIOUS
  <2>1. k - 1 \in 0 .. Len(s) /\ ~(k <= k - 1)
    BY <1>1, <1>2
  <2>2. \A j \in (k - 1) + 1 .. Len(s) : j = k \/ j \in k + 1 .. Len(s)
    BY <1>1, <1>2
  <2>3. k - 1 \in T
    BY <2>1, <2>2
  <2> QED BY <1>3, <2>1, <2>3
<1>5. k \in 0 .. Len(s) /\ P(k)
  BY <1>4
<1>6. last \in 0 .. Len(s)
  <2> HIDE DEF P
  <2> QED BY <1>5, Zenon
<1>7. trim_right(s) = SubSeq(s, 1, last)
  BY DEF trim_right
<1> HIDE DEF last
<1> QED BY <1>6, <1>7, StartOf

Rem == <<"R", "E", "M">>

LEMMA RemIs ==
  /\ Len(Rem) = 3 /\ DOMAIN Rem = 1 .. 3
  /\ \A k \in 1 .. 3 : Rem[k] \notin Space
<1>1. Rem = <<"R", "E", "M">>
  BY DEF Rem
<1>2. /\ Len(Rem) = 3 /\ DOMAIN Rem = 1 .. 3
      /\ Rem[1] = "R" /\ Rem[2] = "E" /\ Rem[3] = "M"
  BY <1>1
<1>3. "R" \notin Space /\ "E" \notin Space /\ "M" \notin Space
  BY Zenon DEF Space
<1> QED BY <1>2, <1>3

\* No blank has an upper case that is not a blank.
LEMMA BlanksHaveNoCase ==
  ASSUME NEW c \in DOMAIN UpperOf, UpperOf[c] \notin Space
  PROVE  c \notin Space
<1> SUFFICES ASSUME c \in Space PROVE FALSE
  OBVIOUS
<1>1. c \in Marks
  BY MarksAre
<1>2. UpperOf[c] = c
  BY <1>1, UpperOfAssumption
<1> QED BY <1>2

\* The three letters of a comment are its command, and the other way round.
LEMMA RemIsCommand ==
  ASSUME NEW line \in Seq(DOMAIN UpperOf), line = <<>> \/ line[1] \notin Space
  PROVE  is_rem_comment(line) <=> UpperCase(Token(line)) = Rem
<1> DEFINE n == Len(line)
<1>1. n \in Nat
  OBVIOUS
<1>2. skip_spaces(line) = line
  <2>1. CASE line # <<>>
    BY <2>1, DropRunStarts DEF skip_spaces
  <2>2. CASE line = <<>>
    <3>1. 1 \in 1 .. Len(line) + 1 /\ ~(1 <= Len(line))
      BY <2>2
    <3>2. \A j \in 1 .. 1 - 1 : line[j] \in Space
      OBVIOUS
    <3>3. 1 <= Len(line) => line[1] \notin Space
      BY <3>1
    <3>4. DropRun(line, Space) = SubSeq(line, 1, Len(line))
      BY <3>1, <3>2, <3>3, DropRunIs, Zenon
    <3> QED BY <3>4, WholeSeq DEF skip_spaces
  <2> QED BY <2>1, <2>2
<1>3. PICK d \in 1 .. n + 1 :
        (\A j \in 1 .. d - 1 : line[j] \notin Space) /\ (d <= n => line[d] \in Space)
  BY Cutting
<1> DEFINE w == SubSeq(line, 1, d - 1)
<1>4. Token(line) = w
  BY <1>2, <1>3, UntilIs DEF Token
<1>5. /\ w \in Seq(DOMAIN UpperOf) /\ Len(w) = d - 1
      /\ \A j \in 1 .. d - 1 : w[j] = line[j]
  <2>1. d - 1 \in 0 .. n
    BY <1>1
  <2> QED BY <2>1, StartOf
<1> HIDE DEF w, n
<1>6. Len(UpperCase(w)) = d - 1 /\ \A j \in 1 .. d - 1 : UpperCase(w)[j] = UpperOf[w[j]]
  BY <1>5, UpperCaseIs
<1>7. is_rem_comment(line) <=>
        /\ n >= 3 /\ UpperCase(SubSeq(line, 1, 3)) = Rem
        /\ n > 3 => line[4] \in Space
  BY Zenon DEF is_rem_comment, Rem, n
<1>8. ASSUME UpperCase(w) = Rem PROVE is_rem_comment(line)
  <2>1. d - 1 = 3
    BY <1>6, <1>8, RemIs
  <2>2. d = 4
    BY <2>1
  <2>3. w = SubSeq(line, 1, 3) /\ n >= 3 /\ (n > 3 => line[4] \in Space)
    BY <1>1, <1>3, <2>2 DEF w
  <2> QED BY <1>7, <1>8, <2>3
<1>9. ASSUME is_rem_comment(line) PROVE UpperCase(w) = Rem
  <2> DEFINE h == SubSeq(line, 1, 3)
  <2>1. n >= 3 /\ UpperCase(h) = Rem /\ (n > 3 => line[4] \in Space)
    BY <1>7, <1>9
  <2>2. /\ h \in Seq(DOMAIN UpperOf) /\ Len(h) = 3 /\ \A j \in 1 .. 3 : h[j] = line[j]
    <3>1. 3 \in 0 .. n
      BY <1>1, <2>1
    <3> QED BY <3>1, StartOf DEF n
  <2> HIDE DEF h
  <2>3. \A j \in 1 .. 3 : UpperCase(h)[j] = UpperOf[h[j]]
    BY <2>2, UpperCaseIs
  <2>4. ASSUME NEW j \in 1 .. 3 PROVE line[j] \notin Space
    <3>1. UpperOf[line[j]] \notin Space
      BY <2>1, <2>2, <2>3, RemIs
    <3>2. line[j] \in DOMAIN UpperOf
      BY <1>1, <2>1 DEF n
    <3> QED BY <3>1, <3>2, BlanksHaveNoCase
  <2>5. d >= 4
    <3> SUFFICES ASSUME d < 4 PROVE FALSE
      BY <1>1
    <3>1. d \in 1 .. 3 /\ d <= n
      BY <1>1, <2>1
    <3> QED BY <1>3, <2>4, <3>1
  <2>6. d <= 4
    <3> SUFFICES ASSUME d > 4 PROVE FALSE
      BY <1>1
    <3>1. n > 3 /\ 4 \in 1 .. d - 1
      BY <1>1
    <3> QED BY <1>3, <2>1, <3>1
  <2>7. w = h
    <3>1. d - 1 = 3
      BY <2>5, <2>6
    <3> QED BY <3>1 DEF w, h
  <2> QED BY <2>1, <2>7
<1> QED BY <1>4, <1>8, <1>9

LEMMA CommentsAreCommands ==
  ASSUME NEW text \in Seq(DOMAIN UpperOf)
  PROVE  CommentIsCommand(text)
<1> DEFINE t == trim_right(text)
           line == skip_spaces(t)
<1>1. t \in Seq(DOMAIN UpperOf)
  BY TrimmedIs
<1> HIDE DEF t
<1>2. line \in Seq(DOMAIN UpperOf)
  BY <1>1, DropRunStarts DEF skip_spaces
<1>3. line = <<>> \/ line[1] \notin Space
  <2>1. Len(t) \in Nat /\ 1 \in 1 .. Len(t) + 1
    BY <1>1
  <2>2. PICK b \in 1 .. Len(t) + 1 :
          (\A j \in 1 .. b - 1 : t[j] \in Space) /\ (b <= Len(t) => t[b] \notin Space)
    BY <1>1, <2>1, NextPlace
  <2>3. line = SubSeq(t, b, Len(t))
    BY <1>1, <2>2, DropRunIs DEF skip_spaces
  <2>4. b \in Nat \ {0} /\ b <= Len(t) + 1
    BY <2>1
  <2>5. /\ Len(line) = Len(t) - b + 1
        /\ \A k \in 1 .. Len(t) - b + 1 : line[k] = t[b + k - 1]
    BY <1>1, <2>3, <2>4, RestOf
  <2> HIDE DEF line
  <2>6. CASE b <= Len(t)
    <3>1. 1 \in 1 .. Len(t) - b + 1 /\ b + 1 - 1 = b
      BY <2>1, <2>6
    <3> QED BY <2>2, <2>5, <2>6, <3>1
  <2>7. CASE b = Len(t) + 1
    <3>1. Len(line) = 0
      BY <2>1, <2>5, <2>7
    <3> QED BY <1>2, <3>1
  <2> QED BY <2>1, <2>6, <2>7
<1> HIDE DEF line
<1>4. is_rem_comment(line) <=> UpperCase(Token(line)) = Rem
  BY <1>2, <1>3, RemIsCommand
<1> QED BY <1>4, Zenon DEF CommentIsCommand, line, t, Rem
\* A set of places in a string.
LEMMA PlacesAreFinite ==
  ASSUME NEW n \in Nat, NEW T \in SUBSET (1 .. n)
  PROVE  IsFiniteSet(T) /\ Cardinality(T) \in 0 .. n
<1>1. IsFiniteSet(1 .. n) /\ Cardinality(1 .. n) = n
  BY FS_Interval
<1>2. IsFiniteSet(T) /\ Cardinality(T) <= n
  BY <1>1, FS_Subset
<1> QED BY <1>2, FS_CardinalityType

LEMMA OneMorePlace ==
  ASSUME NEW n \in Nat, NEW T \in SUBSET (1 .. n), NEW p, p \notin T
  PROVE  Cardinality(T \cup {p}) = Cardinality(T) + 1
  BY PlacesAreFinite, FS_AddElement

\* Where a word starts.
WordStarts(s, blanks) ==
  {p \in 1 .. Len(s) : s[p] \notin blanks /\ (p = 1 \/ s[p - 1] \in blanks)}
StartsUpTo(s, blanks, k) == {p \in WordStarts(s, blanks) : p <= k}

\* WC counts the places where a word starts.
LEMMA WcCounts ==
  ASSUME NEW S, NEW text \in Seq(S)
  PROVE  Wc(text).words = Cardinality(WordStarts(text, Blanks))
<1> DEFINE n == Len(text)
           V == [lines : Nat, words : Nat, in_word : BOOLEAN]
           x == [lines |-> 0, words |-> 0, in_word |-> FALSE]
           step == [k \in Nat |-> [y \in V |-> Count(y, text[k])]]
           Solves(w) == w = [k \in 0 .. n |-> IF k = 0 THEN x ELSE Count(w[k - 1], text[k])]
           acc == CHOOSE w : Solves(w)
           B(k) == text[k] \in Blanks
           U(k) == StartsUpTo(text, Blanks, k)
<1>1. n \in Nat /\ x \in V
  OBVIOUS
<1>2. \A y \in V : \A c :
        /\ Count(y, c) \in V /\ (Count(y, c).in_word <=> (c \notin Blanks))
        /\ Count(y, c).words = y.words + (IF c \notin Blanks /\ ~y.in_word THEN 1 ELSE 0)
  <2> SUFFICES ASSUME NEW y \in V, NEW c
               PROVE  /\ Count(y, c) \in V /\ (Count(y, c).in_word <=> (c \notin Blanks))
                      /\ Count(y, c).words =
                           y.words + (IF c \notin Blanks /\ ~y.in_word THEN 1 ELSE 0)
    OBVIOUS
  <2> DEFINE line == IF c = "\n" THEN 1 ELSE 0
             word == IF c \notin Blanks /\ ~y.in_word THEN 1 ELSE 0
             inside == c \notin Blanks
  <2>1. Count(y, c) = [lines |-> y.lines + line, words |-> y.words + word, in_word |-> inside]
    BY Zenon DEF Count
  <2>2. line \in {0, 1} /\ word \in {0, 1} /\ inside \in BOOLEAN
    BY Zenon
  <2> HIDE DEF line, inside, word
  <2>3. /\ Count(y, c) \in V /\ Count(y, c).in_word = inside
        /\ Count(y, c).words = y.words + word
    BY <2>1, <2>2
  <2> QED BY <2>3 DEF inside, word
<1> HIDE DEF x, V
<1>3. Closed(step, V)
  BY <1>2 DEF Closed
<1>4. PICK f : Runs(f, V, n, x, step)
  <2> HIDE DEF step, n
  <2> QED BY <1>1, <1>3, Recursion
<1>5. Solves(f)
  <2>1. ASSUME NEW k \in 1 .. n PROVE f[k] = Count(f[k - 1], text[k])
    <3>1. k \in Nat /\ f[k - 1] \in V
      BY <1>1, <1>4, <2>1 DEF Runs
    <3>2. step[k][f[k - 1]] = Count(f[k - 1], text[k])
      BY <3>1
    <3>3. f[k] = step[k][f[k - 1]]
      BY <1>4 DEF Runs
    <3> QED BY <3>2, <3>3
  <2>2. f = [k \in 0 .. n |-> f[k]]
    BY <1>4 DEF Runs
  <2> HIDE DEF step
  <2>3. \A k \in 0 .. n : f[k] = IF k = 0 THEN x ELSE Count(f[k - 1], text[k])
    BY <1>4, <2>1 DEF Runs
  <2> QED BY <2>2, <2>3
<1>6. Solves(acc)
  <2> HIDE DEF Solves
  <2> QED BY <1>5
<1>7. Wc(text) = acc[n]
  BY Zenon DEF Wc, x
<1> HIDE DEF acc
<1>8. acc[0] = x /\ \A k \in 1 .. n : acc[k] = Count(acc[k - 1], text[k])
  BY <1>1, <1>6
<1> DEFINE T == {k \in 0 .. n : /\ acc[k] \in V /\ (acc[k].in_word <=> (k > 0 /\ ~B(k)))
                                /\ acc[k].words = Cardinality(U(k))}
<1>9. \A k : U(k) \in SUBSET (1 .. n)
  BY DEF StartsUpTo, WordStarts
<1>10. 0 \in T
  <2>1. U(0) = {}
    BY <1>9 DEF StartsUpTo
  <2>2. x.in_word = FALSE /\ x.words = 0
    BY DEF x
  <2> HIDE DEF U, B
  <2>3. Cardinality(U(0)) = 0
    BY <2>1, FS_EmptySet
  <2>4. acc[0].in_word <=> (0 > 0 /\ ~B(0))
    BY <1>8, <2>2
  <2> QED BY <1>1, <1>8, <2>2, <2>3, <2>4
<1>11. ASSUME NEW k \in 1 .. n, k - 1 \in T PROVE k \in T
  <2>1. /\ acc[k - 1] \in V /\ (acc[k - 1].in_word <=> (k - 1 > 0 /\ ~B(k - 1)))
        /\ acc[k - 1].words = Cardinality(U(k - 1))
    BY <1>11
  <2>2. /\ acc[k] \in V /\ (acc[k].in_word <=> ~B(k))
        /\ acc[k].words = acc[k - 1].words + (IF ~B(k) /\ ~acc[k - 1].in_word THEN 1 ELSE 0)
    BY <1>2, <1>8, <2>1
  <2>3. CASE ~B(k) /\ ~acc[k - 1].in_word
    <3>1. k = 1 \/ B(k - 1)
      BY <2>1, <2>3
    <3>2. U(k) = U(k - 1) \cup {k} /\ k \notin U(k - 1)
      BY <2>3, <3>1 DEF StartsUpTo, WordStarts
    <3> HIDE DEF U, B
    <3>3. Cardinality(U(k)) = Cardinality(U(k - 1)) + 1
      BY <1>1, <1>9, <3>2, OneMorePlace
    <3> QED BY <2>1, <2>2, <2>3, <3>3
  <2>4. CASE ~(~B(k) /\ ~acc[k - 1].in_word)
    <3>1. B(k) \/ ~(k = 1 \/ B(k - 1))
      BY <2>1, <2>4
    <3>2. U(k) = U(k - 1)
      BY <3>1 DEF StartsUpTo, WordStarts
    <3> HIDE DEF U, B
    <3>3. acc[k - 1].words \in Nat
      BY <2>1 DEF V
    <3> QED BY <2>1, <2>2, <2>4, <3>2, <3>3
  <2> QED BY <2>3, <2>4
<1>12. n \in T
  <2> HIDE DEF T
  <2>1. \A k \in 0 .. n : k \in T
    BY <1>1, <1>10, <1>11, UpTo
  <2> QED BY <1>1, <2>1
<1>13. U(n) = WordStarts(text, Blanks)
  BY DEF StartsUpTo, WordStarts
<1> QED BY <1>7, <1>12, <1>13

\* Where words start, from a place on.
StartsFrom(s, a) == {p \in WordStarts(s, Space) : a <= p}

\* No word goes on across a place.
Apart(s, a) == a \in 1 .. Len(s) + 1 /\ (a = 1 \/ a = Len(s) + 1 \/ s[a - 1] \in Space)

\* A cursor moves from a to b: over one word, if there is one.
Moves(s, a, b) ==
  /\ Apart(s, b) /\ Cursor(Rest(s, a)) = Rest(s, b)
  /\ Token(Rest(s, a)) # <<>> <=> StartsFrom(s, a) # {}
  /\ Cardinality(StartsFrom(s, b)) = IF StartsFrom(s, a) = {} THEN 0
                                     ELSE Cardinality(StartsFrom(s, a)) - 1

LEMMA CursorMoves ==
  ASSUME NEW S, NEW s \in Seq(S), NEW a, Apart(s, a)
  PROVE  \E b : Moves(s, a, b)
<1> DEFINE n == Len(s)
           F(k) == StartsFrom(s, k)
<1>1. n \in Nat /\ a \in Nat \ {0} /\ a <= n + 1 /\ a \in 1 .. n + 1
      /\ (a = 1 \/ a = n + 1 \/ s[a - 1] \in Space)
  BY DEF Apart
<1>2. \A k : F(k) \in SUBSET (1 .. n)
  BY DEF StartsFrom, WordStarts
<1>3. PICK p \in a .. n + 1 :
        (\A j \in a .. p - 1 : s[j] \in Space) /\ (p <= n => s[p] \notin Space)
  BY <1>1, NextPlace
<1>4. CASE p = n + 1
  <2>1. \A j \in a .. n : s[j] \in Space
    BY <1>1, <1>3, <1>4
  <2>2. Token(Rest(s, a)) = <<>> /\ Cursor(Rest(s, a)) = Rest(s, n + 1)
    BY <1>1, <2>1, TakesNothing
  <2>3. F(a) = {} /\ F(n + 1) = {}
    BY <1>1, <2>1 DEF StartsFrom, WordStarts
  <2>4. Apart(s, n + 1)
    BY <1>1 DEF Apart
  <2>5. Cardinality(F(n + 1)) = 0
    BY <2>3, FS_EmptySet
  <2> QED BY <2>2, <2>3, <2>4, <2>5 DEF Moves
<1>5. CASE p # n + 1
  <2>1. p \in a .. n /\ p \in 1 .. n + 1 /\ s[p] \notin Space
    BY <1>1, <1>3, <1>5
  <2>2. PICK e \in p .. n + 1 :
          (\A j \in p .. e - 1 : s[j] \notin Space) /\ (e <= n => s[e] \in Space)
    BY <2>1, NextOne
  <2>3. e \in 1 .. n + 1 /\ e # p
    BY <2>1, <2>2
  <2>4. PICK b \in e .. n + 1 :
          (\A j \in e .. b - 1 : s[j] \in Space) /\ (b <= n => s[b] \notin Space)
    BY <2>3, NextPlace
  <2>5. Token(Rest(s, a)) # <<>> /\ Cursor(Rest(s, a)) = Rest(s, b)
    BY <1>1, <1>3, <2>1, <2>2, <2>4, TakesWord
  <2>6. b \in 1 .. n + 1 /\ p < e /\ e <= b /\ a <= p /\ p <= n
    BY <2>1, <2>2, <2>3, <2>4
  <2>7. b = n + 1 \/ s[b - 1] \in Space
    <3>1. CASE e = n + 1
      BY <2>4, <2>6, <3>1
    <3>2. CASE e <= n /\ b = e
      BY <2>2, <2>4, <3>2
    <3>3. CASE e <= n /\ b # e
      <4>1. b - 1 \in e .. b - 1
        BY <2>4, <2>6, <3>3
      <4> QED BY <2>4, <4>1
    <3> QED BY <2>3, <3>1, <3>2, <3>3
  <2>8. Apart(s, b)
    BY <2>6, <2>7 DEF Apart
  <2>9. F(a) = F(b) \cup {p} /\ p \notin F(b)
    <3>1. p \in F(a)
      <4>1. p = 1 \/ s[p - 1] \in Space
        <5>1. CASE p = a
          BY <1>1, <2>1, <5>1
        <5>2. CASE p # a
          <6>1. p - 1 \in a .. p - 1
            BY <1>1, <2>1, <5>2
          <6> QED BY <1>3, <6>1
        <5> QED BY <5>1, <5>2
      <4> QED BY <1>1, <2>1, <4>1 DEF StartsFrom, WordStarts
    <3>2. ASSUME NEW q \in F(a), q # p PROVE q \in F(b)
      <4>1. /\ q \in 1 .. n /\ a <= q /\ s[q] \notin Space /\ (q = 1 \/ s[q - 1] \in Space)
        BY DEF StartsFrom, WordStarts
      <4>2. ~(q < p)
        <5> SUFFICES ASSUME q < p PROVE FALSE
          OBVIOUS
        <5>1. q \in a .. p - 1
          BY <1>1, <2>6, <4>1
        <5> QED BY <1>3, <4>1, <5>1
      <4>3. ~(p < q /\ q < e)
        <5> SUFFICES ASSUME p < q, q < e PROVE FALSE
          OBVIOUS
        <5>1. q - 1 \in p .. e - 1 /\ q # 1
          BY <1>1, <2>6, <4>1
        <5> QED BY <2>2, <4>1, <5>1
      <4>4. ~(e <= q /\ q < b)
        <5> SUFFICES ASSUME e <= q, q < b PROVE FALSE
          OBVIOUS
        <5>1. q \in e .. b - 1
          BY <2>6, <4>1
        <5> QED BY <2>4, <4>1, <5>1
      <4>5. b <= q
        BY <2>6, <3>2, <4>1, <4>2, <4>3, <4>4
      <4> QED BY <4>1, <4>5 DEF StartsFrom, WordStarts
    <3>3. F(b) \subseteq F(a) /\ p \notin F(b)
      BY <1>1, <2>6 DEF StartsFrom, WordStarts
    <3> QED BY <3>1, <3>2, <3>3
  <2> HIDE DEF F
  <2>10. Cardinality(F(a)) = Cardinality(F(b)) + 1 /\ Cardinality(F(b)) \in Nat
    <3>1. F(b) \in SUBSET (1 .. n)
      BY <1>2
    <3> HIDE DEF n
    <3>2. Cardinality(F(b) \cup {p}) = Cardinality(F(b)) + 1
      BY <1>1, <2>9, <3>1, OneMorePlace
    <3>3. Cardinality(F(b)) \in 0 .. n
      BY <1>1, <3>1, PlacesAreFinite
    <3> QED BY <1>1, <2>9, <3>2, <3>3
  <2>11. Cardinality(F(b)) = IF F(a) = {} THEN 0 ELSE Cardinality(F(a)) - 1
    BY <2>9, <2>10
  <2> QED BY <2>5, <2>8, <2>9, <2>11 DEF Moves, F
<1> QED BY <1>4, <1>5

\* take_token takes a word from each place where one starts.
LEMMA TokensCount ==
  ASSUME NEW S, NEW s \in Seq(S)
  PROVE  Tokens(s) = Cardinality(WordStarts(s, Space))
<1> DEFINE n == Len(s)
           V == {a \in 1 .. n + 1 : Apart(s, a)}
           step == [k \in Nat |-> [a \in V |-> CHOOSE b : Moves(s, a, b)]]
           Solves(w) == w = [k \in 0 .. n |-> IF k = 0 THEN s ELSE Cursor(w[k - 1])]
           rest == CHOOSE w : Solves(w)
           C(a) == Cardinality(StartsFrom(s, a))
           N == C(1)
<1>1. n \in Nat /\ 1 \in V
  BY DEF Apart
<1>2. ASSUME NEW a \in V PROVE Moves(s, a, CHOOSE b : Moves(s, a, b))
  <2>1. \E b : Moves(s, a, b)
    BY CursorMoves
  <2> QED BY <2>1, Zenon
<1>3. ASSUME NEW a, NEW b, Moves(s, a, b) PROVE b \in V
  BY <1>3 DEF Moves, Apart
<1>4. Closed(step, V)
  <2> SUFFICES ASSUME NEW k \in Nat, NEW a \in V PROVE step[k][a] \in V
    BY DEF Closed
  <2>1. step[k][a] = CHOOSE b : Moves(s, a, b)
    OBVIOUS
  <2> HIDE DEF V, step
  <2> QED BY <1>2, <1>3, <2>1
<1>5. PICK f : Runs(f, V, n, 1, step)
  <2> HIDE DEF step, n, V
  <2> QED BY <1>1, <1>4, Recursion
<1>6. f \in [0 .. n -> V] /\ f[0] = 1 /\ \A k \in 1 .. n : Moves(s, f[k - 1], f[k])
  <2>1. f \in [0 .. n -> V] /\ f[0] = 1 /\ \A k \in 1 .. n : f[k] = step[k][f[k - 1]]
    BY <1>5 DEF Runs
  <2>2. ASSUME NEW k \in 1 .. n PROVE Moves(s, f[k - 1], f[k])
    <3>1. k \in Nat /\ f[k - 1] \in V
      BY <1>1, <2>1
    <3>2. step[k][f[k - 1]] = CHOOSE b : Moves(s, f[k - 1], b)
      BY <3>1
    <3> QED BY <1>2, <2>1, <3>1, <3>2
  <2> QED BY <2>1, <2>2
<1> HIDE DEF step, V
<1>7. Rest(s, 1) = s
  BY WholeSeq DEF Rest
<1>8. \E w : Solves(w)
  <2> DEFINE w == [k \in 0 .. n |-> Rest(s, f[k])]
  <2>1. ASSUME NEW k \in 1 .. n PROVE w[k] = Cursor(w[k - 1])
    <3>1. k - 1 \in 0 .. n /\ k \in 0 .. n
      BY <1>1
    <3>2. Cursor(Rest(s, f[k - 1])) = Rest(s, f[k])
      BY <1>6 DEF Moves
    <3> QED BY <3>1, <3>2
  <2>2. w[0] = s
    BY <1>1, <1>6, <1>7
  <2>3. w = [k \in 0 .. n |-> w[k]]
    OBVIOUS
  <2> HIDE DEF w
  <2>4. \A k \in 0 .. n : w[k] = IF k = 0 THEN s ELSE Cursor(w[k - 1])
    BY <2>1, <2>2
  <2> QED BY <2>3, <2>4
<1>9. Solves(rest)
  <2> HIDE DEF Solves
  <2> QED BY <1>8
<1>10. Tokens(s) = Cardinality({k \in DOMAIN rest : rest[k] # <<>> /\ Token(rest[k]) # <<>>})
  BY Zenon DEF Tokens
<1> HIDE DEF rest
<1>11. DOMAIN rest = 0 .. n /\ rest[0] = s /\ \A k \in 1 .. n : rest[k] = Cursor(rest[k - 1])
  BY <1>1, <1>9
<1>12. \A a : StartsFrom(s, a) \in SUBSET (1 .. n) /\ C(a) \in 0 .. n
              /\ (StartsFrom(s, a) = {} <=> C(a) = 0)
  <2> SUFFICES ASSUME NEW a
               PROVE  StartsFrom(s, a) \in SUBSET (1 .. n) /\ C(a) \in 0 .. n
                      /\ (StartsFrom(s, a) = {} <=> C(a) = 0)
    OBVIOUS
  <2>1. StartsFrom(s, a) \in SUBSET (1 .. n)
    BY DEF StartsFrom, WordStarts
  <2> QED BY <1>1, <2>1, PlacesAreFinite, FS_EmptySet
<1> DEFINE T == {k \in 0 .. n : rest[k] = Rest(s, f[k]) /\ C(f[k]) = IF k < N THEN N - k ELSE 0}
<1>13. 0 \in T
  <2>1. N \in 0 .. n
    BY <1>12
  <2> HIDE DEF C
  <2>2. N = IF 0 < N THEN N - 0 ELSE 0
    BY <2>1
  <2> QED BY <1>1, <1>6, <1>7, <1>11, <2>2
<1>14. ASSUME NEW k \in 1 .. n, k - 1 \in T PROVE k \in T
  <2>1. /\ rest[k - 1] = Rest(s, f[k - 1]) /\ k \in Nat /\ k # 0
        /\ C(f[k - 1]) = IF k - 1 < N THEN N - (k - 1) ELSE 0
    BY <1>1, <1>14
  <2>2. /\ Cursor(Rest(s, f[k - 1])) = Rest(s, f[k])
        /\ C(f[k]) = IF StartsFrom(s, f[k - 1]) = {} THEN 0 ELSE C(f[k - 1]) - 1
    BY <1>6 DEF Moves
  <2>3. N \in Nat /\ (StartsFrom(s, f[k - 1]) = {} <=> C(f[k - 1]) = 0)
    BY <1>12
  <2> HIDE DEF C
  <2>4. C(f[k]) = IF k < N THEN N - k ELSE 0
    BY <2>1, <2>2, <2>3
  <2> QED BY <1>11, <2>1, <2>2, <2>4
<1>15. \A k \in 0 .. n : k \in T
  <2> HIDE DEF T
  <2> QED BY <1>1, <1>13, <1>14, UpTo
<1>16. ASSUME NEW k \in 0 .. n
       PROVE  (rest[k] # <<>> /\ Token(rest[k]) # <<>>) <=> k < N
  <2>1. rest[k] = Rest(s, f[k]) /\ C(f[k]) = IF k < N THEN N - k ELSE 0
    BY <1>15
  <2>2. f[k] \in V /\ N \in Nat /\ (StartsFrom(s, f[k]) = {} <=> C(f[k]) = 0)
    BY <1>6, <1>12
  <2>3. Token(rest[k]) # <<>> <=> StartsFrom(s, f[k]) # {}
    BY <1>2, <2>1, <2>2 DEF Moves
  <2>4. Token(<<>>) = <<>>
    <3>1. n + 1 \in 1 .. n + 1 /\ \A j \in n + 1 .. n : s[j] \in Space
      BY <1>1
    <3>2. Token(Rest(s, n + 1)) = <<>>
      BY <3>1, TakesNothing
    <3>3. Rest(s, n + 1) \in Seq(S) /\ Len(Rest(s, n + 1)) = n - (n + 1) + 1
      <4>1. n + 1 \in n + 1 .. n + 1
        BY <1>1
      <4> QED BY <3>1, <4>1, RestOfRest
    <3>4. Rest(s, n + 1) = <<>>
      <4>1. Len(Rest(s, n + 1)) = 0
        BY <1>1, <3>3
      <4> QED BY <3>3, <4>1
    <3> QED BY <3>2, <3>4
  <2> HIDE DEF C
  <2>5. C(f[k]) = 0 <=> ~(k < N)
    BY <2>1, <2>2
  <2> QED BY <2>2, <2>3, <2>4, <2>5
<1>17. Tokens(s) = N
  <2>1. N \in 0 .. n
    BY <1>12
  <2> HIDE DEF C
  <2>2. {k \in 0 .. n : rest[k] # <<>> /\ Token(rest[k]) # <<>>} = 0 .. N - 1
    BY <1>1, <1>16, <2>1
  <2>3. Cardinality(0 .. N - 1) = N
    BY <1>1, <2>1, FS_Interval
  <2> QED BY <1>10, <1>11, <2>2, <2>3
<1>18. StartsFrom(s, 1) = WordStarts(s, Space)
  BY DEF StartsFrom, WordStarts
<1> QED BY <1>17, <1>18

LEMMA WordsAreFound ==
  ASSUME NEW S, NEW text \in Seq(S)
  PROVE  WordsAreTokens(text)
<1> DEFINE CR == "\r"
           blanked == [k \in DOMAIN text |-> IF text[k] = CR THEN Blank ELSE text[k]]
<1> SUFFICES ASSUME "\n" \notin Letters(text) PROVE Wc(text).words = Tokens(blanked)
  BY Zenon DEF WordsAreTokens, Blank
<1>1. \A k \in DOMAIN text : text[k] # "\n"
  BY Zenon DEF Letters
<1>2. \A c : c # "\n" => (c \in Blanks <=> c \in Space \/ c = CR)
  BY Zenon DEF Blanks
<1>3. \A k \in DOMAIN text : text[k] \in Blanks <=> text[k] \in Space \/ text[k] = CR
  BY <1>1, <1>2, Zenon
<1> HIDE DEF CR
<1>4. DOMAIN text = 1 .. Len(text) /\ Len(text) \in Nat /\ \A k \in DOMAIN text : text[k] \in S
  OBVIOUS
<1>5. blanked \in Seq(S \cup {Blank}) /\ Len(blanked) = Len(text)
  BY <1>4
<1>6. \A k \in 1 .. Len(text) : blanked[k] \in Space <=> text[k] \in Blanks
  BY <1>3, <1>4, MarksAre
<1> HIDE DEF blanked
<1>7. WordStarts(blanked, Space) = WordStarts(text, Blanks)
  <2>1. ASSUME NEW p \in 1 .. Len(text), p # 1 PROVE p - 1 \in 1 .. Len(text)
    BY <1>4, <2>1
  <2> QED BY <1>5, <1>6, <2>1 DEF WordStarts
<1> QED BY <1>5, <1>7, WcCounts, TokensCount

\* WC and the test for REM find the words take_token takes, in lines of any length.
THEOREM WordsAlwaysMatch == Spec => []WordsMatch
<1>1. TypedOK => WordsMatch
  BY CommentsAreCommands, WordsAreFound DEF TypedOK, WordsMatch
<1> QED BY <1>1, TypedIsText, PTL

-----------------------------------------------------------------------------
(* Lines: where the line ends stand, and what has been fed of the text. *)

CR == "\r"
Breaks == {"\n", End}

\* What is kept of a stretch of the text, and that a line holds it.
Kept(text, i, j) == {k \in i + 1 .. j - 1 : text[k] # CR}
Before(K, k) == {m \in K : m <= k}
Holds(line, text, K) ==
  /\ Len(line) = IF Cardinality(K) < LineCap THEN Cardinality(K) ELSE LineCap - 1
  /\ \A k \in K : Cardinality(Before(K, k)) < LineCap => line[Cardinality(Before(K, k))] = text[k]

LEMMA BetweenHolds ==
  ASSUME NEW line, NEW text, NEW i, NEW j
  PROVE  IsBetween(line, text, i, j) <=> Holds(line, text, Kept(text, i, j))
  BY Zenon DEF IsBetween, Holds, Kept, Before, CR

LEMMA FeedIs ==
  ASSUME NEW acc, NEW c
  PROVE  /\ CR \notin Breaks
         /\ c = CR => Feed(acc, c) = acc
         /\ c \in Breaks => Feed(acc, c) = [lines |-> Append(acc.lines, acc.cmd), cmd |-> <<>>]
         /\ c # CR /\ c \notin Breaks =>
              Feed(acc, c) = IF Len(acc.cmd) + 1 < LineCap
                             THEN [acc EXCEPT !.cmd = Append(@, c)] ELSE acc
<1>1. CR # "\n" /\ CR # End
  BY Zenon DEF CR, End
<1>2. CR \notin Breaks
  BY <1>1 DEF Breaks
<1>3. ASSUME c = CR PROVE Feed(acc, c) = acc
  BY <1>1, <1>3, Zenon DEF Feed, CR
<1>4. ASSUME c \in Breaks PROVE Feed(acc, c) = [lines |-> Append(acc.lines, acc.cmd), cmd |-> <<>>]
  <2>1. c # CR
    BY <1>2, <1>4
  <2> QED BY <1>4, <2>1, Zenon DEF Feed, CR, Breaks
<1>5. ASSUME c # CR, c \notin Breaks
      PROVE  Feed(acc, c) = IF Len(acc.cmd) + 1 < LineCap
                            THEN [acc EXCEPT !.cmd = Append(@, c)] ELSE acc
  BY <1>5, Zenon DEF Feed, CR, Breaks
<1> QED BY <1>2, <1>3, <1>4, <1>5

Accs(S) == [lines : Seq(Seq(S)), cmd : Seq(S)]

LEMMA FeedType ==
  ASSUME NEW S, NEW acc \in Accs(S), NEW c \in S
  PROVE  Feed(acc, c) \in Accs(S)
<1>1. CASE c = CR
  BY <1>1, FeedIs
<1>2. CASE c \in Breaks
  <2>1. Append(acc.lines, acc.cmd) \in Seq(Seq(S)) /\ <<>> \in Seq(S)
    BY DEF Accs
  <2>2. Feed(acc, c) = [lines |-> Append(acc.lines, acc.cmd), cmd |-> <<>>]
    BY <1>2, FeedIs
  <2> QED BY <2>1, <2>2 DEF Accs
<1>3. CASE c # CR /\ c \notin Breaks
  <2>1. Append(acc.cmd, c) \in Seq(S)
    BY DEF Accs
  <2>2. [acc EXCEPT !.cmd = Append(@, c)] \in Accs(S)
    BY <2>1 DEF Accs
  <2> QED BY <1>3, <2>2, FeedIs
<1> QED BY <1>1, <1>2, <1>3

\* A carriage return changes nothing of a line.
LEMMA ReturnIsNothing ==
  ASSUME NEW text, NEW line, NEW i \in Nat, NEW k \in Nat, i < k, text[k] = CR,
         IsBetween(line, text, i, k)
  PROVE  IsBetween(line, text, i, k + 1)
<1>1. Kept(text, i, k + 1) = Kept(text, i, k)
  BY DEF Kept
<1> QED BY <1>1, BetweenHolds

\* A line that begins holds nothing.
LEMMA NothingYet ==
  ASSUME NEW text, NEW i \in Nat
  PROVE  IsBetween(<<>>, text, i, i + 1)
<1>1. Kept(text, i, i + 1) = {}
  BY DEF Kept
<1>2. Cardinality({}) = 0 /\ 0 < LineCap /\ Len(<<>>) = 0
  BY FS_EmptySet, TextSizes
<1>3. Holds(<<>>, text, {})
  BY <1>2 DEF Holds
<1> QED BY <1>1, <1>3, BetweenHolds

\* Any other character goes to the end of the line, if it fits.
LEMMA CharGoesLast ==
  ASSUME NEW S, NEW text, NEW line \in Seq(S), NEW i \in Nat, NEW k \in Nat, i < k,
         text[k] \in S, text[k] # CR, IsBetween(line, text, i, k)
  PROVE  IsBetween(IF Len(line) + 1 < LineCap THEN Append(line, text[k]) ELSE line,
                   text, i, k + 1)
<1> DEFINE K == Kept(text, i, k)
           K2 == Kept(text, i, k + 1)
           c == Cardinality(K)
           new == IF Len(line) + 1 < LineCap THEN Append(line, text[k]) ELSE line
           P(m) == Cardinality(Before(K, m))
           P2(m) == Cardinality(Before(K2, m))
<1>1. K2 = K \cup {k} /\ k \notin K /\ K \in SUBSET (1 .. k) /\ \A m \in K : m < k
  BY DEF Kept
<1> HIDE DEF K, K2
<1>2. c \in Nat /\ Cardinality(K2) = c + 1
  <2>1. c \in 0 .. k
    BY <1>1, PlacesAreFinite
  <2>2. Cardinality(K \cup {k}) = c + 1
    BY <1>1, OneMorePlace
  <2> QED BY <1>1, <2>1, <2>2
<1>3. ASSUME NEW m \in K PROVE P2(m) = P(m) /\ P(m) \in 1 .. c
  <2>1. Before(K2, m) = Before(K, m)
    BY <1>1 DEF Before
  <2>2. Before(K, m) \in SUBSET K /\ m \in Before(K, m) /\ IsFiniteSet(K)
    BY <1>1, PlacesAreFinite DEF Before
  <2>3. IsFiniteSet(Before(K, m)) /\ P(m) <= c /\ P(m) \in Nat
    BY <2>2, FS_Subset, FS_CardinalityType
  <2>4. P(m) # 0
    BY <2>2, <2>3, FS_EmptySet
  <2> HIDE DEF P, c
  <2>5. P(m) \in 1 .. c
    BY <1>2, <2>3, <2>4
  <2> QED BY <2>1, <2>5 DEF P
<1>4. P2(k) = c + 1
  <2>1. \A m \in K2 : m <= k
    BY <1>1
  <2>2. Before(K2, k) = K2
    BY <2>1 DEF Before
  <2> QED BY <1>2, <2>2
<1>5. /\ Len(line) = IF c < LineCap THEN c ELSE LineCap - 1
      /\ \A m \in K : P(m) < LineCap => line[P(m)] = text[m]
  BY BetweenHolds DEF Holds, K
<1>6. LineCap \in Nat \ {0} /\ Len(line) \in Nat
  BY TextSizes
<1>7. \A m \in K2 : m = k \/ m \in K
  BY <1>1
<1> HIDE DEF P, P2, c
<1>8. Len(new) = IF c + 1 < LineCap THEN c + 1 ELSE LineCap - 1
  <2>1. Len(Append(line, text[k])) = Len(line) + 1
    OBVIOUS
  <2> QED BY <1>2, <1>5, <1>6, <2>1
<1>9. ASSUME NEW m \in K2, P2(m) < LineCap PROVE new[P2(m)] = text[m]
  <2>1. CASE m = k
    <3>1. c + 1 < LineCap /\ Len(line) = c /\ P2(m) = Len(line) + 1
      BY <1>2, <1>4, <1>5, <1>6, <1>9, <2>1
    <3>2. new = Append(line, text[k])
      BY <3>1
    <3> HIDE DEF new
    <3> QED BY <2>1, <3>1, <3>2
  <2>2. CASE m \in K
    <3>1. P2(m) = P(m) /\ P(m) \in 1 .. c /\ line[P(m)] = text[m] /\ P(m) < LineCap
      BY <1>3, <1>5, <1>9, <2>2
    <3>2. P(m) \in 1 .. Len(line)
      BY <1>2, <1>5, <1>6, <3>1
    <3>3. Append(line, text[k])[P(m)] = line[P(m)]
      BY <3>2
    <3> QED BY <3>1, <3>3
  <2> QED BY <1>7, <2>1, <2>2
<1>10. Holds(new, text, K2)
  <2> HIDE DEF new
  <2> QED BY <1>2, <1>8, <1>9 DEF Holds, P2
<1> HIDE DEF new
<1>11. IsBetween(new, text, i, k + 1)
  BY <1>10, BetweenHolds DEF K2
<1> QED BY <1>11 DEF new

\* How many lines have ended, and which line ends follow each other.
Ended(text, k) == {m \in Newlines(text) : m <= k}
Rank(text, k) == Cardinality(Ended(text, k))
Stops(text) == {0, Len(text) + 1} \cup Newlines(text)
Adjacent(text, i, j) ==
  i \in Stops(text) /\ j \in Stops(text) /\ i < j /\ \A m \in Stops(text) : m <= i \/ j <= m

\* After k characters: each line that has ended, and the one that has not.
SoFar(text, acc, k) ==
  /\ Len(acc.lines) = Rank(text, k)
  /\ \A i, j : Adjacent(text, i, j) /\ j <= k
                 => IsBetween(acc.lines[Rank(text, i) + 1], text, i, j)
  /\ \A i \in {0} \cup Newlines(text) :
       i <= k /\ (\A m \in Newlines(text) : m <= i \/ k < m) => IsBetween(acc.cmd, text, i, k + 1)

LEMMA Ranks ==
  ASSUME NEW S, NEW text \in Seq(S)
  PROVE  /\ Newlines(text) \in SUBSET (1 .. Len(text))
         /\ \A k \in 1 .. Len(text) : k \in Newlines(text) <=> text[k] \in Breaks
         /\ \A k : Rank(text, k) \in Nat
         /\ Rank(text, 0) = 0
         /\ \A k \in 1 .. Len(text) :
              Rank(text, k) = IF k \in Newlines(text) THEN Rank(text, k - 1) + 1
                              ELSE Rank(text, k - 1)
         /\ \A i, k \in Nat : i <= k => Rank(text, i) <= Rank(text, k)
<1> DEFINE L == Newlines(text)
           n == Len(text)
<1>1. n \in Nat /\ L = {k \in 1 .. n : text[k] \in Breaks}
  <2>1. DOMAIN text = 1 .. n
    OBVIOUS
  <2>2. L = {k \in DOMAIN text : text[k] \in Breaks}
    BY Zenon DEF Newlines, Where, Breaks
  <2> QED BY <2>1, <2>2
<1> HIDE DEF L
<1>2. \A k : Ended(text, k) = {m \in L : m <= k}
  BY DEF Ended, L
<1>3. ASSUME NEW k PROVE Ended(text, k) \in SUBSET (1 .. n)
  BY <1>1, <1>2
<1>4. ASSUME NEW k PROVE IsFiniteSet(Ended(text, k)) /\ Rank(text, k) \in Nat
  <2>1. Rank(text, k) \in 0 .. n /\ IsFiniteSet(Ended(text, k))
    BY <1>1, <1>3, PlacesAreFinite DEF Rank
  <2> QED BY <1>1, <2>1
<1>5. Rank(text, 0) = 0
  <2>1. Ended(text, 0) = {}
    BY <1>1, <1>2
  <2> QED BY <2>1, FS_EmptySet DEF Rank
<1>6. ASSUME NEW k \in 1 .. n
      PROVE  Rank(text, k) = IF k \in L THEN Rank(text, k - 1) + 1 ELSE Rank(text, k - 1)
  <2>1. CASE k \in L
    <3>1. Ended(text, k) = Ended(text, k - 1) \cup {k} /\ k \notin Ended(text, k - 1)
      BY <1>1, <1>2, <2>1
    <3>2. Ended(text, k - 1) \in SUBSET (1 .. n)
      BY <1>3
    <3>3. Cardinality(Ended(text, k - 1) \cup {k}) = Cardinality(Ended(text, k - 1)) + 1
      BY <1>1, <3>1, <3>2, OneMorePlace
    <3> QED BY <2>1, <3>1, <3>3 DEF Rank
  <2>2. CASE k \notin L
    <3>1. ASSUME NEW m \in L PROVE m <= k <=> m <= k - 1
      <4>1. m \in 1 .. n /\ m # k
        BY <1>1, <2>2
      <4> QED BY <1>1, <4>1
    <3>2. Ended(text, k) = Ended(text, k - 1)
      BY <1>2, <3>1
    <3> QED BY <2>2, <3>2 DEF Rank
  <2> QED BY <2>1, <2>2
<1>7. ASSUME NEW i \in Nat, NEW k \in Nat, i <= k PROVE Rank(text, i) <= Rank(text, k)
  <2>1. Ended(text, i) \in SUBSET Ended(text, k)
    BY <1>1, <1>2, <1>7
  <2> QED BY <1>4, <2>1, FS_Subset DEF Rank
<1> QED BY <1>1, <1>4, <1>5, <1>6, <1>7 DEF L

\* A line end closes the line begun at the line end before it.
LEMMA LineEnds ==
  ASSUME NEW S, NEW text \in Seq(S), NEW V, NEW acc \in Accs(V), NEW k \in 1 .. Len(text) + 1,
         SoFar(text, acc, k - 1), k \in Stops(text)
  PROVE  /\ Len(Append(acc.lines, acc.cmd)) = Rank(text, k - 1) + 1
         /\ \A i, j : Adjacent(text, i, j) /\ j <= k
              => IsBetween(Append(acc.lines, acc.cmd)[Rank(text, i) + 1], text, i, j)
<1> DEFINE n == Len(text)
           L == Newlines(text)
           R(i) == Rank(text, i)
           new == Append(acc.lines, acc.cmd)
<1>1. /\ n \in Nat /\ k \in Nat /\ k - 1 \in Nat /\ L \in SUBSET (1 .. n)
      /\ \A m : R(m) \in Nat
      /\ \A i, m \in Nat : i <= m => R(i) <= R(m)
  BY Ranks
<1>2. /\ Len(acc.lines) = R(k - 1) /\ Len(new) = R(k - 1) + 1
      /\ new[R(k - 1) + 1] = acc.cmd
      /\ \A r \in 1 .. R(k - 1) : new[r] = acc.lines[r]
  <2>1. acc.lines \in Seq(Seq(V)) /\ Len(acc.lines) = R(k - 1)
    BY DEF Accs, SoFar
  <2> HIDE DEF R
  <2> QED BY <2>1
<1>3. ASSUME NEW i, NEW j, Adjacent(text, i, j), j <= k
      PROVE  IsBetween(new[R(i) + 1], text, i, j)
  <2>1. /\ i \in {0, n + 1} \cup L /\ j \in {0, n + 1} \cup L /\ i < j
        /\ \A m \in {0, n + 1} \cup L : m <= i \/ j <= m
    BY <1>3 DEF Adjacent, Stops
  <2>2. i \in {0} \cup L /\ i \in Nat /\ j \in Nat /\ i <= k - 1
    BY <1>1, <1>3, <2>1
  <2>3. CASE j <= k - 1
    <3>1. j \in L /\ j \in 1 .. n
      BY <1>1, <2>1, <2>2, <2>3
    <3>2. R(i) <= R(j - 1) /\ R(j) = R(j - 1) + 1 /\ R(j) <= R(k - 1)
      <4>1. j - 1 \in Nat /\ i <= j - 1
        BY <2>1, <2>2, <3>1
      <4>2. R(j) = R(j - 1) + 1
        BY <3>1, Ranks
      <4> QED BY <1>1, <2>2, <2>3, <4>1, <4>2
    <3>5. R(i) \in Nat /\ R(j) \in Nat /\ R(j - 1) \in Nat /\ R(k - 1) \in Nat
      BY <1>1
    <3> HIDE DEF R
    <3>3. R(i) + 1 \in 1 .. R(k - 1)
      BY <3>2, <3>5
    <3>4. IsBetween(acc.lines[R(i) + 1], text, i, j)
      BY <1>3, <2>3 DEF SoFar, R
    <3> QED BY <1>2, <3>3, <3>4
  <2>4. CASE j = k
    <3>1. Ended(text, i) = Ended(text, k - 1)
      <4>1. ASSUME NEW m \in L PROVE m <= i <=> m <= k - 1
        <5>1. m \in Nat /\ (m <= i \/ k <= m)
          BY <1>1, <2>1, <2>4
        <5> QED BY <1>1, <2>2, <5>1
      <4> QED BY <4>1 DEF Ended
    <3>2. R(i) = R(k - 1)
      BY <3>1 DEF Rank
    <3>3. \A m \in L : m <= i \/ k - 1 < m
      BY <1>1, <2>1, <2>2, <2>4
    <3>4. IsBetween(acc.cmd, text, i, (k - 1) + 1)
      BY <2>2, <3>3 DEF SoFar
    <3>5. (k - 1) + 1 = k
      BY <1>1
    <3> HIDE DEF R, new
    <3> QED BY <1>2, <2>4, <3>2, <3>4, <3>5
  <2>5. j <= k - 1 \/ j = k
    BY <1>1, <1>3, <2>2
  <2> HIDE DEF new, R
  <2> QED BY <2>3, <2>4, <2>5
<1> QED BY <1>2, <1>3

\* One more character.
LEMMA FeedGoesOn ==
  ASSUME NEW S, NEW text \in Seq(S), NEW V, S \subseteq V, NEW acc \in Accs(V),
         NEW k \in 1 .. Len(text), SoFar(text, acc, k - 1)
  PROVE  SoFar(text, Feed(acc, text[k]), k)
<1> DEFINE n == Len(text)
           L == Newlines(text)
           R(i) == Rank(text, i)
           c == text[k]
           new == Feed(acc, c)
<1>1. /\ n \in Nat /\ k \in Nat /\ k # 0 /\ k <= n /\ k - 1 \in Nat /\ L \in SUBSET (1 .. n)
      /\ c \in V /\ (k - 1) + 1 = k
      /\ k \in L <=> c \in Breaks
      /\ R(k) = IF k \in L THEN R(k - 1) + 1 ELSE R(k - 1)
  BY Ranks
<1>2. CASE c \in Breaks
  <2>1. new = [lines |-> Append(acc.lines, acc.cmd), cmd |-> <<>>]
    BY <1>2, FeedIs
  <2>2. k \in Stops(text) /\ k \in 1 .. Len(text) + 1
    BY <1>1, <1>2 DEF Stops
  <2>3. /\ Len(new.lines) = R(k)
        /\ \A i, j : Adjacent(text, i, j) /\ j <= k
             => IsBetween(new.lines[R(i) + 1], text, i, j)
    <3>1. new.lines = Append(acc.lines, acc.cmd)
      BY <2>1
    <3> HIDE DEF new
    <3> QED BY <1>1, <1>2, <2>2, <3>1, LineEnds
  <2>4. ASSUME NEW i \in {0} \cup L, i <= k, \A m \in L : m <= i \/ k < m
        PROVE  IsBetween(new.cmd, text, i, k + 1)
    <3>1. i = k
      BY <1>1, <1>2, <2>4
    <3> QED BY <1>1, <2>1, <3>1, NothingYet
  <2> HIDE DEF new
  <2>5. SoFar(text, new, k)
    BY <2>3, <2>4 DEF SoFar
  <2> QED BY <2>5 DEF new
<1>3. CASE c \notin Breaks
  <2>1. /\ k \notin L /\ R(k) = R(k - 1)
        /\ Len(acc.lines) = R(k - 1)
        /\ \A i, j : Adjacent(text, i, j) /\ j <= k - 1 => IsBetween(acc.lines[R(i) + 1], text, i, j)
        /\ \A i \in {0} \cup L :
             i <= k - 1 /\ (\A m \in L : m <= i \/ k - 1 < m) => IsBetween(acc.cmd, text, i, k)
    BY <1>1, <1>3 DEF SoFar
  <2>2. ASSUME NEW i, NEW j, Adjacent(text, i, j), j <= k PROVE j <= k - 1
    <3>1. j \in {0, n + 1} \cup L
      BY <2>2 DEF Adjacent, Stops
    <3> QED BY <1>1, <2>1, <2>2, <3>1
  <2>3. ASSUME NEW i \in {0} \cup L, i <= k, \A m \in L : m <= i \/ k < m
        PROVE  i \in Nat /\ i < k /\ IsBetween(acc.cmd, text, i, k)
    <3>1. i \in Nat /\ i < k /\ i <= k - 1
      BY <1>1, <2>1, <2>3
    <3>2. \A m \in L : m <= i \/ k - 1 < m
      BY <1>1, <2>3
    <3> QED BY <2>1, <3>1, <3>2
  <2>4. new.lines = acc.lines
    <3>1. CASE c = CR
      BY <3>1, FeedIs
    <3>2. CASE c # CR
      BY <1>3, <3>2, FeedIs DEF Accs
    <3> QED BY <3>1, <3>2
  <2>5. ASSUME NEW i \in {0} \cup L, i <= k, \A m \in L : m <= i \/ k < m
        PROVE  IsBetween(new.cmd, text, i, k + 1)
    <3>1. i \in Nat /\ i < k /\ IsBetween(acc.cmd, text, i, k)
      BY <2>3, <2>5
    <3>2. CASE c = CR
      <4>1. new = acc
        BY <3>2, FeedIs
      <4> QED BY <1>1, <3>1, <3>2, <4>1, ReturnIsNothing
    <3>3. CASE c # CR
      <4> DEFINE cmd == acc.cmd
      <4>1. new = IF Len(cmd) + 1 < LineCap THEN [acc EXCEPT !.cmd = Append(@, c)] ELSE acc
        BY <1>3, <3>3, FeedIs
      <4>2. cmd \in Seq(V) /\ [acc EXCEPT !.cmd = Append(@, c)].cmd = Append(cmd, c)
        BY DEF Accs
      <4>3. new.cmd = IF Len(cmd) + 1 < LineCap THEN Append(cmd, c) ELSE cmd
        BY <4>1, <4>2
      <4> HIDE DEF cmd, new
      <4>4. IsBetween(IF Len(cmd) + 1 < LineCap THEN Append(cmd, c) ELSE cmd, text, i, k + 1)
        BY <1>1, <3>1, <3>3, <4>2, CharGoesLast DEF cmd
      <4> QED BY <4>3, <4>4
    <3> QED BY <3>2, <3>3
  <2>6. \A i, j : Adjacent(text, i, j) /\ j <= k => IsBetween(new.lines[R(i) + 1], text, i, j)
    BY <2>1, <2>2, <2>4
  <2> HIDE DEF new
  <2>7. SoFar(text, new, k)
    BY <2>1, <2>4, <2>5, <2>6 DEF SoFar
  <2> QED BY <2>7 DEF new
<1> QED BY <1>2, <1>3

LEMMA LinesHold ==
  ASSUME NEW S, NEW text \in Seq(S)
  PROVE  LinesAreKept(text)
<1> DEFINE n == Len(text)
           V == S \cup {End}
           s == Scanned(text)
           x == [lines |-> <<>>, cmd |-> <<>>]
           d(k) == IF k \in 1 .. Len(s) THEN s[k] ELSE End
           step == [k \in Nat |-> [y \in Accs(V) |-> Feed(y, d(k))]]
           Solves(w) == w = [k \in 0 .. Len(s) |-> IF k = 0 THEN x ELSE Feed(w[k - 1], s[k])]
           acc == CHOOSE w : Solves(w)
<1>1. n \in Nat /\ text \in Seq(V)
  OBVIOUS
<1>2. /\ s \in Seq(V) /\ Len(s) = n + 1 /\ s[n + 1] = End /\ \A k \in 1 .. n : s[k] = text[k]
  <2> DEFINE e == End
  <2>1. s = Append(text, e) /\ e \in V
    BY DEF Scanned
  <2> HIDE DEF e, s
  <2>2. s \in Seq(V) /\ Len(s) = n + 1 /\ s[n + 1] = e /\ \A k \in 1 .. n : s[k] = text[k]
    BY <1>1, <2>1
  <2> QED BY <2>2 DEF e
<1>3. x \in Accs(V)
  BY DEF Accs
<1> HIDE DEF x, s, V
<1>4. Closed(step, Accs(V))
  <2> SUFFICES ASSUME NEW k \in Nat, NEW y \in Accs(V) PROVE step[k][y] \in Accs(V)
    BY DEF Closed
  <2>1. d(k) \in V
    BY <1>2 DEF V
  <2>2. step[k][y] = Feed(y, d(k))
    OBVIOUS
  <2> HIDE DEF d, step
  <2> QED BY <2>1, <2>2, FeedType
<1>5. PICK f : Runs(f, Accs(V), Len(s), x, step)
  <2> HIDE DEF step
  <2>1. Len(s) \in Nat
    BY <1>1, <1>2
  <2> QED BY <1>3, <1>4, <2>1, Recursion
<1>6. Solves(f)
  <2>1. f \in [0 .. Len(s) -> Accs(V)] /\ f[0] = x
    BY <1>5 DEF Runs
  <2>2. ASSUME NEW k \in 1 .. Len(s) PROVE f[k] = Feed(f[k - 1], s[k])
    <3>1. k \in Nat /\ f[k - 1] \in Accs(V) /\ d(k) = s[k]
      BY <1>1, <1>2, <2>1
    <3>2. step[k][f[k - 1]] = Feed(f[k - 1], d(k))
      BY <3>1
    <3>3. f[k] = step[k][f[k - 1]]
      BY <1>5 DEF Runs
    <3> QED BY <3>1, <3>2, <3>3
  <2>3. f = [k \in 0 .. Len(s) |-> f[k]]
    BY <2>1
  <2> HIDE DEF step
  <2>4. \A k \in 0 .. Len(s) : f[k] = IF k = 0 THEN x ELSE Feed(f[k - 1], s[k])
    BY <2>1, <2>2
  <2> QED BY <2>3, <2>4
<1>7. Solves(acc)
  <2> HIDE DEF Solves
  <2> QED BY <1>6
<1>8. Lines(text) = acc[Len(s)].lines
  BY Zenon DEF Lines, s, x
<1> HIDE DEF acc
<1>9. acc[0] = x /\ \A k \in 1 .. n + 1 : acc[k] = Feed(acc[k - 1], s[k])
  BY <1>1, <1>2, <1>7
<1> DEFINE T == {k \in 0 .. n : acc[k] \in Accs(V) /\ SoFar(text, acc[k], k)}
<1>10. 0 \in T
  <2>1. x.lines = <<>> /\ x.cmd = <<>> /\ Len(x.lines) = 0
    BY DEF x
  <2>2. ASSUME NEW i, NEW j, Adjacent(text, i, j) PROVE ~(j <= 0)
    <3>1. i \in {0, n + 1} \cup Newlines(text) /\ j \in {0, n + 1} \cup Newlines(text) /\ i < j
      BY <2>2 DEF Adjacent, Stops
    <3> QED BY <1>1, <3>1, Ranks
  <2>3. ASSUME NEW i \in {0} \cup Newlines(text), i <= 0
        PROVE  IsBetween(x.cmd, text, i, 0 + 1)
    <3>1. i = 0
      BY <1>1, <2>3, Ranks
    <3>2. IsBetween(<<>>, text, i, i + 1)
      BY <3>1, NothingYet
    <3> QED BY <2>1, <3>1, <3>2
  <2>4. SoFar(text, x, 0)
    BY <2>1, <2>2, <2>3, Ranks DEF SoFar
  <2> QED BY <1>1, <1>3, <1>9, <2>4
<1>11. ASSUME NEW k \in 1 .. n, k - 1 \in T PROVE k \in T
  <2>1. acc[k] = Feed(acc[k - 1], text[k]) /\ acc[k - 1] \in Accs(V)
        /\ SoFar(text, acc[k - 1], k - 1) /\ text[k] \in V
    BY <1>1, <1>2, <1>9, <1>11
  <2>2. acc[k] \in Accs(V)
    BY <2>1, FeedType
  <2>3. SoFar(text, Feed(acc[k - 1], text[k]), k)
    BY <1>1, <2>1, FeedGoesOn
  <2> QED BY <2>1, <2>2, <2>3
<1>12. acc[n] \in Accs(V) /\ SoFar(text, acc[n], n)
  <2> HIDE DEF T
  <2>1. \A k \in 0 .. n : k \in T
    BY <1>1, <1>10, <1>11, UpTo
  <2>2. n \in T
    BY <1>1, <2>1
  <2> QED BY <2>2 DEF T
<1> DEFINE all == Append(acc[n].lines, acc[n].cmd)
<1>13. Lines(text) = all
  <2>1. acc[n + 1] = Feed(acc[n], End) /\ End \in Breaks
    <3>1. n + 1 \in 1 .. n + 1 /\ (n + 1) - 1 = n
      BY <1>1
    <3> QED BY <1>2, <1>9, <3>1 DEF Breaks
  <2>2. Feed(acc[n], End) = [lines |-> all, cmd |-> <<>>]
    BY <2>1, FeedIs
  <2> HIDE DEF all
  <2> QED BY <1>2, <1>8, <2>1, <2>2
<1>14. /\ Len(all) = Rank(text, n) + 1
       /\ \A i, j : Adjacent(text, i, j) /\ j <= n + 1 => IsBetween(all[Rank(text, i) + 1], text, i, j)
  <2>1. n + 1 \in 1 .. n + 1 /\ n + 1 \in Stops(text) /\ (n + 1) - 1 = n
    BY <1>1 DEF Stops
  <2>2. SoFar(text, acc[n], (n + 1) - 1)
    BY <1>12, <2>1
  <2>3. /\ Len(all) = Rank(text, (n + 1) - 1) + 1
        /\ \A i, j : Adjacent(text, i, j) /\ j <= n + 1 => IsBetween(all[Rank(text, i) + 1], text, i, j)
    BY <1>1, <1>12, <2>1, <2>2, LineEnds
  <2> QED BY <2>1, <2>3
<1>15. Rank(text, n) = Cardinality(Newlines(text))
  <2>1. Ended(text, n) = Newlines(text)
    BY <1>1, Ranks DEF Ended
  <2> QED BY <2>1 DEF Rank
<1>16. \A i, j \in Stops(text) : j <= n + 1
  BY <1>1, Ranks DEF Stops
<1> HIDE DEF all
<1>17. \A i, j \in Stops(text) :
         i < j /\ (\A m \in Stops(text) : m <= i \/ j <= m)
           => IsBetween(all[Rank(text, i) + 1], text, i, j)
  BY <1>14, <1>16 DEF Adjacent
<1> QED BY <1>13, <1>14, <1>15, <1>17, Zenon DEF LinesAreKept, Stops, Rank, Ended

\* A file of any length is executed line by line as it is written.
THEOREM LinesAlwaysKept == Spec => []LinesKept
<1>1. TypedOK => LinesKept
  BY LinesHold DEF TypedOK, LinesKept
<1> QED BY <1>1, TypedIsText, PTL
=============================================================================
