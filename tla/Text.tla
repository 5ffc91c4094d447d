-------------------------------- MODULE Text --------------------------------
(***************************************************************************)
(* What kernel.c does with characters: lines of a file, words of a line,   *)
(* numbers read and printed, and the paths of the compiled-in RFS table.   *)
(* A loop over a string is a recursive function of its index, with the     *)
(* loop's own variables.                                                   *)
(***************************************************************************)
EXTENDS DosNames

CONSTANTS
  LineCap,    \* sizeof(line), sizeof(cmd) (128)
  HalfRange,  \* 2^31
  DecCap,     \* sizeof(buf) of print_dec (11)
  HexCount,   \* digits of print_hex32 (8)
  RfsDrive,   \* "RFS"
  RfsNames    \* for each entry of rfs_files, its name and its OBJECTS alias

ASSUME TextSizes ==
  /\ LineCap \in Nat \ {0} /\ HalfRange \in Nat \ {0}
  /\ DecCap \in Nat \ {0} /\ HexCount \in Nat \ {0}

\* RFS is more than a drive letter.
ASSUME RfsAssumption ==
  "A" \in Allowed /\ RfsDrive \in Seq(Allowed) /\ RfsDrive \notin {<<>>, <<"A">>}

-----------------------------------------------------------------------------
(* Lines: the loop of run_script_file, run_rxe_file and cmd_script.        *)
(* The byte after the file is set to 0, and ends the last line.            *)

End == "NUL"

\* Mutant: the loop stops before the byte after the file.
LoopText(text) == text

\* for (i = 0; i <= len; i++)
Scanned(text) == Append(text, End)

Feed(acc, c) ==
  CASE c = "\r" -> acc
    [] c \in {"\n", End} -> [lines |-> Append(acc.lines, acc.cmd), cmd |-> <<>>]
    [] OTHER -> IF Len(acc.cmd) + 1 < LineCap THEN [acc EXCEPT !.cmd = Append(@, c)] ELSE acc

Lines(text) ==
  LET s == Scanned(text)
      acc[k \in 0 .. Len(s)] ==
        IF k = 0 THEN [lines |-> <<>>, cmd |-> <<>>] ELSE Feed(acc[k - 1], s[k])
  IN  acc[Len(s)].lines

-----------------------------------------------------------------------------
(* Words. *)

skip_spaces(s) == DropRun(s, Space)
trim_right(s) ==
  SubSeq(s, 1, CHOOSE k \in 0 .. Len(s) :
                 /\ \A j \in k + 1 .. Len(s) : s[j] \in Space
                 /\ k > 0 => s[k] \notin Space)

\* take_token: the word, and where the cursor is left.
Token(s) == Until(skip_spaces(s), Space)
Cursor(s) ==
  LET t == skip_spaces(s) IN skip_spaces(SubSeq(t, Len(Token(t)) + 1, Len(t)))

is_rem_comment(line) ==
  /\ Len(line) >= 3 /\ UpperCase(SubSeq(line, 1, 3)) = <<"R", "E", "M">>
  /\ Len(line) > 3 => line[4] \in Space

\* cmd_wc
Blanks == Space \cup {"\r", "\n"}

\* Mutant: each blank ends a word.
CountBlanks(acc, c) ==
  [lines |-> acc.lines + (IF c = "\n" THEN 1 ELSE 0),
   words |-> acc.words + (IF c \in Blanks THEN 1 ELSE 0), in_word |-> c \notin Blanks]

Count(acc, c) ==
  [lines |-> acc.lines + (IF c = "\n" THEN 1 ELSE 0),
   words |-> acc.words + (IF c \notin Blanks /\ ~acc.in_word THEN 1 ELSE 0),
   in_word |-> c \notin Blanks]
Wc(text) ==
  LET acc[k \in 0 .. Len(text)] ==
        IF k = 0 THEN [lines |-> 0, words |-> 0, in_word |-> FALSE] ELSE Count(acc[k - 1], text[k])
  IN  acc[Len(text)]

-----------------------------------------------------------------------------
(* Numbers. *)

MaxUint == 2 * HalfRange - 1
Hex == <<"0", "1", "2", "3", "4", "5", "6", "7", "8", "9", "A", "B", "C", "D", "E", "F">>

\* What a character is worth as a digit, and whether it is one.
IsDigit(c, base) == \E k \in 1 .. base : Hex[k] = UpperOf[c]
hex_value(c) == (CHOOSE k \in DOMAIN Hex : Hex[k] = UpperOf[c]) - 1

Refused == [ok |-> FALSE, value |-> 0]

\* Mutant: the test is made after the multiplication has wrapped.
RoomAfter(value, base, digit) == (value * base + digit) % (MaxUint + 1) >= value

\* value <= (max_u32 - digit) / base
RoomFor(value, base, digit) == value <= (MaxUint - digit) \div base

HasHexPrefix(s) == Len(s) >= 2 /\ s[1] = "0" /\ UpperOf[s[2]] = "X"

ReadDigit(acc, c, base) ==
  IF acc.ok /\ IsDigit(c, base) /\ RoomFor(acc.value, base, hex_value(c))
  THEN [ok |-> TRUE, value |-> acc.value * base + hex_value(c)] ELSE Refused

ReadDigits(s, base) ==
  LET acc[k \in 0 .. Len(s)] ==
        IF k = 0 THEN [ok |-> TRUE, value |-> 0] ELSE ReadDigit(acc[k - 1], s[k], base)
  IN  acc[Len(s)]

parse_uint(arg) ==
  LET s == skip_spaces(arg)
  IN  IF s = <<>> THEN Refused
      ELSE IF HasHexPrefix(s) THEN ReadDigits(SubSeq(s, 3, Len(s)), 16) ELSE ReadDigits(s, 10)

\* The low bits of x as int32_t.
Signed(x) == ((x + HalfRange) % (2 * HalfRange)) - HalfRange

\* value = value * 10 + digit wraps in uint32_t, and nothing tests it.
Wrapped(s) ==
  LET value[k \in 0 .. Len(s)] ==
        IF k = 0 THEN 0 ELSE (value[k - 1] * 10 + hex_value(s[k])) % (2 * HalfRange)
  IN  value[Len(s)]

parse_int32(s) ==
  LET neg == s # <<>> /\ s[1] = "-"
      digits == IF neg THEN Tail(s) ELSE s
      value == Wrapped(digits)
  IN  IF digits = <<>> \/ \E k \in DOMAIN digits : ~IsDigit(digits[k], 10) THEN Refused
      ELSE [ok |-> TRUE, value |-> Signed(IF neg THEN -value ELSE value)]

\* What is left of n when its last k digits are taken off.
Quotient(n, base, k) ==
  LET left[j \in 0 .. k] == IF j = 0 THEN n ELSE left[j - 1] \div base IN left[k]

\* The buffer of print_dec and the digits of print_hex32 hold every uint32_t.
ASSUME WidthAssumption ==
  Quotient(MaxUint, 10, DecCap) = 0 /\ Quotient(MaxUint, 16, HexCount) = 0
ASSUME DigitsAssumption ==
  /\ \A k \in DOMAIN Hex : Hex[k] \in DOMAIN UpperOf /\ UpperOf[Hex[k]] = Hex[k]
  /\ "x" \in DOMAIN UpperOf /\ UpperOf["x"] = "X"

Numeral(n, base, count) ==
  [k \in 1 .. count |-> Hex[(Quotient(n, base, count - k) % base) + 1]]

\* print_dec fills its buffer from the last digit on, until nothing is left or it
\* is full.
print_dec(n) ==
  Numeral(n, 10, CHOOSE k \in 1 .. DecCap :
                   /\ \A j \in 1 .. k - 1 : Quotient(n, 10, j) # 0
                   /\ k = DecCap \/ Quotient(n, 10, k) = 0)

\* Mutant: a variable is shown without its top bit.
ShownPositive(v) == print_dec(v % HalfRange)

\* PRINT hands the bits of the variable to print_dec.
Shown(v) == print_dec(v % (2 * HalfRange))

print_hex32(n) == <<"0", "x">> \o Numeral(n, 16, HexCount)

\* COLOR takes two digits and shows the attribute as two digits.
parse_color(args) ==
  LET s == skip_spaces(args)
  IN  IF Len(s) = 2 /\ IsDigit(s[1], 16) /\ IsDigit(s[2], 16)
      THEN [ok |-> TRUE, value |-> hex_value(s[1]) * 16 + hex_value(s[2])] ELSE Refused

print_hex8(n) == <<Hex[(n \div 16) + 1], Hex[(n % 16) + 1]>>

-----------------------------------------------------------------------------
(* strip_rfs_prefix, rfs_find_file: the table RUN looks RXE files up in. *)

RfsPrefixes == {RfsDrive \o p : p \in {<<":", "\\">>, <<":", "/">>, <<"\\">>, <<"/">>}}

\* What follows the prefix, if there is one.
RfsBase(name) ==
  {SubSeq(name, Len(p) + 1, Len(name)) :
     p \in {q \in RfsPrefixes : Len(q) <= Len(name) /\ UpperCase(SubSeq(name, 1, Len(q))) = q}}

rfs_find_file(name) ==
  {i \in DOMAIN RfsNames :
     \E b \in RfsBase(name), known \in RfsNames[i] : UpperCase(b) = UpperCase(known)}
-----------------------------------------------------------------------------
(* Properties, of one string. *)

\* A zero byte in a file ends a line too.
Newlines(text) == Where(text, {"\n", End})

\* The line that holds what stands between two places of the text: each character
\* in its order, but carriage returns and what does not fit.
IsBetween(line, text, i, j) ==
  LET kept == {k \in i + 1 .. j - 1 : text[k] # "\r"}
      place(k) == Cardinality({m \in kept : m <= k})
  IN  /\ Len(line) = IF Cardinality(kept) < LineCap THEN Cardinality(kept) ELSE LineCap - 1
      /\ \A k \in kept : place(k) < LineCap => line[place(k)] = text[k]

\* A file is executed line by line as it is written, the last line too when it
\* ends without a newline, and no byte of one line gets into another.
LinesAreKept(text) ==
  LET Ends == {0, Len(text) + 1} \cup Newlines(text)
      number(i) == Cardinality({m \in Newlines(text) : m <= i}) + 1
  IN  /\ Len(Lines(text)) = Cardinality(Newlines(text)) + 1
      /\ \A i, j \in Ends :
           i < j /\ (\A m \in Ends : m <= i \/ j <= m)
             => IsBetween(Lines(text)[number(i)], text, i, j)

\* WC counts the words execute_command would take from the lines: the loop with
\* in_word and the cursor of take_token split alike.
Tokens(line) ==
  LET rest[k \in 0 .. Len(line)] == IF k = 0 THEN line ELSE Cursor(rest[k - 1])
  IN  Cardinality({k \in DOMAIN rest : rest[k] # <<>> /\ Token(rest[k]) # <<>>})

WordsAreTokens(text) == "\n" \notin Letters(text) => Wc(text).words = Tokens(
  [k \in DOMAIN text |-> IF text[k] = "\r" THEN " " ELSE text[k]])

\* A line is skipped as a comment exactly when the command in it is REM, as
\* take_token and str_icmp would find it: REMARK is a command.
CommentIsCommand(text) ==
  LET line == skip_spaces(trim_right(text))
  IN  is_rem_comment(line) <=> UpperCase(Token(line)) = <<"R", "E", "M">>

\* The number a string of digits stands for.
Worth(s, base) ==
  LET v[k \in 0 .. Len(s)] == IF k = 0 THEN 0 ELSE v[k - 1] * base + hex_value(s[k]) IN v[Len(s)]
Digits(s, base) == \A k \in DOMAIN s : IsDigit(s[k], base)

\* The byte count of DUMP is taken exactly or refused, up to the last number that
\* fits 32 bits, although the loop computes in 32 bits.
CountIsExact(text) ==
  LET s == skip_spaces(text)
      hex == HasHexPrefix(s)
      base == IF hex THEN 16 ELSE 10
      digits == IF hex THEN SubSeq(s, 3, Len(s)) ELSE s
      fits == s # <<>> /\ Digits(digits, base) /\ Worth(digits, base) <= MaxUint
  IN  parse_uint(text) = IF fits THEN [ok |-> TRUE, value |-> Worth(digits, base)] ELSE Refused

\* What the kernel prints for a number it can read again: an offset of DUMP, a
\* size, the attribute of COLOR, and for PRINT the variable itself, which a SET of
\* the printed text gives back although a negative one is printed as an unsigned
\* number.
PrintedReadsBack(text) ==
  /\ parse_uint(text).ok =>
       /\ parse_uint(print_dec(parse_uint(text).value)) = parse_uint(text)
       /\ parse_uint(print_hex32(parse_uint(text).value)) = parse_uint(text)
  /\ parse_color(text).ok => parse_color(print_hex8(parse_color(text).value)) = parse_color(text)
  /\ parse_int32(text).ok => parse_int32(Shown(parse_int32(text).value)) = parse_int32(text)

\* No word names both a file of the RFS table and a file of a floppy mkfloppy.py
\* has built, so RUN of an RFS path and TYPE of a file name never meet.
RfsApart(name) ==
  rfs_find_file(name) # {} =>
    ~(Is83(name) /\ Letters(make_83(name)) \subseteq Allowed \cup {" "})
=============================================================================
