------------------------------ MODULE Console ------------------------------
(***************************************************************************)
(* The console of the 64DOS kernel (kernel/kernel.c): console_putc writes  *)
(* each character to the VGA text screen and to COM1, read_char polls COM1 *)
(* and the PS/2 keyboard, read_line edits and echoes a command line.  Host *)
(* and user act at any time; the kernel looks only while it reads.         *)
(*                                                                         *)
(* What a line asks for is left open: its command prints one of Outputs,   *)
(* clears the screen (CLS, COLOR) or waits for Enter (PAUSE).  The         *)
(* hardware cursor, which follows cursor_x and cursor_y, is left out.      *)
(***************************************************************************)
EXTENDS Integers, SequencesExt

CONSTANTS
  Rows, Cols,  \* VGA_ROWS (25), VGA_COLS (80)
  LineCap,     \* bytes of line_buffer (128)
  Chars,       \* bytes, the others under their names: BS, LF, BEL
  Typable,     \* the characters from 32 up
  HostBytes,   \* what a host on COM1 sends
  ShiftOf,     \* keymap_shift, for each character of keymap
  Prompt,      \* prompt_text and its space
  PauseText,   \* what cmd_pause prints
  Outputs,     \* what other commands print
  Colors,      \* the attributes COLOR can set
  Grey,        \* DEFAULT_VGA_COLOR
  Fifo,        \* bytes COM1 holds; the host's others are lost
  Keys         \* scan codes the keyboard holds; further ones are lost

ASSUME ConsoleAssumption ==
  /\ Rows \in Nat \ {0} /\ Cols \in Nat \ {0} /\ LineCap \in Nat \ {0}
  /\ Fifo \in Nat /\ Keys \in Nat /\ Grey \in Colors

ASSUME CharAssumption ==
  /\ {" ", "LF", "CR", "BS"} \cup Typable \cup HostBytes \subseteq Chars
  /\ ShiftOf \in [DOMAIN ShiftOf -> Chars] /\ DOMAIN ShiftOf \subseteq Chars
  /\ Prompt \in Seq(Chars) /\ PauseText \in Seq(Chars) /\ Outputs \subseteq Seq(Chars)

\* A prompt is typed, as a line is (one that a file sets could hold control
\* characters), and 31 characters, a space and a full line leave the top row free.
ASSUME PromptAssumption ==
  /\ Typable \cap {"LF", "CR", "BS"} = {}
  /\ \A i \in DOMAIN Prompt : Prompt[i] \notin {"LF", "CR", "BS"}
  /\ Len(Prompt) + LineCap - 1 <= (Rows - 1) * Cols + 1

VARIABLES
  screen,   \* [x, y, cells, attrs, color]: cursor_x, cursor_y, the low and the
            \* high bytes of vga, vga_color
  term,     \* the same of a terminal on the other end of COM1, always grey
  mode,     \* what the kernel is doing: print, line (read_line) or pause
  pending,  \* what it has still to print
  then,     \* and what it does after that
  line,     \* buf[0 .. n - 1] of read_line
  rx,       \* bytes COM1 has received
  codes,    \* scan codes the keyboard has sent
  shift,    \* the static shift of read_char
  held,     \* (history) the shift keys that are down
  lost,     \* (history) the code of a shift key did not fit
  text,     \* (history) the last lines printed since the screen was cleared
  stray,    \* (history) an erased character of this line is still shown
  parted    \* (history) screen or terminal has done what the other has not

inputs == <<rx, codes, shift, held, lost>>
reader == <<mode, pending, then, line, stray>>
vars == <<screen, term, text, parted, reader, inputs>>

Row == 0 .. Rows - 1
Col == 0 .. Cols - 1
Blank == " "
Grid(value) == [r \in Row |-> [c \in Col |-> value]]

\* vga_clear
Empty(color) ==
  [x |-> 0, y |-> 0, cells |-> Grid(Blank), attrs |-> Grid(color), color |-> color]

-----------------------------------------------------------------------------
(* console_putc *)

\* Mutant: the row that scrolls in has the attribute the kernel starts with.
GreyRow(s) == Empty(Grey)

NewRow(s) == Empty(s.color)

vga_scroll(s) ==
  LET Up(grid, new) == [r \in Row |-> IF r = Rows - 1 THEN new[r] ELSE grid[r + 1]]
  IN  IF s.y < Rows THEN s
      ELSE [s EXCEPT !.y = Rows - 1, !.cells = Up(@, NewRow(s).cells),
                     !.attrs = Up(@, NewRow(s).attrs)]

NewLine(s) == vga_scroll([s EXCEPT !.x = 0, !.y = s.y + 1])

\* A cell is a character and the attribute of the day.
Marked(s, x, c) == [s EXCEPT !.cells[s.y][x] = c, !.attrs[s.y][x] = s.color]

\* Mutant: the last column keeps the cursor.
NoWrap(s, c) ==
  [Marked(s, s.x, c) EXCEPT !.x = IF s.x + 1 < Cols THEN s.x + 1 ELSE s.x]

Put(s, c) ==
  LET t == [Marked(s, s.x, c) EXCEPT !.x = s.x + 1]
  IN  IF t.x < Cols THEN t ELSE NewLine(t)

Erase(s) ==
  IF s.x = 0 THEN s ELSE [Marked(s, s.x - 1, Blank) EXCEPT !.x = s.x - 1]

OnScreen(s, c) ==
  CASE c = "LF" -> NewLine(s)
    [] c = "CR" -> s
    [] c = "BS" -> Erase(s)
    [] OTHER -> Put(s, c)

\* Mutant: the blank that erases is not sent.
BackOnly(s, c) ==
  CASE c = "LF" -> <<"CR", "LF">>
    [] c = "CR" -> <<>>
    [] c = "BS" -> IF s.x = 0 THEN <<>> ELSE <<"BS">>
    [] OTHER -> <<c>>

OnSerial(s, c) ==
  CASE c = "LF" -> <<"CR", "LF">>
    [] c = "CR" -> <<>>
    [] c = "BS" -> IF s.x = 0 THEN <<>> ELSE <<"BS", Blank, "BS">>
    [] OTHER -> <<c>>

\* A terminal of the same size that wraps as the screen does and rings the bell.
TermByte(s, b) ==
  CASE b = "CR" -> [s EXCEPT !.x = 0]
    [] b = "LF" -> vga_scroll([s EXCEPT !.y = s.y + 1])
    [] b = "BS" -> IF s.x = 0 THEN s ELSE [s EXCEPT !.x = s.x - 1]
    [] b = "BEL" -> s
    [] OTHER -> Put(s, b)

\* console_putc never sends more than three bytes.
After(t, bytes, k) == IF k <= Len(bytes) THEN TermByte(t, bytes[k]) ELSE t
Heard(t, bytes) == After(After(After(t, bytes, 1), bytes, 2), bytes, 3)

Received(bytes) == term' = Heard(term, bytes)

\* The history keeps what can be on the screen: the last Rows lines, and of a
\* line that has filled the screen no more rows than that.
Shortened(l) == IF Len(l) > Rows * Cols THEN SubSeq(l, Cols + 1, Len(l)) ELSE l

Recent(t) == IF Len(t) > Rows THEN Tail(t) ELSE t

Printed(t, c) ==
  LET l == Last(t)
  IN  CASE c = "LF" -> Recent(Append(t, <<>>))
        [] c = "CR" -> t
        [] c = "BS" -> IF Len(l) % Cols = 0 THEN t
                       ELSE [t EXCEPT ![Len(t)] = SubSeq(l, 1, Len(l) - 1)]
        [] OTHER -> [t EXCEPT ![Len(t)] = Shortened(Append(l, c))]

console_putc(c) ==
  /\ screen' = OnScreen(screen, c)
  /\ parted' = (parted \/ c = "BEL")
  /\ Received(OnSerial(screen, c))
  /\ text' = Printed(text, c)

Silent == UNCHANGED <<screen, term, text, parted>>

\* vga_clear, in kmain before its first print.
Init ==
  /\ screen = Empty(Grey) /\ term = Empty(Grey) /\ text = <<<<>>>> /\ parted = FALSE
  /\ mode = "print" /\ pending = Prompt /\ then = "line" /\ line = <<>> /\ stray = FALSE
  /\ rx = <<>> /\ codes = <<>> /\ shift = FALSE /\ held = {} /\ lost = FALSE

-----------------------------------------------------------------------------
(* Commands print, and the loop of kmain prompts. *)

PrintNext ==
  /\ mode = "print" /\ pending # <<>>
  /\ console_putc(Head(pending)) /\ pending' = Tail(pending)
  /\ UNCHANGED <<mode, then, line, stray, inputs>>

\* The next read begins: n = 0 in read_line.
PrintDone ==
  /\ mode = "print" /\ pending = <<>>
  /\ mode' = then /\ line' = <<>> /\ stray' = FALSE
  /\ Silent /\ UNCHANGED <<pending, then, inputs>>

Prints(chars, next) ==
  mode' = "print" /\ pending' = chars /\ then' = next /\ UNCHANGED <<line, stray>>

\* Enter: read_line echoes it and returns, and execute_command runs the line.
EndLine ==
  /\ console_putc("LF")
  /\ \/ \E out \in Outputs : Prints(out \o Prompt, "line")
     \/ Prints(PauseText, "pause")

\* The line asks for vga_clear, of which nothing goes to COM1.
Clears(cleared) ==
  /\ screen' = cleared /\ text' = <<<<>>>> /\ parted' = TRUE
  /\ Received(OnSerial(screen, "LF"))

\* COLOR sets vga_color first, and prints after.
EndLineAndClear ==
  \/ Clears(Empty(screen.color)) /\ Prints(Prompt, "line")
  \/ \E color \in Colors, out \in Outputs :
       Clears(Empty(color)) /\ Prints(out \o Prompt, "line")

EraseLast ==
  /\ line # <<>>
  /\ line' = Front(line)
  /\ console_putc("BS")
  /\ stray' = (stray \/ screen.x = 0)
  /\ UNCHANGED <<mode, pending, then>>

\* Mutant: no byte is left for the terminating zero.
RoomToTheBrim == Len(line) < LineCap

RoomInLine == Len(line) + 1 < LineCap

\* Mutant: what does not fit is echoed all the same.
EchoAnyway(c) ==
  /\ c \in Typable
  /\ line' = IF RoomInLine THEN Append(line, c) ELSE line
  /\ console_putc(c)
  /\ UNCHANGED <<mode, pending, then, stray>>

Insert(c) ==
  /\ c \in Typable /\ RoomInLine
  /\ line' = Append(line, c)
  /\ console_putc(c)
  /\ UNCHANGED <<mode, pending, then, stray>>

Ignore == Silent /\ UNCHANGED reader

Erasers == {"BS", "DEL"}

ReadLine(c) ==
  /\ mode = "line"
  /\ \/ c = "LF" /\ (EndLine \/ EndLineAndClear)
     \/ c \in Erasers /\ EraseLast
     \/ c \in Erasers /\ line = <<>> /\ Ignore
     \/ Insert(c)
     \/ c \in Typable /\ ~RoomInLine /\ Ignore
     \/ c \notin Typable \cup Erasers \cup {"LF"} /\ Ignore

\* cmd_pause waits for Enter and drops any other character.
ReadPause(c) ==
  /\ mode = "pause"
  /\ \/ c = "LF" /\ console_putc(c) /\ Prints(Prompt, "line")
     \/ c # "LF" /\ Ignore

Take(c) == ReadLine(c) \/ ReadPause(c)

-----------------------------------------------------------------------------
(* read_char: COM1 first, then the keyboard. *)

Reading == mode \in {"line", "pause"}

ReadSerial ==
  /\ Reading /\ rx # <<>>
  /\ rx' = Tail(rx)
  /\ Take(IF Head(rx) = "CR" THEN "LF" ELSE Head(rx))
  /\ UNCHANGED <<codes, shift, held, lost>>

ShiftKeys == {"left shift", "right shift"}

\* Mutant: the release of the right shift key is not known.
LeftOnly(code) == code.key = "left shift"

EndsShift(code) == code.key \in ShiftKeys

ReadCode(code) ==
  \/ code.down /\ code.key \in ShiftKeys /\ shift' = TRUE /\ Ignore
  \/ ~code.down /\ EndsShift(code) /\ shift' = FALSE /\ Ignore
  \/ ~code.down /\ ~EndsShift(code) /\ UNCHANGED shift /\ Ignore
  \/ /\ code.down /\ code.key \notin ShiftKeys /\ UNCHANGED shift
     /\ Take(IF shift THEN ShiftOf[code.key] ELSE code.key)

ReadKey ==
  /\ Reading /\ rx = <<>> /\ codes # <<>>
  /\ codes' = Tail(codes) /\ ReadCode(Head(codes))
  /\ UNCHANGED <<rx, held, lost>>

Kernel == PrintNext \/ PrintDone \/ ReadSerial \/ ReadKey

-----------------------------------------------------------------------------
(* The host on COM1 and the user at the keyboard. *)

HostSends ==
  /\ Len(rx) < Fifo
  /\ \E b \in HostBytes : rx' = Append(rx, b)
  /\ Silent /\ UNCHANGED <<reader, codes, shift, held, lost>>

Sends(code) ==
  /\ IF Len(codes) < Keys
       THEN codes' = Append(codes, code) /\ UNCHANGED lost
       ELSE lost' = (lost \/ code.key \in ShiftKeys) /\ UNCHANGED codes
  /\ Silent /\ UNCHANGED <<reader, rx, shift>>

\* A key that is held down repeats.
KeyDown ==
  \E k \in DOMAIN ShiftOf \cup ShiftKeys :
    /\ Sends([key |-> k, down |-> TRUE])
    /\ held' = held \cup ({k} \cap ShiftKeys)

KeyUp ==
  \E k \in DOMAIN ShiftOf \cup held :
    /\ Sends([key |-> k, down |-> FALSE])
    /\ held' = held \ {k}

Next == Kernel \/ HostSends \/ KeyDown \/ KeyUp

Spec == Init /\ [][Next]_vars

-----------------------------------------------------------------------------
(* Properties *)

Screens ==
  [x : Col, y : Row, cells : [Row -> [Col -> Chars]], attrs : [Row -> [Col -> Colors]],
   color : Colors]

Codes == [key : DOMAIN ShiftOf \cup ShiftKeys, down : BOOLEAN]

\* The cursors stay on their screens, and a line with its zero in line_buffer.
TypeOK ==
  /\ screen \in Screens /\ term \in Screens
  /\ mode \in {"print", "line", "pause"} /\ then \in {"line", "pause"}
  /\ pending \in Seq(Chars)
  /\ line \in Seq(Typable) /\ Len(line) < LineCap
  /\ rx \in Seq(HostBytes) /\ Len(rx) <= Fifo
  /\ codes \in Seq(Codes) /\ Len(codes) <= Keys
  /\ shift \in BOOLEAN /\ held \subseteq ShiftKeys /\ lost \in BOOLEAN /\ parted \in BOOLEAN

\* The rows that a line of text takes: the cursor wraps as soon as one is full.
RowsOf(l) ==
  [k \in 1 .. (Len(l) \div Cols) + 1 |-> SubSeq(l, (k - 1) * Cols + 1, Min({k * Cols, Len(l)}))]

Layout == FlattenSeq([i \in DOMAIN text |-> RowsOf(text[i])])

\* The screen shows the end of what was printed, row by row, and nothing older,
\* and the cursor stands behind it: wrapping, scrolling and erasing in
\* console_putc and vga_scroll add up.
ScreenShowsText ==
  LET shown  == Layout
      hidden == Max({0, Len(shown) - Rows})
      Cell(r, c) == IF hidden + r + 1 <= Len(shown) /\ c + 1 <= Len(shown[hidden + r + 1])
                    THEN shown[hidden + r + 1][c + 1] ELSE Blank
  IN  /\ screen.cells = [r \in Row |-> [c \in Col |-> Cell(r, c)]]
      /\ screen.y = Len(shown) - hidden - 1
      /\ screen.x = Len(Last(shown))

\* A terminal on COM1 shows what the screen shows, until a command clears the
\* screen or rings the bell: console_putc keeps the two cursors together.
Mirrored ==
  ~parted => term.x = screen.x /\ term.y = screen.y /\ term.cells = screen.cells

\* Every cell of the screen has the attribute COLOR set last, blanks of a new row
\* and of an erased character included: console_putc, vga_scroll and vga_clear
\* each write it, and COLOR leaves no cell of the old one.
OneColor == screen.attrs = Grid(screen.color)

\* While a line is typed, the text ends with the prompt and exactly the characters
\* read_line will return, unless one was erased in column 0, where console_putc
\* takes none back.
EchoShowsLine == mode = "line" /\ ~stray => IsSuffix(Prompt \o line, Last(text))

\* Once every scan code is read, shift is set only if a shift key is down, with
\* two shift keys and one flag in read_char, and as long as none of their codes
\* was lost while the kernel did not read.
ShiftNotStuck == codes = <<>> /\ shift /\ ~lost => held # {}
=============================================================================
