--------------------------- MODULE ConsoleProofs ---------------------------
(***************************************************************************)
(* Theorems about Console, for screens of every size, any line buffer, and *)
(* any commands, hosts and keyboards.  Inductive adds to the properties    *)
(* what the codes still waiting will do to the shift flag, EchoFollows     *)
(* what is still to print before a line is read.                           *)
(***************************************************************************)
EXTENDS Console, SequenceTheorems, WellFoundedInduction, TLAPS

USE ConsoleAssumption

-----------------------------------------------------------------------------
(* One character, on a screen. *)

LEMMA GridType ==
  ASSUME NEW S, NEW v \in S
  PROVE  Grid(v) \in [Row -> [Col -> S]]
BY DEF Grid

LEMMA EmptyType ==
  ASSUME NEW color \in Colors
  PROVE  Empty(color) \in Screens
<1>1. Blank \in Chars
  BY CharAssumption DEF Blank
<1>2. Grid(Blank) \in [Row -> [Col -> Chars]] /\ Grid(color) \in [Row -> [Col -> Colors]]
  BY <1>1, GridType
<1>3. 0 \in Row /\ 0 \in Col
  BY DEF Row, Col
<1> QED BY <1>2, <1>3 DEF Empty, Screens

\* The screen before vga_scroll: the cursor may be one row below it.
Below == [x : Col, y : 0 .. Rows, cells : [Row -> [Col -> Chars]],
          attrs : [Row -> [Col -> Colors]], color : Colors]

LEMMA ScrollType ==
  ASSUME NEW s \in Below
  PROVE  vga_scroll(s) \in Screens /\ vga_scroll(s).x = s.x /\ vga_scroll(s).color = s.color
<1>1. CASE s.y < Rows
  BY <1>1 DEF vga_scroll, Screens, Below, Row
<1>2. CASE ~(s.y < Rows)
  <2> DEFINE Up(grid, new) == [r \in Row |-> IF r = Rows - 1 THEN new[r] ELSE grid[r + 1]]
  <2>1. NewRow(s) \in Screens
    BY EmptyType DEF NewRow, Below
  <2>2. ASSUME NEW S, NEW g \in [Row -> [Col -> S]], NEW h \in [Row -> [Col -> S]]
        PROVE  Up(g, h) \in [Row -> [Col -> S]]
    BY <2>2 DEF Row
  <2>3. s.cells \in [Row -> [Col -> Chars]] /\ NewRow(s).cells \in [Row -> [Col -> Chars]]
    BY <2>1 DEF Screens, Below
  <2>4. s.attrs \in [Row -> [Col -> Colors]] /\ NewRow(s).attrs \in [Row -> [Col -> Colors]]
    BY <2>1 DEF Screens, Below
  <2>5. vga_scroll(s) = [s EXCEPT !.y = Rows - 1, !.cells = Up(s.cells, NewRow(s).cells),
                                  !.attrs = Up(s.attrs, NewRow(s).attrs)]
    BY <1>2 DEF vga_scroll
  <2>6. Rows - 1 \in Row
    BY DEF Row
  <2> HIDE DEF Up
  <2>7. Up(s.cells, NewRow(s).cells) \in [Row -> [Col -> Chars]]
    BY <2>2, <2>3
  <2>8. Up(s.attrs, NewRow(s).attrs) \in [Row -> [Col -> Colors]]
    BY <2>2, <2>4
  <2> QED BY <2>5, <2>6, <2>7, <2>8 DEF Screens, Below
<1> QED BY <1>1, <1>2

\* And in the last column, one column beside it.
Wide == [x : 0 .. Cols, y : Row, cells : [Row -> [Col -> Chars]],
         attrs : [Row -> [Col -> Colors]], color : Colors]

NextRow(s) == [s EXCEPT !.x = 0, !.y = s.y + 1]

LEMMA NewLineParts ==
  ASSUME NEW s \in Wide
  PROVE  /\ NewLine(s) = vga_scroll(NextRow(s)) /\ NextRow(s) \in Below
         /\ NextRow(s).x = 0 /\ NextRow(s).y = s.y + 1 /\ NextRow(s).cells = s.cells
         /\ NextRow(s).attrs = s.attrs /\ NextRow(s).color = s.color
<1>1. 0 \in Col /\ s.y + 1 \in 0 .. Rows
  BY DEF Wide, Col, Row
<1>2. /\ NextRow(s) \in Below
      /\ NextRow(s).x = 0 /\ NextRow(s).y = s.y + 1 /\ NextRow(s).cells = s.cells
      /\ NextRow(s).attrs = s.attrs /\ NextRow(s).color = s.color
  BY <1>1 DEF NextRow, Wide, Below
<1> QED BY <1>2 DEF NewLine, NextRow

LEMMA NewLineType ==
  ASSUME NEW s \in Wide
  PROVE  NewLine(s) \in Screens /\ NewLine(s).color = s.color
BY NewLineParts, ScrollType

Cell(grid, r, c, v) == [grid EXCEPT ![r] = [@ EXCEPT ![c] = v]]

LEMMA CellType ==
  ASSUME NEW S, NEW g \in [Row -> [Col -> S]], NEW r \in Row, NEW c \in Col, NEW v \in S
  PROVE  Cell(g, r, c, v) \in [Row -> [Col -> S]]
BY DEF Cell

LEMMA MarkedParts ==
  ASSUME NEW s \in Screens, NEW x \in Col, NEW c \in Chars
  PROVE  /\ Marked(s, x, c) \in Screens
         /\ Marked(s, x, c).x = s.x /\ Marked(s, x, c).y = s.y
         /\ Marked(s, x, c).color = s.color
         /\ Marked(s, x, c).cells = Cell(s.cells, s.y, x, c)
         /\ Marked(s, x, c).attrs = Cell(s.attrs, s.y, x, s.color)
<1>1. /\ Cell(s.cells, s.y, x, c) \in [Row -> [Col -> Chars]]
      /\ Cell(s.attrs, s.y, x, s.color) \in [Row -> [Col -> Colors]]
  BY CellType DEF Screens
<1>2. Marked(s, x, c)
        = [s EXCEPT !.cells = Cell(s.cells, s.y, x, c), !.attrs = Cell(s.attrs, s.y, x, s.color)]
  BY DEF Marked, Cell, Screens
<1> QED BY <1>1, <1>2 DEF Screens

\* The screen a character leaves, before the cursor wraps.
Advanced(s, c) == [Marked(s, s.x, c) EXCEPT !.x = s.x + 1]

LEMMA PutParts ==
  ASSUME NEW s \in Screens, NEW c \in Chars
  PROVE  /\ Put(s, c) = IF s.x + 1 < Cols THEN Advanced(s, c) ELSE NewLine(Advanced(s, c))
         /\ Advanced(s, c) \in Wide
         /\ Advanced(s, c).x = s.x + 1 /\ Advanced(s, c).y = s.y /\ Advanced(s, c).color = s.color
         /\ Advanced(s, c).cells = Marked(s, s.x, c).cells
         /\ Advanced(s, c).attrs = Marked(s, s.x, c).attrs
<1> DEFINE m == Marked(s, s.x, c)
<1>1. s.x \in Col /\ s.x + 1 \in 0 .. Cols
  BY DEF Screens, Col
<1>2. m \in Screens /\ m.y = s.y /\ m.color = s.color
  BY <1>1, MarkedParts
<1>3. Put(s, c) = IF Advanced(s, c).x < Cols THEN Advanced(s, c) ELSE NewLine(Advanced(s, c))
  BY DEF Put, Advanced
<1> HIDE DEF m
<1>4. /\ [m EXCEPT !.x = s.x + 1] \in Wide
      /\ [m EXCEPT !.x = s.x + 1].x = s.x + 1 /\ [m EXCEPT !.x = s.x + 1].y = s.y
      /\ [m EXCEPT !.x = s.x + 1].color = s.color
      /\ [m EXCEPT !.x = s.x + 1].cells = m.cells /\ [m EXCEPT !.x = s.x + 1].attrs = m.attrs
  BY <1>1, <1>2 DEF Screens, Wide
<1>5. Advanced(s, c) = [m EXCEPT !.x = s.x + 1]
  BY DEF Advanced, m
<1> QED BY <1>3, <1>4, <1>5 DEF m

LEMMA PutType ==
  ASSUME NEW s \in Screens, NEW c \in Chars
  PROVE  Put(s, c) \in Screens /\ Put(s, c).color = s.color
<1>1. CASE s.x + 1 < Cols
  <2>1. s.x + 1 \in Col
    BY <1>1 DEF Screens, Col
  <2>2. Put(s, c) = Advanced(s, c) /\ Advanced(s, c) \in Wide /\ Advanced(s, c).x \in Col
    BY <1>1, <2>1, PutParts
  <2>3. Advanced(s, c) \in Screens
    BY <2>2 DEF Screens, Wide
  <2> QED BY <2>2, <2>3, PutParts
<1>2. CASE ~(s.x + 1 < Cols)
  BY <1>2, PutParts, NewLineType
<1> QED BY <1>1, <1>2

\* What is left when a character is erased.
LEMMA EraseParts ==
  ASSUME NEW s \in Screens, s.x # 0
  PROVE  /\ s.x - 1 \in Col /\ Erase(s) \in Screens
         /\ Erase(s).x = s.x - 1 /\ Erase(s).y = s.y /\ Erase(s).color = s.color
         /\ Erase(s).cells = Marked(s, s.x - 1, Blank).cells
         /\ Erase(s).attrs = Marked(s, s.x - 1, Blank).attrs
<1> DEFINE m == Marked(s, s.x - 1, Blank)
<1>1. s.x - 1 \in Col
  BY DEF Screens, Col
<1>2. Blank \in Chars
  BY CharAssumption DEF Blank
<1>3. m \in Screens /\ m.y = s.y /\ m.color = s.color
  BY <1>1, <1>2, MarkedParts
<1>4. Erase(s) = [m EXCEPT !.x = s.x - 1]
  BY DEF Erase
<1> HIDE DEF m
<1>5. /\ Erase(s) \in Screens
      /\ Erase(s).x = s.x - 1 /\ Erase(s).y = s.y /\ Erase(s).color = s.color
      /\ Erase(s).cells = m.cells /\ Erase(s).attrs = m.attrs
  BY <1>1, <1>3, <1>4 DEF Screens
<1> QED BY <1>1, <1>5 DEF m

LEMMA EraseType ==
  ASSUME NEW s \in Screens
  PROVE  Erase(s) \in Screens /\ Erase(s).color = s.color
<1>1. CASE s.x = 0
  BY <1>1 DEF Erase
<1>2. CASE s.x # 0
  BY <1>2, EraseParts
<1> QED BY <1>1, <1>2

LEMMA ScreensAreWide == Screens \subseteq Wide
BY DEF Screens, Wide, Col

LEMMA OnScreenType ==
  ASSUME NEW s \in Screens, NEW c \in Chars
  PROVE  OnScreen(s, c) \in Screens /\ OnScreen(s, c).color = s.color
BY PutType, NewLineType, EraseType, ScreensAreWide DEF OnScreen

-----------------------------------------------------------------------------
(* One character, and the colour of the cells. *)

LEMMA ScrollColor ==
  ASSUME NEW s \in Below, s.attrs = Grid(s.color)
  PROVE  vga_scroll(s).attrs = Grid(s.color)
<1>1. CASE s.y < Rows
  BY <1>1 DEF vga_scroll
<1>2. CASE ~(s.y < Rows)
  <2> DEFINE Up(grid, new) == [r \in Row |-> IF r = Rows - 1 THEN new[r] ELSE grid[r + 1]]
  <2>1. NewRow(s).attrs = Grid(s.color)
    BY DEF NewRow, Empty
  <2>2. Up(Grid(s.color), Grid(s.color)) = Grid(s.color)
    BY DEF Grid, Row
  <2>3. vga_scroll(s) = [s EXCEPT !.y = Rows - 1, !.cells = Up(s.cells, NewRow(s).cells),
                                  !.attrs = Up(s.attrs, NewRow(s).attrs)]
    BY <1>2 DEF vga_scroll
  <2> HIDE DEF Up
  <2>4. vga_scroll(s).attrs = Up(s.attrs, NewRow(s).attrs)
    BY <2>3 DEF Below
  <2> QED BY <2>1, <2>2, <2>4
<1> QED BY <1>1, <1>2

LEMMA CellColor ==
  ASSUME NEW color, NEW r \in Row, NEW c \in Col
  PROVE  Cell(Grid(color), r, c, color) = Grid(color)
BY DEF Grid, Cell

LEMMA NewLineColor ==
  ASSUME NEW s \in Wide, s.attrs = Grid(s.color)
  PROVE  NewLine(s).attrs = Grid(s.color)
BY NewLineParts, ScrollColor

LEMMA MarkedColor ==
  ASSUME NEW s \in Screens, NEW x \in Col, NEW c \in Chars, s.attrs = Grid(s.color)
  PROVE  Marked(s, x, c).attrs = Grid(s.color)
<1>1. Marked(s, x, c).attrs = Cell(Grid(s.color), s.y, x, s.color)
  BY MarkedParts
<1>2. s.y \in Row
  BY DEF Screens
<1> QED BY <1>1, <1>2, CellColor

LEMMA OnScreenColor ==
  ASSUME NEW s \in Screens, NEW c \in Chars, s.attrs = Grid(s.color)
  PROVE  OnScreen(s, c).attrs = Grid(s.color)
<1>1. NewLine(s).attrs = Grid(s.color)
  BY NewLineColor, ScreensAreWide
<1>2. Erase(s).attrs = Grid(s.color)
  <2>1. CASE s.x = 0
    BY <2>1 DEF Erase
  <2>2. CASE s.x # 0
    <3>1. Blank \in Chars
      BY CharAssumption DEF Blank
    <3> QED BY <2>2, <3>1, EraseParts, MarkedColor
  <2> QED BY <2>1, <2>2
<1>3. Put(s, c).attrs = Grid(s.color)
  <2>1. s.x \in Col
    BY DEF Screens
  <2>2. Advanced(s, c).attrs = Grid(s.color)
    BY <2>1, PutParts, MarkedColor
  <2>3. NewLine(Advanced(s, c)).attrs = Grid(s.color)
    BY <2>2, PutParts, NewLineColor
  <2> QED BY <2>2, <2>3, PutParts
<1> QED BY <1>1, <1>2, <1>3 DEF OnScreen

-----------------------------------------------------------------------------
(* One character, on the screen and on the terminal. *)

Alike(s, t) == s.x = t.x /\ s.y = t.y /\ s.cells = t.cells

LEMMA ScrollAlike ==
  ASSUME NEW s \in Below, NEW t \in Below, Alike(s, t)
  PROVE  Alike(vga_scroll(s), vga_scroll(t))
<1>1. CASE s.y < Rows
  BY <1>1 DEF vga_scroll, Alike
<1>2. CASE ~(s.y < Rows)
  <2> DEFINE Up(grid, new) == [r \in Row |-> IF r = Rows - 1 THEN new[r] ELSE grid[r + 1]]
  <2>1. NewRow(s).cells = Grid(Blank) /\ NewRow(t).cells = Grid(Blank)
    BY DEF NewRow, Empty
  <2>2. ASSUME NEW v \in Below, v.y = s.y
        PROVE  vga_scroll(v) = [v EXCEPT !.y = Rows - 1, !.cells = Up(v.cells, NewRow(v).cells),
                                  !.attrs = Up(v.attrs, NewRow(v).attrs)]
    BY <1>2, <2>2 DEF vga_scroll
  <2> HIDE DEF Up
  <2>3. ASSUME NEW v \in Below, v.y = s.y
        PROVE  /\ vga_scroll(v).x = v.x /\ vga_scroll(v).y = Rows - 1
               /\ vga_scroll(v).cells = Up(v.cells, NewRow(v).cells)
    BY <2>2, <2>3 DEF Below
  <2> QED BY <2>1, <2>3 DEF Alike
<1> QED BY <1>1, <1>2

LEMMA NewLineAlike ==
  ASSUME NEW s \in Wide, NEW t \in Wide, s.y = t.y, s.cells = t.cells
  PROVE  Alike(NewLine(s), NewLine(t))
<1>1. Alike(NextRow(s), NextRow(t))
  BY NewLineParts DEF Alike
<1> QED BY <1>1, NewLineParts, ScrollAlike

LEMMA PutAlike ==
  ASSUME NEW s \in Screens, NEW t \in Screens, NEW c \in Chars, Alike(s, t)
  PROVE  Alike(Put(s, c), Put(t, c))
<1>1. s.x \in Col /\ t.x = s.x /\ t.y = s.y /\ t.cells = s.cells
  BY DEF Screens, Alike
<1>2. Marked(s, s.x, c).cells = Marked(t, t.x, c).cells
  BY <1>1, MarkedParts
<1>3. Alike(Advanced(s, c), Advanced(t, c))
  BY <1>1, <1>2, PutParts DEF Alike
<1>4. Alike(NewLine(Advanced(s, c)), NewLine(Advanced(t, c)))
  BY <1>3, PutParts, NewLineAlike DEF Alike
<1> QED BY <1>1, <1>3, <1>4, PutParts

LEMMA EraseAlike ==
  ASSUME NEW s \in Screens, NEW t \in Screens, Alike(s, t)
  PROVE  Alike(Erase(s), Erase(t))
<1>1. CASE s.x = 0
  BY <1>1 DEF Erase, Alike
<1>2. CASE s.x # 0
  <2>1. t.x = s.x /\ t.y = s.y /\ t.cells = s.cells /\ Blank \in Chars
    BY CharAssumption DEF Alike, Blank
  <2>2. Marked(s, s.x - 1, Blank).cells = Marked(t, t.x - 1, Blank).cells
    BY <1>2, <2>1, EraseParts, MarkedParts
  <2> QED BY <1>2, <2>1, <2>2, EraseParts DEF Alike
<1> QED BY <1>1, <1>2

\* A terminal that moves its cursor by itself.
LEMMA MovedType ==
  ASSUME NEW t \in Screens, NEW x \in Col
  PROVE  LET u == [t EXCEPT !.x = x]
         IN  /\ u \in Screens /\ u.x = x /\ u.y = t.y /\ u.cells = t.cells
             /\ u.attrs = t.attrs /\ u.color = t.color
BY DEF Screens

LEMMA LineFeedType ==
  ASSUME NEW t \in Screens
  PROVE  LET u == [t EXCEPT !.y = t.y + 1]
         IN  /\ u \in Below /\ u.x = t.x /\ u.y = t.y + 1 /\ u.cells = t.cells
             /\ vga_scroll(u) \in Screens
<1> DEFINE u == [t EXCEPT !.y = t.y + 1]
<1>1. t.y + 1 \in 0 .. Rows
  BY DEF Screens, Row
<1>2. u \in Below /\ u.x = t.x /\ u.y = t.y + 1 /\ u.cells = t.cells
  BY <1>1 DEF Screens, Below
<1> HIDE DEF u
<1>3. vga_scroll(u) \in Screens
  BY <1>2, ScrollType
<1> QED BY <1>2, <1>3 DEF u

LEMMA TermByteType ==
  ASSUME NEW t \in Screens, NEW b \in Chars
  PROVE  TermByte(t, b) \in Screens
<1>1. [t EXCEPT !.x = 0] \in Screens
  BY MovedType DEF Col
<1>2. vga_scroll([t EXCEPT !.y = t.y + 1]) \in Screens
  BY LineFeedType
<1>3. t.x # 0 => [t EXCEPT !.x = t.x - 1] \in Screens
  <2> SUFFICES ASSUME t.x # 0 PROVE [t EXCEPT !.x = t.x - 1] \in Screens
    OBVIOUS
  <2>1. t.x - 1 \in Col
    BY DEF Screens, Col
  <2> QED BY <2>1, MovedType
<1> QED BY <1>1, <1>2, <1>3, PutType DEF TermByte

LEMMA HeardCases ==
  ASSUME NEW t, NEW s, NEW c
  PROVE  /\ c = "LF" => Heard(t, OnSerial(s, c)) = TermByte(TermByte(t, "CR"), "LF")
         /\ c = "CR" => Heard(t, OnSerial(s, c)) = t
         /\ c = "BS" /\ s.x = 0 => Heard(t, OnSerial(s, c)) = t
         /\ c = "BS" /\ s.x # 0 =>
              Heard(t, OnSerial(s, c)) = TermByte(TermByte(TermByte(t, "BS"), Blank), "BS")
         /\ c \notin {"LF", "CR", "BS"} => Heard(t, OnSerial(s, c)) = TermByte(t, c)
<1>1. ASSUME NEW a PROVE Heard(t, <<a>>) = TermByte(t, a)
  BY DEF Heard, After
<1>2. ASSUME NEW a, NEW b PROVE Heard(t, <<a, b>>) = TermByte(TermByte(t, a), b)
  BY DEF Heard, After
<1>3. ASSUME NEW a, NEW b, NEW d
      PROVE  Heard(t, <<a, b, d>>) = TermByte(TermByte(TermByte(t, a), b), d)
  BY DEF Heard, After
<1>4. Heard(t, <<>>) = t
  BY DEF Heard, After
<1>5. CASE c = "LF"
  <2>1. OnSerial(s, c) = <<"CR", "LF">>
    BY <1>5 DEF OnSerial
  <2> QED BY <1>2, <1>5, <2>1
<1>6. CASE c = "CR"
  <2>1. OnSerial(s, c) = <<>>
    BY <1>6 DEF OnSerial
  <2> QED BY <1>4, <1>6, <2>1
<1>7. CASE c = "BS"
  <2>1. OnSerial(s, c) = IF s.x = 0 THEN <<>> ELSE <<"BS", Blank, "BS">>
    BY <1>7 DEF OnSerial
  <2> QED BY <1>3, <1>4, <1>7, <2>1
<1>8. CASE c \notin {"LF", "CR", "BS"}
  <2>1. OnSerial(s, c) = <<c>>
    BY <1>8 DEF OnSerial
  <2> QED BY <1>1, <1>8, <2>1
<1> QED BY <1>5, <1>6, <1>7, <1>8

LEMMA HeardType ==
  ASSUME NEW t \in Screens, NEW s, NEW c \in Chars
  PROVE  Heard(t, OnSerial(s, c)) \in Screens
<1>1. {Blank, "LF", "CR", "BS"} \subseteq Chars
  BY CharAssumption DEF Blank
<1>2. TermByte(TermByte(t, "CR"), "LF") \in Screens
  BY <1>1, TermByteType
<1>3. TermByte(TermByte(TermByte(t, "BS"), Blank), "BS") \in Screens
  <2>1. TermByte(t, "BS") \in Screens
    BY <1>1, TermByteType
  <2>2. TermByte(TermByte(t, "BS"), Blank) \in Screens
    BY <1>1, <2>1, TermByteType
  <2> QED BY <1>1, <2>2, TermByteType
<1>4. TermByte(t, c) \in Screens
  BY TermByteType
<1> QED BY <1>2, <1>3, <1>4, HeardCases

\* The terminal does with the bytes what the screen does with the character, but
\* for a bell.
LEMMA HeardAlike ==
  ASSUME NEW s \in Screens, NEW t \in Screens, NEW c \in Chars, Alike(s, t), c # "BEL"
  PROVE  Alike(OnScreen(s, c), Heard(t, OnSerial(s, c)))
<1>1. CASE c = "LF"
  <2> DEFINE home == [t EXCEPT !.x = 0]
             down == [home EXCEPT !.y = home.y + 1]
  <2>1. home \in Screens /\ home.x = 0 /\ home.y = t.y /\ home.cells = t.cells
    <3>1. 0 \in Col
      BY DEF Col
    <3> QED BY <3>1, MovedType
  <2>2. TermByte(t, "CR") = home
    BY DEF TermByte
  <2> HIDE DEF home
  <2>3. down \in Below /\ down.x = 0 /\ down.y = t.y + 1 /\ down.cells = t.cells
    BY <2>1, LineFeedType
  <2>4. TermByte(home, "LF") = vga_scroll(down)
    BY DEF TermByte
  <2> HIDE DEF down
  <2>5. NewLine(s) = vga_scroll(NextRow(s)) /\ NextRow(s) \in Below /\ Alike(NextRow(s), down)
    BY <2>3, NewLineParts, ScreensAreWide DEF Alike
  <2>6. Alike(NewLine(s), vga_scroll(down))
    BY <2>3, <2>5, ScrollAlike
  <2>7. OnScreen(s, c) = NewLine(s)
    BY <1>1 DEF OnScreen
  <2> QED BY <1>1, <2>2, <2>4, <2>6, <2>7, HeardCases
<1>2. CASE c = "CR"
  BY <1>2, HeardCases DEF OnScreen
<1>3. CASE c = "BS" /\ s.x = 0
  <2>1. OnScreen(s, c) = s
    BY <1>3 DEF OnScreen, Erase
  <2> QED BY <1>3, <2>1, HeardCases
<1>4. CASE c = "BS" /\ s.x # 0
  <2> DEFINE back == [t EXCEPT !.x = t.x - 1]
             blank == Put(back, Blank)
             again == [blank EXCEPT !.x = blank.x - 1]
  <2>1. s.x - 1 \in Col /\ t.x = s.x /\ t.y = s.y /\ t.cells = s.cells
    BY <1>4, EraseParts DEF Alike
  <2>2. Blank \in Chars /\ Blank = " "
    BY CharAssumption DEF Blank
  <2>3. back \in Screens /\ back.x = s.x - 1 /\ back.y = t.y /\ back.cells = t.cells
    BY <2>1, MovedType
  <2>4. TermByte(t, "BS") = back
    <3>1. t.x # 0
      BY <1>4, <2>1
    <3>2. TermByte(t, "BS") = IF t.x = 0 THEN t ELSE [t EXCEPT !.x = t.x - 1]
      BY DEF TermByte
    <3> QED BY <3>1, <3>2
  <2> HIDE DEF back
  <2>5. TermByte(back, Blank) = blank
    BY <2>2 DEF TermByte
  <2>6. s.x - 1 + 1 = s.x /\ s.x < Cols
    BY DEF Screens, Col
  <2>7. blank = Advanced(back, Blank)
    BY <2>2, <2>3, <2>6, PutParts
  <2>8. /\ blank.x = s.x /\ blank.y = s.y
        /\ blank.cells = Marked(back, s.x - 1, Blank).cells
    <3>1. /\ blank.x = back.x + 1 /\ blank.y = back.y
          /\ blank.cells = Marked(back, back.x, Blank).cells
      <4>1. /\ Advanced(back, Blank).x = back.x + 1 /\ Advanced(back, Blank).y = back.y
            /\ Advanced(back, Blank).cells = Marked(back, back.x, Blank).cells
        BY <2>2, <2>3, PutParts
      <4> QED BY <2>7, <4>1
    <3> QED BY <2>1, <2>3, <2>6, <3>1
  <2>9. blank \in Screens
    BY <2>2, <2>3, PutType
  <2> HIDE DEF blank
  <2>10. again.x = s.x - 1 /\ again.y = s.y /\ again.cells = blank.cells
    BY <2>1, <2>8, <2>9, MovedType
  <2>11. TermByte(blank, "BS") = again
    <3>1. TermByte(blank, "BS") = IF blank.x = 0 THEN blank ELSE [blank EXCEPT !.x = blank.x - 1]
      BY DEF TermByte
    <3> QED BY <1>4, <2>8, <3>1 DEF again
  <2> HIDE DEF again
  <2>12. Marked(back, s.x - 1, Blank).cells = Marked(s, s.x - 1, Blank).cells
    <3>1. Marked(back, s.x - 1, Blank).cells = Cell(back.cells, back.y, s.x - 1, Blank)
      BY <2>1, <2>2, <2>3, MarkedParts
    <3>2. Marked(s, s.x - 1, Blank).cells = Cell(s.cells, s.y, s.x - 1, Blank)
      BY <2>1, <2>2, MarkedParts
    <3> QED BY <2>1, <2>3, <3>1, <3>2
  <2>13. OnScreen(s, c) = Erase(s)
    BY <1>4 DEF OnScreen
  <2>14. Heard(t, OnSerial(s, c)) = again
    BY <1>4, <2>4, <2>5, <2>11, HeardCases
  <2> QED BY <1>4, <2>8, <2>10, <2>12, <2>13, <2>14, EraseParts DEF Alike
<1>5. CASE c \notin {"LF", "CR", "BS"}
  <2>1. OnScreen(s, c) = Put(s, c)
    BY <1>5 DEF OnScreen
  <2>2. TermByte(t, c) = Put(t, c)
    BY <1>5 DEF TermByte
  <2> QED BY <1>5, <2>1, <2>2, HeardCases, PutAlike
<1> QED BY <1>1, <1>2, <1>3, <1>4, <1>5

-----------------------------------------------------------------------------
(* Induction up to a number, and what FlattenSeq does. *)

LEMMA UpTo ==
  ASSUME NEW n \in Nat, NEW T, 0 \in T, \A k \in 1 .. n : k - 1 \in T => k \in T
  PROVE  \A k \in 0 .. n : k \in T
<1> DEFINE S == {k \in 0 .. n : k \notin T}
<1> SUFFICES ASSUME S # {} PROVE FALSE
  OBVIOUS
<1>1. S \subseteq Nat
  OBVIOUS
<1> HIDE DEF S
<1>2. PICK m \in S : \A j \in S : ~(<<j, m>> \in OpToRel(<, Nat))
  BY <1>1, NatLessThanWellFounded, WFMin
<1>3. m \in 0 .. n /\ m \notin T /\ m # 0
  BY DEF S
<1>4. m - 1 \in 0 .. n /\ m \in 1 .. n /\ m - 1 < m /\ <<m - 1, m>> \in Nat \X Nat
  BY <1>3
<1>5. <<m - 1, m>> \in OpToRel(<, Nat)
  BY <1>4, Zenon DEF OpToRel
<1>6. m - 1 \in T
  BY <1>2, <1>4, <1>5 DEF S
<1> QED BY <1>3, <1>4, <1>6

\* f[i] is the first i blocks, one after the other.
Glues(f, b, n) == f[1] = b[1] /\ \A i \in 2 .. n : f[i] = f[i - 1] \o b[i]

LEMMA GlueExists ==
  ASSUME NEW S, NEW b \in Seq(Seq(S)), b # <<>>
  PROVE  \E f \in [1 .. Len(b) -> Seq(S)] : Glues(f, b, Len(b)) /\ FlattenSeq(b) = f[Len(b)]
<1> DEFINE T == {n \in Nat : n >= 1 /\ n <= Len(b) => \E f \in [1 .. n -> Seq(S)] : Glues(f, b, n)}
<1>1. 0 \in T
  OBVIOUS
<1>2. ASSUME NEW n \in 1 .. Len(b), n - 1 \in T PROVE n \in T
  <2>1. b[n] \in Seq(S)
    OBVIOUS
  <2>2. CASE n = 1
    <3>1. [i \in 1 .. 1 |-> b[1]] \in [1 .. 1 -> Seq(S)] /\ Glues([i \in 1 .. 1 |-> b[1]], b, 1)
      BY <2>1, <2>2 DEF Glues
    <3> QED BY <2>2, <3>1
  <2>3. CASE n # 1
    <3>1. PICK f \in [1 .. n - 1 -> Seq(S)] : Glues(f, b, n - 1)
      BY <1>2, <2>3
    <3> DEFINE g == [i \in 1 .. n |-> IF i = n THEN f[n - 1] \o b[n] ELSE f[i]]
    <3>2. n - 1 \in 1 .. n - 1 /\ f[n - 1] \in Seq(S)
      BY <2>3
    <3>3. g \in [1 .. n -> Seq(S)]
      BY <2>1, <3>2
    <3>4. g[n] = f[n - 1] \o b[n] /\ \A i \in 1 .. n - 1 : g[i] = f[i]
      <4>1. n \in 1 .. n /\ \A i \in 1 .. n - 1 : i \in 1 .. n /\ i # n
        OBVIOUS
      <4> QED BY <4>1
    <3> HIDE DEF g
    <3>5. Glues(g, b, n)
      <4>1. g[1] = b[1]
        BY <2>3, <3>1, <3>2, <3>4 DEF Glues
      <4>2. ASSUME NEW i \in 2 .. n PROVE g[i] = g[i - 1] \o b[i]
        <5>1. i - 1 \in 1 .. n - 1
          OBVIOUS
        <5>2. CASE i = n
          BY <3>4, <5>1, <5>2
        <5>3. CASE i # n
          <6>1. i \in 2 .. n - 1 /\ i \in 1 .. n - 1
            BY <5>3
          <6> QED BY <3>1, <3>4, <5>1, <6>1 DEF Glues
        <5> QED BY <5>2, <5>3
      <4> QED BY <4>1, <4>2 DEF Glues
    <3> QED BY <3>3, <3>5
  <2> QED BY <2>2, <2>3
<1>3. Len(b) \in T /\ Len(b) \in Nat /\ Len(b) >= 1
  <2>1. Len(b) \in Nat /\ Len(b) >= 1
    OBVIOUS
  <2> HIDE DEF T
  <2>2. \A k \in 0 .. Len(b) : k \in T
    BY <1>1, <1>2, <2>1, UpTo
  <2> QED BY <2>1, <2>2
<1>4. PICK f \in [1 .. Len(b) -> Seq(S)] : Glues(f, b, Len(b))
  BY <1>3
<1> HIDE DEF T
<1> DEFINE Def(h) == h = [i \in 1 .. Len(b) |-> IF i = 1 THEN b[i] ELSE h[i - 1] \o b[i]]
           g == CHOOSE h : Def(h)
<1>5. Def(f)
  <2>1. \A i \in 1 .. Len(b) : f[i] = IF i = 1 THEN b[i] ELSE f[i - 1] \o b[i]
    <3> SUFFICES ASSUME NEW i \in 1 .. Len(b)
                 PROVE  f[i] = IF i = 1 THEN b[i] ELSE f[i - 1] \o b[i]
      OBVIOUS
    <3>1. CASE i = 1
      BY <1>4, <3>1 DEF Glues
    <3>2. CASE i # 1
      <4>1. i \in 2 .. Len(b)
        BY <3>2
      <4> QED BY <1>4, <3>2, <4>1 DEF Glues
    <3> QED BY <3>1, <3>2
  <2>2. f = [i \in 1 .. Len(b) |-> f[i]]
    BY <1>4
  <2> QED BY <2>1, <2>2
<1>6. Def(g)
  <2> HIDE DEF Def
  <2> QED BY <1>5
<1>7. FlattenSeq(b) = g[Len(b)]
  BY <1>3 DEF FlattenSeq
<1> HIDE DEF g
<1>8. g[1] = b[1] /\ \A i \in 2 .. Len(b) : g[i] = g[i - 1] \o b[i]
  <2> DEFINE e(i) == IF i = 1 THEN b[i] ELSE g[i - 1] \o b[i]
  <2>1. g = [i \in 1 .. Len(b) |-> e(i)]
    BY <1>6
  <2> HIDE DEF e
  <2>2. \A i \in 1 .. Len(b) : g[i] = e(i)
    BY <2>1
  <2>3. 1 \in 1 .. Len(b) /\ \A i \in 2 .. Len(b) : i \in 1 .. Len(b) /\ i # 1
    BY <1>3
  <2>4. \A i \in 1 .. Len(b) : g[i] = IF i = 1 THEN b[i] ELSE g[i - 1] \o b[i]
    BY <2>2 DEF e
  <2> QED BY <2>3, <2>4
<1> DEFINE U == {n \in Nat : n >= 1 /\ n <= Len(b) => g[n] = f[n]}
<1>9. 0 \in U
  OBVIOUS
<1>10. ASSUME NEW n \in 1 .. Len(b), n - 1 \in U PROVE n \in U
  <2>1. CASE n = 1
    BY <1>4, <1>8, <2>1 DEF Glues
  <2>2. CASE n # 1
    <3>1. n \in 2 .. Len(b) /\ g[n - 1] = f[n - 1]
      BY <1>10, <2>2
    <3>2. g[n] = g[n - 1] \o b[n] /\ f[n] = f[n - 1] \o b[n]
      BY <1>4, <1>8, <3>1 DEF Glues
    <3>3. g[n] = f[n] /\ n \in Nat
      BY <1>3, <3>1, <3>2
    <3> QED BY <3>3
  <2> QED BY <2>1, <2>2
<1>11. g[Len(b)] = f[Len(b)]
  <2>1. \A k \in 0 .. Len(b) : k \in U
    <3> HIDE DEF U
    <3> QED BY <1>3, <1>9, <1>10, UpTo
  <2> QED BY <1>3, <2>1
<1> QED BY <1>4, <1>7, <1>11

LEMMA GluesUnique ==
  ASSUME NEW b, NEW c, NEW n \in Nat \ {0}, NEW f, NEW g, Glues(f, b, n), Glues(g, c, n),
         \A i \in 1 .. n : b[i] = c[i]
  PROVE  f[n] = g[n]
<1> DEFINE U == {k \in Nat : k >= 1 /\ k <= n => g[k] = f[k]}
<1>1. 0 \in U
  OBVIOUS
<1>2. ASSUME NEW k \in 1 .. n, k - 1 \in U PROVE k \in U
  <2>1. CASE k = 1
    BY <2>1 DEF Glues
  <2>2. CASE k # 1
    <3>1. k \in 2 .. n /\ g[k - 1] = f[k - 1]
      BY <1>2, <2>2
    <3>2. g[k] = g[k - 1] \o c[k] /\ f[k] = f[k - 1] \o b[k]
      BY <3>1 DEF Glues
    <3>3. g[k] = f[k]
      BY <3>1, <3>2
    <3> QED BY <3>3
  <2> QED BY <2>1, <2>2
<1>3. \A k \in 0 .. n : k \in U
  <2> HIDE DEF U
  <2> QED BY <1>1, <1>2, UpTo
<1> QED BY <1>3

LEMMA FlattenType ==
  ASSUME NEW S, NEW b \in Seq(Seq(S))
  PROVE  /\ FlattenSeq(b) \in Seq(S)
         /\ (\A i \in DOMAIN b : b[i] # <<>>) => Len(FlattenSeq(b)) >= Len(b)
<1>1. CASE b = <<>>
  <2>1. FlattenSeq(b) = <<>>
    BY <1>1 DEF FlattenSeq
  <2>2. <<>> \in Seq(S) /\ Len(FlattenSeq(b)) >= Len(b)
    BY <1>1, <2>1
  <2> QED BY <2>1, <2>2
<1>2. CASE b # <<>>
  <2>1. PICK f \in [1 .. Len(b) -> Seq(S)] : Glues(f, b, Len(b)) /\ FlattenSeq(b) = f[Len(b)]
    BY <1>2, GlueExists
  <2>2. Len(b) \in Nat /\ Len(b) >= 1 /\ Len(b) \in 1 .. Len(b)
    BY <1>2
  <2>3. FlattenSeq(b) \in Seq(S)
    BY <2>1, <2>2
  <2>4. ASSUME \A i \in DOMAIN b : b[i] # <<>>
        PROVE  Len(FlattenSeq(b)) >= Len(b)
    <3> DEFINE T == {n \in Nat : n >= 1 /\ n <= Len(b) => Len(f[n]) >= n}
    <3>1. 0 \in T
      OBVIOUS
    <3>2. ASSUME NEW n \in 1 .. Len(b), n - 1 \in T PROVE n \in T
      <4>1. b[n] \in Seq(S) /\ Len(b[n]) >= 1 /\ Len(b[n]) \in Nat /\ n \in Nat
        BY <2>2, <2>4
      <4>2. CASE n = 1
        BY <2>1, <4>1, <4>2 DEF Glues
      <4>3. CASE n # 1
        <5>1. n \in 2 .. Len(b) /\ n - 1 \in 1 .. Len(b) /\ Len(f[n - 1]) >= n - 1
          BY <3>2, <4>3
        <5>2. f[n] = f[n - 1] \o b[n] /\ f[n - 1] \in Seq(S)
          BY <2>1, <5>1 DEF Glues
        <5>3. Len(f[n]) = Len(f[n - 1]) + Len(b[n]) /\ Len(f[n - 1]) \in Nat
          BY <4>1, <5>2
        <5>4. Len(f[n]) >= n
          <6> DEFINE p == Len(f[n - 1])
                     q == Len(b[n])
          <6>1. p \in Nat /\ q \in Nat /\ n \in Nat /\ p >= n - 1 /\ q >= 1 /\ Len(f[n]) = p + q
            BY <4>1, <5>1, <5>3
          <6> HIDE DEF p, q
          <6> QED BY <6>1
        <5> QED BY <4>1, <5>4
      <4> QED BY <4>2, <4>3
    <3>3. \A n \in 0 .. Len(b) : n \in T
      <4> HIDE DEF T
      <4> QED BY <2>2, <3>1, <3>2, UpTo
    <3>4. Len(b) \in T
      BY <2>2, <3>3
    <3> QED BY <2>1, <2>2, <3>4
  <2> QED BY <2>3, <2>4
<1> QED BY <1>1, <1>2

LEMMA FlattenAppend ==
  ASSUME NEW S, NEW b \in Seq(Seq(S)), NEW a \in Seq(S)
  PROVE  FlattenSeq(Append(b, a)) = FlattenSeq(b) \o a
<1> DEFINE c == Append(b, a)
<1>1. /\ c \in Seq(Seq(S)) /\ c # <<>> /\ Len(c) = Len(b) + 1 /\ c[Len(b) + 1] = a
      /\ Len(b) \in Nat /\ \A i \in 1 .. Len(b) : b[i] = c[i]
  <2>1. /\ c \in Seq(Seq(S)) /\ Len(c) = Len(b) + 1 /\ c[Len(b) + 1] = a
        /\ Len(b) \in Nat
    OBVIOUS
  <2>2. \A i \in 1 .. Len(b) : b[i] = c[i]
    OBVIOUS
  <2> HIDE DEF c
  <2>3. c # <<>>
    BY <2>1
  <2> QED BY <2>1, <2>2, <2>3
<1> HIDE DEF c
<1>2. PICK g \in [1 .. Len(c) -> Seq(S)] : Glues(g, c, Len(c)) /\ FlattenSeq(c) = g[Len(c)]
  BY <1>1, GlueExists
<1>3. CASE b = <<>>
  <2>1. FlattenSeq(b) = <<>> /\ Len(b) = 0
    BY <1>3 DEF FlattenSeq
  <2>2. FlattenSeq(c) = a
    BY <1>1, <1>2, <2>1 DEF Glues
  <2> QED BY <2>1, <2>2 DEF c
<1>4. CASE b # <<>>
  <2>1. PICK f \in [1 .. Len(b) -> Seq(S)] : Glues(f, b, Len(b)) /\ FlattenSeq(b) = f[Len(b)]
    BY <1>4, GlueExists
  <2>2. Len(b) \in Nat \ {0} /\ Len(b) + 1 \in 2 .. Len(c) /\ (Len(b) + 1) - 1 = Len(b)
    BY <1>1, <1>4
  <2>3. Glues(g, c, Len(b))
    <3>1. \A i \in 2 .. Len(b) : i \in 2 .. Len(c)
      BY <1>1
    <3> QED BY <1>2, <3>1 DEF Glues
  <2>4. f[Len(b)] = g[Len(b)]
    <3> DEFINE n == Len(b)
    <3>1. /\ n \in Nat \ {0} /\ Glues(f, b, n) /\ Glues(g, c, n)
          /\ \A i \in 1 .. n : b[i] = c[i]
      BY <1>1, <2>1, <2>2, <2>3
    <3> HIDE DEF n
    <3>2. f[n] = g[n]
      BY <3>1, GluesUnique
    <3> QED BY <3>2 DEF n
  <2>5. g[Len(b) + 1] = g[Len(b)] \o a
    BY <1>1, <1>2, <2>2 DEF Glues
  <2> QED BY <1>1, <1>2, <2>1, <2>4, <2>5 DEF c
<1> QED BY <1>3, <1>4

LEMMA FlattenTail ==
  ASSUME NEW S, NEW b \in Seq(Seq(S)), b # <<>>
  PROVE  FlattenSeq(b) = b[1] \o FlattenSeq(Tail(b))
<1> DEFINE c == Tail(b)
<1>1. /\ c \in Seq(Seq(S)) /\ Len(c) = Len(b) - 1 /\ Len(c) \in Nat /\ b[1] \in Seq(S)
      /\ \A i \in 1 .. Len(c) : c[i] = b[i + 1]
  OBVIOUS
<1> HIDE DEF c
<1>2. PICK f \in [1 .. Len(b) -> Seq(S)] : Glues(f, b, Len(b)) /\ FlattenSeq(b) = f[Len(b)]
  BY GlueExists
<1>3. CASE c = <<>>
  <2>1. FlattenSeq(c) = <<>> /\ Len(b) = 1
    BY <1>1, <1>3 DEF FlattenSeq
  <2>2. FlattenSeq(b) = b[1]
    BY <1>2, <2>1 DEF Glues
  <2> QED BY <1>1, <2>1, <2>2 DEF c
<1>4. CASE c # <<>>
  <2>1. PICK g \in [1 .. Len(c) -> Seq(S)] : Glues(g, c, Len(c)) /\ FlattenSeq(c) = g[Len(c)]
    BY <1>1, <1>4, GlueExists
  <2> DEFINE T == {n \in Nat : n >= 1 /\ n <= Len(c) => f[n + 1] = b[1] \o g[n]}
  <2>2. 0 \in T
    OBVIOUS
  <2>3. ASSUME NEW n \in 1 .. Len(c), n - 1 \in T PROVE n \in T
    <3>1. n \in Nat /\ n + 1 \in 2 .. Len(b) /\ (n + 1) - 1 = n /\ c[n] = b[n + 1] /\ c[n] \in Seq(S)
      BY <1>1
    <3>2. f[n + 1] = f[n] \o c[n]
      <4>1. f[n + 1] = f[(n + 1) - 1] \o b[n + 1]
        BY <1>2, <3>1 DEF Glues
      <4> QED BY <3>1, <4>1
    <3>3. CASE n = 1
      <4>1. f[1] = b[1] /\ g[1] = c[1]
        BY <1>2, <2>1 DEF Glues
      <4>2. f[n + 1] = b[1] \o g[n]
        BY <3>2, <3>3, <4>1
      <4> QED BY <3>1, <4>2
    <3>4. CASE n # 1
      <4>1. n \in 2 .. Len(c) /\ n - 1 \in 1 .. Len(c) /\ (n - 1) + 1 = n
        BY <3>1, <3>4, <1>1
      <4>2. f[n] = b[1] \o g[n - 1] /\ g[n - 1] \in Seq(S)
        <5>1. n - 1 \in T /\ n - 1 >= 1 /\ n - 1 <= Len(c)
          <6>1. n - 1 >= 1 /\ n - 1 <= Len(c)
            BY <1>1, <4>1
          <6> HIDE DEF T
          <6> QED BY <2>3, <6>1
        <5>2. f[(n - 1) + 1] = b[1] \o g[n - 1]
          BY <5>1
        <5>3. g[n - 1] \in Seq(S)
          BY <2>1, <4>1
        <5> QED BY <4>1, <5>2, <5>3
      <4>3. g[n] = g[n - 1] \o c[n]
        BY <2>1, <4>1 DEF Glues
      <4>4. (b[1] \o g[n - 1]) \o c[n] = b[1] \o (g[n - 1] \o c[n])
        <5> DEFINE p == b[1]
                   q == g[n - 1]
                   r == c[n]
        <5>1. p \in Seq(S) /\ q \in Seq(S) /\ r \in Seq(S)
          BY <1>1, <3>1, <4>2
        <5> HIDE DEF p, q, r
        <5>2. (p \o q) \o r = p \o (q \o r)
          BY <5>1, SMT
        <5> QED BY <5>2 DEF p, q, r
      <4>5. f[n + 1] = b[1] \o g[n]
        BY <3>2, <4>2, <4>3, <4>4
      <4> QED BY <3>1, <4>5
    <3> QED BY <3>3, <3>4
  <2>4. \A n \in 0 .. Len(c) : n \in T
    <3> HIDE DEF T
    <3> QED BY <1>1, <2>2, <2>3, UpTo
  <2>5. Len(c) >= 1 /\ Len(c) <= Len(c) /\ Len(c) \in 0 .. Len(c) /\ Len(c) + 1 = Len(b)
    BY <1>1, <1>4
  <2>6. f[Len(b)] = b[1] \o g[Len(c)]
    <3>1. f[Len(c) + 1] = b[1] \o g[Len(c)]
      BY <2>4, <2>5, Zenon
    <3> QED BY <2>5, <3>1
  <2> QED BY <1>2, <2>1, <2>6 DEF c
<1> QED BY <1>3, <1>4

-----------------------------------------------------------------------------
(* The rows of a line: division by Cols, and Min and Max. *)

LEMMA Divided ==
  ASSUME NEW n \in Nat
  PROVE  /\ n \div Cols \in Nat /\ n % Cols \in Col
         /\ n = (n \div Cols) * Cols + (n % Cols)
  BY DEF Col

LEMMA Multiples ==
  /\ \A a, b \in Nat : a <= b => a * Cols <= b * Cols
  /\ \A a \in Nat : a * Cols \in Nat /\ (a + 1) * Cols = a * Cols + Cols
<1>1. \A a, b \in Nat : a <= b => a * Cols <= b * Cols
  OBVIOUS
<1>2. \A a \in Nat : a * Cols \in Nat /\ (a + 1) * Cols = a * Cols + Cols
  OBVIOUS
<1> QED BY <1>1, <1>2

LEMMA DividedOnce ==
  ASSUME NEW q \in Nat, NEW m \in Col
  PROVE  (q * Cols + m) \div Cols = q /\ (q * Cols + m) % Cols = m
BY DEF Col

LEMMA MinOfTwo ==
  ASSUME NEW a \in Int, NEW b \in Int
  PROVE  Min({a, b}) = IF a <= b THEN a ELSE b
<1> DEFINE m == IF a <= b THEN a ELSE b
           Q(x) == \A y \in {a, b} : x <= y
<1>1. m \in {a, b} /\ Q(m)
  OBVIOUS
<1>2. \A x \in {a, b} : Q(x) => x = m
  OBVIOUS
<1>3. Min({a, b}) = CHOOSE x \in {a, b} : Q(x)
  BY DEF Min
<1> HIDE DEF m, Q
<1>4. Min({a, b}) = m
  BY <1>1, <1>2, <1>3
<1> QED BY <1>4 DEF m

LEMMA MaxOfTwo ==
  ASSUME NEW a \in Int, NEW b \in Int
  PROVE  Max({a, b}) = IF a >= b THEN a ELSE b
<1> DEFINE m == IF a >= b THEN a ELSE b
           Q(x) == \A y \in {a, b} : x >= y
<1>1. m \in {a, b} /\ Q(m)
  OBVIOUS
<1>2. \A x \in {a, b} : Q(x) => x = m
  OBVIOUS
<1>3. Max({a, b}) = CHOOSE x \in {a, b} : Q(x)
  BY DEF Max
<1> HIDE DEF m, Q
<1>4. Max({a, b}) = m
  BY <1>1, <1>2, <1>3
<1> QED BY <1>4 DEF m

Lines == Seq(Chars)

\* The last row of a line, and the place where it begins.
Full(l) == Len(l) \div Cols
Rest(l) == Len(l) % Cols

LEMMA FullAndRest ==
  ASSUME NEW l \in Lines
  PROVE  /\ Len(l) \in Nat /\ Full(l) \in Nat /\ Rest(l) \in Col
         /\ Full(l) * Cols \in Nat /\ Len(l) = Full(l) * Cols + Rest(l)
<1>1. Len(l) \in Nat
  BY DEF Lines
<1>2. Full(l) \in Nat /\ Rest(l) \in Col /\ Len(l) = Full(l) * Cols + Rest(l)
  BY <1>1, Divided DEF Full, Rest
<1>3. Full(l) * Cols \in Nat
  BY <1>2, Multiples
<1> QED BY <1>1, <1>2, <1>3

LEMMA FullRestAre ==
  ASSUME NEW l, NEW q \in Nat, NEW m \in Col, Len(l) = q * Cols + m
  PROVE  Full(l) = q /\ Rest(l) = m
BY DividedOnce DEF Full, Rest

LEMMA RowsAre ==
  ASSUME NEW l \in Lines
  PROVE  /\ RowsOf(l) \in Seq(Lines) /\ Len(RowsOf(l)) = Full(l) + 1
         /\ \A k \in 1 .. Full(l) :
              /\ (k - 1) * Cols \in Nat /\ Len(RowsOf(l)[k]) = Cols
              /\ \A c \in 1 .. Cols : RowsOf(l)[k][c] = l[(k - 1) * Cols + c]
         /\ Len(RowsOf(l)[Full(l) + 1]) = Rest(l)
         /\ \A c \in 1 .. Rest(l) : RowsOf(l)[Full(l) + 1][c] = l[Full(l) * Cols + c]
<1> DEFINE n == Len(l)
           q == Full(l)
           m == Rest(l)
           row(k) == SubSeq(l, (k - 1) * Cols + 1, Min({k * Cols, n}))
<1>1. n \in Nat /\ q \in Nat /\ m \in Col /\ q * Cols \in Nat /\ n = q * Cols + m
  BY FullAndRest
<1>2. RowsOf(l) = [k \in 1 .. q + 1 |-> row(k)]
  BY DEF RowsOf, Full
<1>3. \A i \in 1 .. n : l[i] \in Chars
  BY DEF Lines
<1> HIDE DEF n, q, m
<1>4. ASSUME NEW k \in 1 .. q
      PROVE  /\ row(k) \in Seq(Chars) /\ Len(row(k)) = Cols /\ (k - 1) * Cols \in Nat
             /\ \A c \in 1 .. Cols : row(k)[c] = l[(k - 1) * Cols + c]
  <2>1. k \in Nat /\ k - 1 \in Nat /\ (k - 1) * Cols \in Nat /\ k * Cols = (k - 1) * Cols + Cols
    <3>1. k \in Nat /\ k - 1 \in Nat /\ (k - 1) + 1 = k
      BY <1>1
    <3> QED BY <3>1, Multiples
  <2>2. k * Cols \in Int /\ n \in Int /\ k * Cols <= n
    <3>1. k * Cols <= q * Cols
      BY <1>1, <2>1, Multiples
    <3> QED BY <1>1, <2>1, <3>1 DEF Col
  <2>3. Min({k * Cols, n}) = k * Cols
    BY <2>2, MinOfTwo
  <2> DEFINE a == (k - 1) * Cols
  <2>4. a \in Nat /\ row(k) = SubSeq(l, a + 1, a + Cols) /\ a + Cols <= n
    BY <2>1, <2>2, <2>3
  <2> HIDE DEF a, row
  <2>5. \A i \in a + 1 .. a + Cols : l[i] \in Chars
    BY <1>1, <1>3, <2>4
  <2>6. /\ SubSeq(l, a + 1, a + Cols) \in Seq(Chars) /\ Len(SubSeq(l, a + 1, a + Cols)) = Cols
        /\ \A c \in 1 .. Cols : SubSeq(l, a + 1, a + Cols)[c] = l[a + c]
    BY <2>4, <2>5, SubSeqProperties
  <2> QED BY <2>4, <2>6 DEF a
<1>5. /\ row(q + 1) \in Seq(Chars) /\ Len(row(q + 1)) = m
      /\ \A c \in 1 .. m : row(q + 1)[c] = l[q * Cols + c]
  <2>1. (q + 1) * Cols = q * Cols + Cols /\ (q + 1) - 1 = q
    BY <1>1, Multiples
  <2>2. (q + 1) * Cols \in Int /\ n \in Int /\ ~((q + 1) * Cols <= n)
    BY <1>1, <2>1 DEF Col
  <2>3. Min({(q + 1) * Cols, n}) = n
    BY <2>2, MinOfTwo
  <2> DEFINE a == q * Cols
  <2>4. a \in Nat /\ row(q + 1) = SubSeq(l, a + 1, a + m) /\ a + m = n /\ m \in Nat
    <3>1. row(q + 1) = SubSeq(l, ((q + 1) - 1) * Cols + 1, Min({(q + 1) * Cols, n}))
      OBVIOUS
    <3>2. row(q + 1) = SubSeq(l, a + 1, n)
      BY <2>1, <2>3, <3>1
    <3>3. a \in Nat /\ a + m = n /\ m \in Nat
      BY <1>1 DEF Col
    <3> QED BY <3>2, <3>3
  <2> HIDE DEF a, row
  <2>5. \A i \in a + 1 .. a + m : l[i] \in Chars
    BY <1>1, <1>3, <2>4
  <2>6. /\ SubSeq(l, a + 1, a + m) \in Seq(Chars) /\ Len(SubSeq(l, a + 1, a + m)) = m
        /\ \A c \in 1 .. m : SubSeq(l, a + 1, a + m)[c] = l[a + c]
    BY <2>4, <2>5, SubSeqProperties
  <2> QED BY <2>4, <2>6 DEF a
<1>6. \A k \in 1 .. q + 1 : row(k) \in Seq(Chars)
  <2> HIDE DEF row
  <2>1. \A k \in 1 .. q + 1 : k \in 1 .. q \/ k = q + 1
    BY <1>1
  <2> QED BY <1>4, <1>5, <2>1
<1> HIDE DEF row
<1>7. RowsOf(l) \in Seq(Lines) /\ Len(RowsOf(l)) = q + 1
  BY <1>1, <1>2, <1>6 DEF Lines
<1>8. \A k \in 1 .. q + 1 : RowsOf(l)[k] = row(k)
  BY <1>2
<1>9. q + 1 \in 1 .. q + 1 /\ \A k \in 1 .. q : k \in 1 .. q + 1
  BY <1>1
<1>10. RowsOf(l)[q + 1] = row(q + 1)
  BY <1>8, <1>9
<1>11. /\ Len(RowsOf(l)[q + 1]) = m
       /\ \A c \in 1 .. m : RowsOf(l)[q + 1][c] = l[q * Cols + c]
  BY <1>5, <1>10
<1>12. \A k \in 1 .. q :
              /\ (k - 1) * Cols \in Nat /\ Len(RowsOf(l)[k]) = Cols
              /\ \A c \in 1 .. Cols : RowsOf(l)[k][c] = l[(k - 1) * Cols + c]
  BY <1>4, <1>8, <1>9
<1> QED BY <1>7, <1>11, <1>12 DEF q, m

LEMMA RowsType ==
  ASSUME NEW l \in Lines
  PROVE  /\ RowsOf(l) \in Seq(Lines) /\ Len(RowsOf(l)) = Full(l) + 1 /\ RowsOf(l) # <<>>
         /\ Full(l) \in Nat /\ \A k \in 1 .. Full(l) + 1 : RowsOf(l)[k] \in Seq(Chars)
<1>1. RowsOf(l) \in Seq(Lines) /\ Len(RowsOf(l)) = Full(l) + 1 /\ Full(l) \in Nat
  BY RowsAre, FullAndRest
<1>2. RowsOf(l) # <<>>
  BY <1>1
<1>3. \A k \in 1 .. Full(l) + 1 : RowsOf(l)[k] \in Lines
  BY <1>1
<1> QED BY <1>1, <1>2, <1>3 DEF Lines

\* A sequence of rows with another last row.
Ended(rows, row) == [rows EXCEPT ![Len(rows)] = row]

LEMMA EndedIs ==
  ASSUME NEW S, NEW a \in Seq(S), a # <<>>, NEW e \in S
  PROVE  /\ Ended(a, e) \in Seq(S) /\ Len(Ended(a, e)) = Len(a) /\ Ended(a, e)[Len(a)] = e
         /\ \A i \in 1 .. Len(a) : i # Len(a) => Ended(a, e)[i] = a[i]
         /\ Len(a) \in Nat /\ Len(a) >= 1 /\ Len(a) \in 1 .. Len(a)
<1>1. Len(a) \in Nat /\ Len(a) >= 1 /\ Len(a) \in 1 .. Len(a)
  OBVIOUS
<1>2. /\ Ended(a, e) \in Seq(S) /\ Len(Ended(a, e)) = Len(a)
      /\ \A j \in 1 .. Len(a) : Ended(a, e)[j] = IF j = Len(a) THEN e ELSE a[j]
  BY <1>1, ExceptSeq DEF Ended
<1> QED BY <1>1, <1>2

\* Two lines share the rows that both have full.
LEMMA SameRows ==
  ASSUME NEW l \in Lines, NEW s \in Lines, NEW q \in Nat, q <= Full(l), q <= Full(s),
         \A i \in 1 .. q * Cols : l[i] = s[i]
  PROVE  \A k \in 1 .. q : RowsOf(l)[k] = RowsOf(s)[k]
<1> SUFFICES ASSUME NEW k \in 1 .. q PROVE RowsOf(l)[k] = RowsOf(s)[k]
  OBVIOUS
<1>1. k \in 1 .. Full(l) /\ k \in 1 .. Full(s) /\ Full(l) \in Nat /\ Full(s) \in Nat
  BY FullAndRest
<1>2. /\ RowsOf(l)[k] \in Seq(Chars) /\ RowsOf(s)[k] \in Seq(Chars)
      /\ Len(RowsOf(l)[k]) = Cols /\ Len(RowsOf(s)[k]) = Cols
  <2>1. k \in 1 .. Full(l) + 1 /\ k \in 1 .. Full(s) + 1
    BY <1>1
  <2>2. RowsOf(l)[k] \in Seq(Chars) /\ RowsOf(s)[k] \in Seq(Chars)
    BY <2>1, RowsType
  <2>3. Len(RowsOf(l)[k]) = Cols /\ Len(RowsOf(s)[k]) = Cols
    BY <1>1, RowsAre
  <2> QED BY <2>2, <2>3
<1>3. ASSUME NEW c \in 1 .. Cols PROVE RowsOf(l)[k][c] = RowsOf(s)[k][c]
  <2>1. RowsOf(l)[k][c] = l[(k - 1) * Cols + c] /\ RowsOf(s)[k][c] = s[(k - 1) * Cols + c]
    BY <1>1, RowsAre
  <2>2. (k - 1) * Cols \in Nat /\ k * Cols = (k - 1) * Cols + Cols /\ k * Cols <= q * Cols
        /\ q * Cols \in Nat
    <3>1. k - 1 \in Nat /\ (k - 1) + 1 = k /\ k \in Nat
      OBVIOUS
    <3> QED BY <3>1, Multiples
  <2>3. (k - 1) * Cols + c \in 1 .. q * Cols
    BY <2>2
  <2> QED BY <2>1, <2>3
<1>4. \A c \in 1 .. Len(RowsOf(l)[k]) : RowsOf(l)[k][c] = RowsOf(s)[k][c]
  BY <1>2, <1>3
<1> QED BY <1>2, <1>4, SeqEqual

\* What a row is, from its characters.
LEMMA LastRowIs ==
  ASSUME NEW l \in Lines, NEW r \in Seq(Chars), Len(r) = Rest(l),
         \A c \in 1 .. Rest(l) : r[c] = l[Full(l) * Cols + c]
  PROVE  RowsOf(l)[Full(l) + 1] = r
<1>1. /\ RowsOf(l)[Full(l) + 1] \in Seq(Chars)
      /\ Len(RowsOf(l)[Full(l) + 1]) = Rest(l)
  <2>1. Full(l) + 1 \in 1 .. Full(l) + 1
    <3>1. Full(l) \in Nat
      BY FullAndRest
    <3> QED BY <3>1
  <2>2. RowsOf(l)[Full(l) + 1] \in Seq(Chars)
    BY <2>1, RowsType
  <2>3. Len(RowsOf(l)[Full(l) + 1]) = Rest(l)
    BY RowsAre
  <2> QED BY <2>2, <2>3
<1>2. \A c \in 1 .. Len(r) : r[c] = RowsOf(l)[Full(l) + 1][c]
  BY RowsAre
<1> QED BY <1>1, <1>2, SeqEqual

LEMMA NoRows ==
  /\ <<>> \in Lines /\ RowsOf(<<>>) = << <<>> >> /\ Full(<<>>) = 0 /\ Rest(<<>>) = 0
<1>1. <<>> \in Lines /\ <<>> \in Seq(Chars) /\ Len(<<>>) = 0
  BY DEF Lines
<1>2. Full(<<>>) = 0 /\ Rest(<<>>) = 0
  <2>1. 0 \in Nat /\ 0 \in Col /\ 0 * Cols + 0 = 0
    BY DEF Col
  <2> QED BY <1>1, <2>1, DividedOnce DEF Full, Rest
<1>3. RowsOf(<<>>) \in Seq(Lines) /\ Len(RowsOf(<<>>)) = 1 /\ RowsOf(<<>>)[1] = <<>>
  <2> DEFINE l == <<>>
  <2>1. /\ l \in Lines /\ l \in Seq(Chars) /\ Len(l) = Rest(l) /\ Full(l) + 1 = 1
        /\ \A c \in 1 .. Rest(l) : l[c] = l[Full(l) * Cols + c]
    BY <1>1, <1>2
  <2> HIDE DEF l
  <2>2. RowsOf(l)[Full(l) + 1] = l
    BY <2>1, LastRowIs
  <2>3. RowsOf(l) \in Seq(Lines) /\ Len(RowsOf(l)) = Full(l) + 1
    BY <2>1, RowsType
  <2>4. RowsOf(l) \in Seq(Lines) /\ Len(RowsOf(l)) = 1 /\ RowsOf(l)[1] = l
    BY <2>1, <2>2, <2>3
  <2> QED BY <2>4 DEF l
<1>5. << <<>> >> \in Seq(Lines) /\ Len(<< <<>> >>) = 1 /\ << <<>> >>[1] = <<>>
  BY <1>1
<1>6. RowsOf(<<>>) = << <<>> >>
  BY <1>3, <1>5, SeqEqual
<1> QED BY <1>1, <1>2, <1>6

Longer(l, c) == Append(Last(RowsOf(l)), c)

LEMMA LastOfRows ==
  ASSUME NEW l \in Lines
  PROVE  /\ Last(RowsOf(l)) = RowsOf(l)[Full(l) + 1] /\ Last(RowsOf(l)) \in Lines
         /\ Len(Last(RowsOf(l))) = Rest(l)
<1>1. Full(l) + 1 \in 1 .. Full(l) + 1 /\ Len(RowsOf(l)) = Full(l) + 1
  <2>1. Full(l) \in Nat
    BY FullAndRest
  <2>2. Len(RowsOf(l)) = Full(l) + 1
    BY RowsType
  <2> QED BY <2>1, <2>2
<1>2. Last(RowsOf(l)) = RowsOf(l)[Full(l) + 1]
  BY <1>1 DEF Last
<1>3. RowsOf(l)[Full(l) + 1] \in Lines
  BY <1>1, RowsType DEF Lines
<1>4. Len(RowsOf(l)[Full(l) + 1]) = Rest(l)
  BY RowsAre
<1> QED BY <1>2, <1>3, <1>4

LEMMA LongerIs ==
  ASSUME NEW l \in Lines, NEW c \in Chars
  PROVE  /\ Longer(l, c) \in Lines /\ Len(Longer(l, c)) = Rest(l) + 1
         /\ \A i \in 1 .. Rest(l) + 1 :
              Longer(l, c)[i] = Append(l, c)[Full(l) * Cols + i]
         /\ Append(l, c) \in Lines /\ Len(Append(l, c)) = Full(l) * Cols + Rest(l) + 1
         /\ \A i \in 1 .. Full(l) * Cols : Append(l, c)[i] = l[i]
<1> DEFINE r == Last(RowsOf(l))
           m == Rest(l)
           a == Full(l) * Cols
<1>1. r \in Lines /\ Len(r) = m /\ m \in Nat /\ a \in Nat /\ Len(l) = a + m
  BY LastOfRows, FullAndRest DEF Col
<1>2. \A i \in 1 .. m : r[i] = l[a + i]
  <2>1. r = RowsOf(l)[Full(l) + 1]
    BY LastOfRows
  <2>2. \A i \in 1 .. Rest(l) : RowsOf(l)[Full(l) + 1][i] = l[Full(l) * Cols + i]
    BY RowsAre
  <2> HIDE DEF r
  <2> QED BY <2>1, <2>2
<1> HIDE DEF r, m, a
<1>3. /\ Append(l, c) \in Lines /\ Len(Append(l, c)) = a + m + 1 /\ Append(l, c)[a + m + 1] = c
      /\ \A i \in 1 .. a + m : Append(l, c)[i] = l[i]
  BY <1>1, AppendProperties DEF Lines
<1>4. /\ Append(r, c) \in Lines /\ Len(Append(r, c)) = m + 1 /\ Append(r, c)[m + 1] = c
      /\ \A i \in 1 .. m : Append(r, c)[i] = r[i]
  BY <1>1, AppendProperties DEF Lines
<1>5. \A i \in 1 .. m + 1 : Append(r, c)[i] = Append(l, c)[a + i]
  <2> SUFFICES ASSUME NEW i \in 1 .. m + 1 PROVE Append(r, c)[i] = Append(l, c)[a + i]
    OBVIOUS
  <2>1. CASE i = m + 1
    <3>1. a + i = a + m + 1
      BY <1>1, <2>1
    <3> QED BY <1>3, <1>4, <2>1, <3>1
  <2>2. CASE i # m + 1
    <3>1. i \in 1 .. m /\ a + i \in 1 .. a + m
      BY <1>1, <2>2
    <3> QED BY <1>2, <1>3, <1>4, <3>1
  <2> QED BY <2>1, <2>2
<1>6. \A i \in 1 .. a : Append(l, c)[i] = l[i]
  BY <1>1, <1>3
<1> QED BY <1>3, <1>4, <1>5, <1>6 DEF r, m, a, Longer

\* A character goes into the last row, and a full row begins another.
LEMMA RowsGrow ==
  ASSUME NEW l \in Lines, NEW c \in Chars
  PROVE  RowsOf(Append(l, c))
           = IF Rest(l) + 1 < Cols THEN Ended(RowsOf(l), Longer(l, c))
             ELSE Append(Ended(RowsOf(l), Longer(l, c)), <<>>)
<1> DEFINE L == Append(l, c)
           q == Full(l)
           m == Rest(l)
           Q == RowsOf(l)
           e == Longer(l, c)
           E == Ended(Q, e)
<1>1. /\ L \in Lines /\ Len(L) = q * Cols + m + 1 /\ q \in Nat /\ m \in Col /\ q * Cols \in Nat
      /\ e \in Lines /\ Len(e) = m + 1 /\ (\A i \in 1 .. m + 1 : e[i] = L[q * Cols + i])
      /\ (\A i \in 1 .. q * Cols : L[i] = l[i])
  BY LongerIs, FullAndRest
<1>2. Q \in Seq(Lines) /\ Q # <<>> /\ Len(Q) = q + 1
  BY RowsType
<1>3. /\ E \in Seq(Lines) /\ Len(E) = q + 1 /\ E[q + 1] = e
      /\ (\A i \in 1 .. q + 1 : i # q + 1 => E[i] = Q[i])
  <2>0. e \in Lines /\ Q \in Seq(Lines) /\ Q # <<>>
    BY <1>1, <1>2
  <2> HIDE DEF Q, e, q, L, m
  <2>1. /\ E \in Seq(Lines) /\ Len(E) = Len(Q) /\ E[Len(Q)] = e
        /\ \A i \in 1 .. Len(Q) : i # Len(Q) => E[i] = Q[i]
    BY <2>0, EndedIs
  <2> HIDE DEF E
  <2> QED BY <1>2, <2>1
<1> HIDE DEF L, e, E, q, m, Q
<1>4. ASSUME q <= Full(L) PROVE \A k \in 1 .. q : RowsOf(L)[k] = E[k]
  <2>1. \A k \in 1 .. q : RowsOf(l)[k] = RowsOf(L)[k]
    BY <1>1, <1>4, SameRows DEF q
  <2>2. \A k \in 1 .. q : k \in 1 .. q + 1 /\ k # q + 1
    BY <1>1
  <2> QED BY <1>3, <2>1, <2>2 DEF Q
<1>5. CASE m + 1 < Cols
  <2>1. m + 1 \in Col /\ Len(L) = q * Cols + (m + 1)
    BY <1>1, <1>5 DEF Col
  <2>2. Full(L) = q /\ Rest(L) = m + 1
    BY <1>1, <2>1, FullRestAre
  <2>3. RowsOf(L)[q + 1] = e
    <3>1. e \in Seq(Chars) /\ Len(e) = Rest(L) /\ \A i \in 1 .. Rest(L) : e[i] = L[Full(L) * Cols + i]
      BY <1>1, <2>2 DEF Lines
    <3>2. RowsOf(L)[Full(L) + 1] = e
      BY <1>1, <3>1, LastRowIs
    <3> QED BY <2>2, <3>2
  <2>4. RowsOf(L) \in Seq(Lines) /\ Len(RowsOf(L)) = q + 1
    BY <1>1, <2>2, RowsType
  <2>5. \A k \in 1 .. q + 1 : RowsOf(L)[k] = E[k]
    <3>1. \A k \in 1 .. q + 1 : k \in 1 .. q \/ k = q + 1
      BY <1>1
    <3>2. \A k \in 1 .. q : RowsOf(L)[k] = E[k]
      BY <1>1, <1>4, <2>2
    <3> QED BY <1>3, <2>3, <3>1, <3>2
  <2>6. RowsOf(L) = E
    BY <1>3, <2>4, <2>5, SeqEqual
  <2> QED BY <1>5, <2>6 DEF E, L, e, Q, m
<1>6. CASE ~(m + 1 < Cols)
  <2>1. m + 1 = Cols /\ 0 \in Col /\ q + 1 \in Nat /\ Len(L) = (q + 1) * Cols + 0
    <3>1. m + 1 = Cols /\ 0 \in Col /\ q + 1 \in Nat
      BY <1>1, <1>6 DEF Col
    <3>2. (q + 1) * Cols = q * Cols + Cols
      BY <1>1, Multiples
    <3>3. Len(L) = (q + 1) * Cols + 0
      <4> DEFINE a == q * Cols
      <4>1. Len(L) = a + m + 1 /\ a \in Nat /\ m \in Nat /\ (q + 1) * Cols = a + Cols
        BY <1>1, <3>2 DEF Col
      <4> HIDE DEF a
      <4> QED BY <3>1, <4>1
    <3> QED BY <3>1, <3>3
  <2>2. Full(L) = q + 1 /\ Rest(L) = 0
    BY <2>1, FullRestAre
  <2>3. RowsOf(L) \in Seq(Lines) /\ Len(RowsOf(L)) = q + 2
    <3>1. RowsOf(L) \in Seq(Lines) /\ Len(RowsOf(L)) = Full(L) + 1
      BY <1>1, RowsType
    <3> QED BY <1>1, <2>2, <3>1
  <2>4. RowsOf(L)[q + 2] = <<>>
    <3> DEFINE n == <<>>
    <3>1. n \in Seq(Chars) /\ Len(n) = Rest(L) /\ \A i \in 1 .. Rest(L) : n[i] = L[Full(L) * Cols + i]
      BY <2>2
    <3> HIDE DEF n
    <3>2. RowsOf(L)[Full(L) + 1] = n
      BY <1>1, <3>1, LastRowIs
    <3>3. Full(L) + 1 = q + 2
      BY <1>1, <2>2
    <3> QED BY <3>2, <3>3 DEF n
  <2>5. RowsOf(L)[q + 1] = e
    <3>1. q + 1 \in 1 .. Full(L) /\ (q + 1) - 1 = q
      BY <1>1, <2>2
    <3>2. /\ Len(RowsOf(L)[q + 1]) = Cols
          /\ \A i \in 1 .. Cols : RowsOf(L)[q + 1][i] = L[((q + 1) - 1) * Cols + i]
      BY <1>1, <3>1, RowsAre
    <3>3. RowsOf(L)[q + 1] \in Seq(Chars) /\ e \in Seq(Chars)
      <4>1. q + 1 \in 1 .. Full(L) + 1
        BY <1>1, <2>2
      <4> QED BY <1>1, <4>1, RowsType DEF Lines
    <3>4. \A i \in 1 .. Len(e) : e[i] = RowsOf(L)[q + 1][i]
      BY <1>1, <2>1, <3>1, <3>2
    <3>5. Len(e) = Len(RowsOf(L)[q + 1])
      BY <1>1, <2>1, <3>2
    <3> QED BY <3>3, <3>4, <3>5, SeqEqual
  <2> DEFINE F == Append(E, <<>>)
  <2>6. /\ F \in Seq(Lines) /\ Len(F) = q + 2 /\ F[q + 2] = <<>>
        /\ \A k \in 1 .. q + 1 : F[k] = E[k]
    <3>1. <<>> \in Lines /\ (q + 1) + 1 = q + 2
      BY <1>1, NoRows
    <3> QED BY <1>1, <1>3, <3>1, AppendProperties
  <2> HIDE DEF F
  <2>7. \A k \in 1 .. q + 2 : RowsOf(L)[k] = F[k]
    <3>1. \A k \in 1 .. q + 2 : k \in 1 .. q \/ k = q + 1 \/ k = q + 2
      BY <1>1
    <3>2. \A k \in 1 .. q : k \in 1 .. q + 1 /\ RowsOf(L)[k] = E[k]
      BY <1>1, <1>4, <2>2
    <3>3. q + 1 \in 1 .. q + 1
      BY <1>1
    <3> QED BY <1>3, <2>4, <2>5, <2>6, <3>1, <3>2, <3>3
  <2>8. RowsOf(L) = F
    BY <2>3, <2>6, <2>7, SeqEqual
  <2> QED BY <1>6, <2>8 DEF E, L, e, F, Q, m
<1> QED BY <1>5, <1>6

\* A character that is erased, within its row.
LEMMA LastErased ==
  ASSUME NEW l \in Lines, Rest(l) # 0
  PROVE  LET s == SubSeq(l, 1, Len(l) - 1)
         IN  /\ s \in Lines /\ Rest(s) + 1 < Cols /\ Len(l) >= 1 /\ l[Len(l)] \in Chars
             /\ l = Append(s, l[Len(l)])
<1> DEFINE n == Len(l)
           s == SubSeq(l, 1, n - 1)
<1>1. /\ n \in Nat /\ Full(l) \in Nat /\ Rest(l) \in Col /\ Full(l) * Cols \in Nat
      /\ n = Full(l) * Cols + Rest(l)
  BY FullAndRest
<1>2. n >= 1 /\ n - 1 = Full(l) * Cols + (Rest(l) - 1) /\ Rest(l) - 1 \in Col
      /\ (Rest(l) - 1) + 1 < Cols
  BY <1>1 DEF Col
<1>3. \A i \in 1 .. n : l[i] \in Chars
  BY DEF Lines
<1>4. s \in Lines /\ Len(s) = n - 1 /\ \A i \in 1 .. n - 1 : s[i] = l[i]
  <2> HIDE DEF n
  <2>1. 1 \in Int /\ n - 1 \in Int /\ \A i \in 1 .. n - 1 : l[i] \in Chars
    BY <1>1, <1>3
  <2>2. /\ s \in Seq(Chars) /\ Len(s) = (IF 1 <= n - 1 THEN (n - 1) - 1 + 1 ELSE 0)
        /\ \A i \in 1 .. (n - 1) - 1 + 1 : s[i] = l[1 + i - 1]
    BY <2>1, SubSeqProperties
  <2> HIDE DEF s
  <2> QED BY <1>1, <1>2, <2>2 DEF Lines
<1> HIDE DEF s
<1>5. Rest(s) + 1 < Cols
  <2>1. Rest(s) = Rest(l) - 1
    BY <1>1, <1>2, <1>4, FullRestAre
  <2> QED BY <1>2, <2>1
<1>6. l[n] \in Chars
  BY <1>1, <1>2, <1>3
<1>7. l = Append(s, l[n])
  <2>1. l \in Seq(Chars) /\ s \in Seq(Chars)
    BY <1>4 DEF Lines
  <2> DEFINE a == Append(s, l[n])
  <2>2. a \in Seq(Chars) /\ Len(a) = n /\ a[n] = l[n] /\ \A i \in 1 .. n - 1 : a[i] = s[i]
    <3>1. Len(s) + 1 = n
      BY <1>1, <1>4
    <3> HIDE DEF n
    <3> QED BY <1>4, <1>6, <2>1, <3>1, AppendProperties
  <2> HIDE DEF a
  <2>3. \A i \in 1 .. n : l[i] = a[i]
    <3>1. \A i \in 1 .. n : i = n \/ i \in 1 .. n - 1
      BY <1>1
    <3> HIDE DEF n
    <3> QED BY <1>4, <2>2, <3>1
  <2>4. l = a
    BY <2>1, <2>2, <2>3, SeqEqual
  <2> QED BY <2>4 DEF a
<1> QED BY <1>2, <1>4, <1>5, <1>6, <1>7 DEF s

LEMMA ShortenedIs ==
  ASSUME NEW l \in Lines, Full(l) >= 1
  PROVE  LET s == SubSeq(l, Cols + 1, Len(l))
         IN  s \in Lines /\ RowsOf(s) = Tail(RowsOf(l)) /\ Full(s) = Full(l) - 1
             /\ Rest(s) = Rest(l) /\ Len(s) = Len(l) - Cols
             /\ \A i \in 1 .. Len(s) : s[i] = l[Cols + i]
<1> DEFINE n == Len(l)
           q == Full(l)
           m == Rest(l)
           s == SubSeq(l, Cols + 1, n)
           Q == RowsOf(l)
           R == RowsOf(s)
<1>1. n \in Nat /\ q \in Nat /\ m \in Col /\ q * Cols \in Nat /\ n = q * Cols + m
  BY FullAndRest
<1>2. q - 1 \in Nat /\ (q - 1) * Cols \in Nat /\ q * Cols = (q - 1) * Cols + Cols
      /\ n - Cols = (q - 1) * Cols + m /\ n - Cols \in Nat
  <2>1. q - 1 \in Nat /\ (q - 1) + 1 = q
    BY <1>1
  <2>2. (q - 1) * Cols \in Nat /\ q * Cols = (q - 1) * Cols + Cols
    BY <2>1, Multiples
  <2>3. m \in Nat
    BY <1>1 DEF Col
  <2> HIDE DEF n, q, m
  <2>4. n - Cols = (q - 1) * Cols + m
    BY <1>1, <2>2, <2>3
  <2> QED BY <2>1, <2>2, <2>3, <2>4
<1>3. \A i \in 1 .. n : l[i] \in Chars
  BY DEF Lines
<1>4. s \in Lines /\ Len(s) = n - Cols /\ \A i \in 1 .. n - Cols : s[i] = l[Cols + i]
  <2> HIDE DEF n
  <2>1. Cols + 1 \in Int /\ n \in Int /\ \A i \in Cols + 1 .. n : l[i] \in Chars
    BY <1>1, <1>3
  <2>2. /\ s \in Seq(Chars) /\ Len(s) = (IF Cols + 1 <= n THEN n - (Cols + 1) + 1 ELSE 0)
        /\ \A i \in 1 .. n - (Cols + 1) + 1 : s[i] = l[(Cols + 1) + i - 1]
    BY <2>1, SubSeqProperties
  <2>4. n - Cols \in Nat /\ n \in Nat
    BY <1>1, <1>2
  <2> HIDE DEF s
  <2>5. Len(s) = n - Cols
    BY <2>2, <2>4
  <2>6. ASSUME NEW i \in 1 .. n - Cols PROVE s[i] = l[Cols + i]
    <3>1. i \in 1 .. n - (Cols + 1) + 1 /\ (Cols + 1) + i - 1 = Cols + i
      BY <2>4
    <3>2. s[i] = l[(Cols + 1) + i - 1]
      BY <2>2, <3>1
    <3> QED BY <3>1, <3>2
  <2> QED BY <2>2, <2>5, <2>6 DEF Lines
<1> HIDE DEF s
<1>5. Full(s) = q - 1 /\ Rest(s) = m
  BY <1>1, <1>2, <1>4, FullRestAre
<1>6. /\ Q \in Seq(Lines) /\ Len(Q) = q + 1 /\ Q # <<>>
      /\ R \in Seq(Lines) /\ Len(R) = q
  <2>1. Q \in Seq(Lines) /\ Len(Q) = q + 1 /\ Q # <<>>
    BY RowsType
  <2>2. R \in Seq(Lines) /\ Len(R) = Full(s) + 1
    BY <1>4, RowsType
  <2> QED BY <1>1, <1>5, <2>1, <2>2
<1>7. Tail(Q) \in Seq(Lines) /\ Len(Tail(Q)) = q /\ \A k \in 1 .. q : Tail(Q)[k] = Q[k + 1]
  <2> HIDE DEF Q, q
  <2>1. /\ Tail(Q) \in Seq(Lines) /\ Len(Tail(Q)) = Len(Q) - 1
        /\ \A k \in 1 .. Len(Tail(Q)) : Tail(Q)[k] = Q[k + 1]
    BY <1>6, HeadTailProperties
  <2> QED BY <1>1, <1>6, <2>1
<1> HIDE DEF n
<1>8. ASSUME NEW k \in 1 .. q - 1 PROVE R[k] = Q[k + 1]
  <2>1. k \in 1 .. Full(s) /\ k + 1 \in 1 .. Full(l) /\ (k + 1) - 1 = k /\ k \in Nat
    BY <1>1, <1>5
  <2>2. Len(R[k]) = Cols /\ \A c \in 1 .. Cols : R[k][c] = s[(k - 1) * Cols + c]
    BY <1>4, <2>1, RowsAre
  <2>3. /\ Len(Q[k + 1]) = Cols
        /\ \A c \in 1 .. Cols : Q[k + 1][c] = l[((k + 1) - 1) * Cols + c]
    BY <2>1, RowsAre
  <2>4. R[k] \in Seq(Chars) /\ Q[k + 1] \in Seq(Chars)
    <3>1. k \in 1 .. Full(s) + 1 /\ k + 1 \in 1 .. Full(l) + 1
      BY <1>1, <1>5, <2>1
    <3> QED BY <1>4, <3>1, RowsType
  <2>5. ASSUME NEW c \in 1 .. Cols PROVE R[k][c] = Q[k + 1][c]
    <3> DEFINE a == (k - 1) * Cols
    <3>1. a \in Nat /\ k * Cols = a + Cols /\ k * Cols <= (q - 1) * Cols
      <4>1. k - 1 \in Nat /\ (k - 1) + 1 = k /\ q - 1 \in Nat /\ k <= q - 1
        BY <1>2, <2>1
      <4> QED BY <2>1, <4>1, Multiples
    <3>2. a + c \in 1 .. n - Cols /\ Cols + (a + c) = k * Cols + c
      <4> DEFINE b == k * Cols
                 d == (q - 1) * Cols
      <4>1. a \in Nat /\ b = a + Cols /\ b <= d /\ d \in Nat /\ n - Cols = d + m /\ m \in Nat
        BY <1>1, <1>2, <3>1 DEF Col
      <4> HIDE DEF a, b, d, m
      <4>2. a + c \in 1 .. n - Cols /\ Cols + (a + c) = b + c
        BY <4>1
      <4> QED BY <4>2 DEF b
    <3>3. s[a + c] = l[k * Cols + c]
      BY <1>4, <3>2
    <3> QED BY <2>1, <2>2, <2>3, <3>3
  <2> QED BY <2>2, <2>3, <2>4, <2>5, SeqEqual
<1>9. R[q] = Q[q + 1]
  <2>1. Q[q + 1] \in Seq(Chars) /\ Len(Q[q + 1]) = m /\ \A c \in 1 .. m : Q[q + 1][c] = l[q * Cols + c]
    <3>1. q + 1 \in 1 .. q + 1
      BY <1>1
    <3>2. Q[q + 1] \in Seq(Chars)
      BY <3>1, RowsType
    <3> QED BY <3>2, RowsAre
  <2>2. ASSUME NEW c \in 1 .. m PROVE s[(q - 1) * Cols + c] = l[q * Cols + c]
    <3> DEFINE d == (q - 1) * Cols
    <3>1. d \in Nat /\ q * Cols = d + Cols /\ n - Cols = d + m /\ m \in Nat
      BY <1>1, <1>2 DEF Col
    <3> HIDE DEF d, m
    <3>2. d + c \in 1 .. n - Cols /\ Cols + (d + c) = q * Cols + c
      BY <3>1
    <3>3. s[d + c] = l[q * Cols + c]
      BY <1>4, <3>2
    <3> QED BY <3>3 DEF d
  <2>3. Full(s) + 1 = q
    BY <1>1, <1>5
  <2> DEFINE r == Q[q + 1]
  <2>4. /\ r \in Seq(Chars) /\ Len(r) = Rest(s)
        /\ \A c \in 1 .. Rest(s) : r[c] = s[Full(s) * Cols + c]
    BY <1>5, <2>1, <2>2
  <2> HIDE DEF r
  <2>5. RowsOf(s)[Full(s) + 1] = r
    BY <1>4, <2>4, LastRowIs
  <2> QED BY <2>3, <2>5 DEF r
<1>10. \A k \in 1 .. q : R[k] = Tail(Q)[k]
  <2>1. \A k \in 1 .. q : k = q \/ k \in 1 .. q - 1
    BY <1>1
  <2> HIDE DEF Q, R, q
  <2> QED BY <1>7, <1>8, <1>9, <2>1
<1>11. R = Tail(Q)
  <2> HIDE DEF Q, R, q
  <2> QED BY <1>6, <1>7, <1>10, SeqEqual
<1> QED BY <1>4, <1>5, <1>11 DEF s, n

-----------------------------------------------------------------------------
(* Rows on a screen. *)

\* What ScreenShowsText asks of a screen, for any rows.
Hidden(rows) == IF Len(rows) > Rows THEN Len(rows) - Rows ELSE 0

CharAt(rows, r, c) ==
  IF Hidden(rows) + r + 1 <= Len(rows) /\ c + 1 <= Len(rows[Hidden(rows) + r + 1])
    THEN rows[Hidden(rows) + r + 1][c + 1] ELSE Blank

Shown(s, rows) ==
  /\ \A r \in Row, c \in Col : s.cells[r][c] = CharAt(rows, r, c)
  /\ s.y = Len(rows) - Hidden(rows) - 1
  /\ s.x = Len(Last(rows))

LEMMA LastIs ==
  ASSUME NEW rows \in Seq(Lines), rows # <<>>
  PROVE  /\ Len(rows) \in Nat /\ Len(rows) >= 1 /\ Last(rows) \in Lines
         /\ Last(rows) = rows[Len(rows)] /\ Len(Last(rows)) \in Nat
         /\ \A i \in 1 .. Len(rows) : rows[i] \in Lines
         /\ Hidden(rows) \in Nat
<1>1. Len(rows) \in Nat /\ Len(rows) >= 1 /\ Len(rows) \in 1 .. Len(rows)
  OBVIOUS
<1>2. Last(rows) = rows[Len(rows)] /\ \A i \in 1 .. Len(rows) : rows[i] \in Lines
  BY DEF Last
<1>3. Last(rows) \in Lines /\ Len(Last(rows)) \in Nat
  BY <1>1, <1>2 DEF Lines
<1>4. Hidden(rows) \in Nat
  BY <1>1 DEF Hidden
<1> QED BY <1>1, <1>2, <1>3, <1>4

\* A character is shown where the cursor stands.
LEMMA ShownAdvanced ==
  ASSUME NEW s \in Screens, NEW rows \in Seq(Lines), rows # <<>>, NEW c \in Chars, Shown(s, rows)
  PROVE  Shown(Advanced(s, c), Ended(rows, Append(Last(rows), c)))
<1> DEFINE n == Len(rows)
           l == Last(rows)
           e == Append(l, c)
           new == Ended(rows, e)
           t == Advanced(s, c)
           h == Hidden(rows)
<1>1. /\ n \in Nat /\ n >= 1 /\ l \in Lines /\ l = rows[n] /\ Len(l) \in Nat /\ h \in Nat
      /\ \A i \in 1 .. n : rows[i] \in Lines
  BY LastIs
<1>2. e \in Lines /\ Len(e) = Len(l) + 1 /\ e[Len(l) + 1] = c /\ \A i \in 1 .. Len(l) : e[i] = l[i]
  <2> HIDE DEF l
  <2> QED BY <1>1, AppendProperties DEF Lines
<1> HIDE DEF e
<1>3. /\ new \in Seq(Lines) /\ Len(new) = n /\ new[n] = e
      /\ \A i \in 1 .. n : i # n => new[i] = rows[i]
  BY <1>2, EndedIs
<1> HIDE DEF new
<1>4. Hidden(new) = h /\ Last(new) = e /\ n - h - 1 \in Row
  <2>1. Hidden(new) = h /\ Last(new) = e
    BY <1>3 DEF Hidden, Last
  <2>2. s.y = n - h - 1 /\ s.y \in Row
    BY DEF Shown, Screens
  <2> QED BY <2>1, <2>2
<1>5. /\ s.y \in Row /\ s.x \in Col /\ s.y = n - h - 1 /\ s.x = Len(l)
      /\ s.cells \in [Row -> [Col -> Chars]]
      /\ \A r \in Row, k \in Col : s.cells[r][k] = CharAt(rows, r, k)
  BY DEF Shown, Screens
<1>6. /\ t.x = s.x + 1 /\ t.y = s.y
      /\ \A r \in Row, k \in Col :
           t.cells[r][k] = IF r = s.y /\ k = s.x THEN c ELSE s.cells[r][k]
  <2>1. t.x = s.x + 1 /\ t.y = s.y /\ t.cells = Marked(s, s.x, c).cells
    BY PutParts
  <2>2. Marked(s, s.x, c).cells = Cell(s.cells, s.y, s.x, c)
    BY <1>5, MarkedParts
  <2>3. \A r \in Row, k \in Col :
          Cell(s.cells, s.y, s.x, c)[r][k] = IF r = s.y /\ k = s.x THEN c ELSE s.cells[r][k]
    BY <1>5 DEF Cell
  <2> HIDE DEF t
  <2> QED BY <2>1, <2>2, <2>3
<1> HIDE DEF t, l, h, n
<1>7. ASSUME NEW r \in Row, NEW k \in Col PROVE t.cells[r][k] = CharAt(new, r, k)
  <2>1. r \in Nat /\ k \in Nat
    BY DEF Row, Col
  <2>2. CharAt(new, r, k) = IF h + r + 1 <= n /\ k + 1 <= Len(new[h + r + 1])
                              THEN new[h + r + 1][k + 1] ELSE Blank
    BY <1>3, <1>4 DEF CharAt
  <2>3. CharAt(rows, r, k) = IF h + r + 1 <= n /\ k + 1 <= Len(rows[h + r + 1])
                               THEN rows[h + r + 1][k + 1] ELSE Blank
    BY DEF CharAt, n, h
  <2>4. CASE r = s.y
    <3>1. h + r + 1 = n
      BY <1>1, <1>5, <2>1, <2>4
    <3>2. CharAt(new, r, k) = IF k + 1 <= Len(l) + 1 THEN e[k + 1] ELSE Blank
      BY <1>1, <1>2, <1>3, <2>2, <3>1
    <3>3. CharAt(rows, r, k) = IF k + 1 <= Len(l) THEN l[k + 1] ELSE Blank
      BY <1>1, <2>3, <3>1
    <3>4. CASE k = s.x
      BY <1>1, <1>2, <1>5, <1>6, <2>1, <2>4, <3>2, <3>4
    <3>5. CASE k # s.x
      <4>1. t.cells[r][k] = CharAt(rows, r, k)
        BY <1>5, <1>6, <3>5
      <4>2. k + 1 <= Len(l) + 1 <=> k + 1 <= Len(l)
        BY <1>1, <1>5, <2>1, <3>5
      <4>3. k + 1 <= Len(l) => e[k + 1] = l[k + 1]
        BY <1>1, <1>2, <2>1
      <4> QED BY <3>2, <3>3, <4>1, <4>2, <4>3
    <3> QED BY <3>4, <3>5
  <2>5. CASE r # s.y
    <3>1. t.cells[r][k] = CharAt(rows, r, k)
      BY <1>5, <1>6, <2>5
    <3>2. h + r + 1 <= n => h + r + 1 \in 1 .. n /\ h + r + 1 # n
      BY <1>1, <1>5, <2>1, <2>5
    <3>3. h + r + 1 <= n => new[h + r + 1] = rows[h + r + 1]
      BY <1>3, <3>2
    <3> QED BY <2>2, <2>3, <3>1, <3>3
  <2> QED BY <2>4, <2>5
<1>8. t.x = Len(Last(new)) /\ t.y = Len(new) - Hidden(new) - 1
  BY <1>2, <1>3, <1>4, <1>5, <1>6
<1> QED BY <1>7, <1>8 DEF Shown, t, new, e, l

\* vga_scroll, cell by cell.
LEMMA ScrolledCells ==
  ASSUME NEW s \in Below
  PROVE  /\ s.y < Rows => vga_scroll(s) = s
         /\ ~(s.y < Rows) =>
              /\ vga_scroll(s).x = s.x /\ vga_scroll(s).y = Rows - 1
              /\ \A r \in Row, c \in Col :
                   vga_scroll(s).cells[r][c] = IF r = Rows - 1 THEN Blank ELSE s.cells[r + 1][c]
<1>1. ASSUME s.y < Rows PROVE vga_scroll(s) = s
  BY <1>1 DEF vga_scroll
<1>2. ASSUME ~(s.y < Rows)
      PROVE  /\ vga_scroll(s).x = s.x /\ vga_scroll(s).y = Rows - 1
             /\ \A r \in Row, c \in Col :
                  vga_scroll(s).cells[r][c] = IF r = Rows - 1 THEN Blank ELSE s.cells[r + 1][c]
  <2> DEFINE Up(grid, new) == [r \in Row |-> IF r = Rows - 1 THEN new[r] ELSE grid[r + 1]]
  <2>1. NewRow(s).cells = Grid(Blank)
    BY DEF NewRow, Empty
  <2>2. vga_scroll(s) = [s EXCEPT !.y = Rows - 1, !.cells = Up(s.cells, NewRow(s).cells),
                                  !.attrs = Up(s.attrs, NewRow(s).attrs)]
    BY <1>2 DEF vga_scroll
  <2>3. \A r \in Row, c \in Col :
          Up(s.cells, Grid(Blank))[r][c] = IF r = Rows - 1 THEN Blank ELSE s.cells[r + 1][c]
    BY DEF Grid
  <2> HIDE DEF Up
  <2>4. /\ vga_scroll(s).x = s.x /\ vga_scroll(s).y = Rows - 1
        /\ vga_scroll(s).cells = Up(s.cells, NewRow(s).cells)
    BY <2>2 DEF Below
  <2> QED BY <2>1, <2>3, <2>4
<1> QED BY <1>1, <1>2

\* A new line is a new row.
LEMMA ShownNewLine ==
  ASSUME NEW s \in Wide, NEW rows \in Seq(Lines), rows # <<>>, Shown(s, rows)
  PROVE  Shown(NewLine(s), Append(rows, <<>>))
<1> DEFINE n == Len(rows)
           h == Hidden(rows)
           new == Append(rows, <<>>)
           u == NextRow(s)
           t == NewLine(s)
<1>1. n \in Nat /\ n >= 1 /\ h \in Nat
  BY LastIs
<1>2. /\ new \in Seq(Lines) /\ Len(new) = n + 1 /\ new[n + 1] = <<>>
      /\ \A i \in 1 .. n : new[i] = rows[i]
  <2>1. <<>> \in Lines
    BY NoRows
  <2> QED BY <2>1, AppendProperties
<1>3. /\ t = vga_scroll(u) /\ u \in Below /\ u.x = 0 /\ u.y = s.y + 1 /\ u.cells = s.cells
  BY NewLineParts
<1> HIDE DEF new, u, t
<1>4. Last(new) = <<>> /\ Len(Last(new)) = 0
  BY <1>1, <1>2 DEF Last
<1>5. /\ s.y = n - h - 1 /\ s.y \in Row
      /\ \A r \in Row, k \in Col : s.cells[r][k] = CharAt(rows, r, k)
  BY DEF Shown, Wide
<1>6. h = IF n > Rows THEN n - Rows ELSE 0
  BY DEF Hidden
<1>7. Hidden(new) = IF n + 1 > Rows THEN n + 1 - Rows ELSE 0
  BY <1>2 DEF Hidden
<1> DEFINE H == Hidden(new)
<1>8. \A r, k : CharAt(new, r, k) = IF H + r + 1 <= n + 1 /\ k + 1 <= Len(new[H + r + 1])
                                      THEN new[H + r + 1][k + 1] ELSE Blank
  BY <1>2 DEF CharAt
<1>9. \A r, k : CharAt(rows, r, k) = IF h + r + 1 <= n /\ k + 1 <= Len(rows[h + r + 1])
                                       THEN rows[h + r + 1][k + 1] ELSE Blank
  BY DEF CharAt
<1> HIDE DEF H, h, n
<1>10. CASE u.y < Rows
  <2>1. t = u /\ h = 0 /\ H = 0 /\ n + 1 <= Rows
    BY <1>1, <1>3, <1>5, <1>6, <1>7, <1>10, ScrolledCells DEF H
  <2>2. ASSUME NEW r \in Row, NEW k \in Col PROVE t.cells[r][k] = CharAt(new, r, k)
    <3>1. r \in Nat /\ k \in Nat /\ t.cells[r][k] = CharAt(rows, r, k)
      BY <1>3, <1>5, <2>1 DEF Row, Col
    <3>2. CASE r + 1 <= n
      <4>1. r + 1 \in 1 .. n /\ H + r + 1 = r + 1 /\ h + r + 1 = r + 1 /\ r + 1 <= n + 1
        BY <1>1, <2>1, <3>1, <3>2
      <4>2. new[r + 1] = rows[r + 1]
        BY <1>2, <4>1
      <4> QED BY <1>8, <1>9, <3>1, <3>2, <4>1, <4>2
    <3>3. CASE r = n
      <4>1. H + r + 1 = n + 1 /\ ~(h + r + 1 <= n) /\ ~(k + 1 <= 0) /\ Len(new[n + 1]) = 0
        BY <1>1, <1>2, <2>1, <3>1, <3>3
      <4> QED BY <1>8, <1>9, <3>1, <4>1
    <3>4. CASE r > n
      <4>1. ~(H + r + 1 <= n + 1) /\ ~(h + r + 1 <= n)
        BY <1>1, <2>1, <3>1, <3>4
      <4> QED BY <1>8, <1>9, <3>1, <4>1
    <3> QED BY <1>1, <3>1, <3>2, <3>3, <3>4
  <2>3. t.x = Len(Last(new)) /\ t.y = Len(new) - Hidden(new) - 1
    BY <1>1, <1>2, <1>3, <1>4, <1>5, <2>1 DEF H
  <2> QED BY <2>2, <2>3 DEF Shown, t, new
<1>11. CASE ~(u.y < Rows)
  <2>1. n >= Rows /\ h = n - Rows /\ H = h + 1 /\ s.y = Rows - 1
    BY <1>1, <1>3, <1>5, <1>6, <1>7, <1>11 DEF H, Row
  <2>2. /\ t.x = 0 /\ t.y = Rows - 1
        /\ \A r \in Row, c \in Col :
             t.cells[r][c] = IF r = Rows - 1 THEN Blank ELSE s.cells[r + 1][c]
    BY <1>3, <1>11, ScrolledCells
  <2>3. ASSUME NEW r \in Row, NEW k \in Col PROVE t.cells[r][k] = CharAt(new, r, k)
    <3>1. r \in Nat /\ k \in Nat
      BY DEF Row, Col
    <3>2. CASE r = Rows - 1
      <4>1. H + r + 1 = n + 1 /\ ~(k + 1 <= 0) /\ Len(new[n + 1]) = 0
        BY <1>1, <1>2, <2>1, <3>1, <3>2
      <4> QED BY <1>8, <2>2, <3>2, <4>1
    <3>3. CASE r # Rows - 1
      <4>1. r + 1 \in Row /\ H + r + 1 = h + (r + 1) + 1 /\ H + r + 1 \in 1 .. n
            /\ H + r + 1 <= n + 1 /\ h + (r + 1) + 1 <= n
        BY <1>1, <2>1, <3>1, <3>3 DEF Row
      <4>2. new[H + r + 1] = rows[H + r + 1]
        BY <1>2, <4>1
      <4>3. t.cells[r][k] = CharAt(rows, r + 1, k)
        BY <1>5, <2>2, <3>3, <4>1
      <4>4. CharAt(rows, r + 1, k) = IF k + 1 <= Len(rows[H + r + 1])
                                       THEN rows[H + r + 1][k + 1] ELSE Blank
        BY <1>9, <4>1
      <4> QED BY <1>8, <4>1, <4>2, <4>3, <4>4
    <3> QED BY <3>2, <3>3
  <2>4. t.x = Len(Last(new)) /\ t.y = Len(new) - Hidden(new) - 1
    BY <1>1, <1>2, <1>4, <2>1, <2>2 DEF H
  <2> QED BY <2>3, <2>4 DEF Shown, t, new
<1> QED BY <1>10, <1>11

\* Erasing takes back the last character of its row.
LEMMA ShownErased ==
  ASSUME NEW s \in Screens, NEW rows \in Seq(Lines), rows # <<>>, NEW c \in Chars,
         Shown(s, Ended(rows, Append(Last(rows), c)))
  PROVE  s.x # 0 /\ Shown(Erase(s), rows)
<1> DEFINE n == Len(rows)
           l == Last(rows)
           e == Append(l, c)
           old == Ended(rows, e)
           t == Erase(s)
           h == Hidden(rows)
<1>1. /\ n \in Nat /\ n >= 1 /\ l \in Lines /\ l = rows[n] /\ Len(l) \in Nat /\ h \in Nat
      /\ \A i \in 1 .. n : rows[i] \in Lines
  BY LastIs
<1>2. e \in Lines /\ Len(e) = Len(l) + 1 /\ e[Len(l) + 1] = c /\ \A i \in 1 .. Len(l) : e[i] = l[i]
  <2> HIDE DEF l
  <2> QED BY <1>1, AppendProperties DEF Lines
<1> HIDE DEF e
<1>3. /\ old \in Seq(Lines) /\ Len(old) = n /\ old[n] = e
      /\ \A i \in 1 .. n : i # n => old[i] = rows[i]
  BY <1>2, EndedIs
<1>4. Shown(s, old)
  BY DEF e
<1> HIDE DEF old
<1>5. Hidden(old) = h /\ Last(old) = e
  BY <1>3 DEF Hidden, Last
<1>6. /\ s.y \in Row /\ s.x \in Col /\ s.y = n - h - 1 /\ s.x = Len(l) + 1
      /\ s.cells \in [Row -> [Col -> Chars]]
      /\ \A r \in Row, k \in Col : s.cells[r][k] = CharAt(old, r, k)
  BY <1>2, <1>3, <1>4, <1>5 DEF Shown, Screens
<1>7. s.x # 0 /\ s.x - 1 = Len(l) /\ s.x - 1 \in Col
  BY <1>1, <1>6 DEF Col
<1>8. /\ t.x = s.x - 1 /\ t.y = s.y
      /\ \A r \in Row, k \in Col :
           t.cells[r][k] = IF r = s.y /\ k = s.x - 1 THEN Blank ELSE s.cells[r][k]
  <2>1. t.x = s.x - 1 /\ t.y = s.y /\ t.cells = Marked(s, s.x - 1, Blank).cells
    BY <1>7, EraseParts
  <2>2. Marked(s, s.x - 1, Blank).cells = Cell(s.cells, s.y, s.x - 1, Blank)
    BY <1>7, MarkedParts, CharAssumption DEF Blank
  <2>3. \A r \in Row, k \in Col :
          Cell(s.cells, s.y, s.x - 1, Blank)[r][k]
            = IF r = s.y /\ k = s.x - 1 THEN Blank ELSE s.cells[r][k]
    BY <1>6, <1>7 DEF Cell
  <2> HIDE DEF t
  <2> QED BY <2>1, <2>2, <2>3
<1> HIDE DEF t, l, h, n
<1>9. ASSUME NEW r \in Row, NEW k \in Col PROVE t.cells[r][k] = CharAt(rows, r, k)
  <2>1. r \in Nat /\ k \in Nat
    BY DEF Row, Col
  <2>2. CharAt(old, r, k) = IF h + r + 1 <= n /\ k + 1 <= Len(old[h + r + 1])
                              THEN old[h + r + 1][k + 1] ELSE Blank
    BY <1>3, <1>5 DEF CharAt
  <2>3. CharAt(rows, r, k) = IF h + r + 1 <= n /\ k + 1 <= Len(rows[h + r + 1])
                               THEN rows[h + r + 1][k + 1] ELSE Blank
    BY DEF CharAt, n, h
  <2>4. CASE r = s.y
    <3>1. h + r + 1 = n
      BY <1>1, <1>6, <2>1, <2>4
    <3>2. CharAt(old, r, k) = IF k + 1 <= Len(l) + 1 THEN e[k + 1] ELSE Blank
      BY <1>1, <1>2, <1>3, <2>2, <3>1
    <3>3. CharAt(rows, r, k) = IF k + 1 <= Len(l) THEN l[k + 1] ELSE Blank
      BY <1>1, <2>3, <3>1
    <3>4. CASE k = s.x - 1
      <4>1. ~(k + 1 <= Len(l))
        BY <1>1, <1>7, <2>1, <3>4
      <4> QED BY <1>8, <2>4, <3>3, <3>4, <4>1
    <3>5. CASE k # s.x - 1
      <4>1. t.cells[r][k] = CharAt(old, r, k)
        BY <1>6, <1>8, <3>5
      <4>2. k + 1 <= Len(l) + 1 <=> k + 1 <= Len(l)
        BY <1>1, <1>7, <2>1, <3>5
      <4>3. k + 1 <= Len(l) => e[k + 1] = l[k + 1]
        BY <1>1, <1>2, <2>1
      <4> QED BY <3>2, <3>3, <4>1, <4>2, <4>3
    <3> QED BY <3>4, <3>5
  <2>5. CASE r # s.y
    <3>1. t.cells[r][k] = CharAt(old, r, k)
      BY <1>6, <1>8, <2>5
    <3>2. h + r + 1 <= n => h + r + 1 \in 1 .. n /\ h + r + 1 # n
      BY <1>1, <1>6, <2>1, <2>5
    <3>3. h + r + 1 <= n => old[h + r + 1] = rows[h + r + 1]
      BY <1>3, <3>2
    <3> QED BY <2>2, <2>3, <3>1, <3>3
  <2> QED BY <2>4, <2>5
<1>10. t.x = Len(Last(rows)) /\ t.y = Len(rows) - Hidden(rows) - 1
  BY <1>6, <1>7, <1>8 DEF l, n, h
<1> QED BY <1>7, <1>9, <1>10 DEF Shown, t

\* Only the last rows are on the screen.
LEMMA ShownEnd ==
  ASSUME NEW s, NEW rows \in Seq(Lines), NEW new \in Seq(Lines), Shown(s, rows),
         Len(rows) >= Rows, Len(new) >= Rows,
         \A k \in 1 .. Rows : rows[Len(rows) - Rows + k] = new[Len(new) - Rows + k]
  PROVE  Shown(s, new)
<1> DEFINE n == Len(rows)
           m == Len(new)
<1>1. n \in Nat /\ m \in Nat /\ n >= Rows /\ m >= Rows
  OBVIOUS
<1>2. Hidden(rows) = n - Rows /\ Hidden(new) = m - Rows
  BY <1>1 DEF Hidden
<1>3. \A r, k : CharAt(rows, r, k) = IF n - Rows + r + 1 <= n /\ k + 1 <= Len(rows[n - Rows + r + 1])
                                       THEN rows[n - Rows + r + 1][k + 1] ELSE Blank
  BY <1>2 DEF CharAt
<1>4. \A r, k : CharAt(new, r, k) = IF m - Rows + r + 1 <= m /\ k + 1 <= Len(new[m - Rows + r + 1])
                                      THEN new[m - Rows + r + 1][k + 1] ELSE Blank
  BY <1>2 DEF CharAt
<1>5. \A k \in 1 .. Rows : rows[n - Rows + k] = new[m - Rows + k]
  OBVIOUS
<1> HIDE DEF n, m
<1>6. ASSUME NEW r \in Row, NEW k \in Col PROVE CharAt(rows, r, k) = CharAt(new, r, k)
  <2>1. /\ n - Rows + r + 1 = n - Rows + (r + 1) /\ m - Rows + r + 1 = m - Rows + (r + 1)
        /\ r + 1 \in 1 .. Rows /\ n - Rows + r + 1 <= n /\ m - Rows + r + 1 <= m
    <3>1. r \in Nat /\ r <= Rows - 1 /\ Rows \in Nat
      BY DEF Row
    <3>2. n - Rows + r + 1 = n - Rows + (r + 1) /\ m - Rows + r + 1 = m - Rows + (r + 1)
      BY <1>1, <3>1
    <3>3. r + 1 \in 1 .. Rows /\ n - Rows + r + 1 <= n /\ m - Rows + r + 1 <= m
      BY <1>1, <3>1
    <3> QED BY <3>2, <3>3
  <2>2. rows[n - Rows + r + 1] = new[m - Rows + r + 1]
    BY <1>5, <2>1
  <2> QED BY <1>3, <1>4, <2>1, <2>2
<1>7. Last(rows) = Last(new)
  <2>1. Rows \in 1 .. Rows /\ n - Rows + Rows = n /\ m - Rows + Rows = m
    BY <1>1
  <2>2. rows[n] = new[m]
    BY <1>5, <2>1
  <2> QED BY <2>2 DEF Last, n, m
<1>8. n - Hidden(rows) - 1 = m - Hidden(new) - 1
  BY <1>1, <1>2
<1> QED BY <1>6, <1>7, <1>8 DEF Shown, n, m

-----------------------------------------------------------------------------
(* The rows of all lines, and each kind of character on them. *)

\* The rows of lines of text.
Blocks(t) == [i \in DOMAIN t |-> RowsOf(t[i])]
Laid(t) == FlattenSeq(Blocks(t))

LEMMA BlocksAre ==
  ASSUME NEW t \in Seq(Lines)
  PROVE  /\ Blocks(t) \in Seq(Seq(Lines)) /\ Len(Blocks(t)) = Len(t) /\ Len(t) \in Nat
         /\ \A i \in 1 .. Len(t) : Blocks(t)[i] = RowsOf(t[i]) /\ Blocks(t)[i] # <<>>
<1>1. Len(t) \in Nat /\ DOMAIN t = 1 .. Len(t) /\ \A i \in 1 .. Len(t) : t[i] \in Lines
  OBVIOUS
<1>2. \A i \in 1 .. Len(t) : RowsOf(t[i]) \in Seq(Lines) /\ RowsOf(t[i]) # <<>>
  BY <1>1, RowsType
<1>3. Blocks(t) = [i \in 1 .. Len(t) |-> RowsOf(t[i])]
  BY <1>1 DEF Blocks
<1>4. Blocks(t) \in Seq(Seq(Lines)) /\ Len(Blocks(t)) = Len(t)
  BY <1>1, <1>2, <1>3
<1> QED BY <1>1, <1>2, <1>3, <1>4

LEMMA LaidType ==
  ASSUME NEW t \in Seq(Lines)
  PROVE  Laid(t) \in Seq(Lines) /\ Len(Laid(t)) >= Len(t) /\ Len(Laid(t)) \in Nat
<1>1. /\ Blocks(t) \in Seq(Seq(Lines)) /\ Len(Blocks(t)) = Len(t)
      /\ \A i \in DOMAIN Blocks(t) : Blocks(t)[i] # <<>>
  <2>1. Blocks(t) \in Seq(Seq(Lines)) /\ Len(Blocks(t)) = Len(t)
    BY BlocksAre
  <2>2. DOMAIN Blocks(t) = 1 .. Len(t)
    BY <2>1
  <2> QED BY <2>1, <2>2, BlocksAre
<1> DEFINE b == Blocks(t)
<1> HIDE DEF b
<1>2. b \in Seq(Seq(Lines)) /\ Len(b) = Len(t) /\ \A i \in DOMAIN b : b[i] # <<>>
  BY <1>1 DEF b
<1>3. FlattenSeq(b) \in Seq(Lines) /\ Len(FlattenSeq(b)) >= Len(b)
  BY <1>2, FlattenType
<1> QED BY <1>2, <1>3 DEF Laid, b

LEMMA LaidAppend ==
  ASSUME NEW t \in Seq(Lines), NEW l \in Lines
  PROVE  Laid(Append(t, l)) = Laid(t) \o RowsOf(l)
<1> DEFINE u == Append(t, l)
           b == Blocks(t)
           q == RowsOf(l)
<1>1. u \in Seq(Lines) /\ Len(u) = Len(t) + 1 /\ u[Len(t) + 1] = l /\ Len(t) \in Nat
      /\ \A i \in 1 .. Len(t) : u[i] = t[i]
  BY AppendProperties
<1>2. b \in Seq(Seq(Lines)) /\ Len(b) = Len(t) /\ \A i \in 1 .. Len(t) : b[i] = RowsOf(t[i])
  BY BlocksAre
<1>3. q \in Seq(Lines)
  BY RowsType
<1> HIDE DEF u
<1>4. /\ Blocks(u) \in Seq(Seq(Lines)) /\ Len(Blocks(u)) = Len(t) + 1
      /\ \A i \in 1 .. Len(t) + 1 : Blocks(u)[i] = RowsOf(u[i])
  BY <1>1, BlocksAre
<1> HIDE DEF b, q
<1>5. /\ Append(b, q) \in Seq(Seq(Lines)) /\ Len(Append(b, q)) = Len(t) + 1
      /\ Append(b, q)[Len(t) + 1] = q /\ \A i \in 1 .. Len(t) : Append(b, q)[i] = b[i]
  BY <1>1, <1>2, <1>3, AppendProperties
<1>6. \A i \in 1 .. Len(t) + 1 : Blocks(u)[i] = Append(b, q)[i]
  <2>1. \A i \in 1 .. Len(t) + 1 : i \in 1 .. Len(t) \/ i = Len(t) + 1
    BY <1>1
  <2> QED BY <1>1, <1>2, <1>4, <1>5, <2>1 DEF q
<1>7. Blocks(u) = Append(b, q)
  BY <1>4, <1>5, <1>6, SeqEqual
<1>8. FlattenSeq(Append(b, q)) = FlattenSeq(b) \o q
  BY <1>2, <1>3, FlattenAppend
<1> QED BY <1>7, <1>8 DEF Laid, u, b, q

LEMMA LaidTail ==
  ASSUME NEW t \in Seq(Lines), t # <<>>
  PROVE  Laid(t) = RowsOf(t[1]) \o Laid(Tail(t))
<1> DEFINE u == Tail(t)
           b == Blocks(t)
<1>1. /\ u \in Seq(Lines) /\ Len(u) = Len(t) - 1 /\ Len(u) \in Nat /\ Len(t) \in Nat
      /\ \A i \in 1 .. Len(u) : u[i] = t[i + 1]
  OBVIOUS
<1>2. b \in Seq(Seq(Lines)) /\ Len(b) = Len(t) /\ \A i \in 1 .. Len(t) : b[i] = RowsOf(t[i])
  BY BlocksAre
<1> HIDE DEF u
<1>3. /\ Blocks(u) \in Seq(Seq(Lines)) /\ Len(Blocks(u)) = Len(u)
      /\ \A i \in 1 .. Len(u) : Blocks(u)[i] = RowsOf(u[i])
  BY <1>1, BlocksAre
<1> HIDE DEF b
<1>4. b # <<>> /\ 1 \in 1 .. Len(t)
  BY <1>1, <1>2
<1>5. /\ Tail(b) \in Seq(Seq(Lines)) /\ Len(Tail(b)) = Len(b) - 1
      /\ \A i \in 1 .. Len(Tail(b)) : Tail(b)[i] = b[i + 1]
  BY <1>2, <1>4, HeadTailProperties
<1>6. \A i \in 1 .. Len(u) : Blocks(u)[i] = Tail(b)[i]
  <2>1. \A i \in 1 .. Len(u) : i + 1 \in 1 .. Len(t) /\ i \in 1 .. Len(Tail(b))
    BY <1>1, <1>2, <1>5
  <2> QED BY <1>1, <1>2, <1>3, <1>5, <2>1
<1>7. Blocks(u) = Tail(b)
  <2>1. Len(Blocks(u)) = Len(Tail(b)) /\ \A i \in 1 .. Len(Blocks(u)) : Blocks(u)[i] = Tail(b)[i]
    BY <1>1, <1>2, <1>3, <1>5, <1>6
  <2> QED BY <1>3, <1>5, <2>1, SeqEqual
<1>8. FlattenSeq(b) = b[1] \o FlattenSeq(Tail(b))
  BY <1>2, <1>4, FlattenTail
<1>9. b[1] = RowsOf(t[1])
  BY <1>2, <1>4
<1> QED BY <1>7, <1>8, <1>9 DEF Laid, u, b

\* The last line apart.
LEMMA FrontAndLast ==
  ASSUME NEW t \in Seq(Lines), t # <<>>, NEW l \in Lines
  PROVE  /\ Front(t) \in Seq(Lines) /\ Last(t) \in Lines /\ t = Append(Front(t), Last(t))
         /\ [t EXCEPT ![Len(t)] = l] = Append(Front(t), l)
         /\ [t EXCEPT ![Len(t)] = l] \in Seq(Lines) /\ [t EXCEPT ![Len(t)] = l] # <<>>
<1> DEFINE n == Len(t)
           f == Front(t)
           u == [t EXCEPT ![n] = l]
<1>1. n \in Nat /\ n >= 1 /\ n \in 1 .. n /\ \A i \in 1 .. n : t[i] \in Lines
  OBVIOUS
<1>2. Last(t) = t[n] /\ Last(t) \in Lines
  BY <1>1 DEF Last
<1>3. f \in Seq(Lines) /\ Len(f) = n - 1 /\ \A i \in 1 .. n - 1 : f[i] = t[i]
  <2>1. 1 \in Int /\ n - 1 \in Int /\ \A i \in 1 .. n - 1 : t[i] \in Lines
    BY <1>1
  <2> HIDE DEF n
  <2>2. /\ SubSeq(t, 1, n - 1) \in Seq(Lines)
        /\ Len(SubSeq(t, 1, n - 1)) = IF 1 <= n - 1 THEN n - 1 - 1 + 1 ELSE 0
        /\ \A i \in 1 .. n - 1 - 1 + 1 : SubSeq(t, 1, n - 1)[i] = t[1 + i - 1]
    BY <2>1, SubSeqProperties
  <2>3. f = SubSeq(t, 1, n - 1)
    BY DEF Front, n
  <2> HIDE DEF f
  <2> QED BY <1>1, <2>2, <2>3
<1>4. u \in Seq(Lines) /\ Len(u) = n /\ u[n] = l /\ \A i \in 1 .. n - 1 : u[i] = t[i]
  <2>1. /\ u \in Seq(Lines) /\ Len(u) = n
        /\ \A j \in 1 .. n : u[j] = IF j = n THEN l ELSE t[j]
    BY <1>1, ExceptSeq
  <2>2. \A i \in 1 .. n - 1 : i \in 1 .. n /\ i # n
    BY <1>1
  <2> HIDE DEF u, n
  <2> QED BY <1>1, <2>1, <2>2
<1> HIDE DEF u, f, n
<1>5. ASSUME NEW v \in Seq(Lines), Len(v) = n, v[n] \in Lines, \A i \in 1 .. n - 1 : v[i] = t[i]
      PROVE  v = Append(f, v[n])
  <2> DEFINE a == Append(f, v[n])
  <2>1. a \in Seq(Lines) /\ Len(a) = n /\ a[n] = v[n] /\ \A i \in 1 .. n - 1 : a[i] = f[i]
    <3>1. Len(f) + 1 = n
      BY <1>1, <1>3
    <3> QED BY <1>3, <1>5, <3>1, AppendProperties
  <2> HIDE DEF a
  <2>2. \A i \in 1 .. n : v[i] = a[i]
    <3>1. \A i \in 1 .. n : i = n \/ i \in 1 .. n - 1
      BY <1>1
    <3> QED BY <1>3, <1>5, <2>1, <3>1
  <2>3. v = a
    BY <1>5, <2>1, <2>2, SeqEqual
  <2> QED BY <2>3 DEF a
<1>6. t = Append(f, t[n])
  <2>1. t \in Seq(Lines) /\ Len(t) = n /\ t[n] \in Lines
    BY <1>1 DEF n
  <2> QED BY <1>5, <2>1
<1>7. u = Append(f, l)
  BY <1>4, <1>5
<1>8. u # <<>>
  BY <1>1, <1>4
<1> QED BY <1>2, <1>3, <1>4, <1>6, <1>7, <1>8 DEF u, f, n

\* Rows above leave the last ones as they are.
LEMMA Above ==
  ASSUME NEW a \in Seq(Lines), NEW q \in Seq(Lines), q # <<>>
  PROVE  /\ a \o q \in Seq(Lines) /\ a \o q # <<>> /\ Last(a \o q) = Last(q)
         /\ Len(a \o q) = Len(a) + Len(q) /\ Len(a) \in Nat /\ Len(q) \in Nat /\ Len(q) >= 1
         /\ \A i \in 1 .. Len(q) : (a \o q)[Len(a) + i] = q[i]
         /\ \A e \in Lines : Ended(a \o q, e) = a \o Ended(q, e)
         /\ \A e \in Lines : Append(a \o q, e) = a \o Append(q, e)
<1> DEFINE m == Len(a)
           n == Len(q)
           b == a \o q
<1>1. m \in Nat /\ n \in Nat /\ n >= 1
  OBVIOUS
<1>2. b \in Seq(Lines) /\ Len(b) = m + n
      /\ \A i \in 1 .. m + n : b[i] = IF i <= m THEN a[i] ELSE q[i - m]
  BY ConcatProperties
<1> HIDE DEF b, m, n
<1>3. \A i \in 1 .. n : b[m + i] = q[i]
  <2> SUFFICES ASSUME NEW i \in 1 .. n PROVE b[m + i] = q[i]
    OBVIOUS
  <2>1. m + i \in 1 .. m + n /\ ~(m + i <= m) /\ (m + i) - m = i
    BY <1>1
  <2> QED BY <1>2, <2>1
<1>4. b # <<>>
  BY <1>1, <1>2
<1>5. Last(b) = Last(q)
  <2>1. n \in 1 .. n
    BY <1>1
  <2>2. b[m + n] = q[n]
    BY <1>3, <2>1
  <2> QED BY <1>2, <2>2 DEF Last, n
<1>6. ASSUME NEW e \in Lines PROVE Ended(b, e) = a \o Ended(q, e)
  <2> DEFINE u == Ended(q, e)
             v == Ended(b, e)
             w == a \o u
  <2>1. /\ u \in Seq(Lines) /\ Len(u) = n /\ u[n] = e
        /\ \A i \in 1 .. n : i # n => u[i] = q[i]
    BY EndedIs DEF n
  <2>2. /\ v \in Seq(Lines) /\ Len(v) = m + n /\ v[m + n] = e
        /\ \A i \in 1 .. m + n : i # m + n => v[i] = b[i]
    <3>1. /\ v \in Seq(Lines) /\ Len(v) = Len(b) /\ v[Len(b)] = e
          /\ \A i \in 1 .. Len(b) : i # Len(b) => v[i] = b[i]
      <4>1. b \in Seq(Lines) /\ b # <<>>
        BY <1>2, <1>4
      <4> HIDE DEF u, w
      <4> QED BY <4>1, EndedIs
    <3> HIDE DEF v
    <3> QED BY <1>2, <3>1
  <2> HIDE DEF u, v
  <2>3. /\ w \in Seq(Lines) /\ Len(w) = m + n
        /\ \A i \in 1 .. m + n : w[i] = IF i <= m THEN a[i] ELSE u[i - m]
    BY <2>1, ConcatProperties DEF m
  <2> HIDE DEF w
  <2>4. ASSUME NEW i \in 1 .. m + n PROVE v[i] = w[i]
    <3>1. CASE i <= m
      <4>1. i # m + n
        BY <1>1, <3>1
      <4> QED BY <1>2, <2>2, <2>3, <3>1, <4>1
    <3>2. CASE ~(i <= m) /\ i # m + n
      <4>1. i - m \in 1 .. n /\ i - m # n
        BY <1>1, <3>2
      <4> QED BY <1>2, <2>1, <2>2, <2>3, <3>2, <4>1
    <3>3. CASE i = m + n
      <4>1. ~(i <= m) /\ i - m = n
        BY <1>1, <3>3
      <4> QED BY <2>1, <2>2, <2>3, <3>3, <4>1
    <3> QED BY <3>1, <3>2, <3>3
  <2>5. v = w
    BY <2>2, <2>3, <2>4, SeqEqual
  <2> QED BY <2>5 DEF u, v, w
<1>7. ASSUME NEW e \in Lines PROVE Append(b, e) = a \o Append(q, e)
  <2> DEFINE u == Append(q, e)
             v == Append(b, e)
             w == a \o u
  <2>1. /\ u \in Seq(Lines) /\ Len(u) = n + 1 /\ u[n + 1] = e
        /\ \A i \in 1 .. n : u[i] = q[i]
    BY AppendProperties DEF n
  <2>2. /\ v \in Seq(Lines) /\ Len(v) = m + n + 1 /\ v[m + n + 1] = e
        /\ \A i \in 1 .. m + n : v[i] = b[i]
    BY <1>2, AppendProperties
  <2> HIDE DEF u, v
  <2>3. /\ w \in Seq(Lines) /\ Len(w) = m + (n + 1)
        /\ \A i \in 1 .. m + (n + 1) : w[i] = IF i <= m THEN a[i] ELSE u[i - m]
    <3>1. /\ w \in Seq(Lines) /\ Len(w) = Len(a) + Len(u)
          /\ \A i \in 1 .. Len(a) + Len(u) : w[i] = IF i <= Len(a) THEN a[i] ELSE u[i - Len(a)]
      BY <2>1, ConcatProperties
    <3> HIDE DEF w
    <3> QED BY <2>1, <3>1 DEF m
  <2> HIDE DEF w
  <2>4. ASSUME NEW i \in 1 .. m + n + 1 PROVE v[i] = w[i]
    <3>0. i \in 1 .. m + (n + 1)
      BY <1>1
    <3>1. CASE i <= m
      <4>1. i \in 1 .. m + n
        BY <1>1, <3>1
      <4> QED BY <1>2, <2>2, <2>3, <3>0, <3>1, <4>1
    <3>2. CASE ~(i <= m) /\ i # m + n + 1
      <4>1. i - m \in 1 .. n /\ i \in 1 .. m + n
        BY <1>1, <3>2
      <4> QED BY <1>2, <2>1, <2>2, <2>3, <3>0, <3>2, <4>1
    <3>3. CASE i = m + n + 1
      <4>1. ~(i <= m) /\ i - m = n + 1
        BY <1>1, <3>3
      <4> QED BY <2>1, <2>2, <2>3, <3>0, <3>3, <4>1
    <3> QED BY <3>1, <3>2, <3>3
  <2>5. Len(v) = Len(w)
    BY <1>1, <2>2, <2>3
  <2>6. v = w
    BY <2>2, <2>3, <2>4, <2>5, SeqEqual
  <2> QED BY <2>6 DEF u, v, w
<1> QED BY <1>1, <1>2, <1>3, <1>4, <1>5, <1>6, <1>7 DEF b, m, n

\* One character on the screen, and in the last line of the text.
LEMMA ShownPut ==
  ASSUME NEW s \in Screens, NEW a \in Seq(Lines), NEW l \in Lines, NEW c \in Chars,
         Shown(s, a \o RowsOf(l))
  PROVE  s.x = Rest(l) /\ Shown(Put(s, c), a \o RowsOf(Append(l, c)))
<1> DEFINE q == RowsOf(l)
           e == Longer(l, c)
           rows == a \o q
<1>1. q \in Seq(Lines) /\ q # <<>> /\ Last(q) \in Lines /\ Len(Last(q)) = Rest(l)
  BY RowsType, LastOfRows
<1>2. e \in Lines /\ e = Append(Last(q), c)
  BY LongerIs DEF Longer
<1>3. RowsOf(Append(l, c)) = IF Rest(l) + 1 < Cols THEN Ended(q, e) ELSE Append(Ended(q, e), <<>>)
  BY RowsGrow
<1> HIDE DEF q, e
<1>4. /\ rows \in Seq(Lines) /\ rows # <<>> /\ Last(rows) = Last(q)
      /\ Ended(rows, e) = a \o Ended(q, e)
  BY <1>1, <1>2, Above
<1>5. Ended(q, e) \in Seq(Lines) /\ Ended(q, e) # <<>>
  <2>1. Ended(q, e) \in Seq(Lines) /\ Len(Ended(q, e)) = Len(q) /\ Len(q) >= 1
    BY <1>1, <1>2, EndedIs
  <2> QED BY <2>1
<1>6. <<>> \in Lines
  BY NoRows
<1>7. Append(Ended(rows, e), <<>>) = a \o Append(Ended(q, e), <<>>)
  <2> DEFINE u == Ended(q, e)
  <2> HIDE DEF u
  <2>1. Append(a \o u, <<>>) = a \o Append(u, <<>>)
    BY <1>5, <1>6, Above DEF u
  <2> QED BY <1>4, <2>1 DEF u
<1>8. Shown(s, rows)
  BY DEF q
<1> HIDE DEF rows
<1>9. s.x = Rest(l)
  BY <1>1, <1>4, <1>8 DEF Shown
<1> DEFINE t == Advanced(s, c)
<1>10. Shown(t, Ended(rows, e))
  <2>1. Shown(t, Ended(rows, Append(Last(rows), c)))
    BY <1>4, <1>8, ShownAdvanced
  <2> QED BY <1>2, <1>4, <2>1
<1>11. t \in Wide /\ Put(s, c) = IF s.x + 1 < Cols THEN t ELSE NewLine(t)
  BY PutParts
<1> HIDE DEF t
<1>12. CASE Rest(l) + 1 < Cols
  BY <1>3, <1>4, <1>9, <1>10, <1>11, <1>12 DEF q, e
<1>13. CASE ~(Rest(l) + 1 < Cols)
  <2> DEFINE v == Ended(rows, e)
  <2>1. v \in Seq(Lines) /\ v # <<>>
    <3>1. v \in Seq(Lines) /\ Len(v) = Len(rows) /\ Len(rows) >= 1
      BY <1>2, <1>4, EndedIs
    <3> QED BY <3>1
  <2> HIDE DEF v
  <2>2. Shown(NewLine(t), Append(v, <<>>))
    BY <1>10, <1>11, <2>1, ShownNewLine DEF v
  <2> QED BY <1>3, <1>7, <1>9, <1>11, <1>13, <2>2 DEF v, q, e
<1> QED BY <1>9, <1>12, <1>13

LEMMA ShownBack ==
  ASSUME NEW s \in Screens, NEW a \in Seq(Lines), NEW l \in Lines, Rest(l) # 0,
         Shown(s, a \o RowsOf(l))
  PROVE  Shown(Erase(s), a \o RowsOf(SubSeq(l, 1, Len(l) - 1)))
<1> DEFINE k == SubSeq(l, 1, Len(l) - 1)
           c == l[Len(l)]
           q == RowsOf(k)
           e == Longer(k, c)
           rows == a \o q
<1>1. k \in Lines /\ Rest(k) + 1 < Cols /\ c \in Chars /\ l = Append(k, c)
  BY LastErased
<1> HIDE DEF k, c
<1>2. q \in Seq(Lines) /\ q # <<>>
  BY <1>1, RowsType
<1>3. e \in Lines /\ e = Append(Last(q), c)
  BY <1>1, LongerIs DEF Longer
<1>4. RowsOf(l) = Ended(q, e)
  BY <1>1, RowsGrow
<1> HIDE DEF q, e
<1>5. /\ rows \in Seq(Lines) /\ rows # <<>> /\ Last(rows) = Last(q)
      /\ Ended(rows, e) = a \o Ended(q, e)
  BY <1>2, <1>3, Above
<1> HIDE DEF rows
<1>6. Shown(s, Ended(rows, Append(Last(rows), c)))
  BY <1>3, <1>4, <1>5
<1>7. Shown(Erase(s), rows)
  BY <1>1, <1>5, <1>6, ShownErased
<1> QED BY <1>7 DEF rows, q, k

\* Rows that are above the screen.
LEMMA ShownWithout ==
  ASSUME NEW s, NEW a \in Seq(Lines), NEW b \in Seq(Lines), NEW d \in Seq(Lines), d # <<>>,
         Len(d) >= Rows, Shown(s, a \o d)
  PROVE  Shown(s, b \o d)
<1>1. /\ a \o d \in Seq(Lines) /\ Len(a \o d) = Len(a) + Len(d) /\ Len(a) \in Nat
      /\ \A i \in 1 .. Len(d) : (a \o d)[Len(a) + i] = d[i]
  BY Above
<1>2. /\ b \o d \in Seq(Lines) /\ Len(b \o d) = Len(b) + Len(d) /\ Len(b) \in Nat
      /\ \A i \in 1 .. Len(d) : (b \o d)[Len(b) + i] = d[i]
  BY Above
<1> DEFINE u == a \o d
           v == b \o d
           m == Len(a)
           n == Len(b)
           k == Len(d)
<1>3. k \in Nat /\ k >= Rows
  OBVIOUS
<1> HIDE DEF u, v, m, n, k
<1>4. ASSUME NEW i \in 1 .. Rows PROVE u[Len(u) - Rows + i] = v[Len(v) - Rows + i]
  <2>1. k - Rows + i \in 1 .. k
    BY <1>3
  <2>2. Len(u) - Rows + i = m + (k - Rows + i) /\ Len(v) - Rows + i = n + (k - Rows + i)
    BY <1>1, <1>2, <1>3 DEF u, v, m, n, k
  <2>3. u[m + (k - Rows + i)] = d[k - Rows + i]
    BY <1>1, <2>1 DEF u, m, k
  <2>4. v[n + (k - Rows + i)] = d[k - Rows + i]
    BY <1>2, <2>1 DEF v, n, k
  <2> QED BY <2>2, <2>3, <2>4
<1>5. u \in Seq(Lines) /\ v \in Seq(Lines) /\ Len(u) >= Rows /\ Len(v) >= Rows /\ Shown(s, u)
  BY <1>1, <1>2, <1>3 DEF u, v, m, n, k
<1>6. Shown(s, v)
  BY <1>4, <1>5, ShownEnd
<1> QED BY <1>6 DEF v

LEMMA LaidLast ==
  ASSUME NEW t \in Seq(Lines), t # <<>>
  PROVE  Laid(t) = Laid(Front(t)) \o RowsOf(Last(t)) /\ Laid(Front(t)) \in Seq(Lines)
<1> DEFINE f == Front(t)
           l == Last(t)
<1>1. f \in Seq(Lines) /\ l \in Lines /\ t = Append(f, l)
  <2>1. <<>> \in Lines
    BY NoRows
  <2> QED BY <2>1, FrontAndLast
<1> HIDE DEF f, l
<1>2. Laid(Append(f, l)) = Laid(f) \o RowsOf(l) /\ Laid(f) \in Seq(Lines)
  BY <1>1, LaidAppend, LaidType
<1> QED BY <1>1, <1>2 DEF f, l

\* A line that has filled the screen loses a row that is no longer shown.
LEMMA ShownShortened ==
  ASSUME NEW s, NEW a \in Seq(Lines), NEW l \in Lines, Shown(s, a \o RowsOf(l))
  PROVE  Shortened(l) \in Lines /\ Shown(s, a \o RowsOf(Shortened(l)))
<1>1. CASE ~(Len(l) > Rows * Cols)
  BY <1>1 DEF Shortened
<1>2. CASE Len(l) > Rows * Cols
  <2> DEFINE q == RowsOf(l)
             k == SubSeq(l, Cols + 1, Len(l))
  <2>1. Full(l) \in Nat /\ Full(l) >= Rows
    <3>1. /\ Full(l) \in Nat /\ Rest(l) \in Col /\ Full(l) * Cols \in Nat
          /\ Len(l) = Full(l) * Cols + Rest(l)
      BY FullAndRest
    <3>2. ASSUME Full(l) + 1 <= Rows PROVE FALSE
      <4>1. (Full(l) + 1) * Cols = Full(l) * Cols + Cols
        BY <3>1, Multiples
      <4>2. (Full(l) + 1) * Cols <= Rows * Cols /\ Rows * Cols \in Nat
        BY <3>1, <3>2, Multiples
      <4> QED BY <1>2, <3>1, <4>1, <4>2 DEF Col
    <3> QED BY <3>1, <3>2
  <2>2. k \in Lines /\ RowsOf(k) = Tail(q) /\ Shortened(l) = k
    <3>1. Full(l) >= 1
      BY <2>1
    <3>2. Shortened(l) = k
      BY <1>2 DEF Shortened
    <3> QED BY <3>1, <3>2, ShortenedIs
  <2>3. q \in Seq(Lines) /\ Len(q) = Full(l) + 1 /\ q # <<>>
    BY RowsType
  <2> HIDE DEF q, k
  <2> DEFINE d == Tail(q)
             p == << q[1] >>
  <2>4. /\ d \in Seq(Lines) /\ Len(d) = Len(q) - 1 /\ q[1] \in Lines
        /\ \A i \in 1 .. Len(d) : d[i] = q[i + 1]
    <3>1. 1 \in 1 .. Len(q)
      BY <2>1, <2>3
    <3>2. q[1] \in Lines
      BY <2>3, <3>1
    <3> QED BY <2>3, <3>2, HeadTailProperties
  <2> HIDE DEF d
  <2>5. d # <<>> /\ Len(d) >= Rows
    <3>1. Len(d) = Full(l)
      BY <2>1, <2>3, <2>4
    <3> QED BY <2>1, <3>1
  <2>6. p \in Seq(Lines) /\ Len(p) = 1 /\ p[1] = q[1]
    BY <2>4
  <2> HIDE DEF p
  <2>7. q = p \o d
    <3>1. /\ p \o d \in Seq(Lines) /\ Len(p \o d) = 1 + Len(d)
          /\ \A i \in 1 .. 1 + Len(d) : (p \o d)[i] = IF i <= 1 THEN p[i] ELSE d[i - 1]
      <4>1. /\ p \o d \in Seq(Lines) /\ Len(p \o d) = Len(p) + Len(d)
            /\ \A i \in 1 .. Len(p) + Len(d) : (p \o d)[i] = IF i <= Len(p) THEN p[i] ELSE d[i - Len(p)]
        BY <2>4, <2>6, ConcatProperties
      <4> DEFINE v == p \o d
      <4> HIDE DEF v
      <4>2. /\ v \in Seq(Lines) /\ Len(v) = 1 + Len(d)
            /\ \A i \in 1 .. 1 + Len(d) : v[i] = IF i <= 1 THEN p[i] ELSE d[i - 1]
        BY <2>6, <4>1 DEF v
      <4> QED BY <4>2 DEF v
    <3>2. Len(q) = 1 + Len(d) /\ Len(d) \in Nat
      BY <2>1, <2>3, <2>4
    <3> DEFINE v == p \o d
    <3> HIDE DEF v
    <3>3. v \in Seq(Lines) /\ Len(v) = Len(q)
          /\ \A i \in 1 .. Len(q) : v[i] = IF i <= 1 THEN p[i] ELSE d[i - 1]
      BY <3>1, <3>2 DEF v
    <3>4. ASSUME NEW i \in 1 .. Len(q) PROVE q[i] = v[i]
      <4>1. CASE i = 1
        BY <2>6, <3>3, <4>1
      <4>2. CASE i # 1
        <5>1. i - 1 \in 1 .. Len(d) /\ ~(i <= 1) /\ (i - 1) + 1 = i
          BY <3>2, <4>2
        <5> QED BY <2>4, <3>3, <5>1
      <4> QED BY <4>1, <4>2
    <3>5. q = v
      BY <2>3, <3>3, <3>4, SeqEqual
    <3> QED BY <3>5 DEF v
  <2>8. a \o q = (a \o p) \o d
    <3>1. \A x, y, z \in Seq(Lines) : (x \o y) \o z = x \o (y \o z)
      BY ConcatAssociative
    <3> QED BY <2>4, <2>6, <2>7, <3>1
  <2>9. a \o p \in Seq(Lines)
    BY <2>6, ConcatProperties
  <2> DEFINE b == a \o p
  <2> HIDE DEF b
  <2>10. b \in Seq(Lines) /\ Shown(s, b \o d)
    BY <2>8, <2>9 DEF b, q
  <2>11. Shown(s, a \o d)
    BY <2>4, <2>5, <2>10, ShownWithout
  <2> QED BY <2>2, <2>11 DEF d
<1> QED BY <1>1, <1>2

\* A line that has left the history is no longer shown.
LEMMA ShownRecent ==
  ASSUME NEW s, NEW t \in Seq(Lines), t # <<>>, Shown(s, Laid(t))
  PROVE  Recent(t) \in Seq(Lines) /\ Recent(t) # <<>> /\ Shown(s, Laid(Recent(t)))
<1>1. CASE ~(Len(t) > Rows)
  BY <1>1 DEF Recent
<1>2. CASE Len(t) > Rows
  <2> DEFINE u == Tail(t)
             d == Laid(u)
             a == RowsOf(t[1])
  <2>1. u \in Seq(Lines) /\ Len(u) = Len(t) - 1 /\ Len(t) \in Nat /\ t[1] \in Lines
    BY <1>2
  <2>2. Recent(t) = u
    BY <1>2 DEF Recent
  <2>3. Laid(t) = a \o d
    BY LaidTail
  <2>4. a \in Seq(Lines)
    BY <2>1, RowsType
  <2> HIDE DEF u, a
  <2>5. u # <<>> /\ Len(u) >= Rows
    BY <1>2, <2>1
  <2>6. d \in Seq(Lines) /\ Len(d) >= Rows /\ Len(d) \in Nat
    <3>1. d \in Seq(Lines) /\ Len(d) >= Len(u) /\ Len(d) \in Nat
      BY <2>1, LaidType
    <3>2. Len(u) \in Nat
      BY <2>1
    <3> HIDE DEF d
    <3> QED BY <2>5, <3>1, <3>2
  <2> HIDE DEF d
  <2>7. d # <<>>
    BY <2>6
  <2> DEFINE none == <<>>
  <2>8. none \in Seq(Lines) /\ none \o d = d
    BY <2>6, ConcatEmptySeq
  <2> HIDE DEF none
  <2>9. Shown(s, none \o d)
    BY <2>3, <2>4, <2>6, <2>7, <2>8, ShownWithout
  <2> QED BY <2>1, <2>2, <2>5, <2>8, <2>9 DEF d
<1> QED BY <1>1, <1>2

LEMMA ShownPrinted ==
  ASSUME NEW s \in Screens, NEW t \in Seq(Lines), t # <<>>, NEW c \in Chars, Shown(s, Laid(t))
  PROVE  /\ Printed(t, c) \in Seq(Lines) /\ Printed(t, c) # <<>>
         /\ Shown(OnScreen(s, c), Laid(Printed(t, c)))
         /\ s.x = Len(Last(t)) % Cols
<1> DEFINE f == Front(t)
           l == Last(t)
           a == Laid(f)
<1>1. /\ f \in Seq(Lines) /\ l \in Lines /\ a \in Seq(Lines) /\ Shown(s, a \o RowsOf(l))
  <2>1. <<>> \in Lines
    BY NoRows
  <2> QED BY <2>1, FrontAndLast, LaidLast
<1>2. ASSUME NEW k \in Lines
      PROVE  /\ [t EXCEPT ![Len(t)] = k] \in Seq(Lines) /\ [t EXCEPT ![Len(t)] = k] # <<>>
             /\ Laid([t EXCEPT ![Len(t)] = k]) = a \o RowsOf(k)
  <2>1. /\ [t EXCEPT ![Len(t)] = k] = Append(f, k)
        /\ [t EXCEPT ![Len(t)] = k] \in Seq(Lines) /\ [t EXCEPT ![Len(t)] = k] # <<>>
    BY FrontAndLast
  <2>2. Laid(Append(f, k)) = a \o RowsOf(k)
    BY <1>1, LaidAppend
  <2> QED BY <2>1, <2>2
<1> HIDE DEF f, a
<1>3. s.x = Rest(l)
  <2>1. RowsOf(l) \in Seq(Lines) /\ RowsOf(l) # <<>> /\ Len(Last(RowsOf(l))) = Rest(l)
    BY <1>1, RowsType, LastOfRows
  <2>2. Last(a \o RowsOf(l)) = Last(RowsOf(l))
    BY <1>1, <2>1, Above
  <2> QED BY <1>1, <2>1, <2>2 DEF Shown
<1>4. CASE c = "LF"
  <2> DEFINE u == Append(t, <<>>)
  <2>1. OnScreen(s, c) = NewLine(s) /\ Printed(t, c) = Recent(u)
    BY <1>4 DEF OnScreen, Printed
  <2>2. u \in Seq(Lines) /\ u # <<>> /\ Laid(u) = Laid(t) \o << <<>> >>
    <3>1. <<>> \in Lines /\ RowsOf(<<>>) = << <<>> >>
      BY NoRows
    <3>2. Laid(u) = Laid(t) \o RowsOf(<<>>)
      BY <3>1, LaidAppend
    <3>3. u \in Seq(Lines) /\ Len(u) = Len(t) + 1 /\ Len(t) \in Nat
      BY <3>1, AppendProperties
    <3>4. u # <<>>
      <4> HIDE DEF u
      <4> QED BY <3>3
    <3> QED BY <3>1, <3>2, <3>3, <3>4
  <2>3. Laid(t) \in Seq(Lines) /\ Laid(t) # <<>>
    <3>1. Laid(t) \in Seq(Lines) /\ Len(Laid(t)) >= Len(t) /\ Len(t) \in Nat /\ Len(t) >= 1
      BY LaidType
    <3> QED BY <3>1
  <2>4. Laid(t) \o << <<>> >> = Append(Laid(t), <<>>)
    <3> DEFINE w == Laid(t)
    <3>1. w \in Seq(Lines) /\ <<>> \in Lines
      BY <2>3, NoRows
    <3> HIDE DEF w
    <3>2. w \o << <<>> >> = Append(w, <<>>)
      BY <3>1, AppendIsConcat
    <3> QED BY <3>2 DEF w
  <2>5. s \in Wide
    BY ScreensAreWide
  <2>6. Shown(NewLine(s), Laid(u))
    BY <2>2, <2>3, <2>4, <2>5, ShownNewLine
  <2> HIDE DEF u
  <2>7. /\ Recent(u) \in Seq(Lines) /\ Recent(u) # <<>> /\ Shown(NewLine(s), Laid(Recent(u)))
    BY <2>2, <2>6, ShownRecent
  <2> QED BY <1>3, <2>1, <2>7 DEF Rest
<1>5. CASE c = "CR"
  <2>1. OnScreen(s, c) = s /\ Printed(t, c) = t
    BY <1>5 DEF OnScreen, Printed
  <2> QED BY <1>3, <2>1 DEF Rest
<1>6. CASE c = "BS" /\ Rest(l) = 0
  <2>1. OnScreen(s, c) = s /\ Printed(t, c) = t
    BY <1>3, <1>6 DEF OnScreen, Erase, Printed, Rest
  <2> QED BY <1>3, <2>1 DEF Rest
<1>7. CASE c = "BS" /\ Rest(l) # 0
  <2> DEFINE k == SubSeq(l, 1, Len(l) - 1)
  <2>1. OnScreen(s, c) = Erase(s) /\ Printed(t, c) = [t EXCEPT ![Len(t)] = k]
    BY <1>7 DEF OnScreen, Printed, Rest
  <2>2. k \in Lines
    BY <1>1, <1>7, LastErased
  <2>3. Shown(Erase(s), a \o RowsOf(k))
    BY <1>1, <1>7, ShownBack
  <2> HIDE DEF k
  <2> QED BY <1>2, <1>3, <2>1, <2>2, <2>3 DEF Rest
<1>8. CASE c \notin {"LF", "CR", "BS"}
  <2> DEFINE k == Shortened(Append(l, c))
  <2>1. OnScreen(s, c) = Put(s, c) /\ Printed(t, c) = [t EXCEPT ![Len(t)] = k]
    BY <1>8 DEF OnScreen, Printed
  <2>2. Append(l, c) \in Lines /\ Shown(Put(s, c), a \o RowsOf(Append(l, c)))
    BY <1>1, LongerIs, ShownPut
  <2>3. k \in Lines /\ Shown(Put(s, c), a \o RowsOf(k))
    BY <1>1, <2>2, ShownShortened
  <2> HIDE DEF k
  <2> QED BY <1>2, <1>3, <2>1, <2>3 DEF Rest
<1> QED BY <1>4, <1>5, <1>6, <1>7, <1>8

LEMMA ShownEmpty ==
  ASSUME NEW color
  PROVE  Shown(Empty(color), Laid(<< <<>> >>))
<1> DEFINE t == << <<>> >>
           none == <<>>
<1>1. none \in Seq(Lines) /\ <<>> \in Lines /\ t = Append(none, <<>>)
  BY NoRows
<1>2. Laid(Append(none, <<>>)) = Laid(none) \o RowsOf(<<>>)
  BY <1>1, LaidAppend
<1>3. Laid(none) = <<>>
  <2>1. Len(Blocks(none)) = 0 /\ Blocks(none) \in Seq(Seq(Lines))
    BY <1>1, BlocksAre
  <2>2. Blocks(none) = <<>>
    BY <2>1
  <2> QED BY <2>2 DEF Laid, FlattenSeq
<1>4. RowsOf(<<>>) = t
  BY NoRows
<1>5. Laid(t) = t
  <2>1. t \in Seq(Lines)
    BY <1>1
  <2>2. <<>> \o t = t
    BY <2>1, ConcatEmptySeq
  <2> QED BY <1>1, <1>2, <1>3, <1>4, <2>2
<1>6. Len(t) = 1 /\ t[1] = <<>> /\ Last(t) = <<>> /\ Len(<<>>) = 0
  BY DEF Last
<1> HIDE DEF t
<1>7. Hidden(t) = 0
  BY <1>6 DEF Hidden
<1>8. ASSUME NEW r \in Row, NEW c \in Col PROVE CharAt(t, r, c) = Blank
  <2>1. r \in Nat /\ c \in Nat
    BY DEF Row, Col
  <2>2. r + 1 <= 1 => r + 1 = 1 /\ ~(c + 1 <= Len(t[1]))
    BY <1>6, <2>1
  <2>3. CharAt(t, r, c) = IF r + 1 <= 1 /\ c + 1 <= Len(t[r + 1]) THEN t[r + 1][c + 1] ELSE Blank
    BY <1>6, <1>7, <2>1 DEF CharAt
  <2> QED BY <2>2, <2>3
<1>9. Shown(Empty(color), t)
  BY <1>6, <1>7, <1>8 DEF Shown, Empty, Grid
<1> QED BY <1>5, <1>9 DEF t

LEMMA ShownIsScreenShowsText ==
  ASSUME screen \in Screens, text \in Seq(Lines), text # <<>>, Shown(screen, Laid(text))
  PROVE  ScreenShowsText
<1> DEFINE shown == Laid(text)
<1>1. Layout = shown
  BY DEF Layout, Laid, Blocks
<1>2. Len(shown) \in Nat
  BY LaidType
<1> HIDE DEF shown
<1>3. Max({0, Len(shown) - Rows}) = Hidden(shown)
  <2>1. 0 \in Int /\ Len(shown) - Rows \in Int
    BY <1>2
  <2>2. Max({0, Len(shown) - Rows}) = IF 0 >= Len(shown) - Rows THEN 0 ELSE Len(shown) - Rows
    BY <2>1, MaxOfTwo
  <2>3. Hidden(shown) = IF Len(shown) > Rows THEN Len(shown) - Rows ELSE 0
    BY DEF Hidden
  <2> QED BY <1>2, <2>2, <2>3
<1>4. Shown(screen, shown)
  BY DEF shown
<1>5. screen.cells = [r \in Row |-> [c \in Col |-> CharAt(shown, r, c)]]
  <2>1. screen.cells \in [Row -> [Col -> Chars]]
    BY DEF Screens
  <2>2. \A r \in Row, c \in Col : screen.cells[r][c] = CharAt(shown, r, c)
    BY <1>4 DEF Shown
  <2>3. screen.cells = [r \in Row |-> [c \in Col |-> screen.cells[r][c]]]
    BY <2>1
  <2> QED BY <2>2, <2>3
<1>6. /\ screen.y = Len(shown) - Hidden(shown) - 1
      /\ screen.x = Len(Last(shown))
  BY <1>4 DEF Shown
<1> QED BY <1>1, <1>3, <1>5, <1>6 DEF ScreenShowsText, CharAt

-----------------------------------------------------------------------------
(* The end of the text. *)

Ends(s, t) == Len(s) <= Len(t) /\ \A i \in 1 .. Len(s) : t[Len(t) - Len(s) + i] = s[i]

LEMMA EndsIsSuffix ==
  ASSUME NEW s \in Lines, NEW t \in Lines, Ends(s, t)
  PROVE  IsSuffix(s, t)
<1> DEFINE n == Len(s)
           m == Len(t)
           u == Reverse(s)
           v == Reverse(t)
<1>1. n \in Nat /\ m \in Nat /\ n <= m
  BY DEF Lines, Ends
<1>2. s \in Seq(Chars) /\ t \in Seq(Chars)
  BY DEF Lines
<1>3. u = [i \in 1 .. n |-> s[n - i + 1]] /\ v = [i \in 1 .. m |-> t[m - i + 1]]
  BY DEF Reverse
<1>4. /\ u \in Seq(Chars) /\ Len(u) = n /\ v \in Seq(Chars) /\ Len(v) = m
  <2>1. \A i \in 1 .. n : s[n - i + 1] \in Chars
    BY <1>1, <1>2
  <2>2. \A i \in 1 .. m : t[m - i + 1] \in Chars
    BY <1>1, <1>2
  <2> QED BY <1>1, <1>3, <2>1, <2>2
<1>5. ASSUME NEW i \in 1 .. n PROVE u[i] = v[i]
  <2>1. n - i + 1 \in 1 .. n /\ m - n + (n - i + 1) = m - i + 1
    BY <1>1
  <2>2. t[m - n + (n - i + 1)] = s[n - i + 1]
    BY <2>1 DEF Ends
  <2>3. i \in 1 .. m
    BY <1>1
  <2> QED BY <1>3, <2>1, <2>2, <2>3
<1> HIDE DEF u, v
<1>6. SubSeq(u, 1, n) = SubSeq(v, 1, n)
  BY <1>1, <1>4, <1>5
<1>7. IsPrefix(u, v)
  BY <1>1, <1>4, <1>6 DEF IsPrefix
<1> QED BY <1>7 DEF IsSuffix, u, v

\* A concatenation, element by element.
LEMMA Concat ==
  ASSUME NEW k \in Lines, NEW p \in Lines
  PROVE  /\ k \o p \in Lines /\ Len(k \o p) = Len(k) + Len(p)
         /\ Len(k) \in Nat /\ Len(p) \in Nat
         /\ \A i \in 1 .. Len(k) : (k \o p)[i] = k[i]
         /\ \A i \in 1 .. Len(p) : (k \o p)[Len(k) + i] = p[i]
<1>1. k \in Seq(Chars) /\ p \in Seq(Chars) /\ Len(k) \in Nat /\ Len(p) \in Nat
  BY DEF Lines
<1>2. k \o p \in Seq(Chars) /\ Len(k \o p) = Len(k) + Len(p)
  BY <1>1
<1>3. \A i \in 1 .. Len(k) : (k \o p)[i] = k[i]
  BY <1>1
<1>4. \A i \in 1 .. Len(p) : (k \o p)[Len(k) + i] = p[i]
  BY <1>1
<1> QED BY <1>1, <1>2, <1>3, <1>4 DEF Lines

\* What a long line loses at its front is not its end.
LEMMA EndsShortened ==
  ASSUME NEW s \in Lines, NEW k \in Lines, NEW p \in Lines,
         Len(s) <= (Rows - 1) * Cols + 1, Ends(s, k \o p)
  PROVE  Ends(s, Shortened(k) \o p)
<1> DEFINE n == Len(k)
           q == SubSeq(k, Cols + 1, n)
<1>1. CASE ~(n > Rows * Cols)
  BY <1>1 DEF Shortened
<1>2. CASE n > Rows * Cols
  <2>1. k \in Seq(Chars) /\ n \in Nat /\ Len(p) \in Nat /\ Len(s) \in Nat
    BY DEF Lines
  <2>2. Rows - 1 \in Nat /\ (Rows - 1) * Cols \in Nat /\ Rows * Cols \in Nat
        /\ Rows * Cols = (Rows - 1) * Cols + Cols
    <3>1. Rows - 1 \in Nat /\ (Rows - 1) + 1 = Rows
      OBVIOUS
    <3>2. (Rows - 1) * Cols \in Nat /\ ((Rows - 1) + 1) * Cols = (Rows - 1) * Cols + Cols
      BY <3>1, Multiples
    <3> QED BY <3>1, <3>2
  <2>3. Cols \in Nat /\ Cols < n
    BY <1>2, <2>1, <2>2
  <2>4. q \in Seq(Chars) /\ Len(q) = n - Cols /\ \A i \in 1 .. n - Cols : q[i] = k[Cols + i]
    BY <2>1, <2>3
  <2>5. q \in Lines
    BY <2>4 DEF Lines
  <2>6. Shortened(k) = q
    BY <1>2 DEF Shortened
  <2> DEFINE L == (Rows - 1) * Cols
  <2>7. L \in Nat /\ n - Cols >= L + 1 /\ Len(s) <= L + 1
    BY <1>2, <2>1, <2>2, <2>3
  <2> HIDE DEF n, q, L
  <2>8. /\ Len(q \o p) = n - Cols + Len(p) /\ Len(k \o p) = n + Len(p)
        /\ \A i \in 1 .. n - Cols : (q \o p)[i] = q[i]
        /\ \A i \in 1 .. Len(p) : (q \o p)[n - Cols + i] = p[i]
        /\ \A i \in 1 .. n : (k \o p)[i] = k[i]
        /\ \A i \in 1 .. Len(p) : (k \o p)[n + i] = p[i]
    <3>1. /\ Len(q \o p) = Len(q) + Len(p)
          /\ \A i \in 1 .. Len(q) : (q \o p)[i] = q[i]
          /\ \A i \in 1 .. Len(p) : (q \o p)[Len(q) + i] = p[i]
      BY <2>5, Concat
    <3>2. /\ Len(k \o p) = Len(k) + Len(p)
          /\ \A i \in 1 .. Len(k) : (k \o p)[i] = k[i]
          /\ \A i \in 1 .. Len(p) : (k \o p)[Len(k) + i] = p[i]
      BY Concat
    <3>3. Len(q) = n - Cols
      BY <2>4
    <3>4. Len(k) = n
      BY DEF n
    <3>5. /\ Len(q \o p) = n - Cols + Len(p)
          /\ \A i \in 1 .. n - Cols : (q \o p)[i] = q[i]
          /\ \A i \in 1 .. Len(p) : (q \o p)[n - Cols + i] = p[i]
      BY <3>1, <3>3
    <3>6. /\ Len(k \o p) = n + Len(p)
          /\ \A i \in 1 .. n : (k \o p)[i] = k[i]
          /\ \A i \in 1 .. Len(p) : (k \o p)[n + i] = p[i]
      BY <3>2, <3>4
    <3> QED BY <3>5, <3>6
  <2>9. ASSUME NEW j \in 1 .. n - Cols + Len(p) PROVE (q \o p)[j] = (k \o p)[j + Cols]
    <3>1. CASE j <= n - Cols
      <4>1. j \in 1 .. n - Cols /\ Cols + j \in 1 .. n /\ j + Cols = Cols + j
        BY <2>1, <2>3, <3>1
      <4> QED BY <2>4, <2>8, <4>1
    <3>2. CASE ~(j <= n - Cols)
      <4> DEFINE i == j - (n - Cols)
      <4>1. i \in 1 .. Len(p) /\ j = n - Cols + i /\ j + Cols = n + i
        BY <2>1, <2>3, <3>2
      <4> HIDE DEF i
      <4> QED BY <2>8, <4>1
    <3> QED BY <3>1, <3>2
  <2>10. ASSUME NEW i \in 1 .. Len(s)
         PROVE  (q \o p)[Len(q \o p) - Len(s) + i] = s[i]
    <3> DEFINE j == n - Cols + Len(p) - Len(s) + i
    <3>1. j \in 1 .. n - Cols + Len(p) /\ j + Cols = n + Len(p) - Len(s) + i
      BY <2>1, <2>3, <2>7
    <3>2. (k \o p)[n + Len(p) - Len(s) + i] = s[i]
      <4> DEFINE d == k \o p
      <4>1. d[Len(d) - Len(s) + i] = s[i]
        BY DEF Ends
      <4>2. Len(d) = n + Len(p)
        BY <2>8
      <4> HIDE DEF d
      <4>3. d[n + Len(p) - Len(s) + i] = s[i]
        BY <4>1, <4>2, <2>1
      <4> QED BY <4>3 DEF d
    <3>3. j = Len(q \o p) - Len(s) + i
      <4> DEFINE d == q \o p
      <4>1. Len(d) = n - Cols + Len(p)
        BY <2>8
      <4> HIDE DEF d
      <4>2. j = Len(d) - Len(s) + i
        BY <4>1, <2>1
      <4> QED BY <4>2 DEF d
    <3> HIDE DEF j
    <3> QED BY <2>9, <3>1, <3>2, <3>3
  <2>11. Len(s) <= Len(q \o p)
    BY <2>1, <2>3, <2>7, <2>8
  <2> QED BY <2>6, <2>10, <2>11 DEF Ends
<1> QED BY <1>1, <1>2

\* A character still to print is of the end, or does not matter to it.
LEMMA EndsMoved ==
  ASSUME NEW s \in Lines, NEW l \in Lines, NEW p \in Lines, p # <<>>, Ends(s, l \o p)
  PROVE  /\ Head(p) \in Chars /\ Tail(p) \in Lines /\ Append(l, Head(p)) \in Lines
         /\ Len(p) > Len(s) => \A k \in Lines : Ends(s, k \o Tail(p))
         /\ Len(p) <= Len(s) => /\ \E i \in DOMAIN s : Head(p) = s[i]
                                /\ Ends(s, Append(l, Head(p)) \o Tail(p))
<1> DEFINE n == Len(s)
           m == Len(l)
           c == Head(p)
           r == Tail(p)
<1>1. /\ s \in Seq(Chars) /\ l \in Seq(Chars) /\ p \in Seq(Chars)
      /\ n \in Nat /\ m \in Nat /\ Len(p) \in Nat /\ Len(p) >= 1
  BY DEF Lines
<1>2. /\ c \in Chars /\ c = p[1] /\ r \in Seq(Chars) /\ Len(r) = Len(p) - 1
      /\ \A i \in 1 .. Len(p) - 1 : r[i] = p[i + 1]
  BY <1>1
<1>3. Append(l, c) \in Seq(Chars) /\ Len(Append(l, c)) = m + 1
      /\ Append(l, c)[m + 1] = c /\ \A i \in 1 .. m : Append(l, c)[i] = l[i]
  BY <1>1, <1>2
<1>4. r \in Lines /\ Append(l, c) \in Lines
  BY <1>2, <1>3 DEF Lines
<1> HIDE DEF n, m, c, r
<1>5. /\ Len(l \o p) = m + Len(p)
      /\ \A i \in 1 .. m : (l \o p)[i] = l[i]
      /\ \A i \in 1 .. Len(p) : (l \o p)[m + i] = p[i]
  BY Concat DEF m
<1>6. n <= m + Len(p) /\ \A i \in 1 .. n : (l \o p)[m + Len(p) - n + i] = s[i]
  <2> DEFINE d == l \o p
  <2>1. Len(s) <= Len(d) /\ \A i \in 1 .. Len(s) : d[Len(d) - Len(s) + i] = s[i]
    BY DEF Ends
  <2>2. Len(d) = m + Len(p) /\ Len(s) = n
    BY <1>5 DEF n
  <2> HIDE DEF d
  <2>3. n <= m + Len(p) /\ \A i \in 1 .. n : d[m + Len(p) - n + i] = s[i]
    BY <1>1, <2>1, <2>2
  <2> QED BY <2>3 DEF d
<1>7. ASSUME Len(p) > n, NEW k \in Lines PROVE Ends(s, k \o r)
  <2>1. /\ Len(k \o r) = Len(k) + Len(p) - 1 /\ Len(k) \in Nat
        /\ \A i \in 1 .. Len(p) - 1 : (k \o r)[Len(k) + i] = r[i]
    <3>1. Len(k \o r) = Len(k) + Len(r) /\ Len(k) \in Nat
          /\ \A i \in 1 .. Len(r) : (k \o r)[Len(k) + i] = r[i]
      BY <1>4, Concat
    <3> QED BY <1>1, <1>2, <3>1
  <2>2. ASSUME NEW i \in 1 .. n PROVE (k \o r)[Len(k) + Len(p) - 1 - n + i] = s[i]
    <3> DEFINE j == Len(p) - 1 - n + i
    <3>1. j \in 1 .. Len(p) - 1 /\ j + 1 \in 1 .. Len(p)
          /\ Len(k) + Len(p) - 1 - n + i = Len(k) + j /\ m + Len(p) - n + i = m + (j + 1)
      BY <1>1, <1>7, <2>1
    <3> HIDE DEF j
    <3>2. (k \o r)[Len(k) + j] = p[j + 1]
      BY <1>2, <2>1, <3>1
    <3>3. p[j + 1] = s[i]
      BY <1>5, <1>6, <3>1
    <3> QED BY <3>1, <3>2, <3>3
  <2>3. n <= Len(k) + Len(p) - 1
    BY <1>1, <1>7, <2>1
  <2> QED BY <2>1, <2>2, <2>3 DEF Ends, n
<1>8. ASSUME Len(p) <= n PROVE \E i \in DOMAIN s : c = s[i]
  <2> DEFINE i == n - Len(p) + 1
  <2>1. i \in 1 .. n /\ m + Len(p) - n + i = m + 1 /\ 1 \in 1 .. Len(p)
    BY <1>1, <1>8
  <2>2. c = s[i]
    BY <1>2, <1>5, <1>6, <2>1
  <2>3. DOMAIN s = 1 .. n
    BY <1>1 DEF n
  <2> QED BY <2>1, <2>2, <2>3
<1>9. Append(l, c) \o r = l \o p
  <2> DEFINE a == Append(l, c)
             b == a \o r
             d == l \o p
  <2>0. a \in Lines /\ Len(a) = m + 1 /\ a[m + 1] = c /\ \A i \in 1 .. m : a[i] = l[i]
    BY <1>3, <1>4
  <2> HIDE DEF a
  <2>1. /\ b \in Lines /\ Len(b) = m + 1 + (Len(p) - 1)
        /\ \A i \in 1 .. m + 1 : b[i] = a[i]
        /\ \A i \in 1 .. Len(p) - 1 : b[m + 1 + i] = r[i]
    <3>1. /\ b \in Lines /\ Len(b) = Len(a) + Len(r)
          /\ \A i \in 1 .. Len(a) : b[i] = a[i]
          /\ \A i \in 1 .. Len(r) : b[Len(a) + i] = r[i]
      BY <1>4, <2>0, Concat
    <3>2. Len(a) = m + 1 /\ Len(r) = Len(p) - 1
      BY <1>2, <2>0
    <3> HIDE DEF b
    <3> QED BY <3>1, <3>2
  <2>2. d \in Lines /\ Len(d) = m + Len(p)
    BY <1>5, Concat
  <2>3. ASSUME NEW i \in 1 .. m + Len(p) PROVE b[i] = d[i]
    <3>1. CASE i <= m
      <4>1. i \in 1 .. m /\ i \in 1 .. m + 1
        BY <1>1, <3>1
      <4> HIDE DEF b, d
      <4>2. b[i] = a[i] /\ a[i] = l[i]
        BY <2>0, <2>1, <4>1
      <4>3. d[i] = l[i]
        BY <1>5, <4>1 DEF d
      <4> QED BY <4>2, <4>3
    <3>2. CASE i = m + 1
      <4>1. m + 1 \in 1 .. m + 1 /\ 1 \in 1 .. Len(p)
        BY <1>1
      <4>2. b[i] = c
        BY <2>0, <2>1, <3>2, <4>1
      <4>3. d[m + 1] = p[1]
        BY <1>5, <4>1
      <4> QED BY <1>2, <3>2, <4>2, <4>3
    <3>3. CASE i > m + 1
      <4> DEFINE j == i - m - 1
      <4>1. j \in 1 .. Len(p) - 1 /\ i = m + 1 + j /\ i = m + (j + 1) /\ j + 1 \in 1 .. Len(p)
        BY <1>1, <3>3
      <4> HIDE DEF j
      <4>2. b[i] = p[j + 1]
        BY <1>2, <2>1, <4>1
      <4>3. d[m + (j + 1)] = p[j + 1]
        BY <1>5, <4>1
      <4> QED BY <4>1, <4>2, <4>3
    <3>4. i \in Int /\ m \in Int
      <4>1. m + Len(p) \in Int
        BY <1>1
      <4> QED BY <1>1, <4>1
    <3>5. i <= m \/ i = m + 1 \/ i > m + 1
      BY <3>4
    <3> QED BY <3>1, <3>2, <3>3, <3>5
  <2> HIDE DEF b, d
  <2>4. b \in Seq(Chars) /\ d \in Seq(Chars) /\ Len(b) = Len(d) /\ Len(d) = m + Len(p)
    BY <1>1, <2>1, <2>2 DEF Lines
  <2>5. b = d
    BY <2>3, <2>4, SeqEqual
  <2> QED BY <2>5 DEF a, b, d
<1> QED BY <1>2, <1>4, <1>7, <1>8, <1>9 DEF n, c, r

LEMMA EndsConcat ==
  ASSUME NEW s \in Lines, NEW l \in Lines, NEW q \in Lines
  PROVE  Ends(s, l \o (q \o s))
<1> DEFINE p == q \o s
           d == l \o p
<1>1. /\ p \in Lines /\ Len(p) = Len(q) + Len(s) /\ Len(q) \in Nat /\ Len(s) \in Nat
      /\ \A i \in 1 .. Len(s) : p[Len(q) + i] = s[i]
  BY Concat
<1> HIDE DEF p
<1>2. /\ Len(d) = Len(l) + Len(p) /\ Len(l) \in Nat
      /\ \A i \in 1 .. Len(p) : d[Len(l) + i] = p[i]
  BY <1>1, Concat
<1> HIDE DEF d
<1>3. ASSUME NEW i \in 1 .. Len(s) PROVE d[Len(d) - Len(s) + i] = s[i]
  <2>1. Len(q) + i \in 1 .. Len(p) /\ Len(d) - Len(s) + i = Len(l) + (Len(q) + i)
    BY <1>1, <1>2
  <2> QED BY <1>1, <1>2, <2>1
<1>4. Len(s) <= Len(d)
  BY <1>1, <1>2
<1>5. Ends(s, d)
  BY <1>3, <1>4 DEF Ends
<1> QED BY <1>5 DEF d, p

\* A character typed, and the last one erased, on the line and on the text.
LEMMA EndsTyped ==
  ASSUME NEW a \in Lines, NEW l \in Lines, NEW c \in Chars, Ends(a, l)
  PROVE  Append(a, c) \in Lines /\ Append(l, c) \in Lines /\ Ends(Append(a, c), Append(l, c))
<1> DEFINE b == Append(a, c)
           m == Append(l, c)
<1>1. /\ a \in Seq(Chars) /\ l \in Seq(Chars) /\ Len(a) \in Nat /\ Len(l) \in Nat
      /\ Len(a) <= Len(l)
  BY DEF Lines, Ends
<1>2. /\ b \in Seq(Chars) /\ Len(b) = Len(a) + 1 /\ b[Len(a) + 1] = c
      /\ \A i \in 1 .. Len(a) : b[i] = a[i]
  BY <1>1
<1>3. /\ m \in Seq(Chars) /\ Len(m) = Len(l) + 1 /\ m[Len(l) + 1] = c
      /\ \A i \in 1 .. Len(l) : m[i] = l[i]
  BY <1>1
<1> HIDE DEF b, m
<1>4. ASSUME NEW i \in 1 .. Len(b) PROVE m[Len(m) - Len(b) + i] = b[i]
  <2>1. Len(m) - Len(b) + i = Len(l) - Len(a) + i
    BY <1>1, <1>2, <1>3
  <2>2. CASE i = Len(a) + 1
    <3>1. Len(l) - Len(a) + i = Len(l) + 1
      BY <1>1, <2>2
    <3> QED BY <1>2, <1>3, <2>1, <2>2, <3>1
  <2>3. CASE i # Len(a) + 1
    <3>1. i \in 1 .. Len(a) /\ Len(l) - Len(a) + i \in 1 .. Len(l)
      BY <1>1, <1>2, <2>3
    <3>2. l[Len(l) - Len(a) + i] = a[i]
      BY <3>1 DEF Ends
    <3> QED BY <1>2, <1>3, <2>1, <3>1, <3>2
  <2> QED BY <2>2, <2>3
<1>5. Len(b) <= Len(m)
  BY <1>1, <1>2, <1>3
<1>6. Ends(b, m)
  BY <1>4, <1>5 DEF Ends
<1> QED BY <1>2, <1>3, <1>6 DEF b, m, Lines

LEMMA WithoutLast ==
  ASSUME NEW l \in Lines, Len(l) >= 1
  PROVE  LET s == SubSeq(l, 1, Len(l) - 1)
         IN  /\ s \in Lines /\ Len(s) = Len(l) - 1 /\ \A i \in 1 .. Len(l) - 1 : s[i] = l[i]
             /\ l[Len(l)] \in Chars /\ l = Append(s, l[Len(l)])
<1> DEFINE n == Len(l)
           s == SubSeq(l, 1, n - 1)
<1>1. n \in Nat /\ n >= 1 /\ l \in Seq(Chars) /\ \A i \in 1 .. n : l[i] \in Chars
  BY DEF Lines
<1>2. s \in Lines /\ Len(s) = n - 1 /\ \A i \in 1 .. n - 1 : s[i] = l[i]
  <2> HIDE DEF n
  <2>1. 1 \in Int /\ n - 1 \in Int /\ \A i \in 1 .. n - 1 : l[i] \in Chars
    BY <1>1
  <2>2. /\ s \in Seq(Chars) /\ Len(s) = (IF 1 <= n - 1 THEN (n - 1) - 1 + 1 ELSE 0)
        /\ \A i \in 1 .. (n - 1) - 1 + 1 : s[i] = l[1 + i - 1]
    BY <2>1, SubSeqProperties
  <2> HIDE DEF s
  <2> QED BY <1>1, <2>2 DEF Lines
<1> HIDE DEF s
<1>3. l[n] \in Chars
  BY <1>1
<1> DEFINE a == Append(s, l[n])
<1>4. a \in Seq(Chars) /\ Len(a) = n /\ a[n] = l[n] /\ \A i \in 1 .. n - 1 : a[i] = s[i]
  <2>1. Len(s) + 1 = n /\ s \in Seq(Chars)
    BY <1>1, <1>2 DEF Lines
  <2> QED BY <1>2, <1>3, <2>1, AppendProperties
<1> HIDE DEF a, n
<1>5. \A i \in 1 .. n : a[i] = l[i]
  <2>1. \A i \in 1 .. n : i = n \/ i \in 1 .. n - 1
    BY <1>1
  <2> QED BY <1>2, <1>4, <2>1
<1>6. l = a
  BY <1>1, <1>4, <1>5, SeqEqual DEF n
<1> QED BY <1>2, <1>3, <1>6 DEF a, n, s

LEMMA EndsErased ==
  ASSUME NEW a \in Lines, NEW c \in Chars, NEW l \in Lines, Ends(Append(a, c), l)
  PROVE  Ends(a, SubSeq(l, 1, Len(l) - 1))
<1> DEFINE b == Append(a, c)
           m == SubSeq(l, 1, Len(l) - 1)
<1>1. /\ a \in Seq(Chars) /\ l \in Seq(Chars) /\ Len(a) \in Nat /\ Len(l) \in Nat
  BY DEF Lines
<1>2. /\ Len(b) = Len(a) + 1 /\ \A i \in 1 .. Len(a) : b[i] = a[i]
  BY <1>1
<1>3. Len(b) <= Len(l) /\ \A i \in 1 .. Len(b) : l[Len(l) - Len(b) + i] = b[i]
  BY DEF Ends
<1>4. /\ Len(m) = Len(l) - 1 /\ \A i \in 1 .. Len(l) - 1 : m[i] = l[i]
  <2>1. Len(l) >= 1
    BY <1>1, <1>2, <1>3
  <2> QED BY <2>1, WithoutLast
<1> HIDE DEF b, m
<1>5. ASSUME NEW i \in 1 .. Len(a) PROVE m[Len(m) - Len(a) + i] = a[i]
  <2>1. /\ Len(m) - Len(a) + i = Len(l) - Len(b) + i /\ i \in 1 .. Len(b)
        /\ Len(l) - Len(b) + i \in 1 .. Len(l) - 1
    BY <1>1, <1>2, <1>3, <1>4
  <2> QED BY <1>2, <1>3, <1>4, <2>1
<1>6. Len(a) <= Len(m)
  BY <1>1, <1>2, <1>3, <1>4
<1>7. Ends(a, m)
  BY <1>5, <1>6 DEF Ends
<1> QED BY <1>7 DEF m

\* Printed, on the last line.
LEMMA LastPrinted ==
  ASSUME NEW t \in Seq(Lines), t # <<>>, NEW c \in Chars
  PROVE  /\ c \notin {"LF", "CR", "BS"} => Last(Printed(t, c)) = Shortened(Append(Last(t), c))
         /\ c = "BS" /\ Len(Last(t)) % Cols # 0 =>
              Last(Printed(t, c)) = SubSeq(Last(t), 1, Len(Last(t)) - 1)
<1> DEFINE l == Last(t)
<1>1. ASSUME NEW k \in Lines PROVE Last([t EXCEPT ![Len(t)] = k]) = k
  <2>1. /\ Front(t) \in Seq(Lines) /\ [t EXCEPT ![Len(t)] = k] = Append(Front(t), k)
    BY FrontAndLast
  <2> DEFINE f == Front(t)
  <2> HIDE DEF f
  <2>2. f \in Seq(Lines)
    BY <2>1 DEF f
  <2>3. Last(Append(f, k)) = k
    BY <2>2 DEF Last
  <2> QED BY <2>1, <2>3 DEF f
<1>2. l \in Lines
  BY LastIs
<1>3. CASE c \notin {"LF", "CR", "BS"}
  <2> DEFINE k == Shortened(Append(l, c))
  <2>1. Printed(t, c) = [t EXCEPT ![Len(t)] = k]
    BY <1>3 DEF Printed
  <2>2. Append(l, c) \in Lines
    BY <1>2, LongerIs
  <2>3. k \in Lines
    <3> DEFINE j == Append(l, c)
    <3>1. j \in Seq(Chars)
      BY <2>2 DEF Lines
    <3> HIDE DEF j
    <3>2. Shortened(j) \in Seq(Chars)
      <4>1. Len(j) \in Nat
        BY <3>1
      <4>2. Len(j) > Rows * Cols => SubSeq(j, Cols + 1, Len(j)) \in Seq(Chars)
        BY <3>1, <4>1
      <4> QED BY <3>1, <4>2 DEF Shortened
    <3> QED BY <3>2 DEF j, Lines
  <2> QED BY <1>1, <1>3, <2>1, <2>3
<1>4. CASE c = "BS" /\ Len(l) % Cols # 0
  <2> DEFINE k == SubSeq(l, 1, Len(l) - 1)
  <2>1. Printed(t, c) = [t EXCEPT ![Len(t)] = k]
    BY <1>4 DEF Printed
  <2>2. k \in Lines
    BY <1>2, <1>4, LastErased DEF Rest
  <2> QED BY <1>1, <1>4, <2>1, <2>2
<1> QED BY <1>3, <1>4

-----------------------------------------------------------------------------
(* The kernel's steps on screen and terminal. *)

ScreensOK == screen \in Screens /\ term \in Screens /\ parted \in BOOLEAN
TextShown == text \in Seq(Lines) /\ text # <<>> /\ Shown(screen, Laid(text))
Shows == OneColor /\ Mirrored /\ TextShown

LEMMA PutcStep ==
  ASSUME ScreensOK, Shows, NEW c \in Chars, console_putc(c)
  PROVE  ScreensOK' /\ Shows'
<1>1. /\ screen' = OnScreen(screen, c) /\ term' = Heard(term, OnSerial(screen, c))
      /\ parted' = (parted \/ c = "BEL") /\ text' = Printed(text, c)
  BY DEF console_putc, Received
<1>2. /\ screen \in Screens /\ term \in Screens /\ parted \in BOOLEAN
      /\ screen.attrs = Grid(screen.color)
      /\ ~parted => Alike(screen, term)
  BY DEF ScreensOK, Shows, OneColor, Mirrored, Alike
<1>3. screen' \in Screens /\ screen'.color = screen.color
  BY <1>1, <1>2, OnScreenType
<1>4. term' \in Screens
  BY <1>1, <1>2, HeardType
<1>5. screen'.attrs = Grid(screen'.color)
  BY <1>1, <1>2, <1>3, OnScreenColor
<1>6. ASSUME ~parted' PROVE Alike(screen', term')
  <2>1. ~parted /\ c # "BEL"
    BY <1>1, <1>2, <1>6
  <2> QED BY <1>1, <1>2, <2>1, HeardAlike
<1>7. parted' \in BOOLEAN
  BY <1>1
<1>8. TextShown'
  <2>1. text \in Seq(Lines) /\ text # <<>> /\ Shown(screen, Laid(text))
    BY DEF Shows, TextShown
  <2>2. /\ Printed(text, c) \in Seq(Lines) /\ Printed(text, c) # <<>>
        /\ Shown(OnScreen(screen, c), Laid(Printed(text, c)))
    BY <1>2, <2>1, ShownPrinted
  <2> QED BY <1>1, <2>2 DEF TextShown
<1> QED BY <1>3, <1>4, <1>5, <1>6, <1>7, <1>8 DEF ScreensOK, Shows, OneColor, Mirrored, Alike

LEMMA NothingShown ==
  ASSUME NEW color
  PROVE  /\ << <<>> >> \in Seq(Lines) /\ << <<>> >> # <<>>
         /\ Shown(Empty(color), Laid(<< <<>> >>))
<1>1. <<>> \in Lines
  BY NoRows
<1>2. << <<>> >> \in Seq(Lines) /\ Len(<< <<>> >>) = 1 /\ Len(<<>>) = 0
  BY <1>1
<1>3. << <<>> >> # <<>>
  BY <1>2
<1> QED BY <1>2, <1>3, ShownEmpty

LEMMA ClearStep ==
  ASSUME ScreensOK, NEW color \in Colors, Clears(Empty(color))
  PROVE  ScreensOK' /\ Shows'
<1>1. /\ screen' = Empty(color) /\ term' = Heard(term, OnSerial(screen, "LF")) /\ parted' = TRUE
      /\ text' = << <<>> >>
  BY DEF Clears, Received
<1>2. screen' \in Screens
  BY <1>1, EmptyType
<1>3. term' \in Screens
  BY <1>1, HeardType, CharAssumption DEF ScreensOK
<1>4. screen'.attrs = Grid(screen'.color)
  BY <1>1 DEF Empty
<1>5. TextShown'
  BY <1>1, NothingShown DEF TextShown
<1> QED BY <1>1, <1>2, <1>3, <1>4, <1>5 DEF ScreensOK, Shows, OneColor, Mirrored

LEMMA SilentStep ==
  ASSUME ScreensOK, Shows, Silent
  PROVE  ScreensOK' /\ Shows'
BY DEF ScreensOK, Shows, OneColor, Mirrored, TextShown, Silent

-----------------------------------------------------------------------------
(* What a character does to the line and to what is printed next. *)

ReaderOK ==
  /\ mode \in {"print", "line", "pause"} /\ then \in {"line", "pause"}
  /\ pending \in Seq(Chars)
  /\ line \in Seq(Typable) /\ Len(line) < LineCap

LEMMA PrintsStep ==
  ASSUME ReaderOK, NEW chars \in Seq(Chars), NEW next \in {"line", "pause"}, Prints(chars, next)
  PROVE  ReaderOK'
BY DEF ReaderOK, Prints

LEMMA TakeStep ==
  ASSUME ScreensOK, Shows, ReaderOK, NEW c \in Chars, Take(c)
  PROVE  ScreensOK' /\ Shows' /\ ReaderOK'
<1>1. /\ Prompt \in Seq(Chars) /\ PauseText \in Seq(Chars)
      /\ \A out \in Outputs : out \o Prompt \in Seq(Chars)
      /\ "LF" \in Chars /\ "BS" \in Chars
  <2>1. Prompt \in Seq(Chars) /\ PauseText \in Seq(Chars) /\ Outputs \subseteq Seq(Chars)
    BY CharAssumption
  <2>2. "LF" \in Chars /\ "BS" \in Chars
    BY CharAssumption
  <2>3. ASSUME NEW out \in Outputs PROVE out \o Prompt \in Seq(Chars)
    BY <2>1
  <2> QED BY <2>1, <2>2, <2>3
<1>2. CASE EndLine
  <2>1. console_putc("LF")
    BY <1>2 DEF EndLine
  <2>2. ReaderOK'
    BY <1>1, <1>2, PrintsStep DEF EndLine
  <2> QED BY <1>1, <2>1, <2>2, PutcStep
<1>3. CASE EndLineAndClear
  <2>1. screen.color \in Colors
    BY DEF ScreensOK, Screens
  <2>2. CASE Clears(Empty(screen.color)) /\ Prints(Prompt, "line")
    BY <1>1, <2>1, <2>2, ClearStep, PrintsStep
  <2>3. ASSUME NEW color \in Colors, NEW out \in Outputs,
               Clears(Empty(color)), Prints(out \o Prompt, "line")
        PROVE  ScreensOK' /\ Shows' /\ ReaderOK'
    BY <1>1, <2>3, ClearStep, PrintsStep
  <2> QED BY <1>3, <2>2, <2>3 DEF EndLineAndClear
<1>4. CASE EraseLast
  <2>1. console_putc("BS")
    BY <1>4 DEF EraseLast
  <2>2. line' \in Seq(Typable) /\ Len(line') < Len(line)
    BY <1>4 DEF EraseLast, ReaderOK, Front
  <2>3. ReaderOK'
    BY <1>4, <2>2 DEF EraseLast, ReaderOK
  <2> QED BY <1>1, <2>1, <2>3, PutcStep
<1>5. CASE Insert(c)
  <2>1. console_putc(c)
    BY <1>5 DEF Insert
  <2>2. line' \in Seq(Typable) /\ Len(line') = Len(line) + 1
    BY <1>5 DEF Insert, ReaderOK
  <2>3. ReaderOK'
    BY <1>5, <2>2 DEF Insert, ReaderOK, RoomInLine
  <2> QED BY <2>1, <2>3, PutcStep
<1>6. CASE Ignore
  BY <1>6, SilentStep DEF Ignore, reader, ReaderOK
<1>7. CASE console_putc("LF") /\ Prints(Prompt, "line")
  BY <1>1, <1>7, PutcStep, PrintsStep
<1>8. \/ EndLine \/ EndLineAndClear \/ EraseLast \/ Insert(c) \/ Ignore
      \/ console_putc("LF") /\ Prints(Prompt, "line")
  BY DEF Take, ReadLine, ReadPause
<1> QED BY <1>2, <1>3, <1>4, <1>5, <1>6, <1>7, <1>8

-----------------------------------------------------------------------------
(* The inductive invariant. *)

InputsOK ==
  /\ rx \in Seq(HostBytes) /\ Len(rx) <= Fifo
  /\ codes \in Seq(Codes) /\ Len(codes) <= Keys
  /\ shift \in BOOLEAN /\ held \subseteq ShiftKeys /\ lost \in BOOLEAN

\* From code i on, no code of a shift key is waiting.
NoShiftFrom(i) == \A j \in DOMAIN codes : j >= i => codes[j].key \notin ShiftKeys

\* The last code of a shift key that waits, or the flag if none does, says what
\* the flag will be.
ShiftFollows ==
  ~lost =>
    /\ \A i \in DOMAIN codes :
         codes[i].key \in ShiftKeys /\ codes[i].down /\ NoShiftFrom(i + 1) => held # {}
    /\ shift /\ NoShiftFrom(1) => held # {}

Inductive == ScreensOK /\ Shows /\ ReaderOK /\ InputsOK /\ ShiftFollows

LEMMA InitInductive == Init => Inductive
<1> SUFFICES ASSUME Init PROVE Inductive
  OBVIOUS
<1>1. screen = Empty(Grey) /\ term = Empty(Grey) /\ parted = FALSE
  BY DEF Init
<1>2. ScreensOK
  BY <1>1, EmptyType DEF ScreensOK
<1>3. Shows
  <2>1. TextShown
    BY <1>1, NothingShown DEF Init, TextShown
  <2> QED BY <1>1, <2>1 DEF Shows, OneColor, Mirrored, Empty
<1>4. ReaderOK
  <2>1. mode = "print" /\ then = "line" /\ pending = Prompt /\ line = <<>>
    BY DEF Init
  <2>2. line \in Seq(Typable) /\ Len(line) = 0
    BY <2>1
  <2>3. pending \in Seq(Chars)
    BY <2>1, CharAssumption
  <2> QED BY <2>1, <2>2, <2>3 DEF ReaderOK
<1>5. InputsOK
  <2>1. rx = <<>> /\ codes = <<>> /\ shift = FALSE /\ held = {} /\ lost = FALSE
    BY DEF Init
  <2>2. /\ rx \in Seq(HostBytes) /\ Len(rx) = 0
        /\ codes \in Seq(Codes) /\ Len(codes) = 0
    BY <2>1
  <2>3. Len(rx) <= Fifo /\ Len(codes) <= Keys
    BY <2>2
  <2>4. shift \in BOOLEAN /\ held \subseteq ShiftKeys /\ lost \in BOOLEAN
    BY <2>1
  <2> QED BY <2>2, <2>3, <2>4 DEF InputsOK
<1>6. ShiftFollows
  BY DEF Init, ShiftFollows
<1> QED BY <1>2, <1>3, <1>4, <1>5, <1>6 DEF Inductive

\* A code the keyboard sends, with the keys that are down after it.
LEMMA SendsStep ==
  ASSUME Inductive, NEW code \in Codes, Sends(code), held' \subseteq ShiftKeys,
         code.key \notin ShiftKeys => held' = held,
         code.key \in ShiftKeys /\ code.down => held' # {}
  PROVE  InputsOK' /\ ShiftFollows'
<1>1. CASE Len(codes) < Keys
  <2>1. codes' = Append(codes, code) /\ lost' = lost /\ rx' = rx /\ shift' = shift
    BY <1>1 DEF Sends
  <2>2. /\ codes \in Seq(Codes) /\ codes' \in Seq(Codes) /\ Len(codes') = Len(codes) + 1
        /\ Len(codes) \in Nat /\ DOMAIN codes = 1 .. Len(codes)
        /\ DOMAIN codes' = 1 .. Len(codes) + 1
        /\ codes'[Len(codes) + 1] = code /\ \A i \in 1 .. Len(codes) : codes'[i] = codes[i]
    BY <2>1 DEF Inductive, InputsOK
  <2>3. InputsOK'
    BY <1>1, <2>1, <2>2 DEF Inductive, InputsOK
  <2>4. CASE code.key \in ShiftKeys
    <3>1. ASSUME NEW i \in DOMAIN codes', codes'[i].down, NoShiftFrom(i + 1)'
          PROVE  held' # {}
      <4>1. i = Len(codes) + 1
        BY <2>2, <2>4, <3>1 DEF NoShiftFrom
      <4> QED BY <2>2, <2>4, <3>1, <4>1
    <3>2. ~NoShiftFrom(1)'
      BY <2>2, <2>4 DEF NoShiftFrom
    <3> QED BY <2>3, <3>1, <3>2 DEF ShiftFollows
  <2>5. CASE code.key \notin ShiftKeys
    <3>1. ASSUME NEW i \in Nat, NoShiftFrom(i)' PROVE NoShiftFrom(i)
      BY <2>2, <3>1 DEF NoShiftFrom
    <3>2. ASSUME NEW i \in DOMAIN codes', codes'[i].key \in ShiftKeys PROVE i \in DOMAIN codes
      BY <2>2, <2>5, <3>2
    <3>3. ASSUME ~lost', NEW i \in DOMAIN codes', codes'[i].key \in ShiftKeys, codes'[i].down,
                 NoShiftFrom(i + 1)'
          PROVE  held' # {}
      <4>1. i \in DOMAIN codes /\ codes[i] = codes'[i] /\ i + 1 \in Nat
        BY <2>2, <3>2, <3>3
      <4>2. NoShiftFrom(i + 1)
        BY <3>1, <3>3, <4>1
      <4> QED BY <2>1, <2>5, <3>3, <4>1, <4>2 DEF Inductive, ShiftFollows
    <3>4. ASSUME ~lost', shift', NoShiftFrom(1)' PROVE held' # {}
      BY <2>1, <2>5, <3>1, <3>4 DEF Inductive, ShiftFollows
    <3> QED BY <2>3, <3>3, <3>4 DEF ShiftFollows
  <2> QED BY <2>4, <2>5
<1>2. CASE ~(Len(codes) < Keys)
  <2>1. /\ codes' = codes /\ lost' = (lost \/ code.key \in ShiftKeys)
        /\ rx' = rx /\ shift' = shift
    BY <1>2 DEF Sends
  <2>2. InputsOK'
    BY <2>1 DEF Inductive, InputsOK
  <2>3. ASSUME ~lost' PROVE ShiftFollows'
    <3>1. ~lost /\ held' = held
      BY <2>1, <2>3
    <3>2. \A i : NoShiftFrom(i)' <=> NoShiftFrom(i)
      BY <2>1 DEF NoShiftFrom
    <3> QED BY <2>1, <3>1, <3>2 DEF Inductive, ShiftFollows
  <2> QED BY <2>2, <2>3 DEF ShiftFollows
<1> QED BY <1>1, <1>2

\* A code the kernel takes.
LEMMA TakenCode ==
  ASSUME Inductive, codes # <<>>, codes' = Tail(codes), UNCHANGED <<rx, held, lost>>,
         shift' = IF Head(codes).key \in ShiftKeys THEN Head(codes).down ELSE shift
  PROVE  InputsOK' /\ ShiftFollows'
<1>1. /\ codes \in Seq(Codes) /\ codes' \in Seq(Codes) /\ Len(codes') = Len(codes) - 1
      /\ Len(codes) \in Nat \ {0} /\ DOMAIN codes = 1 .. Len(codes)
      /\ DOMAIN codes' = 1 .. Len(codes) - 1
      /\ \A i \in DOMAIN codes' : i + 1 \in DOMAIN codes /\ codes'[i] = codes[i + 1]
      /\ Head(codes) = codes[1] /\ codes[1] \in Codes
  BY DEF Inductive, InputsOK
<1>2. InputsOK'
  BY <1>1 DEF Inductive, InputsOK, Codes
<1>3. ASSUME NEW i \in Nat, NoShiftFrom(i)' PROVE NoShiftFrom(i + 1) \/ i = 0
  <2> SUFFICES ASSUME i # 0, NEW j \in DOMAIN codes, j >= i + 1
               PROVE  codes[j].key \notin ShiftKeys
    BY DEF NoShiftFrom
  <2>1. j - 1 \in DOMAIN codes' /\ j - 1 >= i /\ (j - 1) + 1 = j
    BY <1>1
  <2>2. codes'[j - 1] = codes[j]
    BY <1>1, <2>1
  <2> QED BY <1>3, <2>1, <2>2 DEF NoShiftFrom
<1>4. ASSUME ~lost', NEW i \in DOMAIN codes', codes'[i].key \in ShiftKeys, codes'[i].down,
             NoShiftFrom(i + 1)'
      PROVE  held' # {}
  <2>1. i + 1 \in DOMAIN codes /\ codes[i + 1] = codes'[i] /\ i + 1 \in Nat /\ i + 1 # 0
    BY <1>1
  <2>2. NoShiftFrom((i + 1) + 1)
    BY <1>3, <1>4, <2>1
  <2> QED BY <1>4, <2>1, <2>2 DEF Inductive, ShiftFollows
<1>5. ASSUME ~lost', shift', NoShiftFrom(1)' PROVE held' # {}
  <2>1. NoShiftFrom(2)
    BY <1>3, <1>5
  <2>2. CASE codes[1].key \in ShiftKeys
    <3>1. codes[1].down
      BY <1>1, <1>5, <2>2
    <3>2. 1 \in DOMAIN codes /\ NoShiftFrom(1 + 1)
      BY <1>1, <2>1
    <3> QED BY <1>5, <2>2, <3>1, <3>2 DEF Inductive, ShiftFollows
  <2>3. CASE codes[1].key \notin ShiftKeys
    <3>1. NoShiftFrom(1)
      BY <1>1, <2>1, <2>3 DEF NoShiftFrom
    <3> QED BY <1>1, <1>5, <2>3, <3>1 DEF Inductive, ShiftFollows
  <2> QED BY <2>2, <2>3
<1> QED BY <1>2, <1>4, <1>5 DEF ShiftFollows

LEMMA NextInductive == Inductive /\ [Next]_vars => Inductive'
<1> SUFFICES ASSUME Inductive, [Next]_vars PROVE Inductive'
  OBVIOUS
<1>1. ScreensOK /\ Shows /\ ReaderOK /\ InputsOK /\ ShiftFollows
  BY DEF Inductive
<1>2. ASSUME UNCHANGED <<codes, shift, held, lost>> PROVE ShiftFollows'
  BY <1>1, <1>2 DEF ShiftFollows, NoShiftFrom
<1>3. CASE PrintNext
  <2>1. Head(pending) \in Chars /\ pending' \in Seq(Chars) /\ console_putc(Head(pending))
    BY <1>1, <1>3 DEF PrintNext, ReaderOK
  <2>2. ScreensOK' /\ Shows'
    BY <1>1, <2>1, PutcStep
  <2>3. ReaderOK'
    BY <1>1, <1>3, <2>1 DEF PrintNext, ReaderOK
  <2>4. InputsOK' /\ ShiftFollows'
    BY <1>1, <1>2, <1>3 DEF PrintNext, inputs, InputsOK
  <2> QED BY <2>2, <2>3, <2>4 DEF Inductive
<1>4. CASE PrintDone
  <2>1. ScreensOK' /\ Shows'
    BY <1>1, <1>4, SilentStep DEF PrintDone
  <2>2. line' \in Seq(Typable) /\ Len(line') = 0
    BY <1>4 DEF PrintDone
  <2>3. ReaderOK'
    BY <1>1, <1>4, <2>2 DEF PrintDone, ReaderOK
  <2>4. InputsOK' /\ ShiftFollows'
    BY <1>1, <1>2, <1>4 DEF PrintDone, inputs, InputsOK
  <2> QED BY <2>1, <2>3, <2>4 DEF Inductive
<1>5. CASE ReadSerial
  <2> DEFINE c == IF Head(rx) = "CR" THEN "LF" ELSE Head(rx)
  <2>1. rx \in Seq(HostBytes) /\ rx # <<>> /\ rx' = Tail(rx) /\ Take(c)
    BY <1>1, <1>5 DEF ReadSerial, InputsOK
  <2>2. Head(rx) \in HostBytes /\ rx' \in Seq(HostBytes) /\ Len(rx') <= Len(rx)
    BY <2>1
  <2>3. c \in Chars
    BY <2>2, CharAssumption
  <2> HIDE DEF c
  <2>4. ScreensOK' /\ Shows' /\ ReaderOK'
    BY <1>1, <2>1, <2>3, TakeStep
  <2>5. InputsOK' /\ ShiftFollows'
    BY <1>1, <1>2, <1>5, <2>2 DEF ReadSerial, InputsOK
  <2> QED BY <2>4, <2>5 DEF Inductive
<1>6. CASE ReadKey
  <2> DEFINE code == Head(codes)
  <2>1. codes \in Seq(Codes) /\ codes # <<>> /\ codes' = Tail(codes) /\ ReadCode(code)
        /\ UNCHANGED <<rx, held, lost>>
    BY <1>1, <1>6 DEF ReadKey, InputsOK
  <2>2. code \in Codes
    BY <2>1
  <2> HIDE DEF code
  <2>3. shift' = IF code.key \in ShiftKeys THEN code.down ELSE shift
    BY <2>1, <2>2 DEF ReadCode, EndsShift, Codes
  <2>4. InputsOK' /\ ShiftFollows'
    BY <2>1, <2>3, TakenCode DEF code
  <2>5. ASSUME Ignore PROVE ScreensOK' /\ Shows' /\ ReaderOK'
    BY <1>1, <2>5, SilentStep DEF Ignore, reader, ReaderOK
  <2>6. ASSUME code.key \notin ShiftKeys, Take(IF shift THEN ShiftOf[code.key] ELSE code.key)
        PROVE  ScreensOK' /\ Shows' /\ ReaderOK'
    <3>1. code.key \in DOMAIN ShiftOf
      BY <2>2, <2>6 DEF Codes
    <3>2. (IF shift THEN ShiftOf[code.key] ELSE code.key) \in Chars
      BY <3>1, CharAssumption
    <3> QED BY <1>1, <2>6, <3>2, TakeStep
  <2>7. \/ Ignore
        \/ code.key \notin ShiftKeys /\ Take(IF shift THEN ShiftOf[code.key] ELSE code.key)
    BY <2>1, Zenon DEF ReadCode
  <2> QED BY <2>4, <2>5, <2>6, <2>7 DEF Inductive
<1>7. CASE HostSends
  <2>1. /\ Len(rx) < Fifo /\ Silent
        /\ UNCHANGED <<reader, codes, shift, held, lost>>
    BY <1>7 DEF HostSends
  <2>2. PICK b \in HostBytes : rx' = Append(rx, b)
    BY <1>7 DEF HostSends
  <2>3. rx' \in Seq(HostBytes) /\ Len(rx') = Len(rx) + 1
    BY <1>1, <2>2 DEF InputsOK
  <2>4. ScreensOK' /\ Shows'
    BY <1>1, <2>1, SilentStep
  <2>5. ReaderOK'
    BY <1>1, <2>1 DEF ReaderOK, reader
  <2>6. InputsOK' /\ ShiftFollows'
    BY <1>1, <1>2, <2>1, <2>3 DEF InputsOK
  <2> QED BY <2>4, <2>5, <2>6 DEF Inductive
<1>8. ASSUME NEW code \in Codes, Sends(code), held' \subseteq ShiftKeys,
             code.key \notin ShiftKeys => held' = held,
             code.key \in ShiftKeys /\ code.down => held' # {}
      PROVE  Inductive'
  <2>1. Silent /\ UNCHANGED reader
    BY <1>8 DEF Sends
  <2>2. ScreensOK' /\ Shows' /\ ReaderOK'
    BY <1>1, <2>1, SilentStep DEF ReaderOK, reader
  <2>3. InputsOK' /\ ShiftFollows'
    BY <1>8, SendsStep
  <2> QED BY <2>2, <2>3 DEF Inductive
<1>9. held \subseteq ShiftKeys
  BY <1>1 DEF InputsOK
<1>10. CASE KeyDown
  <2>1. PICK k \in DOMAIN ShiftOf \cup ShiftKeys :
          Sends([key |-> k, down |-> TRUE]) /\ held' = held \cup ({k} \cap ShiftKeys)
    BY <1>10 DEF KeyDown
  <2>2. [key |-> k, down |-> TRUE] \in Codes
    BY DEF Codes
  <2> QED BY <1>8, <1>9, <2>1, <2>2
<1>11. CASE KeyUp
  <2>1. PICK k \in DOMAIN ShiftOf \cup held :
          Sends([key |-> k, down |-> FALSE]) /\ held' = held \ {k}
    BY <1>11 DEF KeyUp
  <2>2. [key |-> k, down |-> FALSE] \in Codes
    BY <1>9 DEF Codes
  <2> QED BY <1>8, <1>9, <2>1, <2>2
<1>12. CASE UNCHANGED vars
  <2>1. Silent /\ UNCHANGED reader /\ UNCHANGED inputs
    BY <1>12 DEF vars, Silent
  <2>2. ScreensOK' /\ Shows' /\ ReaderOK'
    BY <1>1, <2>1, SilentStep DEF ReaderOK, reader
  <2>3. InputsOK' /\ ShiftFollows'
    BY <1>1, <1>2, <2>1 DEF InputsOK, inputs
  <2> QED BY <2>2, <2>3 DEF Inductive
<1> QED
  BY <1>3, <1>4, <1>5, <1>6, <1>7, <1>10, <1>11, <1>12 DEF Next, Kernel

LEMMA AlwaysInductive == Spec => []Inductive
BY InitInductive, NextInductive, PTL DEF Spec

\* Cursor, cells and colours are those of a screen, the terminal's too; a line
\* always leaves room for its zero; no more waits than the hardware holds.
THEOREM TypeCorrect == Spec => []TypeOK
<1>1. Inductive => TypeOK
  BY DEF Inductive, ScreensOK, ReaderOK, InputsOK, TypeOK
<1> QED BY <1>1, AlwaysInductive, PTL

\* Until a command clears the screen or rings the bell, a terminal on COM1 shows
\* what the screen shows, on screens of any size.
THEOREM TerminalMirrorsScreen == Spec => []Mirrored
<1>1. Inductive => Mirrored
  BY DEF Inductive, Shows
<1> QED BY <1>1, AlwaysInductive, PTL

\* No cell keeps the attribute of an earlier COLOR.
THEOREM ScreenHasOneColor == Spec => []OneColor
<1>1. Inductive => OneColor
  BY DEF Inductive, Shows
<1> QED BY <1>1, AlwaysInductive, PTL

\* Whatever is printed, wrapped, scrolled and erased, the screen shows the end of
\* the text row by row, nothing older, and the cursor behind it: the cells that
\* console_putc and vga_scroll wrote one at a time are those of the last lines.
THEOREM ScreenAlwaysShowsText == Spec => []ScreenShowsText
<1>1. Inductive => ScreenShowsText
  BY ShownIsScreenShowsText DEF Inductive, ScreensOK, Shows, TextShown
<1> QED BY <1>1, AlwaysInductive, PTL

\* However many codes wait, in whatever order two shift keys go up and down, the
\* flag of read_char does not outlive them.
THEOREM ShiftEnds == Spec => []ShiftNotStuck
<1>1. Inductive => ShiftNotStuck
  <2> SUFFICES ASSUME Inductive, codes = <<>>, shift, ~lost PROVE held # {}
    BY DEF ShiftNotStuck
  <2>1. NoShiftFrom(1)
    BY DEF NoShiftFrom
  <2> QED BY <2>1 DEF Inductive, ShiftFollows
<1> QED BY <1>1, AlwaysInductive, PTL

-----------------------------------------------------------------------------
(* The line on the screen. *)

\* Before a line is read, the text ends with the prompt once what is still to
\* print is printed; while it is read, with the prompt and the line.
EchoFollows ==
  /\ mode = "print" /\ then = "line" => Ends(Prompt, Last(text) \o pending)
  /\ mode = "line" /\ ~stray => Ends(Prompt \o line, Last(text))

LEMMA PromptIs ==
  /\ Prompt \in Lines /\ Len(Prompt) \in Nat
  /\ \A i \in DOMAIN Prompt : Prompt[i] \notin {"LF", "CR", "BS"}
  /\ Len(Prompt) + LineCap - 1 <= (Rows - 1) * Cols + 1
  /\ Len(Prompt) <= (Rows - 1) * Cols + 1
<1>1. Prompt \in Seq(Chars) /\ Len(Prompt) \in Nat
  <2>1. Prompt \in Seq(Chars)
    BY CharAssumption
  <2> QED BY <2>1
<1>2. /\ \A i \in DOMAIN Prompt : Prompt[i] \notin {"LF", "CR", "BS"}
      /\ Len(Prompt) + LineCap - 1 <= (Rows - 1) * Cols + 1
  BY PromptAssumption
<1>3. (Rows - 1) * Cols \in Nat
  <2>1. Rows - 1 \in Nat
    OBVIOUS
  <2> QED BY <2>1, Multiples
<1> QED BY <1>1, <1>2, <1>3 DEF Lines

LEMMA TextIs ==
  ASSUME Inductive
  PROVE  /\ text \in Seq(Lines) /\ text # <<>> /\ Last(text) \in Lines
         /\ pending \in Lines /\ line \in Lines /\ line \in Seq(Chars)
         /\ screen.x = Len(Last(text)) % Cols
<1>1. /\ text \in Seq(Lines) /\ text # <<>> /\ screen \in Screens /\ Shown(screen, Laid(text))
      /\ pending \in Lines /\ line \in Seq(Typable) /\ Typable \subseteq Chars
  BY CharAssumption DEF Inductive, ScreensOK, Shows, TextShown, ReaderOK, Lines
<1>2. line \in Seq(Chars)
  BY <1>1
<1>3. "LF" \in Chars
  BY CharAssumption
<1>4. Last(text) \in Lines
  BY <1>1, LastIs
<1>5. screen.x = Len(Last(text)) % Cols
  BY <1>1, <1>3, ShownPrinted
<1> QED BY <1>1, <1>2, <1>4, <1>5 DEF Lines

\* The kernel prints a character of what is pending.
LEMMA PrintEcho ==
  ASSUME Inductive, EchoFollows, PrintNext
  PROVE  EchoFollows'
<1> DEFINE l == Last(text)
           c == Head(pending)
<1>1. /\ mode = "print" /\ mode' = "print" /\ then' = then /\ pending # <<>>
      /\ pending' = Tail(pending) /\ text' = Printed(text, c)
  BY DEF PrintNext, console_putc
<1>2. /\ text \in Seq(Lines) /\ text # <<>> /\ l \in Lines /\ pending \in Lines
      /\ pending \in Seq(Chars) /\ c \in Chars
  <2>1. pending \in Seq(Chars)
    BY TextIs DEF Lines
  <2> QED BY <1>1, <2>1, TextIs
<1> SUFFICES ASSUME then = "line"
             PROVE  Ends(Prompt, Last(text') \o pending')
  BY <1>1 DEF EchoFollows
<1>3. Ends(Prompt, l \o pending)
  BY <1>1 DEF EchoFollows
<1> HIDE DEF l, c
<1>4. /\ Tail(pending) \in Lines /\ Append(l, c) \in Lines
      /\ Len(pending) > Len(Prompt) => \A k \in Lines : Ends(Prompt, k \o Tail(pending))
      /\ Len(pending) <= Len(Prompt) => /\ \E i \in DOMAIN Prompt : c = Prompt[i]
                                        /\ Ends(Prompt, Append(l, c) \o Tail(pending))
  BY <1>1, <1>2, <1>3, PromptIs, EndsMoved DEF c
<1>5. CASE Len(pending) > Len(Prompt)
  <2>1. text' \in Seq(Lines) /\ text' # <<>>
    BY <1>1, <1>2, TextIs, ShownPrinted DEF Inductive, ScreensOK, Shows, TextShown
  <2>2. Last(text') \in Lines
    BY <2>1, LastIs
  <2> QED BY <1>1, <1>4, <1>5, <2>2
<1>6. CASE Len(pending) <= Len(Prompt)
  <2>1. c \notin {"LF", "CR", "BS"}
    BY <1>4, <1>6, PromptIs
  <2>2. Last(text') = Shortened(Append(l, c))
    BY <1>1, <1>2, <2>1, LastPrinted DEF l
  <2>3. Ends(Prompt, Shortened(Append(l, c)) \o Tail(pending))
    BY <1>4, <1>6, PromptIs, EndsShortened
  <2> QED BY <1>1, <2>2, <2>3
<1>7. Len(pending) \in Nat /\ Len(Prompt) \in Nat
  BY <1>2, PromptIs
<1> QED BY <1>5, <1>6, <1>7

\* What a command, or the end of a pause, has the kernel print next.
LEMMA PromptEcho ==
  ASSUME Inductive, Inductive', NEW q \in Lines, NEW next,
         mode' = "print", then' = next, next = "line" => pending' = q \o Prompt
  PROVE  EchoFollows'
<1>1. Last(text') \in Lines
  <2>1. text' \in Seq(Lines) /\ text' # <<>>
    BY DEF Inductive, Shows, TextShown
  <2> QED BY <2>1, LastIs
<1>2. Ends(Prompt, Last(text') \o (q \o Prompt))
  BY <1>1, PromptIs, EndsConcat
<1> QED BY <1>2 DEF EchoFollows

LEMMA TakeEcho ==
  ASSUME Inductive, Inductive', EchoFollows, NEW c \in Chars, Take(c)
  PROVE  EchoFollows'
<1>0. <<>> \in Lines /\ <<>> \o Prompt = Prompt /\ \A out \in Outputs : out \in Lines
  <2>1. <<>> \o Prompt = Prompt
    BY PromptIs, CharAssumption, ConcatEmptySeq
  <2> QED BY <2>1, NoRows, CharAssumption DEF Lines
<1>1. ASSUME NEW q \in Lines, Prints(q \o Prompt, "line") PROVE EchoFollows'
  BY <1>1, PromptEcho DEF Prints
<1>2. ASSUME Prints(Prompt, "line") PROVE EchoFollows'
  BY <1>0, <1>1, <1>2
<1>3. ASSUME Prints(PauseText, "pause") PROVE EchoFollows'
  BY <1>3 DEF Prints, EchoFollows
<1>4. CASE EndLine
  BY <1>0, <1>1, <1>3, <1>4 DEF EndLine
<1>5. CASE EndLineAndClear
  BY <1>0, <1>1, <1>2, <1>5 DEF EndLineAndClear
<1>6. CASE mode = "line" /\ EraseLast
  <2>1. /\ line # <<>> /\ line' = Front(line) /\ mode' = "line" /\ text' = Printed(text, "BS")
        /\ stray' = (stray \/ screen.x = 0)
    BY <1>6 DEF EraseLast, console_putc
  <2> SUFFICES ASSUME ~stray'
               PROVE  Ends(Prompt \o line', Last(text'))
    BY <2>1 DEF EchoFollows
  <2> DEFINE l == Last(text)
             a == Prompt \o Front(line)
             d == Last(line)
  <2>2. Ends(Prompt \o line, l) /\ screen.x # 0
    <3>1. ~stray /\ screen.x # 0
      BY <2>1
    <3> QED BY <1>6, <3>1 DEF EchoFollows
  <2>3. /\ text \in Seq(Lines) /\ text # <<>> /\ l \in Lines /\ Len(l) % Cols # 0
        /\ line \in Seq(Chars) /\ "BS" \in Chars
    BY <2>2, TextIs, CharAssumption
  <2>4. Last(text') = SubSeq(l, 1, Len(l) - 1)
    BY <2>1, <2>3, LastPrinted
  <2>5. a \in Lines /\ d \in Chars /\ Prompt \o line = Append(a, d)
    <3> DEFINE f == Front(line)
    <3>1. f \in Seq(Chars) /\ d \in Chars /\ line = Append(f, d)
      <4>1. line \in Lines /\ Len(line) >= 1
        BY <2>1, <2>3 DEF Lines
      <4> QED BY <4>1, WithoutLast DEF Front, Last, Lines
    <3> HIDE DEF f, d
    <3>2. Prompt \in Seq(Chars)
      BY CharAssumption
    <3>3. Prompt \o f \in Seq(Chars) /\ Prompt \o Append(f, d) = Append(Prompt \o f, d)
      BY <3>1, <3>2
    <3> QED BY <3>1, <3>3 DEF f, Lines
  <2> HIDE DEF l, a, d
  <2>6. Ends(a, SubSeq(l, 1, Len(l) - 1))
    BY <2>2, <2>3, <2>5, EndsErased
  <2> QED BY <2>1, <2>4, <2>6 DEF a
<1>7. CASE mode = "line" /\ Insert(c)
  <2>1. /\ c \in Typable /\ Len(line) + 1 < LineCap /\ line' = Append(line, c)
        /\ mode' = "line" /\ stray' = stray /\ text' = Printed(text, c)
    BY <1>7 DEF Insert, RoomInLine, console_putc
  <2> SUFFICES ASSUME ~stray
               PROVE  Ends(Prompt \o line', Last(text'))
    BY <2>1 DEF EchoFollows
  <2> DEFINE l == Last(text)
             a == Prompt \o line
             b == Append(a, c)
             m == Append(l, c)
  <2>2. Ends(a, l)
    BY <1>7 DEF EchoFollows
  <2>3. /\ text \in Seq(Lines) /\ text # <<>> /\ l \in Lines /\ line \in Lines
        /\ line \in Seq(Chars) /\ Prompt \in Seq(Chars)
    BY TextIs, CharAssumption
  <2>4. a \in Lines /\ Len(a) = Len(Prompt) + Len(line) /\ Len(line) \in Nat
    BY <2>3, PromptIs, Concat
  <2>5. c \notin {"LF", "CR", "BS"}
    BY <2>1, PromptAssumption
  <2>6. Last(text') = Shortened(m)
    BY <2>1, <2>3, <2>5, LastPrinted
  <2>7. Prompt \o line' = b
    BY <2>1, <2>3
  <2>8. Len(b) = Len(a) + 1
    <3> HIDE DEF a
    <3>1. a \in Seq(Chars)
      BY <2>4 DEF Lines
    <3> QED BY <3>1
  <2> HIDE DEF a
  <2>9. b \in Lines /\ m \in Lines /\ Ends(b, m)
    BY <2>2, <2>3, <2>4, EndsTyped
  <2> HIDE DEF l, b, m
  <2>10. Len(b) <= (Rows - 1) * Cols + 1
    <3> DEFINE L == (Rows - 1) * Cols
    <3>1. L \in Nat
      <4>1. Rows - 1 \in Nat
        OBVIOUS
      <4> QED BY <4>1, Multiples
    <3>2. Len(Prompt) + LineCap - 1 <= L + 1 /\ Len(Prompt) \in Nat
      BY PromptIs
    <3> HIDE DEF L
    <3>3. Len(b) <= L + 1
      BY <2>1, <2>4, <2>8, <3>1, <3>2
    <3> QED BY <3>3 DEF L
  <2>11. <<>> \in Lines /\ m \o <<>> = m /\ Shortened(m) \o <<>> = Shortened(m)
    <3>1. m \in Seq(Chars)
      BY <2>9 DEF Lines
    <3>2. Shortened(m) \in Seq(Chars)
      BY <3>1 DEF Shortened
    <3> QED BY <3>1, <3>2, NoRows, ConcatEmptySeq
  <2>12. Ends(b, Shortened(m) \o <<>>)
    BY <2>9, <2>10, <2>11, EndsShortened
  <2> QED BY <2>6, <2>7, <2>11, <2>12
<1>8. CASE Ignore
  BY <1>8 DEF Ignore, Silent, reader, EchoFollows
<1>9. CASE console_putc("LF") /\ Prints(Prompt, "line")
  BY <1>2, <1>9
<1>10. \/ EndLine \/ EndLineAndClear \/ Ignore
       \/ mode = "line" /\ EraseLast
       \/ mode = "line" /\ Insert(c)
       \/ console_putc("LF") /\ Prints(Prompt, "line")
  BY DEF Take, ReadLine, ReadPause
<1> QED BY <1>4, <1>5, <1>6, <1>7, <1>8, <1>9, <1>10

LEMMA NextEcho ==
  ASSUME Inductive, Inductive', EchoFollows, [Next]_vars
  PROVE  EchoFollows'
<1>1. CASE PrintNext
  BY <1>1, PrintEcho
<1>2. CASE PrintDone
  <2>1. /\ mode = "print" /\ pending = <<>> /\ mode' = then /\ line' = <<>> /\ text' = text
    BY <1>2 DEF PrintDone, Silent
  <2>2. then \in {"line", "pause"}
    BY DEF Inductive, ReaderOK
  <2>3. then = "line" => Ends(Prompt, Last(text) \o <<>>)
    BY <2>1 DEF EchoFollows
  <2>4. Prompt \o <<>> = Prompt /\ Last(text) \o <<>> = Last(text)
    <3>1. Last(text) \in Seq(Chars)
      BY TextIs DEF Lines
    <3> QED BY <3>1, CharAssumption, ConcatEmptySeq
  <2> QED BY <2>1, <2>2, <2>3, <2>4 DEF EchoFollows
<1>3. CASE ReadSerial
  <2>1. rx \in Seq(HostBytes) /\ rx # <<>>
    BY <1>3 DEF ReadSerial, Inductive, InputsOK
  <2>2. Head(rx) \in HostBytes
    BY <2>1
  <2>3. (IF Head(rx) = "CR" THEN "LF" ELSE Head(rx)) \in Chars
    BY <2>2, CharAssumption
  <2> QED BY <1>3, <2>3, TakeEcho DEF ReadSerial
<1>4. ASSUME UNCHANGED <<text, mode, then, pending, line, stray>> PROVE EchoFollows'
  BY <1>4 DEF EchoFollows
<1>5. CASE ReadKey
  <2> DEFINE code == Head(codes)
  <2>1. codes \in Seq(Codes) /\ codes # <<>> /\ ReadCode(code)
    BY <1>5 DEF ReadKey, Inductive, InputsOK
  <2>2. code \in Codes
    BY <2>1
  <2> HIDE DEF code
  <2>3. CASE Ignore
    BY <1>4, <2>3 DEF Ignore, Silent, reader
  <2>4. CASE code.key \notin ShiftKeys /\ Take(IF shift THEN ShiftOf[code.key] ELSE code.key)
    <3>1. code.key \in DOMAIN ShiftOf
      BY <2>2, <2>4 DEF Codes
    <3>2. (IF shift THEN ShiftOf[code.key] ELSE code.key) \in Chars
      BY <3>1, CharAssumption
    <3> QED BY <2>4, <3>2, TakeEcho
  <2>5. \/ Ignore
        \/ code.key \notin ShiftKeys /\ Take(IF shift THEN ShiftOf[code.key] ELSE code.key)
    BY <2>1, Zenon DEF ReadCode
  <2> QED BY <2>3, <2>4, <2>5
<1>6. CASE HostSends
  BY <1>4, <1>6 DEF HostSends, Silent, reader
<1>7. CASE KeyDown
  BY <1>4, <1>7 DEF KeyDown, Sends, Silent, reader
<1>8. CASE KeyUp
  BY <1>4, <1>8 DEF KeyUp, Sends, Silent, reader
<1>9. CASE UNCHANGED vars
  BY <1>4, <1>9 DEF vars, reader
<1> QED
  BY <1>1, <1>2, <1>3, <1>5, <1>6, <1>7, <1>8, <1>9 DEF Next, Kernel

\* A line being typed always stands behind the prompt, character by character,
\* over as many rows as it takes.
THEOREM EchoAlwaysShowsLine == Spec => []EchoShowsLine
<1>1. Init => EchoFollows
  <2> SUFFICES ASSUME Init PROVE EchoFollows
    OBVIOUS
  <2>1. text = << <<>> >> /\ mode = "print" /\ pending = Prompt
    BY DEF Init
  <2>2. Last(text) = <<>> /\ <<>> \in Lines /\ <<>> \o Prompt = Prompt
    <3>1. <<>> \o Prompt = Prompt
      BY CharAssumption, ConcatEmptySeq
    <3> QED BY <2>1, <3>1, NoRows DEF Last
  <2>3. Ends(Prompt, <<>> \o (<<>> \o Prompt))
    BY <2>2, PromptIs, EndsConcat
  <2> QED BY <2>1, <2>2, <2>3 DEF EchoFollows
<1>2. Inductive /\ EchoFollows => EchoShowsLine
  <2> SUFFICES ASSUME Inductive, EchoFollows, mode = "line", ~stray
               PROVE  IsSuffix(Prompt \o line, Last(text))
    BY DEF EchoShowsLine
  <2>1. Prompt \o line \in Lines /\ Last(text) \in Lines
    BY TextIs, PromptIs, Concat
  <2> QED BY <2>1, EndsIsSuffix DEF EchoFollows
<1>3. Inductive /\ Inductive' /\ EchoFollows /\ [Next]_vars => EchoFollows'
  BY NextEcho
<1> QED BY <1>1, <1>2, <1>3, AlwaysInductive, PTL DEF Spec
=============================================================================
