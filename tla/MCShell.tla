------------------------------ MODULE MCShell ------------------------------
(***************************************************************************)
(* Instances of Shell for TLC.  The images of a run are all the ways to    *)
(* fill its files with the lines of a small language; a line that two      *)
(* interpreters read differently (RUN) is given in both its forms.         *)
(***************************************************************************)
EXTENDS Shell, TLC

DemoRxe == "RFS:\\DEMO.RXE"
DocRxe == "DEMO.RXE"
Batch == "B.BAT"
Rsl == "S.RSL"
Torn == "T.BAT"
Var == "X"
LongVar == "ABCDEFGHIJKLMNOP"
CutVar == "ABCDEFGHIJKLMNO"

MCWord ==
  {Autoexec, Batch, Rsl, Torn, DemoRxe, DocRxe, "RFS:\\README.TXT", Var, LongVar, CutVar,
   "RUN", "SCRIPT", "TYPE", "DUMP", "PAUSE", "REBOOT", "ECHO", "HELLO", "DIR", "64DOS",
   "REM", "SET", "ADD", "SUB", "MUL", "DIV", "PRINT", "0", "1", "2", "-1", "-2", "3"}

MCRxeNames == {DemoRxe, DocRxe}

\* An int32_t of two bits: -2 .. 1, so that one addition overflows.
MCIntOf == ("0" :> 0) @@ ("1" :> 1) @@ ("2" :> 2) @@ ("3" :> 3)
           @@ ("-1" :> -1) @@ ("-2" :> -2)

MCStored == [w \in MCWord |-> IF w = LongVar THEN CutVar ELSE w]

\* rfs_files as compiled into the kernel.
ShippedRfs ==
  ("RFS:\\README.TXT" :> [magic |-> FALSE, text |-> << <<"64DOS">> >>]) @@
  (DemoRxe :> [magic |-> TRUE, text |-> << <<"ECHO", "HELLO">>, <<"DIR">> >>])

Texts(lines, max) == UNION {[1 .. n -> lines] : n \in 0 .. max}

\* Batch files that call each other, RXE files and TYPE, and interrupt themselves.
BatchLanguage ==
  {<<"RUN", Autoexec>>, <<"RUN", Batch>>, <<"RUN", DemoRxe>>, <<"TYPE", Batch>>,
   <<"REM">>, <<"PAUSE">>, <<"REBOOT">>}
BatchDisks ==
  {(Autoexec :> a) @@ (Batch :> b) :
     a \in Texts(BatchLanguage, 2), b \in Texts(BatchLanguage, 2)}
BatchUser == {<<"RUN", Batch>>, <<"DUMP", Batch, "1">>}
\* Scripts that call commands, batch files and themselves; S.RSL may be longer
\* than the buffer.
CallerLanguage == {<<"SCRIPT", Rsl>>, <<"RUN", Batch>>, <<"DUMP", Rsl>>}
ScriptLanguage ==
  {<<"SET", Var, "1">>, <<"ADD", Var, "1">>, <<"RUN", "SCRIPT", Rsl>>, <<"RUN", "RUN", Batch>>,
   <<"RUN", "TYPE", Batch>>, <<"RUN", DemoRxe>>, <<"RUN", "RUN", DemoRxe>>}
ScriptDisks ==
  {(Autoexec :> << <<"SCRIPT", Rsl>> >>) @@ (Batch :> b) @@ (Rsl :> s) :
     b \in Texts(CallerLanguage, 2), s \in Texts(ScriptLanguage, 3)}
ScriptUser == {<<"RUN", DocRxe>>, <<"SCRIPT", Batch>>, <<"RUN">>}

\* One script over the variable table, with every arithmetic edge.
VarLanguage ==
  {<<"SET", Var, "1">>, <<"SET", Var, "-2">>, <<"SET", Var, "3">>, <<"SET", CutVar, "0">>,
   <<"SET", LongVar, "1">>, <<"ADD", Var, "1">>, <<"SUB", Var, "1">>, <<"MUL", Var, "-2">>,
   <<"DIV", Var, "-1">>, <<"DIV", Var, "0">>, <<"ADD", LongVar, "1">>, <<"PRINT", Var>>}
VarDisks == {(Rsl :> s) : s \in Texts(VarLanguage, 3)}
VarUser ==
  {<<"SCRIPT", Rsl>>, <<"SCRIPT", "RFS:\\README.TXT">>, <<"TYPE", "RFS:\\README.TXT">>,
   <<"RUN">>, <<"DUMP", Rsl, "-1">>, <<"RUN", "RFS:\\README.TXT">>}

\* Files longer than a buffer of three lines, which is read in part.
LongDisks ==
  {(Autoexec :> << <<"SCRIPT", Rsl>> >>) @@ (Batch :> [k \in 1 .. 4 |-> b])
     @@ (Rsl :> [k \in 1 .. 5 |-> IF k % 2 = 0 THEN s ELSE <<"SET", Var, "1">>]) :
     b \in CallerLanguage, s \in ScriptLanguage}

\* T.BAT has lost its end: it is read in part by files that go on after it.
TornLanguage ==
  {<<"RUN", Torn>>, <<"TYPE", Torn>>, <<"DUMP", Torn>>, <<"SCRIPT", Torn>>, <<"SCRIPT", Rsl>>}
TornDisks ==
  {(Autoexec :> a) @@ (Torn :> [k \in 1 .. n |-> <<"HELLO">>])
     @@ (Rsl :> << <<"SET", Var, "1">>, <<"RUN">> \o c, <<"PRINT", Var>> >>) :
     a \in Texts(TornLanguage, 2), c \in TornLanguage, n \in 1 .. 3}

\* A script that may run itself, and nothing else on the floppy.
SelfDisks == {(Rsl :> s) : s \in Texts({<<"SET", Var, "1">>, <<"RUN", "SCRIPT", Rsl>>}, 2)}
SelfUser == {<<"SCRIPT", Rsl>>}

AllDisks == BatchDisks \cup ScriptDisks \cup VarDisks \cup LongDisks \cup TornDisks
AllUser == BatchUser \cup ScriptUser \cup VarUser

\* The shipped image as far as it matters here, and the commands README.md shows.
ShippedDisks ==
  {(Autoexec :> << <<"DIR">>, <<"RUN", Batch>> >>) @@ (Batch :> << <<"REM">>, <<"HELLO">> >>)
     @@ (Rsl :> << <<"SET", Var, "1">>, <<"RUN", DemoRxe>> >>)}

ShippedUser ==
  {<<"RUN", DocRxe>>, <<"RUN", DemoRxe>>, <<"SCRIPT", Rsl>>}
=============================================================================
