------------------------------- MODULE Shell -------------------------------
(***************************************************************************)
(* The command interpreter of the 64DOS kernel (kernel/kernel.c): kmain's  *)
(* loop, execute_command, and the three interpreters that call it back:    *)
(* batch files (run_script_file), RXE files (run_rxe_file) and runtime     *)
(* scripts (cmd_script).  The kernel is one thread with interrupts off, so *)
(* what interleaves is the recursion: an interpreter calls execute_command *)
(* between two lines of its file, and the callee works on the same         *)
(* file_buffer, script_buffers, script_depth and runtime_vars.             *)
(*                                                                         *)
(* A line is a sequence of words, a file a sequence of lines, a buffer an  *)
(* array of cells of one line each; the zero an interpreter writes behind  *)
(* what it has read is the end of its last cell.  A word ":" stands for    *)
(* any word that starts with a colon (a label), "#" likewise.              *)
(***************************************************************************)
EXTENDS RuntimeVars, FiniteSets

CONSTANTS
  Disks,           \* the FAT12 images considered: functions from file names to lines
  Damaged,         \* the files whose chain ends before the size in their root entry
  RfsFiles,        \* rfs_files: from RFS: paths to [magic, text]
  RxeNames,        \* the words that end in .RXE
  UserLines,       \* the lines a user may type
  MaxScriptDepth,  \* MAX_SCRIPT_DEPTH (3)
  BufCap,          \* cells of file_buffer and of each script buffer (8191 bytes)
  DumpLines,       \* cells DUMP reads without a count (128 bytes)
  StackFrames      \* interpreter activations the kernel stack holds (16384 bytes)

Line == Seq(Word)
Text == Seq(Line)
Autoexec == "AUTOEXEC.BAT"

ASSUME ShellAssumption ==
  /\ MaxScriptDepth \in Nat \ {0}
  /\ BufCap \in Nat /\ DumpLines \in Nat /\ StackFrames \in Nat
  /\ UserLines \subseteq Line
  /\ <<>> \in Line

IsImage(d) == DOMAIN d \subseteq Word /\ \A f \in DOMAIN d : d[f] \in Text

ASSUME DiskAssumption == Damaged \subseteq Word /\ \A d \in Disks : IsImage(d)

ASSUME RfsAssumption ==
  /\ DOMAIN RfsFiles \subseteq Word
  /\ \A f \in DOMAIN RfsFiles :
       /\ RfsFiles[f].text \in Text
       /\ RfsFiles[f].magic \in BOOLEAN

VARIABLES
  disk,            \* the image in RAM, never written
  machine,         \* what the CPU is doing
  stack,           \* live activations of the interpreters, innermost last
  script_depth,    \* script_depth
  script_buffers,  \* script_buffers
  file_buffer,     \* file_buffer
  runtime_vars,    \* runtime_vars[0 .. runtime_var_count - 1]
  current,         \* the line last taken for execution
  answer           \* how the last command ended, as the console tells it

buffers == <<script_depth, script_buffers, file_buffer, runtime_vars>>
vars == <<disk, machine, stack, script_depth, script_buffers, file_buffer,
          runtime_vars, current, answer>>

Cell == 1 .. BufCap
Buffer == [Cell -> Line]
Slot == 0 .. MaxScriptDepth - 1
Least(a, b) == IF a < b THEN a ELSE b

\* The locals of one activation: its file, the index i of its loop in lines,
\* the length len read when it started, and for a batch the slot of
\* script_buffers behind its pointer script.
Kind == {"batch", "rxe", "script"}
Frame == [kind : Kind, file : Word, pos : Nat, len : Nat, slot : Nat]
Activation(kind, file, len, slot) ==
  [kind |-> kind, file |-> file, pos |-> 0, len |-> len, slot |-> slot]

Answers == {"none", "ok", "refused", "too deep", "aborted"}
Machines == {"boot", "run", "pause", "reset", "overflow"}

TypeOK ==
  /\ IsImage(disk)
  /\ machine \in Machines
  /\ stack \in Seq(Frame)
  /\ script_depth \in 0 .. MaxScriptDepth
  /\ script_buffers \in [Slot -> Buffer]
  /\ file_buffer \in Buffer
  /\ runtime_vars \in VarTable
  /\ current \in Line
  /\ answer \in Answers

Blank == [k \in Cell |-> <<>>]

\* Power-on or reset: entry.asm clears .bss before it calls kmain.
Cleared ==
  /\ machine' = "boot" /\ stack' = <<>>
  /\ script_depth' = 0 /\ script_buffers' = [s \in Slot |-> Blank]
  /\ file_buffer' = Blank /\ runtime_vars' = <<>>
  /\ current' = <<>> /\ answer' = "none"

Init ==
  /\ disk \in Disks
  /\ machine = "boot" /\ stack = <<>>
  /\ script_depth = 0 /\ script_buffers = [s \in Slot |-> Blank]
  /\ file_buffer = Blank /\ runtime_vars = <<>>
  /\ current = <<>> /\ answer = "none"

-----------------------------------------------------------------------------
(* Files and buffers. *)

\* Mutant: the last byte that fits is not copied.
LoadShort(buf, text, max) ==
  [k \in Cell |-> IF k < Least(Len(text), max) THEN text[k] ELSE buf[k]]

\* read_file copies at most max cells, and leaves the cells after them alone.
Load(buf, text, max) ==
  [k \in Cell |-> IF k <= Least(Len(text), max) THEN text[k] ELSE buf[k]]

LoadedLen(text) == Least(Len(text), BufCap)

Found(args) == args # <<>> /\ args[1] \in DOMAIN disk

\* A chain that ends early makes a read of max cells fail unless they came before its
\* end.  What had been copied by then stays in the buffer.
ReadSucceeds(name, max) == name \in Damaged => Len(disk[name]) >= max

Command(line) == IF line = <<>> THEN "" ELSE line[1]
Args(line) == IF line = <<>> THEN <<>> ELSE Tail(line)

-----------------------------------------------------------------------------
(* execute_command(line), called with the activations stk below it. *)

Returns(stk, reply) == machine' = "run" /\ stack' = stk /\ answer' = reply

\* The prologue of an interpreter: it needs room on the kernel stack, and
\* what a stack overflow destroys is beyond this model.
Overflows(stk) == Len(stk) >= StackFrames

Overflow(stk) ==
  /\ machine' = "overflow" /\ stack' = stk /\ answer' = "none"
  /\ UNCHANGED buffers

\* TYPE, CAT, DUMP, HEX and WC read the file into file_buffer.
DumpCommands == {"DUMP", "HEX"}
ShowCommands == {"TYPE", "CAT", "WC"} \cup DumpCommands

BadCount(line) ==
  /\ Command(line) \in DumpCommands /\ Len(line) > 2
  /\ ~(IsInt32(Tail(Tail(line))) /\ IntOf[line[3]] >= 0)

ShowLimit(line) ==
  IF Command(line) \notin DumpCommands THEN BufCap
  ELSE IF Len(line) = 2 THEN Least(DumpLines, BufCap)
  ELSE Least(IntOf[line[3]], BufCap)

Show(line, stk) ==
  /\ Command(line) \in ShowCommands
  /\ UNCHANGED <<script_depth, script_buffers, runtime_vars>>
  /\ \/ /\ Found(Args(line)) /\ ~BadCount(line)
        /\ file_buffer' = Load(file_buffer, disk[line[2]], ShowLimit(line))
        /\ Returns(stk, IF ReadSucceeds(line[2], ShowLimit(line)) THEN "ok" ELSE "refused")
     \/ /\ ~Found(Args(line)) \/ BadCount(line)
        /\ file_buffer' = file_buffer
        /\ Returns(stk, "refused")

\* Mutant: the batch nesting check is missing.
NeverTooDeep == FALSE

NestingTooDeep == script_depth >= MaxScriptDepth

\* Mutant: one batch buffer for every depth.
FirstSlot == 0

NextSlot == script_depth

RunScriptFile(name, stk) ==
  \/ NestingTooDeep /\ Returns(stk, "too deep") /\ UNCHANGED buffers
  \/ /\ ~NestingTooDeep /\ name \notin DOMAIN disk
     /\ Returns(stk, "refused") /\ UNCHANGED buffers
  \/ /\ ~NestingTooDeep /\ name \in DOMAIN disk
     /\ script_buffers' =
          [script_buffers EXCEPT ![NextSlot] = Load(@, disk[name], BufCap)]
     /\ UNCHANGED <<file_buffer, runtime_vars>>
     /\ \/ /\ ~ReadSucceeds(name, BufCap)
           /\ Returns(stk, "refused") /\ UNCHANGED script_depth
        \/ /\ ReadSucceeds(name, BufCap)
           /\ script_depth' = script_depth + 1
           /\ Returns(Append(stk, Activation("batch", name, LoadedLen(disk[name]), NextSlot)),
                      "ok")

\* run_rxe_file looks the whole argument up among rfs_files, never on the
\* image; fs_read_file copies what fits into file_buffer even when it fails.
RunRxeFile(args, stk) ==
  LET found == Len(args) = 1 /\ args[1] \in DOMAIN RfsFiles
      file  == RfsFiles[args[1]]
      runs  == found /\ Len(file.text) <= BufCap /\ file.magic
  IN  /\ file_buffer' = IF found THEN Load(file_buffer, file.text, BufCap)
                                 ELSE file_buffer
      /\ UNCHANGED <<script_depth, script_buffers, runtime_vars>>
      /\ \/ ~runs /\ Returns(stk, "refused")
         \/ /\ runs
            /\ Returns(Append(stk, Activation("rxe", args[1], Len(file.text), 0)), "ok")

\* RUN takes a file whose name ends in .RXE as an RXE file, any other as a batch.
IsRxe(args) == args[Len(args)] \in RxeNames

Run(line, stk) ==
  /\ Command(line) = "RUN" /\ Len(line) > 1
  /\ \/ Overflows(stk) /\ Overflow(stk)
     \/ ~Overflows(stk) /\ IsRxe(Tail(line)) /\ RunRxeFile(Tail(line), stk)
     \/ ~Overflows(stk) /\ ~IsRxe(Tail(line)) /\ RunScriptFile(line[2], stk)

\* cmd_script empties the variable table, whoever was using it.
Script(line, stk) ==
  /\ Command(line) = "SCRIPT" /\ Len(line) > 1
  /\ \/ Overflows(stk) /\ Overflow(stk)
     \/ /\ ~Overflows(stk) /\ ~Found(Tail(line))
        /\ Returns(stk, "refused") /\ UNCHANGED buffers
     \/ /\ ~Overflows(stk) /\ Found(Tail(line))
        /\ file_buffer' = Load(file_buffer, disk[line[2]], BufCap)
        /\ UNCHANGED <<script_depth, script_buffers>>
        /\ \/ /\ ~ReadSucceeds(line[2], BufCap)
              /\ Returns(stk, "refused") /\ UNCHANGED runtime_vars
           \/ /\ ReadSucceeds(line[2], BufCap)
              /\ runtime_vars' = <<>>
              /\ Returns(Append(stk, Activation("script", line[2], LoadedLen(disk[line[2]]), 0)),
                         "ok")

Pause(line, stk) ==
  /\ Command(line) = "PAUSE"
  /\ machine' = "pause" /\ stack' = stk /\ answer' = "ok" /\ UNCHANGED buffers

Reboot(line, stk) ==
  /\ Command(line) \in {"EXIT", "REBOOT"}
  /\ machine' = "reset" /\ stack' = stk /\ answer' = "ok" /\ UNCHANGED buffers

\* Every other command, and every bad one, leaves this state alone.
Other(line, stk) ==
  /\ Command(line) \notin ShowCommands \cup {"PAUSE", "EXIT", "REBOOT"}
  /\ Command(line) \in {"RUN", "SCRIPT"} => Len(line) = 1
  /\ Returns(stk, "ok") /\ UNCHANGED buffers

Execute(line, stk) ==
  \/ Show(line, stk) \/ Run(line, stk) \/ Script(line, stk)
  \/ Pause(line, stk) \/ Reboot(line, stk) \/ Other(line, stk)

\* No line of the RXE files compiled into the kernel reads a file or runs another
\* one (rfs_demo_rxe).
ASSUME RxeInert ==
  \A f \in DOMAIN RfsFiles : RfsFiles[f].magic =>
    \A k \in 1 .. Len(RfsFiles[f].text) :
      Command(RfsFiles[f].text[k]) \notin ShowCommands \cup {"RUN", "SCRIPT"}

-----------------------------------------------------------------------------
(* The loops that fetch lines and call execute_command. *)

Top == stack[Len(stack)]
Below == SubSeq(stack, 1, Len(stack) - 1)

\* Mutant: the loop index does not move.
KeepPosition == stack

Advanced == [stack EXCEPT ![Len(stack)].pos = @ + 1]

AtLine(kind) ==
  machine = "run" /\ stack # <<>> /\ Top.kind = kind /\ Top.pos < Top.len

Skip == Returns(Advanced, answer) /\ UNCHANGED buffers

BatchSkips == {"", ":", "REM"}

BatchLine ==
  /\ AtLine("batch")
  /\ LET line == script_buffers[Top.slot][Top.pos + 1]
     IN  /\ current' = line
         /\ \/ Command(line) \in BatchSkips /\ Skip
            \/ Command(line) \notin BatchSkips /\ Execute(line, Advanced)
  /\ UNCHANGED disk

RxeLine ==
  /\ AtLine("rxe")
  /\ LET line == file_buffer[Top.pos + 1]
     IN current' = line /\ Execute(line, Advanced)
  /\ UNCHANGED disk

ScriptSkips == {"", "#", "REM"}
Arithmetic == {"ADD", "SUB", "MUL", "DIV"}
Instructions == {"SET", "PRINT", "RUN"} \cup Arithmetic

\* The operand of SET, ADD, ... is what follows the variable's name.
Operand(line) == SubSeq(line, 3, Len(line))

Acceptable(line) ==
  /\ Command(line) \in Instructions
  /\ Command(line) \in {"SET"} \cup Arithmetic => Len(line) > 1 /\ IsInt32(Operand(line))
  /\ Command(line) = "SET" => CanSet(runtime_vars, line[2])
  /\ Command(line) \in Arithmetic => Known(runtime_vars, line[2])
  /\ Command(line) = "DIV" => ParseInt32(Operand(line)) # 0

\* goto fail: the script ends, its caller goes on.
Abort(line) ==
  /\ Command(line) \notin ScriptSkips /\ ~Acceptable(line)
  /\ Returns(Below, "aborted") /\ UNCHANGED buffers

Set(line) ==
  /\ Command(line) = "SET" /\ Acceptable(line)
  /\ runtime_vars' = SetVar(runtime_vars, line[2], ParseInt32(Operand(line)))
  /\ Returns(Advanced, "ok")
  /\ UNCHANGED <<script_depth, script_buffers, file_buffer>>

\* A division that does not fit traps; there is no interrupt table, so the
\* trap resets the processor.
DivisionTraps(line) ==
  /\ Command(line) = "DIV"
  /\ Traps(ValueOf(runtime_vars, line[2]), ParseInt32(Operand(line)))

Apply(line) ==
  /\ Command(line) \in Arithmetic /\ Acceptable(line) /\ ~DivisionTraps(line)
  /\ runtime_vars' =
       ApplyVar(runtime_vars, Command(line), line[2], ParseInt32(Operand(line)))
  /\ Returns(Advanced, "ok")
  /\ UNCHANGED <<script_depth, script_buffers, file_buffer>>

Trap(line) ==
  /\ Command(line) \in Arithmetic /\ Acceptable(line) /\ DivisionTraps(line)
  /\ machine' = "reset" /\ stack' = Advanced /\ answer' = "none"
  /\ UNCHANGED buffers

PrintVar(line) ==
  /\ Command(line) = "PRINT"
  /\ Returns(Advanced, "ok") /\ UNCHANGED buffers

\* cmd_script reads its next line from file_buffer, whatever is in it by then.
ScriptLine ==
  /\ AtLine("script")
  /\ LET line == file_buffer[Top.pos + 1]
     IN  /\ current' = line
         /\ \/ Command(line) \in ScriptSkips /\ Skip
            \/ Abort(line) \/ Set(line) \/ Apply(line) \/ Trap(line) \/ PrintVar(line)
            \/ Command(line) = "RUN" /\ Execute(Tail(line), Advanced)
  /\ UNCHANGED disk

\* Mutant: run_script_file returns without script_depth--.
DepthKept == script_depth

DepthAfterReturn ==
  IF Top.kind = "batch" THEN script_depth - 1 ELSE script_depth

Return ==
  /\ machine = "run" /\ stack # <<>> /\ Top.pos = Top.len
  /\ stack' = Below /\ script_depth' = DepthAfterReturn
  /\ UNCHANGED <<disk, machine, script_buffers, file_buffer, runtime_vars,
                 current, answer>>

-----------------------------------------------------------------------------
(* kmain and its user. *)

\* After the mount, kmain runs AUTOEXEC.BAT once.
RunAutoexec ==
  /\ machine = "boot"
  /\ current' = <<>> /\ UNCHANGED disk
  /\ RunScriptFile(Autoexec, <<>>)

AtPrompt == machine = "run" /\ stack = <<>>

ReadCommand ==
  /\ AtPrompt
  /\ \E line \in UserLines : current' = line /\ Execute(line, <<>>)
  /\ UNCHANGED disk

\* cmd_pause waits for Enter.
PressEnter ==
  /\ machine = "pause" /\ machine' = "run"
  /\ UNCHANGED <<disk, stack, script_depth, script_buffers, file_buffer,
                 runtime_vars, current, answer>>

Restart == machine = "reset" /\ Cleared /\ UNCHANGED disk

Kernel == RunAutoexec \/ BatchLine \/ RxeLine \/ ScriptLine \/ Return \/ Restart
User == ReadCommand \/ PressEnter
Next == Kernel \/ User

\* The processor never stops between two lines; the user may.
Spec == Init /\ [][Next]_vars
FairSpec == Spec /\ WF_vars(Kernel)
-----------------------------------------------------------------------------
(* Properties. *)

Live(kind) == {i \in 1 .. Len(stack) : stack[i].kind = kind}

\* A batch file that is running, at whatever depth, still finds its own lines
\* in its buffer, although TYPE, SCRIPT and nested batches reuse buffers under it
\* (run_script_file keeps each depth in a slot of script_buffers).
BatchIntegrity ==
  \A i \in Live("batch") : \A k \in 1 .. stack[i].len :
    script_buffers[stack[i].slot][k] = disk[stack[i].file][k]

\* script_depth counts the batch files that have started and not returned, on
\* every path through refusals, aborts, pauses and nested scripts.
DepthMatches == script_depth = Cardinality(Live("batch"))

\* An RXE file executes from the shared file_buffer, and yet reads only its own
\* lines: no command of the shipped table replaces them while it runs.
RxeIntegrity ==
  \A i \in Live("rxe") : \A k \in 1 .. stack[i].len :
    file_buffer[k] = RfsFiles[stack[i].file].text[k]

\* What RUN and SCRIPT promise about the order in which lines are executed.
Abstract == INSTANCE Programs
ImplementsPrograms == Abstract!Spec

\* The new table reads back what a SET line set, if the name fits the 16 bytes of
\* an entry, and every variable the line does not name is as it was.
TakesEffect(line, old, new) ==
  /\ (Command(line) = "SET" /\ Stored[line[2]] = line[2])
       => Known(new, line[2]) /\ ValueOf(new, line[2]) = ParseInt32(Operand(line))
  /\ \A other \in Word \ {line[2]} :
       Known(old, other) => Known(new, other) /\ ValueOf(new, other) = ValueOf(old, other)

\* A SET or an arithmetic line that a script accepts takes effect, whatever was in
\* the table and in file_buffer (get_or_create_runtime_var, copy_text).
SetReadsBack ==
  [][(/\ AtLine("script") /\ answer' = "ok"
      /\ Command(current') \in {"SET"} \cup Arithmetic)
       => TakesEffect(current', runtime_vars, runtime_vars')]_vars

\* The table never holds a name twice, unless the name was cut when it was stored.
NamesUnique ==
  \A i, j \in 1 .. Len(runtime_vars) :
    (i # j /\ runtime_vars[i].name = runtime_vars[j].name)
      => \E w \in Word : Stored[w] = runtime_vars[i].name /\ Stored[w] # w

\* Whatever the files call, the kernel gets back to its prompt, or waits in a
\* PAUSE, or is being restarted; batch recursion is cut off by script_depth, and
\* only scripts, which nothing cuts off, can fill the stack.
ReturnsToPrompt ==
  [](machine = "run" =>
       <>(\/ AtPrompt \/ machine \in {"pause", "reset"}
          \/ machine = "overflow" /\ Live("script") # {}))
-----------------------------------------------------------------------------
(* Statements of the repository that this code does not keep.  Each is      *)
(* checked by a run of its own, which ends in a counterexample.             *)

\* README.md: SCRIPT executes the line-based instructions of the file it names.
\* Yet the lines ahead of a script are replaced when it RUNs a command that
\* reads a file into file_buffer.
ScriptIntegrity ==
  \A i \in Live("script") : \A k \in stack[i].pos + 1 .. stack[i].len :
    file_buffer[k] = disk[stack[i].file][k]

\* run_script_file and cmd_script report a file as "not found or too large"
\* when it does not fit.  Yet read_file succeeds on a file cut to the buffer.
RunsWholeFile ==
  \A i \in Live("batch") \cup Live("script") : stack[i].len = Len(disk[stack[i].file])

\* README.md lists RUN among the instructions of a script, and run_script_file answers
\* calls that go too deep with a message: scripts that call commands stay within the
\* kernel's stack.  Yet a script that RUNs SCRIPT is never answered so, and fills it.
ScriptsFitTheStack == machine = "overflow" => Live("script") = {}

\* README.md: RUN can execute RFS executables, for example DEMO.RXE.  Yet
\* run_rxe_file finds a file only under a name with the RFS: prefix.
RunsRxeByName ==
  ~(Command(current) = "RUN" /\ Args(current) = <<"DEMO.RXE">> /\ answer = "refused")

\* A division that cannot be done is reported and aborts the script, as DIV by
\* zero does.  Yet INT32_MIN / -1 is divided, and traps.
DivisionReported == ~(machine = "reset" /\ Command(current) = "DIV")
=============================================================================
