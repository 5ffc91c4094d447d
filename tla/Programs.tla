------------------------------ MODULE Programs ------------------------------
(***************************************************************************)
(* What the RUN and SCRIPT commands of 64DOS promise, with no buffers in   *)
(* it: programs nest like procedure calls, each one's lines are taken from *)
(* its own file, in order and each once, and a caller goes on with the     *)
(* line after the call.  Nothing is promised here about where the lines of *)
(* a runtime script come from (kind "script"): cmd_script reads them from  *)
(* a buffer that the commands it runs may fill anew.                       *)
(***************************************************************************)
EXTENDS Integers, Sequences

CONSTANT RfsFiles  \* rfs_files

VARIABLES
  disk,     \* the files of the image: names to sequences of lines
  stack,    \* running programs, innermost last
  current   \* the line taken for execution

progVars == <<disk, stack, current>>

Own(p) == IF p.kind = "batch" THEN disk[p.file] ELSE RfsFiles[p.file].text

\* A program starts at its first line.  A batch or a script may be cut to what
\* the buffer holds; an RXE file is run whole or not at all.
Startable(p) ==
  /\ p.pos = 0
  /\ p.kind = "rxe" => /\ p.file \in DOMAIN RfsFiles /\ RfsFiles[p.file].magic
                       /\ p.len = Len(RfsFiles[p.file].text)
  /\ p.kind # "rxe" => p.file \in DOMAIN disk /\ p.len <= Len(disk[p.file])

Innermost == stack[Len(stack)]

\* Every caller is left as it was.
CallersKept == \A i \in 1 .. Len(stack) - 1 : stack'[i] = stack[i]

\* The innermost program has consumed a line.
Consumed ==
  LET p == stack'[Len(stack)]
  IN  /\ p.pos = Innermost.pos + 1
      /\ <<p.kind, p.file, p.len>> = <<Innermost.kind, Innermost.file, Innermost.len>>

Begin ==
  /\ stack = <<>>
  /\ Len(stack') <= 1
  /\ Len(stack') = 1 => Startable(stack'[1])

TakeLine ==
  /\ stack # <<>> /\ Innermost.pos < Innermost.len
  /\ Innermost.kind # "script" => current' = Own(Innermost)[Innermost.pos + 1]
  /\ Len(stack') \in {Len(stack), Len(stack) + 1}
  /\ CallersKept /\ Consumed
  /\ Len(stack') = Len(stack) + 1 => Startable(stack'[Len(stack')])

\* A program ends after its last line; only a script may end before it.
End ==
  /\ stack # <<>>
  /\ Innermost.pos = Innermost.len \/ Innermost.kind = "script"
  /\ Len(stack') = Len(stack) - 1 /\ CallersKept

\* A reset forgets everything.
Forget == stack' = <<>> /\ current' = <<>>

Init == stack = <<>> /\ current = <<>>

Next == (Begin \/ TakeLine \/ End \/ Forget) /\ UNCHANGED disk

Spec == Init /\ [][Next]_progVars
=============================================================================
