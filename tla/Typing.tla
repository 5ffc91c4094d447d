------------------------------- MODULE Typing -------------------------------
(***************************************************************************)
(* Every string that can be typed, character by character, on one of some  *)
(* keyboards, given to all of DosNames and Text that takes a string.       *)
(***************************************************************************)
EXTENDS Text

CONSTANTS
  Keyboards,  \* sets of characters
  MaxLength   \* bound: of the strings typed

ASSUME KeyboardAssumption == \A chars \in Keyboards : chars \subseteq DOMAIN UpperOf

VARIABLES keys, typed

vars == <<keys, typed>>

Init == keys \in Keyboards /\ typed = <<>>
Type ==
  \E c \in keys : Len(typed) < MaxLength /\ typed' = Append(typed, c) /\ UNCHANGED keys
Next == Type
Spec == Init /\ [][Next]_vars
-----------------------------------------------------------------------------
\* A file that mkfloppy.py takes is found by the driver under its host name, in
\* whatever case it is typed.
HostNamesFind == HostNameFinds(typed)

\* A typed word finds no file but the one it names, in the root directory or in
\* the RFS table, and never one in each.
TypedNamesFindTheirFile == TypedNameFindsItsFile(typed) /\ RfsApart(typed)

\* A file is executed line by line as it is written: no byte of one line gets
\* into another, and none is lost but what does not fit.
LinesKept == LinesAreKept(typed)

\* Whatever looks for words without take_token - the count of WC, the test for
\* REM - finds the words take_token takes in a string (one with no zero in it).
WordsMatch ==
  End \notin Letters(typed) => WordsAreTokens(typed) /\ CommentIsCommand(typed)

\* A number typed is taken exactly or refused (parse_uint).
CountsExact == CountIsExact(typed)

\* What the kernel prints for a number it can read again.
PrintReadsBack == PrintedReadsBack(typed)
=============================================================================
