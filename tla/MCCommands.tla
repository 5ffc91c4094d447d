----------------------------- MODULE MCCommands -----------------------------
(***************************************************************************)
(* Commands with a clock that goes around four moments, in which every     *)
(* register changes, at midnight and at noon; a log of three entries; and  *)
(* texts of which one is cut by the log and one by the prompt as well.     *)
(***************************************************************************)
EXTENDS Commands

At(y, mo, d, h, mi, s) ==
  [year |-> y, month |-> mo, day |-> d, hour |-> h, minute |-> mi, second |-> s]

Evening == At(99, 12, 31, 23, 59, 59)
Midnight == At(0, 1, 1, 0, 0, 0)
Morning == At(9, 8, 19, 11, 59, 9)
Noon == At(10, 9, 20, 12, 0, 10)

MCMoments == {Evening, Midnight, Morning, Noon}
MCFollowing ==
  [m \in MCMoments |-> CASE m = Evening -> Midnight [] m = Midnight -> Morning
                         [] m = Morning -> Noon [] m = Noon -> Evening]

MCTexts == {<<"a">>, <<"b", "c", "d">>}
MCInitial == <<"i">>
MCDefault == <<"r">>
=============================================================================
