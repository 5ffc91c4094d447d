----------------------------- MODULE MCConsole -----------------------------
(* A screen of two rows of three, with the keys *, Backspace and Enter, which *)
(* are the same with shift, and a byte or a code at a time from either side.  *)
EXTENDS Console

Stars == {"*"}
Sent == {"*", "CR", "DEL", "TAB"}
Same == [k \in {"*", "BS", "LF"} |-> k]
Names == {" ", "*", ">", "LF", "CR", "BS", "DEL", "TAB", "BEL"}
Sign == <<">">>
Answers == {<<>>, <<"BEL", "LF">>}
TwoColors == {"grey", "blue"}
=============================================================================
