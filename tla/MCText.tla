------------------------------- MODULE MCText -------------------------------
(***************************************************************************)
(* Typing for a few small keyboards: names, numbers, text with line ends,  *)
(* comments, and paths.                                                    *)
(***************************************************************************)
EXTENDS Typing, TLC

MCKeyboards ==
  {{"a", "A", "B", ".", " ", "\\", ":"}, {"0", "1", "9", "f", "x", "-", " "},
   {"a", "\t", "\n", "\r", End}, {"r", "E", "m", " ", "\t"},
   {"r", "a", "B", ".", ":", "\\", "/"}}

Capital == ("a" :> "A") @@ ("f" :> "F") @@ ("x" :> "X") @@ ("r" :> "R") @@ ("m" :> "M")
MCUpperOf ==
  [c \in UNION MCKeyboards \cup {Hex[k] : k \in DOMAIN Hex} \cup {"R", "M", "X"} |->
     IF c \in DOMAIN Capital THEN Capital[c] ELSE c]

MCRfsDrive == <<"R">>
MCRfsNames == << {<<"A">>, <<"B", "/">>}, {<<"B">>, <<"A", ".", "B">>} >>
=============================================================================
