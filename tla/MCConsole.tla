------------------------------ MODULE MCConsole ------------------------------
(* Model-checking instance of Console: the letter x and the space, a       *)
(* password of one letter, a command x with one parameter and two pages,   *)
(* and a command xx without parameters.  One word of two characters fits   *)
(* xargv: "xx" does, and "x ", which is a parameter; "x x" has a word and   *)
(* "xx " a character too many.                                             *)
EXTENDS Console

TheLetters  == {"x", " "}
ThePasswd   == <<"x">>
TheCommands == {<<"x">>, <<"x", "x">>}
TheParames  == [c \in TheCommands |-> IF Len(c) = 1 THEN 1 ELSE 0]
ThePages    == [c \in TheCommands |-> IF Len(c) = 1 THEN 2 ELSE 1]
=============================================================================
