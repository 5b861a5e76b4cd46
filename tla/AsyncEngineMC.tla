--------------------------- MODULE AsyncEngineMC ---------------------------
(* Constants for model checking AsyncEngine.                               *)
EXTENDS AsyncEngine

Two == {1, 2}
OwnIds == [c \in Calls |-> c]
FirstGoesOn == [c \in Calls |-> IF c = 1 THEN 1 ELSE 0]
=============================================================================
