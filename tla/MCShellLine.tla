------------------------------- MODULE MCShellLine ------------------------------
(* A ring of four slots and a line of two characters: every fill level of both,  *)
(* every position of the indices, and every order of five keys occur.  A row has *)
(* two cells: prompts end in both, and lines within the row and at its end.      *)
EXTENDS ShellLine
================================================================================
