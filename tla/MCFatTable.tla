------------------------------- MODULE MCFatTable -------------------------------
(* Two entries to a sector, three sectors of FAT, a window of two: it can sit   *)
(* anywhere, across the end of the FAT too, and every cluster can be outside.   *)
EXTENDS FatTable
================================================================================
