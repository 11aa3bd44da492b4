---------------------------------- MODULE MCAta ---------------------------------
(* Two sectors of two words and calls of one or two sectors: a call may reach   *)
(* behind the end of the disk, fail in its first or second sector, and read     *)
(* what an earlier call wrote.  Two turns of the poll: it may find DRQ late.    *)
EXTENDS Ata
================================================================================
