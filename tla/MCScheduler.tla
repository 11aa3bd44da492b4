------------------------------- MODULE MCScheduler ------------------------------
(* The scheduler with any calls in any order, on a memory of seven pages.      *)
EXTENDS Scheduler

Area(type, begin, length) == [Type |-> type, Begin |-> begin, Length |-> length]

\* Page 5 is the boot stack's, page 6 the kernel's.  Pages 0 to 4 usable and the
\* boot stack's page not; pages 0 to 2 and the boot stack's own page; pages 0 and
\* 1 (one stack fits); page 0 alone (not even the shell's stack fits).
MCMaps == { << Area(1, 0, 20), Area(2, 20, 4), Area(1, 24, 4) >>,
            << Area(1, 0, 12), Area(1, 20, 8) >>,
            << Area(1, 0, 8) >>,
            << Area(1, 0, 4) >> }
================================================================================
