--------------------------------- MODULE MCKernel -------------------------------
(* The kernel's tasks on a machine of ten pages.                               *)
EXTENDS Kernel

\* Pages 0 to 8 usable, with the boot stack on the highest of them, and the
\* kernel on page 9.
MCMaps == { << [Type |-> 1, Begin |-> 0, Length |-> 36],
               [Type |-> 2, Begin |-> 36, Length |-> 4] >> }

\* Each thread sleeps for two ticks.
MCSleep == [n \in 1 .. 3 |-> 2]

ASSUME MCLowMemory == LowMemory
================================================================================
