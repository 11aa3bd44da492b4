------------------------------- MODULE PmmClients -------------------------------
(******************************************************************************)
(* The page allocator with its callers.  The kernel has two: the scheduler,   *)
(* which keeps one page per task stack and tests what PMM_AllocPage returns   *)
(* (scheduler.c:41-45, 179-182), and cmd_pmm_demo, which fills an array and   *)
(* frees every entry of it, NULL included (shell.c:787-800).  Here both call  *)
(* in any order: what holds is what PMM promises to callers of that kind.     *)
(******************************************************************************)
EXTENDS Pmm

VARIABLE held   \* held[c]: the pages caller c was given and has not freed

clientVars == <<g_Used, g_FreePages, g_TotalPages, regions, boot, next_region,
                out_of_memory, held>>

Callers == {"sched", "demo"}

Held == held["sched"] \cup held["demo"]

Init ==
    /\ PmmInit
    /\ held = [c \in Callers |-> {}]

Initialize == PMM_Initialize /\ UNCHANGED held

Alloc(c, page) ==
    /\ PmmReady
    /\ PMM_AllocPage(page)
    /\ held' = [held EXCEPT ![c] = IF page = NULL THEN @ ELSE @ \cup {page}]

Free(c, page) ==
    /\ PmmReady
    /\ page \in held[c]
    /\ PMM_FreePage(page)
    /\ held' = [held EXCEPT ![c] = @ \ {page}]

\* cmd_pmm_demo frees the NULL it was given after an allocation failed.
FreeNull ==
    /\ PmmReady
    /\ out_of_memory
    /\ PMM_FreePage(NULL)
    /\ UNCHANGED held

Next ==
    \/ Initialize
    \/ \E c \in Callers, page \in Pages : Alloc(c, page) \/ Free(c, page)
    \/ FreeNull

Spec == Init /\ [][Next]_clientVars

--------------------------------------------------------------------------------
TypeOK ==
    /\ PmmTypeOK
    /\ held \in [Callers -> SUBSET Pages]

\* A page is granted to one caller at a time and stays marked used for as long
\* as it is held (the first-fit scan and the bitmap of pmm.c:84-103): two
\* callers never share a page, and none holds page 0 or a page of the kernel.
Exclusive ==
    /\ held["sched"] \cap held["demo"] = {}
    /\ Held \subseteq g_Used
    /\ Held \cap Reserved = {}

\* Once PMM_Initialize has returned, a clear bit is always a page of usable
\* memory outside the kernel image; page 0 alone may become free, and only after
\* an allocation failed and the demo freed the NULL it got (pmm.c:66-77).
FreeIsUsable ==
    PmmReady =>
        /\ FreeSet \subseteq (Ram \ KernelPages) \cup {0}
        /\ 0 \in FreeSet => out_of_memory

\* No page is lost: after start-up every usable page outside the kernel is free
\* or held by a caller, through any sequence of calls (pmm.c:84-103).
NoLeak == PmmReady => Ram \ Reserved \subseteq FreeSet \cup Held

\* The bitmap's pages are accounted for in both directions (pmm.c:30-103).
PagesAccounted == FreeIsUsable /\ NoLeak

\* PMM_GetFreePages never exceeds PMM_GetTotalPages while memory lasts, so the
\* subtraction in meminfo (shell.c:300-325) does not wrap around.
FreeWithinTotal == ~out_of_memory => g_FreePages <= g_TotalPages
================================================================================
