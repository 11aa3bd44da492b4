---------------------------------- MODULE Pmm ----------------------------------
(******************************************************************************)
(* The physical memory manager (src/kernel/pmm.c): a bitmap of page frames    *)
(* and two counters.  The bitmap is the set g_Used of pages whose bit is 1.   *)
(*                                                                            *)
(* PMM_Initialize is taken one E820 region at a time, then the reservation    *)
(* of the kernel's pages and of page 0; after it, callers may allocate and    *)
(* free.  This module has the state and the operations; who calls them is in  *)
(* PmmClients and in Scheduler.                                               *)
(******************************************************************************)
EXTENDS Integers, Sequences, FiniteSets

CONSTANTS
    MaxPages,       \* MAX_PAGES, the pages the bitmap can describe
    PageSize,       \* PAGE_SIZE
    KernelStart,    \* &__entry_start, a byte address
    KernelEnd,      \* &__end, the first byte after the kernel
    E820Maps        \* the memory maps the boot loader may hand over

Region == [Type : Nat, Begin : Nat, Length : Nat]

ASSUME PmmAssumption ==
    /\ MaxPages \in Nat \ {0}
    /\ PageSize \in Nat \ {0}
    /\ KernelStart \in Nat
    /\ KernelEnd \in Nat
    /\ E820Maps \subseteq Seq(Region)

Pages == 0 .. MaxPages - 1

\* The address NULL and the address of page 0 are the same value.
NULL == 0

VARIABLES
    g_Used,         \* g_Bitmap: the pages whose bit is set
    g_FreePages,    \* g_FreePages
    g_TotalPages,   \* g_TotalPages
    regions,        \* bootParams->Memory, fixed at boot
    boot,           \* how far PMM_Initialize has come: see BootPhases
    next_region,    \* i of the loop over the regions
    out_of_memory   \* "Out of memory!" has been logged

pmmVars == <<g_Used, g_FreePages, g_TotalPages, regions, boot, next_region,
             out_of_memory>>

\* The loop over the regions, the reservations after it, PMM_Initialize done.
BootPhases == {"regions", "reserve", "ready"}

PmmReady == boot = "ready"

FreeSet == Pages \ g_Used

\* A mutant of RegionPages: the start of the region is rounded down.
RegionPages_RoundDown(r) ==
    IF r.Type # 1 THEN {}
    ELSE {p \in Pages : /\ r.Begin \div PageSize <= p
                        /\ p < (r.Begin + r.Length) \div PageSize}

\* The pages PMM_Initialize frees for a region of usable memory: its start is
\* rounded up, its end rounded down and cut off at MAX_PAGES.
RegionPages(r) ==
    IF r.Type # 1 THEN {}
    ELSE {p \in Pages : /\ (r.Begin + PageSize - 1) \div PageSize <= p
                        /\ p < (r.Begin + r.Length) \div PageSize}

\* The pages all of whose bytes are in one usable region of the map.
Ram == {p \in Pages : \E i \in DOMAIN regions :
          /\ regions[i].Type = 1
          /\ regions[i].Begin <= p * PageSize
          /\ (p + 1) * PageSize <= regions[i].Begin + regions[i].Length}

KernelPages ==
    {p \in Pages : /\ KernelStart \div PageSize <= p
                   /\ p < (KernelEnd + PageSize - 1) \div PageSize}

Reserved == KernelPages \cup {0}

PmmInit ==
    /\ regions \in E820Maps
    /\ g_Used = Pages
    /\ g_FreePages = 0
    /\ g_TotalPages = 0
    /\ boot = "regions"
    /\ next_region = 1
    /\ out_of_memory = FALSE

\* A mutant of PMM_InitRegion: g_FreePages counts every page of the region.
PMM_InitRegion_CountAll ==
    /\ boot = "regions"
    /\ next_region <= Len(regions)
    /\ LET freed == RegionPages(regions[next_region]) \cap g_Used
       IN  /\ g_Used' = g_Used \ freed
           /\ g_FreePages' = g_FreePages
                               + Cardinality(RegionPages(regions[next_region]))
           /\ g_TotalPages' = g_TotalPages + Cardinality(freed)
    /\ next_region' = next_region + 1
    /\ UNCHANGED <<regions, boot, out_of_memory>>

\* One turn of the loop over the E820 map: the region's pages that are still
\* marked used become free, and each is counted once however the regions overlap.
PMM_InitRegion ==
    /\ boot = "regions"
    /\ next_region <= Len(regions)
    /\ LET freed == RegionPages(regions[next_region]) \cap g_Used
       IN  /\ g_Used' = g_Used \ freed
           /\ g_FreePages' = g_FreePages + Cardinality(freed)
           /\ g_TotalPages' = g_TotalPages + Cardinality(freed)
    /\ next_region' = next_region + 1
    /\ UNCHANGED <<regions, boot, out_of_memory>>

PMM_InitRegionsDone ==
    /\ boot = "regions"
    /\ next_region > Len(regions)
    /\ boot' = "reserve"
    /\ UNCHANGED <<g_Used, g_FreePages, g_TotalPages, regions, next_region,
                   out_of_memory>>

\* The kernel's pages and page 0 are marked used again.
PMM_InitReserve ==
    /\ boot = "reserve"
    /\ LET taken == Reserved \cap FreeSet
       IN  /\ g_Used' = g_Used \cup taken
           /\ g_FreePages' = g_FreePages - Cardinality(taken)
    /\ boot' = "ready"
    /\ UNCHANGED <<g_TotalPages, regions, next_region, out_of_memory>>

PMM_Initialize == PMM_InitRegion \/ PMM_InitRegionsDone \/ PMM_InitReserve

\* A mutant of PMM_AllocPage: the bit of the page found is not set.
PMM_AllocPage_NoSet(page) ==
    \/ /\ page \in FreeSet
       /\ \A q \in FreeSet : page <= q
       /\ g_FreePages' = g_FreePages - 1
       /\ UNCHANGED <<g_Used, g_TotalPages, regions, boot, next_region,
                      out_of_memory>>
    \/ /\ FreeSet = {}
       /\ page = NULL
       /\ out_of_memory' = TRUE
       /\ UNCHANGED <<g_Used, g_FreePages, g_TotalPages, regions, boot,
                      next_region>>

\* PMM_AllocPage() = page: the lowest free page, or NULL when there is none.
PMM_AllocPage(page) ==
    \/ /\ page \in FreeSet
       /\ \A q \in FreeSet : page <= q
       /\ g_Used' = g_Used \cup {page}
       /\ g_FreePages' = g_FreePages - 1
       /\ UNCHANGED <<g_TotalPages, regions, boot, next_region, out_of_memory>>
    \/ /\ FreeSet = {}
       /\ page = NULL
       /\ out_of_memory' = TRUE
       /\ UNCHANGED <<g_Used, g_FreePages, g_TotalPages, regions, boot,
                      next_region>>

\* A mutant of PMM_FreePage: the bit is not tested before the page is counted.
PMM_FreePage_NoTest(page) ==
    /\ g_Used' = g_Used \ {page}
    /\ g_FreePages' = g_FreePages + 1
    /\ UNCHANGED <<g_TotalPages, regions, boot, next_region, out_of_memory>>

\* A mutant of PMM_FreePage: the page is counted and its bit left set.
PMM_FreePage_NoClear(page) ==
    /\ g_FreePages' = g_FreePages + (IF page \in g_Used THEN 1 ELSE 0)
    /\ UNCHANGED <<g_Used, g_TotalPages, regions, boot, next_region,
                   out_of_memory>>

\* PMM_FreePage(page): a page that is not marked used is left alone; nothing
\* else is asked of the argument.
PMM_FreePage(page) ==
    /\ g_Used' = g_Used \ {page}
    /\ g_FreePages' = g_FreePages + (IF page \in g_Used THEN 1 ELSE 0)
    /\ UNCHANGED <<g_TotalPages, regions, boot, next_region, out_of_memory>>

--------------------------------------------------------------------------------
PmmTypeOK ==
    /\ g_Used \subseteq Pages
    /\ g_FreePages \in 0 .. MaxPages
    /\ g_TotalPages \in 0 .. MaxPages
    /\ regions \in E820Maps
    /\ boot \in BootPhases
    /\ next_region \in 1 .. Len(regions) + 1
    /\ out_of_memory \in BOOLEAN

\* The counter PMM_GetFreePages reports is the number of clear bits, however
\* the regions overlap, whatever is freed twice and while memory is exhausted
\* (pmm.c keeps the two apart and updates them by hand in five places).
FreeCount == g_FreePages = Cardinality(FreeSet)
================================================================================
