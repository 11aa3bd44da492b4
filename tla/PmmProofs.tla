-------------------------------- MODULE PmmProofs -------------------------------
(******************************************************************************)
(* Proofs about the page allocator and its callers (PmmClients), for every    *)
(* number of pages, page size, kernel image and set of memory maps.           *)
(******************************************************************************)
EXTENDS PmmClients, FiniteSetTheorems, TLAPS

\* Sets of pages are finite; adding and removing one page changes the number of
\* free pages by one (the arithmetic of g_FreePages in pmm.c:84-103).
LEMMA PagesFinite ==
    /\ IsFiniteSet(Pages)
    /\ Cardinality(Pages) = MaxPages
    /\ \A S \in SUBSET Pages : /\ IsFiniteSet(S)
                               /\ Cardinality(S) \in 0 .. MaxPages
<1>1. IsFiniteSet(Pages) /\ Cardinality(Pages) = MaxPages
  BY FS_Interval, PmmAssumption DEF Pages
<1>2. ASSUME NEW S \in SUBSET Pages
      PROVE  IsFiniteSet(S) /\ Cardinality(S) \in 0 .. MaxPages
  <2>1. IsFiniteSet(S) /\ Cardinality(S) <= MaxPages
    BY <1>1, FS_Subset
  <2>2. Cardinality(S) \in Nat
    BY <2>1, FS_CardinalityType
  <2> QED BY <2>1, <2>2, PmmAssumption
<1> QED BY <1>1, <1>2

\* What a step of the allocator does to the number of clear bits: marking the
\* free pages T used takes |T| off, marking the used pages T free puts |T| on.
LEMMA FreeSetTake ==
    ASSUME NEW U \in SUBSET Pages, NEW T \in SUBSET (Pages \ U)
    PROVE  Cardinality(Pages \ (U \cup T)) = Cardinality(Pages \ U) - Cardinality(T)
<1>1. IsFiniteSet(Pages \ U)
  BY PagesFinite
<1>2. Pages \ (U \cup T) = (Pages \ U) \ T
  OBVIOUS
<1>3. (Pages \ U) \cap T = T
  OBVIOUS
<1> QED BY <1>1, <1>2, <1>3, FS_Difference

LEMMA FreeSetGive ==
    ASSUME NEW U \in SUBSET Pages, NEW T \in SUBSET U
    PROVE  Cardinality(Pages \ (U \ T)) = Cardinality(Pages \ U) + Cardinality(T)
<1>1. /\ IsFiniteSet(Pages \ U) /\ IsFiniteSet(T)
      /\ Cardinality(Pages \ U) \in Int /\ Cardinality(T) \in Int
  <2>1. T \in SUBSET Pages /\ Pages \ U \in SUBSET Pages
    OBVIOUS
  <2> QED BY <2>1, PagesFinite
<1>2. Pages \ (U \ T) = (Pages \ U) \cup T
  OBVIOUS
<1>3. (Pages \ U) \cap T = {}
  OBVIOUS
<1>4. Cardinality((Pages \ U) \cup T)
        = Cardinality(Pages \ U) + Cardinality(T) - Cardinality({})
  BY <1>1, <1>3, FS_Union
<1>5. Cardinality({}) = 0
  BY FS_EmptySet
<1>6. Cardinality(Pages \ (U \ T)) = Cardinality((Pages \ U) \cup T)
  BY <1>2, Zenon
<1> QED BY <1>1, <1>4, <1>5, <1>6

--------------------------------------------------------------------------------
\* The state's types, without the bounds on the two counters.
Shape ==
    /\ g_Used \subseteq Pages
    /\ g_TotalPages \in 0 .. MaxPages
    /\ regions \in E820Maps
    /\ boot \in BootPhases
    /\ next_region \in 1 .. Len(regions) + 1
    /\ out_of_memory \in BOOLEAN
    /\ held \in [Callers -> SUBSET Pages]

\* While the regions are freed the two counters are equal.
CountersAgree == boot = "regions" => g_TotalPages = g_FreePages

\* Nobody holds a page before PMM_Initialize is done; after it the reserved
\* pages stay used, but for page 0 once an allocation has failed.
ReservedUsed ==
    /\ ~PmmReady => Held = {} /\ ~out_of_memory
    /\ PmmReady => Reserved \ {0} \subseteq g_Used
    /\ PmmReady /\ 0 \notin g_Used => out_of_memory

\* What is free and what is held was counted usable when memory was set up.
Accounted ==
    ~out_of_memory => g_FreePages + Cardinality(Held) <= g_TotalPages

IInv == Shape /\ FreeCount /\ CountersAgree /\ ReservedUsed /\ Exclusive /\ Accounted

LEMMA MapLen == ASSUME NEW m \in E820Maps PROVE Len(m) \in Nat
<1> m \in Seq(Region)
  BY PmmAssumption
<1> QED OBVIOUS

\* The sets of pages of an allocator step, and of the callers, are finite.
LEMMA Counts ==
    ASSUME Shape, FreeCount
    PROVE  /\ g_FreePages \in 0 .. MaxPages
           /\ IsFiniteSet(Held) /\ Held \in SUBSET Pages
           /\ Cardinality(Held) \in 0 .. MaxPages
<1>1. FreeSet \in SUBSET Pages /\ Held \in SUBSET Pages
  BY DEF Shape, FreeSet, Held, Callers
<1> QED BY <1>1, PagesFinite DEF FreeCount

LEMMA InitIInv == Init => IInv
<1> SUFFICES ASSUME Init PROVE IInv
  OBVIOUS
<1> USE DEF Init, PmmInit
<1>1. Shape
  <2>1. Len(regions) \in Nat
    BY MapLen
  <2>2. next_region \in 1 .. Len(regions) + 1
    BY <2>1
  <2>3. 0 \in 0 .. MaxPages
    BY PmmAssumption
  <2>4. held \in [Callers -> SUBSET Pages]
    OBVIOUS
  <2> QED BY <2>2, <2>3, <2>4 DEF Shape, BootPhases
<1>2. FreeSet = {} /\ Held = {}
  BY DEF FreeSet, Held, Callers
<1>3. Cardinality({}) = 0
  BY FS_EmptySet
<1>4. FreeCount /\ Accounted
  BY <1>2, <1>3 DEF FreeCount, Accounted
<1>5. CountersAgree /\ ReservedUsed /\ Exclusive
  BY <1>2 DEF CountersAgree, ReservedUsed, Exclusive, PmmReady, Held, Callers
<1> QED BY <1>1, <1>4, <1>5 DEF IInv

\* PMM_Initialize frees and reserves pages and counts what it does.
LEMMA StepInitialize == IInv /\ Initialize => IInv'
<1> SUFFICES ASSUME IInv, Initialize PROVE IInv'
  OBVIOUS
<1> USE DEF IInv, Initialize
<1>0. /\ g_FreePages \in 0 .. MaxPages
      /\ g_FreePages = Cardinality(Pages \ g_Used)
  BY Counts DEF FreeCount, FreeSet
<1>h. /\ ~PmmReady /\ Held = {} /\ ~out_of_memory
      /\ held' = held /\ Held' = {} /\ ~out_of_memory'
      /\ held["sched"] = {} /\ held["demo"] = {} /\ Exclusive'
  BY DEF PMM_Initialize, PMM_InitRegion, PMM_InitRegionsDone, PMM_InitReserve,
         ReservedUsed, PmmReady, Held, Exclusive
<1>z. Cardinality(Held') = 0 /\ Cardinality(Held) = 0
  BY <1>h, FS_EmptySet
<1>1. CASE PMM_InitRegion
  <2> DEFINE freed == RegionPages(regions[next_region]) \cap g_Used
  <2>1. /\ g_Used' = g_Used \ freed
        /\ g_FreePages' = g_FreePages + Cardinality(freed)
        /\ g_TotalPages' = g_TotalPages + Cardinality(freed)
        /\ g_TotalPages = g_FreePages
        /\ boot' = boot /\ boot = "regions"
    BY <1>1 DEF PMM_InitRegion, CountersAgree
  <2>2. freed \in SUBSET g_Used /\ g_Used \in SUBSET Pages
    BY DEF Shape
  <2>3. Cardinality(Pages \ (g_Used \ freed)) = Cardinality(Pages \ g_Used) + Cardinality(freed)
    BY <2>2, FreeSetGive
  <2>4. FreeCount'
    BY <1>0, <2>1, <2>3 DEF FreeCount, FreeSet
  <2>5. g_Used' \in SUBSET Pages
    BY <2>1, <2>2
  <2>6. Pages \ g_Used' \in SUBSET Pages /\ freed \in SUBSET Pages
    BY <2>2
  <2>7. Cardinality(Pages \ g_Used') \in 0 .. MaxPages
    BY <2>6, PagesFinite
  <2>7a. Cardinality(freed) \in 0 .. MaxPages
    BY <2>6, PagesFinite
  <2>8. g_FreePages' \in 0 .. MaxPages /\ g_TotalPages' = g_FreePages'
    BY <2>1, <2>4, <2>7, <1>0 DEF FreeCount, FreeSet
  <2>9. Shape'
    BY <1>1, <2>5, <2>8, MapLen DEF Shape, PMM_InitRegion
  <2>10. CountersAgree' /\ ReservedUsed' /\ Accounted'
    BY <2>1, <2>8, <1>h, <1>z, PmmAssumption DEF CountersAgree, ReservedUsed, Accounted, PmmReady
  <2> QED BY <2>4, <2>9, <2>10, <1>h
<1>2. CASE PMM_InitRegionsDone
  <2>1. Shape' /\ FreeCount' /\ CountersAgree' /\ ReservedUsed' /\ Accounted'
    BY <1>2, <1>h, <1>z, MapLen DEF PMM_InitRegionsDone, Shape, FreeCount, FreeSet,
       CountersAgree, ReservedUsed, Accounted, PmmReady, BootPhases
  <2> QED BY <2>1, <1>h
<1>3. CASE PMM_InitReserve
  <2> DEFINE taken == Reserved \cap FreeSet
  <2>1. /\ g_Used' = g_Used \cup taken
        /\ g_FreePages' = g_FreePages - Cardinality(taken)
        /\ g_TotalPages' = g_TotalPages
        /\ boot' = "ready"
    BY <1>3 DEF PMM_InitReserve
  <2>2. taken \in SUBSET (Pages \ g_Used) /\ g_Used \in SUBSET Pages
    BY DEF Shape, FreeSet
  <2>3. Cardinality(Pages \ (g_Used \cup taken)) = Cardinality(Pages \ g_Used) - Cardinality(taken)
    BY <2>2, FreeSetTake
  <2>4. FreeCount'
    BY <1>0, <2>1, <2>3 DEF FreeCount, FreeSet
  <2>5. Cardinality(taken) \in 0 .. MaxPages
    <3>1. taken \in SUBSET Pages
      BY <2>2
    <3> QED BY <3>1, PagesFinite
  <2>6. Shape'
    <3>1. g_Used' \in SUBSET Pages
      BY <2>1, <2>2
    <3> QED BY <3>1, <1>3 DEF Shape, PMM_InitReserve, BootPhases
  <2>7. ReservedUsed'
    <3>1. 0 \in Pages /\ Reserved \subseteq Pages
      BY PmmAssumption DEF Pages, Reserved, KernelPages
    <3>2. Reserved \subseteq g_Used'
      BY <3>1, <2>1 DEF FreeSet
    <3> QED BY <3>2, <2>1 DEF ReservedUsed, PmmReady, Reserved
  <2>8. Accounted'
    BY <2>1, <2>5, <1>0, <1>h, <1>z DEF Accounted, Shape
  <2>9. CountersAgree'
    BY <2>1 DEF CountersAgree
  <2> QED BY <2>4, <2>6, <2>7, <2>8, <2>9, <1>h
<1> QED BY <1>1, <1>2, <1>3 DEF PMM_Initialize

\* An allocation: the page was free and nobody's, or NULL is returned.
LEMMA StepAlloc ==
    ASSUME IInv, NEW c \in Callers, NEW page \in Pages, Alloc(c, page)
    PROVE  IInv'
<1> USE DEF IInv
<1>0. /\ g_FreePages \in 0 .. MaxPages
      /\ g_FreePages = Cardinality(Pages \ g_Used)
      /\ IsFiniteSet(Held) /\ Cardinality(Held) \in 0 .. MaxPages
  BY Counts DEF FreeCount, FreeSet
<1>h. /\ PmmReady /\ PmmReady' /\ boot' = "ready" /\ boot = "ready"
      /\ held' = [held EXCEPT ![c] = IF page = NULL THEN @ ELSE @ \cup {page}]
      /\ held \in [Callers -> SUBSET Pages]
  BY DEF Alloc, PMM_AllocPage, PmmReady, Shape
<1>t. held' \in [Callers -> SUBSET Pages]
  BY <1>h
<1>r. CountersAgree'
  BY <1>h DEF CountersAgree
<1>1. CASE FreeSet = {} /\ out_of_memory'
  <2>1. g_Used' = g_Used /\ g_FreePages' = g_FreePages /\ held' = held /\ page = NULL
    BY <1>1, <1>h DEF Alloc, PMM_AllocPage, NULL
  <2> QED BY <2>1, <1>1, <1>h, <1>t, <1>r DEF Alloc, PMM_AllocPage, Shape, FreeCount,
         FreeSet, ReservedUsed, PmmReady, Exclusive, Accounted, Held
<1>2. CASE page \in FreeSet /\ g_Used' = g_Used \cup {page}
  <2>1. /\ g_FreePages' = g_FreePages - 1
        /\ UNCHANGED <<g_TotalPages, regions, boot, next_region, out_of_memory>>
    BY <1>2 DEF Alloc, PMM_AllocPage
  <2>2. Cardinality({page}) = 1
    BY FS_Singleton
  <2>3. {page} \in SUBSET (Pages \ g_Used) /\ g_Used \in SUBSET Pages
    BY <1>2 DEF FreeSet, Shape
  <2>4. Cardinality(Pages \ (g_Used \cup {page})) = Cardinality(Pages \ g_Used) - Cardinality({page})
    BY <2>3, FreeSetTake
  <2>5. FreeCount'
    BY <1>0, <1>2, <2>1, <2>2, <2>4 DEF FreeCount, FreeSet
  <2>6. Shape'
    BY <1>2, <1>t, <2>1, <2>3 DEF Shape
  <2>7. ReservedUsed'
    BY <1>2, <1>h, <2>1 DEF ReservedUsed, PmmReady
  <2>8. page \notin Held /\ (page # NULL => page \notin Reserved)
    BY <1>2, <1>h DEF Exclusive, ReservedUsed, FreeSet, NULL, Held
  <2>9. /\ page = NULL => held' = held
        /\ page # NULL => /\ held'[c] = held[c] \cup {page}
                          /\ \A d \in Callers \ {c} : held'[d] = held[d]
    BY <1>h
  <2>10. Exclusive'
    BY <1>2, <2>8, <2>9 DEF Exclusive, Held, Callers, Reserved, KernelPages
  <2>11. Accounted'
    <3>1. CASE page = NULL
      <4>1. out_of_memory'
        BY <3>1, <1>2, <1>h, <2>1 DEF ReservedUsed, FreeSet, NULL
      <4> QED BY <4>1 DEF Accounted
    <3>2. CASE page # NULL
      <4>1. Held' = Held \cup {page}
        BY <3>2, <2>9 DEF Held, Callers
      <4>2. Cardinality(Held \cup {page}) = Cardinality(Held) + 1
        BY <1>0, <2>8, FS_AddElement
      <4> QED BY <4>1, <4>2, <1>0, <2>1 DEF Accounted, Shape
    <3> QED BY <3>1, <3>2
  <2> QED BY <2>5, <2>6, <2>7, <2>10, <2>11, <1>r
<1> QED BY <1>1, <1>2 DEF Alloc, PMM_AllocPage

\* A caller frees a page it holds.
LEMMA StepFree ==
    ASSUME IInv, NEW c \in Callers, NEW page \in Pages, Free(c, page)
    PROVE  IInv'
<1> USE DEF IInv
<1>0. /\ g_FreePages \in 0 .. MaxPages
      /\ g_FreePages = Cardinality(Pages \ g_Used)
      /\ IsFiniteSet(Held) /\ Cardinality(Held) \in 0 .. MaxPages
  BY Counts DEF FreeCount, FreeSet
<1>1. /\ PmmReady /\ boot = "ready" /\ page \in held[c]
      /\ g_Used' = g_Used \ {page}
      /\ g_FreePages' = g_FreePages + (IF page \in g_Used THEN 1 ELSE 0)
      /\ UNCHANGED <<g_TotalPages, regions, boot, next_region, out_of_memory>>
      /\ held' = [held EXCEPT ![c] = held[c] \ {page}]
      /\ held \in [Callers -> SUBSET Pages]
  BY DEF Free, PMM_FreePage, PmmReady, Shape
<1>2. page \in Held /\ page \in g_Used /\ page \notin Reserved
  BY <1>1 DEF Exclusive, Held, Callers
<1>3. {page} \in SUBSET g_Used /\ g_Used \in SUBSET Pages
  BY <1>2 DEF Shape
<1>4. Cardinality({page}) = 1
  BY FS_Singleton
<1>5. Cardinality(Pages \ (g_Used \ {page})) = Cardinality(Pages \ g_Used) + Cardinality({page})
  BY <1>3, FreeSetGive
<1>6. FreeCount'
  BY <1>0, <1>1, <1>2, <1>4, <1>5 DEF FreeCount, FreeSet
<1>7. Shape'
  BY <1>1, <1>3 DEF Shape
<1>8. CountersAgree' /\ ReservedUsed'
  BY <1>1, <1>2 DEF CountersAgree, ReservedUsed, PmmReady, Reserved, KernelPages
<1>9. /\ held'[c] = held[c] \ {page}
      /\ \A d \in Callers \ {c} : held'[d] = held[d]
  BY <1>1
<1>10. Held' = Held \ {page}
  BY <1>1, <1>9 DEF Held, Callers, Exclusive
<1>11. Exclusive'
  BY <1>1, <1>2, <1>9 DEF Exclusive, Held, Callers, Reserved, KernelPages
<1>12. Cardinality(Held \ {page}) = Cardinality(Held) - 1
  BY <1>0, <1>2, FS_RemoveElement
<1>13. Accounted'
  BY <1>0, <1>1, <1>2, <1>10, <1>12 DEF Accounted, Shape
<1> QED BY <1>6, <1>7, <1>8, <1>11, <1>13

\* The demo frees NULL after an allocation failed: page 0's bit is cleared.
LEMMA StepFreeNull == ASSUME IInv, FreeNull PROVE IInv'
<1> USE DEF IInv
<1>0. g_FreePages \in 0 .. MaxPages /\ g_FreePages = Cardinality(Pages \ g_Used)
  BY Counts DEF FreeCount, FreeSet
<1>1. /\ PmmReady /\ boot = "ready" /\ out_of_memory
      /\ g_Used' = g_Used \ {0}
      /\ g_FreePages' = g_FreePages + (IF 0 \in g_Used THEN 1 ELSE 0)
      /\ UNCHANGED <<g_TotalPages, regions, boot, next_region, out_of_memory, held>>
  BY DEF FreeNull, PMM_FreePage, PmmReady, NULL
<1>2. Held' = Held /\ 0 \notin Held
  BY <1>1 DEF Held, Exclusive, Reserved
<1>3. FreeCount'
  <2>1. CASE 0 \in g_Used
    <3>1. {0} \in SUBSET g_Used /\ g_Used \in SUBSET Pages
      BY <2>1 DEF Shape
    <3>2. Cardinality(Pages \ (g_Used \ {0})) = Cardinality(Pages \ g_Used) + Cardinality({0})
      BY <3>1, FreeSetGive
    <3>3. Cardinality({0}) = 1
      BY FS_Singleton
    <3>4. g_FreePages' = g_FreePages + 1
      BY <2>1, <1>1
    <3>5. Cardinality(Pages \ g_Used') = Cardinality(Pages \ (g_Used \ {0}))
      BY <1>1, Zenon
    <3>6. g_FreePages' = Cardinality(Pages \ g_Used')
      BY <3>2, <3>3, <3>4, <3>5, <1>0
    <3> QED BY <3>6 DEF FreeCount, FreeSet
  <2>2. CASE 0 \notin g_Used
    <3>1. g_Used' = g_Used
      BY <2>2, <1>1
    <3>2. g_FreePages' = g_FreePages
      BY <2>2, <1>0, <1>1
    <3>3. g_FreePages' = Cardinality(Pages \ g_Used')
      BY <3>1, <3>2, <1>0, Zenon
    <3> QED BY <3>3 DEF FreeCount, FreeSet
  <2> QED BY <2>1, <2>2
<1>4. Shape' /\ CountersAgree' /\ ReservedUsed' /\ Accounted'
  BY <1>1 DEF Shape, CountersAgree, ReservedUsed, Accounted, PmmReady
<1>5. Exclusive'
  BY <1>1, <1>2 DEF Exclusive, Held, Reserved, KernelPages
<1> QED BY <1>3, <1>4, <1>5

\* What the invariant gives.
LEMMA IInvGives == IInv => TypeOK /\ FreeCount /\ Exclusive /\ FreeWithinTotal
<1> SUFFICES ASSUME IInv PROVE TypeOK /\ FreeWithinTotal
  BY DEF IInv
<1>1. /\ g_FreePages \in 0 .. MaxPages
      /\ Cardinality(Held) \in 0 .. MaxPages
  BY Counts DEF IInv
<1>2. g_TotalPages \in 0 .. MaxPages
  BY DEF IInv, Shape
<1>3. FreeWithinTotal
  BY <1>1, <1>2 DEF IInv, Accounted, FreeWithinTotal
<1> QED BY <1>1, <1>3 DEF IInv, Shape, TypeOK, PmmTypeOK

LEMMA Inductive == IInv /\ [Next]_clientVars => IInv'
<1> SUFFICES ASSUME IInv, [Next]_clientVars PROVE IInv'
  OBVIOUS
<1>1. CASE Initialize
  BY <1>1, StepInitialize
<1>2. ASSUME NEW c \in Callers, NEW page \in Pages, Alloc(c, page) PROVE IInv'
  BY <1>2, StepAlloc
<1>3. ASSUME NEW c \in Callers, NEW page \in Pages, Free(c, page) PROVE IInv'
  BY <1>3, StepFree
<1>4. CASE FreeNull
  BY <1>4, StepFreeNull
<1>5. CASE UNCHANGED clientVars
  BY <1>5 DEF clientVars, IInv, Shape, FreeCount, FreeSet, CountersAgree,
     ReservedUsed, PmmReady, Exclusive, Accounted, Held, Reserved, KernelPages
<1> QED BY <1>1, <1>2, <1>3, <1>4, <1>5 DEF Next

\* The invariant holds of every behaviour of the allocator and its callers.
THEOREM Invariance == Spec => []IInv
<1> QED BY InitIInv, Inductive, PTL DEF Spec

\* The allocator's state, both counters included, keeps its type: neither
\* counter leaves 0 .. MAX_PAGES, so no subtraction of pmm.c:60-90 wraps around.
THEOREM TypeCorrect == Spec => []TypeOK
<1> QED BY Invariance, IInvGives, PTL

\* The counter PMM_GetFreePages reports is always the number of clear bits.
THEOREM FreeCounted == Spec => []FreeCount
<1> QED BY Invariance, IInvGives, PTL

\* No page is ever granted to two callers at once, and none of page 0 or the
\* kernel's is granted to anyone, even after memory was exhausted.
THEOREM GrantsExclusive == Spec => []Exclusive
<1> QED BY Invariance, IInvGives, PTL

\* While no allocation has failed, no more pages are free than were counted.
THEOREM FreeBounded == Spec => []FreeWithinTotal
<1> QED BY Invariance, IInvGives, PTL

--------------------------------------------------------------------------------
\* Dividing an address by PAGE_SIZE, and comparing page addresses.
LEMMA Quotient ==
    ASSUME NEW e \in Nat
    PROVE  /\ e \div PageSize \in Int
           /\ (e \div PageSize) * PageSize <= e
           /\ e < (e \div PageSize + 1) * PageSize
BY PmmAssumption

LEMMA PageOrder ==
    ASSUME NEW a \in Int, NEW b \in Int, a <= b
    PROVE  a * PageSize <= b * PageSize
BY PmmAssumption

\* The rounding of PMM_Initialize (pmm.c:30-48) takes exactly the pages all of
\* whose bytes are in the region: none too many at either end and none too few.
LEMMA WholePages ==
    ASSUME NEW r \in Region, r.Type = 1, NEW p \in Pages
    PROVE  p \in RegionPages(r) <=> /\ r.Begin <= p * PageSize
                                    /\ (p + 1) * PageSize <= r.Begin + r.Length
<1> DEFINE first == (r.Begin + PageSize - 1) \div PageSize
           last == (r.Begin + r.Length) \div PageSize
<1>1. /\ r.Begin \in Nat /\ r.Length \in Nat /\ p \in Nat /\ PageSize \in Nat \ {0}
      /\ r.Begin + PageSize - 1 \in Nat /\ r.Begin + r.Length \in Nat
  BY PmmAssumption DEF Region, Pages
<1>2. /\ first \in Int /\ first * PageSize <= r.Begin + PageSize - 1
      /\ r.Begin + PageSize - 1 < (first + 1) * PageSize
  BY <1>1, Quotient
<1>3. /\ last \in Int /\ last * PageSize <= r.Begin + r.Length
      /\ r.Begin + r.Length < (last + 1) * PageSize
  BY <1>1, Quotient
<1>4. /\ (p + 1) * PageSize = p * PageSize + PageSize
      /\ p * PageSize \in Int /\ (p + 1) * PageSize \in Int
      /\ first * PageSize \in Int /\ (first + 1) * PageSize \in Int
      /\ last * PageSize \in Int /\ (last + 1) * PageSize \in Int
  BY <1>1, <1>2, <1>3
<1> HIDE DEF first, last
<1>5. first <= p <=> r.Begin <= p * PageSize
  <2>1. CASE first <= p
    <3>1. (first + 1) * PageSize <= (p + 1) * PageSize
      BY <1>1, <1>2, <2>1, PageOrder
    <3> QED BY <1>1, <1>2, <1>4, <2>1, <3>1
  <2>2. CASE ~(first <= p)
    <3>1. (p + 1) * PageSize <= first * PageSize
      BY <1>1, <1>2, <2>2, PageOrder
    <3> QED BY <1>1, <1>2, <1>4, <2>2, <3>1
  <2> QED BY <2>1, <2>2
<1>6. p < last <=> (p + 1) * PageSize <= r.Begin + r.Length
  <2>1. CASE p < last
    <3>1. (p + 1) * PageSize <= last * PageSize
      BY <1>1, <1>3, <2>1, PageOrder
    <3> QED BY <1>1, <1>3, <1>4, <2>1, <3>1
  <2>2. CASE ~(p < last)
    <3>1. (last + 1) * PageSize <= (p + 1) * PageSize
      BY <1>1, <1>3, <2>2, PageOrder
    <3> QED BY <1>1, <1>3, <1>4, <2>2, <3>1
  <2> QED BY <2>1, <2>2
<1>7. p \in RegionPages(r) <=> first <= p /\ p < last
  BY DEF RegionPages, first, last
<1> QED BY <1>5, <1>6, <1>7

\* How the bitmap fills: the pages of the regions read so far, all usable memory
\* when the loop is over, and from then on - page 0 aside - the free pages and
\* those held are together the usable ones outside the kernel.
Filled ==
    /\ boot = "regions" =>
         FreeSet = UNION {RegionPages(regions[i]) : i \in 1 .. next_region - 1}
    /\ boot = "reserve" => FreeSet = Ram
    /\ PmmReady => (FreeSet \cup Held) \ {0} = Ram \ Reserved

LEMMA AllRegions ==
    ASSUME regions \in E820Maps
    PROVE  UNION {RegionPages(regions[i]) : i \in 1 .. Len(regions)} = Ram
<1>1. DOMAIN regions = 1 .. Len(regions) /\ \A i \in 1 .. Len(regions) : regions[i] \in Region
  <2> regions \in Seq(Region)
    BY PmmAssumption
  <2> QED OBVIOUS
<1>2. \A i \in 1 .. Len(regions), p \in Pages :
         p \in RegionPages(regions[i])
           <=> /\ regions[i].Type = 1
               /\ regions[i].Begin <= p * PageSize
               /\ (p + 1) * PageSize <= regions[i].Begin + regions[i].Length
  <2> TAKE i \in 1 .. Len(regions), p \in Pages
  <2>1. CASE regions[i].Type = 1
    BY <1>1, <2>1, WholePages
  <2>2. CASE regions[i].Type # 1
    BY <2>2 DEF RegionPages
  <2> QED BY <2>1, <2>2
<1>3. \A i \in 1 .. Len(regions) : RegionPages(regions[i]) \subseteq Pages
  BY DEF RegionPages
<1> QED BY <1>1, <1>2, <1>3 DEF Ram

LEMMA InitFilled == Init => Filled
<1> SUFFICES ASSUME Init PROVE Filled
  OBVIOUS
<1>1. next_region - 1 = 0 /\ FreeSet = {} /\ boot = "regions"
  BY DEF Init, PmmInit, FreeSet
<1>2. 1 .. next_region - 1 = {}
  BY <1>1
<1> QED BY <1>1, <1>2 DEF Filled, PmmReady

LEMMA StepFilled == IInv /\ Filled /\ [Next]_clientVars => Filled'
<1> SUFFICES ASSUME IInv, Filled, [Next]_clientVars PROVE Filled'
  OBVIOUS
<1> USE DEF IInv
<1>t. /\ g_Used \subseteq Pages /\ regions \in E820Maps /\ held \in [Callers -> SUBSET Pages]
      /\ next_region \in 1 .. Len(regions) + 1 /\ Len(regions) \in Nat
  BY MapLen DEF Shape
<1>1. CASE PMM_InitRegion /\ UNCHANGED held
  <2> DEFINE done(n) == {RegionPages(regions[i]) : i \in 1 .. n - 1}
  <2>1. FreeSet' = FreeSet \cup RegionPages(regions[next_region])
    BY <1>1, <1>t DEF PMM_InitRegion, FreeSet, RegionPages
  <2>2. 1 .. next_region' - 1 = (1 .. next_region - 1) \cup {next_region}
    BY <1>1, <1>t DEF PMM_InitRegion
  <2>3. regions' = regions /\ boot' = "regions" /\ boot = "regions"
    BY <1>1 DEF PMM_InitRegion
  <2>4. FreeSet' = UNION {RegionPages(regions'[i]) : i \in 1 .. next_region' - 1}
    BY <2>1, <2>2, <2>3 DEF Filled
  <2> QED BY <2>3, <2>4 DEF Filled, PmmReady
<1>2. CASE PMM_InitRegionsDone /\ UNCHANGED held
  <2>1. next_region - 1 = Len(regions) /\ boot = "regions" /\ boot' = "reserve"
        /\ FreeSet' = FreeSet /\ Ram' = Ram
    BY <1>2, <1>t DEF PMM_InitRegionsDone, FreeSet, Ram
  <2>2. FreeSet = Ram
    BY <2>1, <1>t, AllRegions DEF Filled
  <2> QED BY <2>1, <2>2 DEF Filled, PmmReady
<1>3. CASE PMM_InitReserve /\ UNCHANGED held
  <2>1. FreeSet' = Ram \ Reserved /\ Ram' = Ram /\ boot' = "ready"
    BY <1>3, <1>t DEF PMM_InitReserve, FreeSet, Ram, Filled
  <2>2. Held' = {}
    BY <1>3 DEF Held, ReservedUsed, PMM_InitReserve, PmmReady
  <2> QED BY <2>1, <2>2 DEF Filled, PmmReady, Reserved
<1>4. ASSUME NEW c \in Callers, NEW page \in Pages, Alloc(c, page) PROVE Filled'
  <2>1. /\ boot = "ready" /\ boot' = "ready" /\ Ram' = Ram
        /\ held' = [held EXCEPT ![c] = IF page = NULL THEN @ ELSE @ \cup {page}]
    BY <1>4 DEF Alloc, PMM_AllocPage, PmmReady, Ram
  <2>2. Held' = IF page = NULL THEN Held ELSE Held \cup {page}
    BY <1>t, <2>1 DEF Held, Callers
  <2>3. FreeSet' = FreeSet \ {page}
    BY <1>4, <1>t DEF Alloc, PMM_AllocPage, FreeSet
  <2>4. page \in FreeSet \/ page = NULL
    BY <1>4 DEF Alloc, PMM_AllocPage
  <2> QED BY <2>1, <2>2, <2>3, <2>4 DEF Filled, PmmReady, NULL
<1>5. ASSUME NEW c \in Callers, NEW page \in Pages, Free(c, page) PROVE Filled'
  <2>1. /\ boot = "ready" /\ boot' = "ready" /\ Ram' = Ram /\ page \in held[c]
        /\ held' = [held EXCEPT ![c] = @ \ {page}]
    BY <1>5 DEF Free, PMM_FreePage, PmmReady, Ram
  <2>2. Held' = Held \ {page} /\ page \in Held
    BY <1>t, <2>1 DEF Held, Callers, Exclusive
  <2>3. FreeSet' = FreeSet \cup {page}
    BY <1>5, <1>t DEF Free, PMM_FreePage, FreeSet
  <2> QED BY <2>1, <2>2, <2>3 DEF Filled, PmmReady
<1>6. CASE FreeNull
  <2>1. boot = "ready" /\ boot' = "ready" /\ Ram' = Ram /\ Held' = Held
    BY <1>6 DEF FreeNull, PMM_FreePage, PmmReady, Ram, Held
  <2>2. FreeSet' \ {0} = FreeSet \ {0}
    BY <1>6, <1>t DEF FreeNull, PMM_FreePage, FreeSet, NULL
  <2> QED BY <2>1, <2>2 DEF Filled, PmmReady
<1>7. CASE UNCHANGED clientVars
  BY <1>7 DEF clientVars, Filled, FreeSet, Held, PmmReady, Ram
<1> QED BY <1>1, <1>2, <1>3, <1>4, <1>5, <1>6, <1>7
        DEF Next, Initialize, PMM_Initialize

\* Every usable page outside the kernel is free or held, and no other page is,
\* but for page 0 after a failed allocation (pmm.c:30-103).
THEOREM PagesStayAccounted == Spec => []PagesAccounted
<1>1. IInv /\ Filled => PagesAccounted
  BY DEF IInv, Filled, ReservedUsed, PagesAccounted, FreeIsUsable, NoLeak, FreeSet, Reserved
<1> QED BY <1>1, Invariance, InitFilled, StepFilled, PTL DEF Spec
================================================================================
