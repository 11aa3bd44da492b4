---------------------------------- MODULE MCPmm ---------------------------------
(* PmmClients on memories of a few pages of four bytes.                        *)
EXTENDS PmmClients

Area(type, begin, length) == [Type |-> type, Begin |-> begin, Length |-> length]

\* The shapes an E820 map takes: usable memory below and above a reserved hole,
\* page 0 not usable, regions that begin and end inside a page, regions that
\* overlap, a map that reaches past MAX_PAGES, and no usable memory at all.
MCMaps ==
    { << Area(1, 0, 10), Area(2, 10, 2), Area(1, 12, 16) >>,
      << Area(2, 0, 4), Area(1, 5, 22) >>,
      << Area(1, 0, 18), Area(1, 6, 40), Area(3, 24, 4) >>,
      << Area(1, 3, 2), Area(1, 15, 9), Area(1, 20, 4) >>,
      << Area(2, 0, 28) >> }
================================================================================
