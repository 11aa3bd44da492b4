------------------------------- MODULE MCFatFile -------------------------------
(* Two pieces to a sector, two sectors to a cluster.                           *)
EXTENDS FatFile

CONSTANTS nameF, nameG, nameD, nameE, nameX, Dot, DotDot, t1, t2, t3

Entry(name, dir, first, size) ==
    [name |-> name, dir |-> dir, first |-> first, size |-> size]

\* f: six pieces in two clusters, the second half used; d: a directory; e: empty;
\* d/g: as long as its cluster.
F == Entry(nameF, FALSE, 5, 6)
G == Entry(nameG, FALSE, 6, 4)
D == Entry(nameD, TRUE, 3, 0)
E == Entry(nameE, FALSE, 0, 0)

Volume(root, more, below) ==
    [next  |-> (2 :> (IF more = <<>> THEN EOC ELSE 4)) @@ (3 :> EOC) @@ (4 :> EOC)
               @@ (5 :> 7) @@ (6 :> EOC) @@ (7 :> EOC),
     piece |-> (2 :> root) @@ (3 :> below)
               @@ (4 :> IF more = <<>> THEN <<Never, Never, Never, Never>> ELSE more)
               @@ (5 :> <<t1, t2, t3, t1>>) @@ (6 :> <<t3, t2, t2, t1>>)
               @@ (7 :> <<t2, t3, t1, t1>>)]

Own == <<Entry(Dot, TRUE, 3, 0), Entry(DotDot, TRUE, 2, 0)>>

\* A root with room and a full directory; a root of two clusters and a directory
\* with room; a root of one cluster without an end mark, in which the directory
\* has been removed and a file has got its name.
MCVolumes ==
    { Volume(<<D, F, E, Never>>, <<>>, Own \o <<Erased, G>>),
      Volume(<<Erased, D, E, Erased>>, <<F, Never, F, Never>>, Own \o <<G, Never>>),
      Volume(<<Entry(nameD, FALSE, 6, 4), E, Erased, F>>, <<>>, Own \o <<G, Never>>) }

\* ".." typed becomes the short name of the entry "." (fat.c:106-128).
MCPaths == {<<>>, <<nameF>>, <<nameE>>, <<nameD>>, <<nameD, nameG>>, <<nameD, nameX>>,
            <<nameF, nameX>>, <<nameD, Dot, nameG>>}
MCArgs == [abs : {TRUE}, names : MCPaths]
              \cup [abs : {FALSE}, names : {<<>>, <<nameG>>, <<Dot>>}]

\* With a table that was not read a chain may be walked for ever, and what cat
\* and ls make of it is of no interest, nor where cd goes from there.
Bounded == /\ failed => g_CWD = <<>>
           /\ file[current].Position <= IF failed THEN 5 ELSE 10
           /\ Len(got) <= IF failed THEN 3 ELSE 10
================================================================================
