------------------------------- MODULE MCFatVolume -------------------------------
(* The root's one cluster has room for three entries.  Two more clusters are   *)
(* enough for a directory and a file in it, or for a file of two clusters, and *)
(* are soon used up.                                                          *)
EXTENDS FatVolume

CONSTANTS f, d, a, b

MCText == {a}
MCPaths == {<<f>>, <<d>>, <<d, f>>, <<d, Blank>>}

\* Nothing is claimed of a volume once it is harmed.  One lost cluster shows
\* what two do, on a volume that is the smaller by one, and a file of an empty
\* name is looked at beside those of its directory only.
Sound ==
    /\ ~harmed
    /\ \A p, q \in lost : p = q
    /\ \A l, k \in Location : ~(Named(At(l), Blank) /\ Named(At(k), f))
================================================================================
