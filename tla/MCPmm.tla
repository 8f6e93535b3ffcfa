------------------------------- MODULE MCPmm -------------------------------
(***************************************************************************)
(* The memory maps for model checking: two entries that do not overlap, in *)
(* either order, before, inside, behind and across the kernel's image.     *)
(***************************************************************************)
EXTENDS Pmm

Entry(a, e, t) == [addr |-> a, len |-> e - a, available |-> t]

Low  == {Entry(a, e, TRUE) : a \in {0, 2}, e \in {3, 4, 5, 6, 7, 8}}
High == {Entry(a, e, TRUE) : a \in {4, 5, 8, 9}, e \in {10, 14, 20}}
        \cup {Entry(8, 20, FALSE)}

MCMaps == {<<l, h>> : l \in Low, h \in High} \cup {<<h, l>> : l \in Low, h \in High}

MCDisjointMaps ==
    {m \in MCMaps : Apart(m[1], m[2])}
    \cup {<<Entry(0, 20, TRUE)>>}
=============================================================================
