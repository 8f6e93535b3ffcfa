------------------------------- MODULE MCVmm -------------------------------
(***************************************************************************)
(* A small address space: 3 levels of 3 entries.  As in the kernel the     *)
(* programs, the stack and the kernel's areas lie under different entries  *)
(* of the top table.                                                       *)
(***************************************************************************)
EXTENDS Vmm

KArea(type, start, pages) ==
    [type |-> type, start |-> start, pages |-> pages, write |-> TRUE, user |-> FALSE]

MCKernelAreas == <<KArea("VM_AREA_KERNELTEXT", 26, 1), KArea("VM_AREA_PHYSMEM", 18, 2),
                   KArea("VM_AREA_KERNELHEAP", 23, 1)>>

Segment(start, pages, filepages) ==
    [start |-> start, pages |-> pages, filepages |-> filepages]

\* One segment across two tables; two segments that share a table, the second with
\* pages that are not in the file
MCImages == {<<Segment(2, 2, 2)>>, <<Segment(0, 1, 1), Segment(1, 3, 1)>>}
=============================================================================
