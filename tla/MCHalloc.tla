------------------------------ MODULE MCHalloc ------------------------------
(***************************************************************************)
(* Two of the seven bins, with fewer pages.                                *)
(***************************************************************************)
EXTENDS Halloc, TLC

CpuSymmetry == Permutations(Cpu)

Bin(shift, init, repopulate) ==
    [chunk_shift |-> shift, nr_of_init_pages |-> init, repopulate_nr_pages |-> repopulate]

TwoBins == <<Bin(10, 1, 1), Bin(11, 1, 2)>>
SmallMemory == 0 .. 5
=============================================================================
