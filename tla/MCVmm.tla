------------------------------- MODULE MCVmm -------------------------------
(***************************************************************************)
(* Constant values for checking Vmm: six virtual pages in two page         *)
(* tables.                                                                 *)
(***************************************************************************)
EXTENDS Vmm

MCFanout == <<1, 1, 2, 3>>
=============================================================================
