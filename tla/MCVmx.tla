------------------------------- MODULE MCVmx -------------------------------
(***************************************************************************)
(* One VM with two vCPUs, between whose VMCSs the BSP switches in every    *)
(* stage of creation.  The APs are alike.                                  *)
(***************************************************************************)
EXTENDS Vmx, TLC

CONSTANTS v1, v2

TwoVcpus == <<<<v1, v2>>>>

Aps == Permutations(Cpu \ {BSP})
=============================================================================
