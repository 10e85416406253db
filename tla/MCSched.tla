------------------------------ MODULE MCSched ------------------------------
(***************************************************************************)
(* Instances of the scheduler: the vCPUs to submit, in order.              *)
(***************************************************************************)
EXTENDS Sched

CONSTANTS v1, v2, v3, v4

FourVcpus == <<v1, v2, v3, v4>>
=============================================================================
