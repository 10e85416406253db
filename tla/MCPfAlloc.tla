----------------------------- MODULE MCPfAlloc -----------------------------
(***************************************************************************)
(* A small machine for the allocator: a bitmap of one byte, with a hole    *)
(* between two usable regions.                                             *)
(***************************************************************************)
EXTENDS PfAlloc

Page(n) == n * PageSize

SmallMap == << [type |-> "usable",   base |-> Page(0), length |-> Page(3)],
               [type |-> "reserved", base |-> Page(3), length |-> Page(2)],
               [type |-> "usable",   base |-> Page(5), length |-> Page(3)] >>
=============================================================================
