------------------------------- MODULE MCVPic -------------------------------
(***************************************************************************)
(* A guest of the virtual PIC.  17 and 18 are ICW1 (with ICW3 and ICW4,    *)
(* and with neither); 32 is the non-specific EOI, 97 the specific one of   *)
(* line 1; 10 is an OCW3 and 0 an unsupported OCW2.  Of the data bytes, 42 *)
(* is a vector base, a mask of lines 1, 3 and 5, and an unsupported ICW4;  *)
(* 0 is a vector base, the empty mask and a supported ICW4.                *)
(***************************************************************************)
EXTENDS VPic

GuestCmds == {0, 10, 17, 18, 32, 97}
=============================================================================
