----------------------------- MODULE FramePool -----------------------------
(***************************************************************************)
(* What the page-frame allocator promises its callers: blocks of           *)
(* consecutive page frames are handed out and taken back, a block never    *)
(* contains a frame that is reserved or part of another block.             *)
(* PfAlloc implements this specification.                                  *)
(***************************************************************************)
EXTENDS Integers

CONSTANTS Frames,    \* page-frame numbers the bitmap covers
          Reserved,  \* frames that are never handed out
          Lengths    \* block lengths that are asked for

VARIABLE blocks      \* outstanding blocks, each <<first frame, length>>

\* The frames of block b.
FramesOf(b) == b[1] .. (b[1] + b[2] - 1)

Init == blocks = {}

Take(b) ==
    /\ b[2] > 0
    /\ FramesOf(b) \subseteq Frames \ Reserved
    /\ \A o \in blocks : FramesOf(o) \cap FramesOf(b) = {}
    /\ blocks' = blocks \cup {b}

Return(b) ==
    /\ b \in blocks
    /\ blocks' = blocks \ {b}

Next == \E b \in Frames \X Lengths : Take(b) \/ Return(b)

Spec == Init /\ [][Next]_blocks
=============================================================================
