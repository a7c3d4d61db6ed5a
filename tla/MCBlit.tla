------------------------------- MODULE MCBlit -------------------------------
(* Instances of Blit for TLC: a screen of 4 by 3 pixels, of which 3 by 2   *)
(* show, and a bitmap behind it in the same memory.  The screen's rows are *)
(* as chip_CalculateBytesPerRow has them, so that with longwords of two     *)
(* bytes its rows are aligned and unaligned in turn; the other bitmap's     *)
(* rows end in slack.                                                      *)
EXTENDS Blit

MCBase == [r \in Bitmaps |-> IF r = Screen THEN 0 ELSE 24]

MCStride == [p \in Bitmaps \X Depths |-> IF p[1] = Screen THEN Width * p[2] ELSE (Width + 1) * p[2]]
=============================================================================
