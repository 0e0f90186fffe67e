----------------------------- MODULE FrameBuffer -----------------------------
(***************************************************************************)
(* The frame buffer and its pixel function: vg_draw_pixel and              *)
(* vg_draw_hline (lab5/video_gr.c), my_draw_pixel (proj/src/video.c).  The *)
(* buffer is one array of pixels, row after row.  Both pixel functions     *)
(* accept a column or a row equal to the resolution, one past the last: a  *)
(* pixel of that column is the first one of the row below, and what is     *)
(* past the last row is not in the buffer.                                 *)
(***************************************************************************)
EXTENDS Integers

CONSTANTS XResolution, YResolution

ASSUME ScreenAssumption == XResolution \in Nat \ {0} /\ YResolution \in Nat \ {0}

Screen == (0 .. XResolution - 1) \X (0 .. YResolution - 1)
Places == 0 .. XResolution * YResolution - 1

(* Where a pixel is in the buffer. *)
Place(c, r) == XResolution * r + c

(* vg_draw_pixel and my_draw_pixel; a negative coordinate is a large one.  *)
Accepted(c, r) == c \in 0 .. XResolution /\ r \in 0 .. YResolution

(* Written, but not into the buffer. *)
Outside(d) == Accepted(d[1], d[2]) /\ Place(d[1], d[2]) \notin Places

(* The pixels of a row, begun at (a, r), that are drawn.  vg_draw_hline    *)
(* stops at the first one refused, which is to the left of none accepted.  *)
RowDrawn(a, r, len) == {c \in a .. a + len - 1 : Accepted(c, r)}

Box(a, b, w, h) == (a .. a + w - 1) \X (b .. b + h - 1)
=============================================================================
