----------------------------- MODULE MCPointer -----------------------------
EXTENDS Pointer

(* Extreme and small odd deltas, on each axis and on both. *)
MCDeltas == {-256, -37, 9, 255}
MCMoves == (MCDeltas \X {0}) \cup ({0} \X MCDeltas) \cup {<<d, d>> : d \in MCDeltas}
=============================================================================
