--------------------------- MODULE MCStripBounds ---------------------------
(* jpar_compute_strip_bounds on every small image height, sampling factor  *)
(* and thread count, with arguments below one included.                    *)
EXTENDS StripBounds

MCHeights == 0..26
MCVFactors == {0, 1, 2}
MCThreadCounts == -1..6
=============================================================================
