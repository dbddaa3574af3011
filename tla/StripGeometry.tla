--------------------------- MODULE StripGeometry ---------------------------
(***************************************************************************)
(* How an image is divided into horizontal strips, as pure arithmetic:     *)
(* the expressions of jpar_compute_strip_bounds (jcparallel.c) and the     *)
(* iMCU-row rule of libjpeg's compressor.  H is an image height in         *)
(* scanlines, v the vertical sampling factor, t the requested number of    *)
(* threads, i the index of a strip.                                        *)
(***************************************************************************)
EXTENDS Integers

CONSTANT DCTSIZE            \* the size of a DCT block, 8 in the library

ASSUME DctsizeAssumption == DCTSIZE \in Nat \ {0}

-----------------------------------------------------------------------------

\* "if (x < 1) x = 1": the clamp applied to num_threads and max_v_samp_factor.
AtLeastOne(x) == IF x < 1 THEN 1 ELSE x

\* Scanlines in one row of MCUs.
McuRowHeight(v) == DCTSIZE * AtLeastOne(v)

\* MCU rows needed for H scanlines, the last one possibly padded.
McuRows(H, h) == (H + h - 1) \div h

TotalMcuRows(H, v) == McuRows(H, McuRowHeight(v))

\* Mutant: one strip per thread even when there are fewer MCU rows.
StripCount_Unlimited(total, t) == AtLeastOne(t)

\* Never more strips than MCU rows; an empty image still gets one strip.
StripCount(total, t) ==
  IF total = 0 THEN 1
  ELSE IF AtLeastOne(t) > total THEN total ELSE AtLeastOne(t)

\* MCU rows of every strip but the last, which absorbs the remainder.
McuRowsPerStrip(total, n) == AtLeastOne(total \div n)

=============================================================================
