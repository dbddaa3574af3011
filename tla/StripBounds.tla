---------------------------- MODULE StripBounds ----------------------------
(***************************************************************************)
(* jpar_compute_strip_bounds (jcparallel.c): one behaviour is one call.    *)
(* Setup is the straight-line prologue, Fill one iteration of the loop     *)
(* that writes strips[i].  The caller's array has num_threads elements.    *)
(***************************************************************************)
EXTENDS StripGeometry, FiniteSets

CONSTANTS Heights,          \* image heights a caller passes
          VFactors,         \* max_v_samp_factor arguments
          ThreadCounts      \* num_threads arguments

ASSUME InputAssumption ==
  /\ Heights \subseteq Nat
  /\ VFactors \subseteq Int
  /\ ThreadCounts \subseteq Int

VARIABLES image_height, max_v_samp_factor, num_threads,   \* the arguments
          mcu_row_height, total_mcu_rows, n, mcu_rows_per_strip,
          rows_done, i,
          strips,           \* strips[k], defined on the elements written
          bpc

args == <<image_height, max_v_samp_factor, num_threads>>
plan == <<mcu_row_height, total_mcu_rows, n, mcu_rows_per_strip>>
boundsVars == <<args, plan, rows_done, i, strips, bpc>>

BoundsInit ==
  /\ image_height \in Heights
  /\ max_v_samp_factor \in VFactors
  /\ num_threads \in ThreadCounts
  /\ mcu_row_height = 1 /\ total_mcu_rows = 0
  /\ n = 1 /\ mcu_rows_per_strip = 1
  /\ rows_done = 0 /\ i = 0
  /\ strips = [k \in {} |-> [start_row |-> 0, num_rows |-> 0]]
  /\ bpc = "setup"

\* Clamp the arguments, count the MCU rows and fix the number of strips.
Setup ==
  /\ bpc = "setup"
  /\ mcu_row_height' = McuRowHeight(max_v_samp_factor)
  /\ total_mcu_rows' = TotalMcuRows(image_height, max_v_samp_factor)
  /\ n' = StripCount(total_mcu_rows', num_threads)
  /\ mcu_rows_per_strip' = McuRowsPerStrip(total_mcu_rows', n')
  /\ rows_done' = 0 /\ i' = 0
  /\ bpc' = "fill"
  /\ UNCHANGED <<args, strips>>

\* Mutant: the last strip is as tall as the others and drops the remainder.
EndRow_EqualStrips ==
  LET next == rows_done + mcu_rows_per_strip * mcu_row_height
  IN  IF next > image_height THEN image_height ELSE next

\* Mutant: the scanlines, not the MCU rows, are divided by the strip count.
EndRow_ByScanlines ==
  IF i = n - 1 THEN image_height ELSE rows_done + image_height \div n

\* Mutant: strips rounded up to whole MCU rows with no cut-off at the end.
EndRow_RoundUp ==
  IF i = n - 1 THEN image_height
  ELSE rows_done + (mcu_rows_per_strip + 1) * mcu_row_height

\* The end of strip i: the image's end for the last strip, otherwise a whole
\* number of MCU rows on, cut off at the image's end.
EndRow ==
  LET next == rows_done + mcu_rows_per_strip * mcu_row_height
  IN  IF i = n - 1 \/ next > image_height THEN image_height ELSE next

\* One iteration of the loop.
Fill ==
  /\ bpc = "fill" /\ i < n
  /\ strips' = [k \in DOMAIN strips \cup {i} |->
                  IF k = i THEN [start_row |-> rows_done,
                                 num_rows  |-> EndRow - rows_done]
                  ELSE strips[k]]
  /\ rows_done' = EndRow
  /\ i' = i + 1
  /\ UNCHANGED <<args, plan, bpc>>

Return ==
  /\ bpc = "fill" /\ i = n
  /\ bpc' = "done"
  /\ UNCHANGED <<args, plan, rows_done, i, strips>>

Done == bpc = "done" /\ UNCHANGED boundsVars

BoundsNext == Setup \/ Fill \/ Return \/ Done

BoundsSpec == BoundsInit /\ [][BoundsNext]_boundsVars

-----------------------------------------------------------------------------

Strip == [start_row : Nat, num_rows : Nat]

\* Every variable has its C type, and no scanline count goes below zero (the
\* code's JDIMENSION is unsigned, so a negative value would be a wrap-around).
BoundsTypeOK ==
  /\ image_height \in Heights
  /\ max_v_samp_factor \in VFactors
  /\ num_threads \in ThreadCounts
  /\ mcu_row_height \in Nat \ {0} /\ total_mcu_rows \in Nat
  /\ n \in Nat \ {0} /\ mcu_rows_per_strip \in Nat \ {0}
  /\ rows_done \in Nat /\ i \in 0..n
  /\ strips \in [0..(i - 1) -> Strip]
  /\ bpc \in {"setup", "fill", "done"}

\* The strips written so far follow one another from row 0 without a gap or
\* an overlap, and at the return they end exactly at the image's last row:
\* every scanline is encoded once, whatever the cut-off in EndRow does.
Partition ==
  /\ \A k \in DOMAIN strips :
       strips[k].start_row = IF k = 0 THEN 0
                             ELSE strips[k - 1].start_row + strips[k - 1].num_rows
  /\ bpc = "done" => strips[n - 1].start_row + strips[n - 1].num_rows = image_height

\* Every strip starts on an MCU-row boundary of the whole image, so no strip
\* but the last is padded: the strips' own MCU rows are those of the image.
Aligned ==
  \A k \in DOMAIN strips : strips[k].start_row % mcu_row_height = 0

\* No strip of a non-empty image is empty (the source's comment: "every strip
\* needs at least one MCU row of real data"), and strips[] is only written
\* inside the num_threads elements the caller allocated.
StripsNonEmpty ==
  /\ image_height > 0 => \A k \in DOMAIN strips : strips[k].num_rows > 0
  /\ \A k \in DOMAIN strips : k < AtLeastOne(num_threads)

\* The MCU rows a strip's own encoder will count, rounding its height up, are
\* those between its first MCU row and the next strip's: nothing is counted
\* twice when the strips' restart intervals are put end to end.
McuRowsAddUp ==
  \A k \in DOMAIN strips :
    LET first == strips[k].start_row \div mcu_row_height
        next  == IF k = n - 1 THEN total_mcu_rows
                 ELSE (strips[k].start_row + strips[k].num_rows) \div mcu_row_height
    IN  first + McuRows(strips[k].num_rows, mcu_row_height) = next

=============================================================================
