---------------------------- MODULE CompressData ----------------------------
(***************************************************************************)
(* The data path of a single-pass compression (jcapistd.c, jcprepct.c,     *)
(* jcmainct.c, jccoefct.c, jchuff.c): the application hands over scanlines *)
(* with jpeg_write_scanlines, the preprocessor collects them into row      *)
(* groups and pads the bottom, the main controller hands full iMCU rows to *)
(* the coefficient controller, and the entropy encoder writes MCU by MCU,  *)
(* with restart markers.  The destination may refuse any MCU: the call     *)
(* then returns and the application calls again (I/O suspension).          *)
(*                                                                         *)
(* One component stands for all: one with the maximal sampling factors, so *)
(* that its samples are those of the scanlines.  A sample row is known by  *)
(* the scanlines it was computed from, a coded MCU by its column and its   *)
(* sample rows.                                                            *)
(***************************************************************************)
EXTENDS ScanTokens

CONSTANTS Images,           \* what is compressed and with which parameters
          MAX_LINES         \* bound: scanlines handed over in one call

\* v is max_v_samp_factor; columns is MCUs_per_row; context says that the
\* downsampler needs context rows; interval is restart_interval, 0 for none.
ASSUME ImageAssumption ==
  /\ Images \subseteq [height : Nat \ {0}, v : Nat \ {0}, columns : Nat \ {0},
                       interleaved : BOOLEAN, context : BOOLEAN, interval : Nat]
  /\ MAX_LINES \in Nat \ {0}

VARIABLES image, pc,
          next_scanline,    \* of cinfo, which the application looks at
          call,             \* in_rows_avail and *in_row_ctr of the current call
          prep,             \* rows_to_go, next_buf_row, this_row_group, next_buf_stop
          color_buf,        \* the preprocessor's scanlines
          main,             \* cur_iMCU_row, rowgroup_ctr, suspended
          buffer,           \* the main controller's sample rows
          coef,             \* iMCU_row_num, MCU_vert_offset, mcu_ctr
          entropy,          \* restarts_to_go, next_restart_num
          out               \* the scan written so far

prepVars == <<prep, color_buf, buffer>>
vars == <<image, pc, next_scanline, call, prepVars, main, coef, entropy, out>>

EMPTY == -1                 \* a row of a buffer that was never filled

v == image.v
TotalImcuRows == TotalMcuRows(image.height, v)
HeightInBlocks == McuRows(image.height, DCTSIZE)

\* Rows of color_buf: one row group, or three when there is context.
BufHeight == IF image.context THEN 3 * v ELSE v

\* jpeg_start_compress has reset the controllers.
Init ==
  /\ image \in Images
  /\ pc = "app" /\ next_scanline = 0
  /\ call = [avail |-> 0, row_ctr |-> 0]
  /\ prep = [rows_to_go |-> image.height, next_buf_row |-> 0,
             this_row_group |-> 0, next_buf_stop |-> 2 * v]
  /\ color_buf = [r \in 0..(BufHeight - 1) |-> EMPTY]
  /\ main = [cur_iMCU_row |-> 0, rowgroup_ctr |-> 0, suspended |-> FALSE]
  /\ buffer = [y \in 0..(v * DCTSIZE - 1) |-> <<EMPTY>>]
  /\ coef = [iMCU_row_num |-> 0, MCU_vert_offset |-> 0, mcu_ctr |-> 0]
  /\ entropy = [restarts_to_go |-> image.interval, next_restart_num |-> 0]
  /\ out = <<>>

-----------------------------------------------------------------------------
(* The application and jpeg_write_scanlines.                               *)

Least(a, b) == IF a <= b THEN a ELSE b

\* Excess scanlines of a call are ignored.
WriteScanlines ==
  /\ pc = "app" /\ next_scanline < image.height
  /\ \E num_lines \in 1..MAX_LINES :
       call' = [avail |-> Least(num_lines, image.height - next_scanline), row_ctr |-> 0]
  /\ pc' = "process"
  /\ UNCHANGED <<image, next_scanline, prepVars, main, coef, entropy, out>>

\* The scanline the application offers as row r of the current call.
Offered(r) == next_scanline + r

ReturnToApp(row_ctr) ==
  /\ next_scanline' = next_scanline + row_ctr
  /\ pc' = "app"

-----------------------------------------------------------------------------
(* process_data_simple_main, with the preprocessor it calls.               *)

MoreImcuRows == main.cur_iMCU_row < TotalImcuRows

Filling == pc = "process" /\ MoreImcuRows /\ main.rowgroup_ctr < DCTSIZE

RowsLeft == call.row_ctr < call.avail

\* color_buf with numrows more scanlines of the call in it.
Converted(numrows) ==
  [r \in DOMAIN color_buf |->
     IF r \in prep.next_buf_row..(prep.next_buf_row + numrows - 1)
     THEN Offered(call.row_ctr + r - prep.next_buf_row)
     ELSE color_buf[r]]

\* expand_bottom_edge: rows from..to - 1 become copies of the row before them.
Expanded(buf, from, to) ==
  [r \in DOMAIN buf |-> IF r \in from..(to - 1) THEN buf[from - 1] ELSE buf[r]]

\* One iteration of pre_process_data: scanlines are converted, padded at the
\* bottom, downsampled when they fill a row group, and the output is padded to
\* a whole iMCU row after the last of them.
PreProcessData ==
  LET numrows == Least(v - prep.next_buf_row, call.avail - call.row_ctr)
      stored == prep.next_buf_row + numrows
      bottom == prep.rows_to_go = numrows
      group == bottom \/ stored = v
      rows == Expanded(Converted(numrows), stored, IF bottom THEN v ELSE stored)
      g == main.rowgroup_ctr
      ctr == IF group THEN g + 1 ELSE g
      sampled == [y \in DOMAIN buffer |->
                    IF group /\ y \div v = g THEN <<rows[y % v]>> ELSE buffer[y]]
  IN  /\ Filling /\ ~image.context /\ RowsLeft
      /\ call' = [call EXCEPT !.row_ctr = @ + numrows]
      /\ prep' = [prep EXCEPT !.rows_to_go = @ - numrows,
                              !.next_buf_row = IF group THEN 0 ELSE stored]
      /\ color_buf' = rows
      /\ buffer' = IF bottom THEN Expanded(sampled, ctr * v, DCTSIZE * v) ELSE sampled
      /\ main' = [main EXCEPT !.rowgroup_ctr = IF bottom THEN DCTSIZE ELSE ctr]
      /\ UNCHANGED <<image, pc, next_scanline, coef, entropy, out>>

\* Mutant: the row above the buffer is taken to be its first.
Wrapped_Clamped(r) == IF r < 0 THEN 0 ELSE r % BufHeight

\* The fake row pointers above and below color_buf wrap around.
Wrapped(r) == (r + BufHeight) % BufHeight

\* The end of an iteration of pre_process_context, with rows stored up to
\* `stored': a full row group is downsampled together with the rows around it.
DownsampleWithContext(rows, stored) ==
  LET full == stored = prep.next_buf_stop
      this == prep.this_row_group
      wrap(r) == IF r >= BufHeight THEN 0 ELSE r
      seen(y) == [k \in 1..3 |-> rows[Wrapped(this + (y % v) + k - 2)]]
      next == IF full THEN wrap(stored) ELSE stored
  IN  /\ color_buf' = rows
      /\ buffer' = [y \in DOMAIN buffer |->
                      IF full /\ y \div v = main.rowgroup_ctr THEN seen(y) ELSE buffer[y]]
      /\ main' = IF full THEN [main EXCEPT !.rowgroup_ctr = @ + 1] ELSE main
      /\ prep' = [rows_to_go |-> prep.rows_to_go - (call'.row_ctr - call.row_ctr),
                  next_buf_row |-> next,
                  this_row_group |-> IF full THEN wrap(this + v) ELSE this,
                  next_buf_stop |-> IF full THEN next + v ELSE prep.next_buf_stop]

\* An iteration of pre_process_context with input.  The first one pads the top
\* of the image: the rows above row 0 are the last group of color_buf.
PreProcessContext ==
  LET numrows == Least(prep.next_buf_stop - prep.next_buf_row,
                       call.avail - call.row_ctr)
      conv == Converted(numrows)
      rows == IF prep.rows_to_go = image.height
              THEN [r \in DOMAIN conv |-> IF r >= 2 * v THEN conv[0] ELSE conv[r]]
              ELSE conv
  IN  /\ Filling /\ image.context /\ RowsLeft
      /\ call' = [call EXCEPT !.row_ctr = @ + numrows]
      /\ DownsampleWithContext(rows, prep.next_buf_row + numrows)
      /\ UNCHANGED <<image, pc, next_scanline, coef, entropy, out>>

\* An iteration below the bottom of the image: the last row is repeated.
PadContext ==
  LET last == color_buf[Wrapped(prep.next_buf_row - 1)]
      rows == [r \in DOMAIN color_buf |->
                 IF r \in prep.next_buf_row..(prep.next_buf_stop - 1)
                 THEN last ELSE color_buf[r]]
  IN  /\ Filling /\ image.context /\ ~RowsLeft /\ prep.rows_to_go = 0
      /\ UNCHANGED call
      /\ DownsampleWithContext(rows, prep.next_buf_stop)
      /\ UNCHANGED <<image, pc, next_scanline, coef, entropy, out>>

\* No full iMCU row yet, or none left: back to the application for more data.
NeedMoreData ==
  /\ pc = "process"
  /\ \/ ~MoreImcuRows
     \/ Filling /\ ~RowsLeft /\ (image.context => prep.rows_to_go # 0)
  /\ ReturnToApp(call.row_ctr)
  /\ UNCHANGED <<image, call, prepVars, main, coef, entropy, out>>

-----------------------------------------------------------------------------
(* compress_data and encode_mcu_huff.                                      *)

Compressing == pc = "process" /\ MoreImcuRows /\ main.rowgroup_ctr = DCTSIZE

LastImcuRow == coef.iMCU_row_num = TotalImcuRows - 1

\* per_scan_setup: block rows of the component in the last iMCU row.
LastRowHeight == IF HeightInBlocks % v = 0 THEN v ELSE HeightInBlocks % v

McuRowsPerImcuRow ==
  IF image.interleaved THEN 1 ELSE IF LastImcuRow THEN LastRowHeight ELSE v

\* The block rows of the current MCU that are not dummies.
BlockRows ==
  IF ~image.interleaved THEN {coef.MCU_vert_offset}
  ELSE 0..(IF LastImcuRow THEN LastRowHeight - 1 ELSE v - 1)

Mcu(column, rows) == [kind |-> "mcu", column |-> column, rows |-> rows]

\* The sample rows of the block rows b, counted from the first of the buffer.
SampleRows(b) ==
  LET first == DCTSIZE * (CHOOSE x \in b : \A y \in b : x <= y)
  IN  [j \in 1..(DCTSIZE * Cardinality(b)) |-> buffer[first + j - 1]]

RestartDue == image.interval > 0 /\ entropy.restarts_to_go = 0

\* Mutant: the restart marker's number is not reduced to three bits.
EncodeMcu_NoWrap ==
  /\ Compressing /\ coef.MCU_vert_offset < McuRowsPerImcuRow
  /\ out' = out
       \o (IF RestartDue THEN <<Rst(entropy.next_restart_num)>> ELSE <<>>)
       \o <<Mcu(coef.mcu_ctr, SampleRows(BlockRows))>>
  /\ entropy' =
       IF image.interval = 0 THEN entropy
       ELSE IF RestartDue
       THEN [restarts_to_go |-> image.interval - 1,
             next_restart_num |-> entropy.next_restart_num + 1]
       ELSE [entropy EXCEPT !.restarts_to_go = @ - 1]
  /\ coef' = IF coef.mcu_ctr + 1 < image.columns
             THEN [coef EXCEPT !.mcu_ctr = @ + 1]
             ELSE [coef EXCEPT !.mcu_ctr = 0, !.MCU_vert_offset = @ + 1]
  /\ UNCHANGED <<image, pc, next_scanline, call, prepVars, main>>

\* One MCU is written, after a restart marker when one is due.
EncodeMcu ==
  /\ Compressing /\ coef.MCU_vert_offset < McuRowsPerImcuRow
  /\ out' = out
       \o (IF RestartDue THEN <<Rst(entropy.next_restart_num)>> ELSE <<>>)
       \o <<Mcu(coef.mcu_ctr, SampleRows(BlockRows))>>
  /\ entropy' =
       IF image.interval = 0 THEN entropy
       ELSE IF RestartDue
       THEN [restarts_to_go |-> image.interval - 1,
             next_restart_num |-> (entropy.next_restart_num + 1) % RST_CYCLE]
       ELSE [entropy EXCEPT !.restarts_to_go = @ - 1]
  /\ coef' = IF coef.mcu_ctr + 1 < image.columns
             THEN [coef EXCEPT !.mcu_ctr = @ + 1]
             ELSE [coef EXCEPT !.mcu_ctr = 0, !.MCU_vert_offset = @ + 1]
  /\ UNCHANGED <<image, pc, next_scanline, call, prepVars, main>>

\* Mutant: the rows of a suspended call are reported as taken.
Suspend_NoHack ==
  /\ Compressing /\ coef.MCU_vert_offset < McuRowsPerImcuRow
  /\ main' = [main EXCEPT !.suspended = TRUE]
  /\ ReturnToApp(call.row_ctr)
  /\ UNCHANGED <<image, call, prepVars, coef, entropy, out>>

\* Mutant: the last row is taken back at every suspension, not at the first.
Suspend_Again ==
  /\ Compressing /\ coef.MCU_vert_offset < McuRowsPerImcuRow
  /\ call' = [call EXCEPT !.row_ctr = @ - 1]
  /\ main' = [main EXCEPT !.suspended = TRUE]
  /\ ReturnToApp(call'.row_ctr)
  /\ UNCHANGED <<image, prepVars, coef, entropy, out>>

\* encode_mcu found no room: nothing of the MCU is kept, and the call pretends
\* not to have consumed the last row it took.
Suspend ==
  /\ Compressing /\ coef.MCU_vert_offset < McuRowsPerImcuRow
  /\ call' = IF main.suspended THEN call ELSE [call EXCEPT !.row_ctr = @ - 1]
  /\ main' = [main EXCEPT !.suspended = TRUE]
  /\ ReturnToApp(call'.row_ctr)
  /\ UNCHANGED <<image, prepVars, coef, entropy, out>>

\* Mutant: the row taken back by a suspension is not counted again.
ImcuRowDone_NoRecount ==
  /\ Compressing /\ coef.MCU_vert_offset = McuRowsPerImcuRow
  /\ coef' = [iMCU_row_num |-> coef.iMCU_row_num + 1, MCU_vert_offset |-> 0, mcu_ctr |-> 0]
  /\ main' = [cur_iMCU_row |-> main.cur_iMCU_row + 1, rowgroup_ctr |-> 0,
              suspended |-> FALSE]
  /\ UNCHANGED <<image, pc, next_scanline, call, prepVars, entropy, out>>

\* The iMCU row is complete: the row taken back by a suspension is consumed now.
ImcuRowDone ==
  /\ Compressing /\ coef.MCU_vert_offset = McuRowsPerImcuRow
  /\ coef' = [iMCU_row_num |-> coef.iMCU_row_num + 1, MCU_vert_offset |-> 0, mcu_ctr |-> 0]
  /\ call' = IF main.suspended THEN [call EXCEPT !.row_ctr = @ + 1] ELSE call
  /\ main' = [cur_iMCU_row |-> main.cur_iMCU_row + 1, rowgroup_ctr |-> 0,
              suspended |-> FALSE]
  /\ UNCHANGED <<image, pc, next_scanline, prepVars, entropy, out>>

-----------------------------------------------------------------------------

\* jpeg_finish_compress, for a single pass: the entropy encoder is flushed,
\* which may not suspend, and the EOI is written.
FinishCompress ==
  /\ pc = "app" /\ next_scanline >= image.height
  /\ pc' \in {"finished", "error"}
  /\ UNCHANGED <<image, next_scanline, call, prepVars, main, coef, entropy, out>>

\* JERR_TOO_LITTLE_DATA.
FinishTooEarly ==
  /\ pc = "app" /\ next_scanline < image.height
  /\ pc' = "error"
  /\ UNCHANGED <<image, next_scanline, call, prepVars, main, coef, entropy, out>>

Stopped == pc \in {"finished", "error"} /\ UNCHANGED vars

Process ==
  PreProcessData \/ PreProcessContext \/ PadContext \/ NeedMoreData
    \/ EncodeMcu \/ Suspend \/ ImcuRowDone

Next == WriteScanlines \/ Process \/ FinishCompress \/ FinishTooEarly \/ Stopped

\* The application's loop goes on, a call runs to its end, and the destination
\* makes room again and again.
Fairness ==
  /\ WF_vars(WriteScanlines) /\ WF_vars(FinishCompress)
  /\ WF_vars(Process) /\ SF_vars(EncodeMcu)

Spec == Init /\ [][Next]_vars /\ Fairness

-----------------------------------------------------------------------------

\* Every variable has its type; in particular no counter of rows, which are
\* unsigned in the code, wraps around below zero, and no buffer is read or
\* filled past its end.
TypeOK ==
  /\ image \in Images
  /\ pc \in {"app", "process", "finished", "error"}
  /\ next_scanline \in 0..image.height
  /\ call.avail \in 0..MAX_LINES /\ call.row_ctr \in 0..call.avail
  /\ prep.rows_to_go \in 0..image.height
  /\ prep.next_buf_row \in 0..(BufHeight - 1)
  /\ prep.this_row_group \in 0..(BufHeight - 1)
  /\ main.rowgroup_ctr \in 0..DCTSIZE /\ main.suspended \in BOOLEAN
  /\ coef.mcu_ctr \in 0..(image.columns - 1)
  /\ coef.MCU_vert_offset \in 0..v
  /\ entropy.restarts_to_go \in 0..image.interval
  /\ entropy.next_restart_num \in 0..(RST_CYCLE - 1)

\* Between two calls the application's count and the preprocessor's differ by
\* the one row that a suspension took back: no scanline is converted twice or
\* skipped, however often the same iMCU row is suspended.
RowsAccounted ==
  pc = "app" =>
    next_scanline + (IF main.suspended THEN 1 ELSE 0) = image.height - prep.rows_to_go

\* The suspension hack's purpose: "if it happened to be the last row of the
\* image, the application would think we were done".  The application reaches
\* the image's height only when every iMCU row has been written.
DoneMeansWritten ==
  pc = "app" /\ next_scanline >= image.height => ~MoreImcuRows

\* What the scan must be: MCU m takes its sample rows from its own place in the
\* image, with the bottom padded by the last scanline (and the top by the first
\* where context rows are used), and a restart marker stands before every
\* interval'th MCU, numbered modulo RST_CYCLE.
Clipped(y) == IF y < 0 THEN 0 ELSE IF y >= image.height THEN image.height - 1 ELSE y

ReferenceRow(y) ==
  IF image.context THEN <<Clipped(y - 1), Clipped(y), Clipped(y + 1)>>
  ELSE <<Clipped(y)>>

ReferenceMcu(m) ==
  LET r == m \div image.columns
      blocks == IF image.interleaved THEN Least(v, HeightInBlocks - r * v) ELSE 1
      first == IF image.interleaved THEN r * v * DCTSIZE ELSE r * DCTSIZE
  IN  Mcu(m % image.columns, [j \in 1..(DCTSIZE * blocks) |-> ReferenceRow(first + j - 1)])

McuCount ==
  image.columns * (IF image.interleaved THEN TotalImcuRows ELSE HeightInBlocks)

\* Every (interval + 1)th token of a scan with restarts is a marker.
Markers(k) == IF image.interval > 0 THEN k \div (image.interval + 1) ELSE 0

TokenAt(k) ==
  IF image.interval > 0 /\ k % (image.interval + 1) = 0
  THEN Rst((Markers(k) - 1) % RST_CYCLE)
  ELSE ReferenceMcu(k - 1 - Markers(k))

Reference ==
  LET markers == IF image.interval > 0 THEN (McuCount - 1) \div image.interval ELSE 0
  IN  [k \in 1..(McuCount + markers) |-> TokenAt(k)]

\* However the scanlines are split over the calls and wherever the destination
\* suspends, the finished scan is the same.
ScanIsReference == pc = "finished" => out = Reference

\* If the destination makes room again and again, the application's loop ends.
Completes == <>(pc \in {"finished", "error"})

=============================================================================
