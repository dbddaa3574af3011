------------------------- MODULE CompressDataProofs -------------------------
(***************************************************************************)
(* For images of every size, with every sampling factor, any split of the  *)
(* scanlines over the calls and a destination that suspends whenever it    *)
(* likes: no counter of rows leaves its range, no scanline is lost or      *)
(* taken twice by the suspension hack of process_data_simple_main, and the *)
(* application is told that the image is complete only when it is; and the *)
(* finished scan is the reference: every sample row of every MCU, and      *)
(* every restart marker, is what the image has at that place.              *)
(***************************************************************************)
EXTENDS CompressData, ArithmeticProofs, FiniteSetTheorems

\* Scanlines the preprocessor has taken, and the one a suspension gave back.
Consumed == image.height - prep.rows_to_go
TakenBack == IF main.suspended THEN 1 ELSE 0

Records ==
  /\ call \in [avail : Int, row_ctr : Int]
  /\ prep \in [rows_to_go : Int, next_buf_row : Int, this_row_group : Int,
               next_buf_stop : Int]
  /\ main \in [cur_iMCU_row : Nat, rowgroup_ctr : Int, suspended : BOOLEAN]
  /\ coef \in [iMCU_row_num : Int, MCU_vert_offset : Int, mcu_ctr : Int]
  /\ entropy \in [restarts_to_go : Int, next_restart_num : Int]

\* The library's rows are the application's, up to the row taken back.
Counted ==
  /\ pc = "app" => next_scanline + TakenBack = Consumed
  /\ pc = "process" => next_scanline + call.row_ctr + TakenBack = Consumed

\* A call has a row to give back when it first suspends, and room for it when
\* the iMCU row is complete at last.
Returnable ==
  /\ main.suspended => main.rowgroup_ctr = DCTSIZE /\ MoreImcuRows
  /\ pc = "app" /\ main.rowgroup_ctr = DCTSIZE /\ MoreImcuRows => main.suspended
  /\ pc = "process" =>
       /\ call.avail >= 1 /\ next_scanline + call.avail <= image.height
       /\ main.suspended => call.row_ctr = 0
       /\ main.rowgroup_ctr = DCTSIZE /\ MoreImcuRows /\ ~main.suspended =>
            call.row_ctr >= 1

\* Without context rows a row group is downsampled as soon as it is full, so
\* the rows taken are those of the iMCU rows, row groups and rows counted.
Simple ==
  ~image.context =>
    /\ prep.next_buf_row < v
    /\ main.rowgroup_ctr = DCTSIZE => prep.next_buf_row = 0
    /\ prep.rows_to_go > 0 =>
         Consumed = main.cur_iMCU_row * (DCTSIZE * v) + main.rowgroup_ctr * v
                      + prep.next_buf_row
    /\ prep.rows_to_go = 0 /\ MoreImcuRows =>
         main.rowgroup_ctr = DCTSIZE /\ main.cur_iMCU_row = TotalImcuRows - 1

\* With context rows the buffer is a ring of three row groups.
Ring ==
  image.context =>
    /\ prep.next_buf_stop \in {v, 2 * v, 3 * v}
    /\ prep.this_row_group \in {0, v, 2 * v}
    /\ prep.next_buf_row < prep.next_buf_stop

IInv ==
  TypeOK /\ Records /\ Counted /\ Returnable /\ Simple /\ Ring /\ DoneMeansWritten

-----------------------------------------------------------------------------
(* The image and the arithmetic of its rows.                               *)

LEMMA ImageFacts ==
  ASSUME TypeOK
  PROVE  /\ image.height \in Nat \ {0} /\ v \in Nat \ {0} /\ image.columns \in Nat \ {0}
         /\ image.interval \in Nat /\ image.context \in BOOLEAN
         /\ image.interleaved \in BOOLEAN
         /\ DCTSIZE \in Nat \ {0} /\ RST_CYCLE \in Nat \ {0} /\ MAX_LINES \in Nat \ {0}
         /\ BufHeight = IF image.context THEN 3 * v ELSE v
<1>1. image \in [height : Nat \ {0}, v : Nat \ {0}, columns : Nat \ {0},
                 interleaved : BOOLEAN, context : BOOLEAN, interval : Nat]
  BY ImageAssumption DEF TypeOK
<1> QED
  BY <1>1, ImageAssumption, DctsizeAssumption, CycleAssumption DEF v, BufHeight

\* iMCU row c is there exactly when it has a scanline.
LEMMA ImcuRows ==
  ASSUME TypeOK
  PROVE  /\ TotalImcuRows \in Nat
         /\ \A c \in Nat : c < TotalImcuRows => c * (DCTSIZE * v) < image.height
         /\ \A c \in Nat : image.height <= c * (DCTSIZE * v) => TotalImcuRows <= c
<1> DEFINE u == DCTSIZE * v
           total == McuRows(image.height, u)
<1>1. v \in Nat \ {0} /\ DCTSIZE \in Nat \ {0} /\ image.height \in Nat
  BY ImageFacts
<1>2. u \in Nat \ {0} /\ TotalImcuRows = total
  <2>1. AtLeastOne(v) = v
    BY <1>1 DEF AtLeastOne
  <2> QED
    BY <1>1, <2>1, MulPositive DEF TotalImcuRows, TotalMcuRows, McuRowHeight
<1>3. total \in Nat /\ image.height <= u * total /\ u * total < image.height + u
  BY <1>1, <1>2, McuRowsBounds
<1> HIDE DEF u, total
<1>4. ASSUME NEW c \in Nat, c < total PROVE c * u < image.height
  <2>1. (c + 1) * u <= total * u
    BY <1>2, <1>3, <1>4, MulMonotone
  <2>2. (c + 1) * u = c * u + u /\ total * u = u * total /\ c * u \in Nat /\ u * total \in Nat
    BY <1>2, <1>3
  <2> QED
    BY <1>1, <1>2, <1>3, <2>1, <2>2
<1>5. ASSUME NEW c \in Nat, image.height <= c * u PROVE total <= c
  <2>1. SUFFICES ASSUME c < total PROVE FALSE
    BY <1>3
  <2>2. c * u < image.height /\ c * u \in Nat
    BY <1>2, <1>4, <2>1
  <2> QED
    BY <1>1, <1>5, <2>2
<1> QED
  BY <1>2, <1>3, <1>4, <1>5 DEF u

LEMMA ImageStays ==
  ASSUME UNCHANGED image
  PROVE  /\ UNCHANGED <<v, BufHeight, TotalImcuRows, HeightInBlocks>>
         /\ image' = image
BY DEF v, BufHeight, TotalImcuRows, HeightInBlocks

\* The block rows of an iMCU row are at most v.
LEMMA McuRowsRange == ASSUME TypeOK PROVE McuRowsPerImcuRow \in 1..v
<1>1. v \in Nat \ {0} /\ image.height \in Nat /\ DCTSIZE \in Nat \ {0}
  BY ImageFacts
<1>2. HeightInBlocks \in Nat
  BY <1>1, McuRowsBounds DEF HeightInBlocks
<1>3. HeightInBlocks % v \in 0..(v - 1)
  BY <1>1, <1>2
<1>4. LastRowHeight \in 1..v
  BY <1>1, <1>3 DEF LastRowHeight
<1> QED
  BY <1>1, <1>4 DEF McuRowsPerImcuRow

-----------------------------------------------------------------------------

LEMMA InitInv == Init => IInv
<1> SUFFICES ASSUME Init PROVE IInv
  OBVIOUS
<1>0. image \in [height : Nat \ {0}, v : Nat \ {0}, columns : Nat \ {0},
                 interleaved : BOOLEAN, context : BOOLEAN, interval : Nat]
      /\ image \in Images
  BY ImageAssumption DEF Init
<1>1. /\ image.height \in Nat \ {0} /\ v \in Nat \ {0} /\ image.columns \in Nat \ {0}
      /\ image.interval \in Nat /\ DCTSIZE \in Nat \ {0} /\ RST_CYCLE \in Nat \ {0}
      /\ MAX_LINES \in Nat \ {0} /\ image.context \in BOOLEAN
  BY <1>0, ImageAssumption, DctsizeAssumption, CycleAssumption DEF v
<1>2. /\ call = [avail |-> 0, row_ctr |-> 0] /\ pc = "app" /\ next_scanline = 0
      /\ prep = [rows_to_go |-> image.height, next_buf_row |-> 0,
                 this_row_group |-> 0, next_buf_stop |-> 2 * v]
      /\ main = [cur_iMCU_row |-> 0, rowgroup_ctr |-> 0, suspended |-> FALSE]
      /\ coef = [iMCU_row_num |-> 0, MCU_vert_offset |-> 0, mcu_ctr |-> 0]
      /\ entropy = [restarts_to_go |-> image.interval, next_restart_num |-> 0]
  BY DEF Init
<1>3. BufHeight \in Nat \ {0}
  BY <1>1 DEF BufHeight
<1>4. TypeOK
  <2>1. /\ call.avail \in 0..MAX_LINES /\ call.row_ctr \in 0..call.avail
        /\ prep.rows_to_go \in 0..image.height /\ next_scanline \in 0..image.height
    BY <1>1, <1>2
  <2>2. /\ prep.next_buf_row \in 0..(BufHeight - 1)
        /\ prep.this_row_group \in 0..(BufHeight - 1)
    BY <1>2, <1>3
  <2>3. /\ main.rowgroup_ctr \in 0..DCTSIZE /\ main.suspended \in BOOLEAN
        /\ coef.mcu_ctr \in 0..(image.columns - 1)
        /\ coef.MCU_vert_offset \in 0..v
        /\ entropy.restarts_to_go \in 0..image.interval
        /\ entropy.next_restart_num \in 0..(RST_CYCLE - 1)
    BY <1>1, <1>2
  <2> QED
    BY <1>0, <1>2, <2>1, <2>2, <2>3 DEF TypeOK
<1>5. Records
  BY <1>1, <1>2 DEF Records
<1>6. Counted /\ Returnable
  BY <1>1, <1>2 DEF Counted, Returnable, TakenBack, Consumed
<1>7. Simple
  <2>1. 0 * (DCTSIZE * v) = 0 /\ 0 * v = 0
    BY <1>1
  <2> QED
    BY <1>1, <1>2, <2>1 DEF Simple, Consumed
<1>8. Ring
  BY <1>1, <1>2 DEF Ring
<1>9. DoneMeansWritten
  BY <1>1, <1>2 DEF DoneMeansWritten
<1> QED
  BY <1>4, <1>5, <1>6, <1>7, <1>8, <1>9 DEF IInv

-----------------------------------------------------------------------------
(* One lemma per action.                                                   *)

\* Writing an MCU moves no row: only the coders' counters change.
LEMMA EncodeMcuInv == IInv /\ EncodeMcu => IInv'
<1> SUFFICES ASSUME IInv, EncodeMcu PROVE IInv'
  OBVIOUS
<1>1. TypeOK /\ Records
  BY DEF IInv
<1>2. /\ image.columns \in Nat \ {0} /\ image.interval \in Nat /\ v \in Nat \ {0}
      /\ RST_CYCLE \in Nat \ {0} /\ McuRowsPerImcuRow \in 1..v
  BY <1>1, ImageFacts, McuRowsRange
<1>3. UNCHANGED <<image, pc, next_scanline, call, prep, main>>
  BY DEF EncodeMcu, prepVars
<1>4. UNCHANGED <<v, BufHeight, TotalImcuRows>>
  BY <1>3, ImageStays
<1>5. coef' \in [iMCU_row_num : Int, MCU_vert_offset : Int, mcu_ctr : Int]
      /\ coef'.mcu_ctr \in 0..(image.columns - 1) /\ coef'.MCU_vert_offset \in 0..v
  <2>1. coef.MCU_vert_offset \in 0..v /\ coef.MCU_vert_offset < McuRowsPerImcuRow
        /\ coef.mcu_ctr \in 0..(image.columns - 1)
        /\ coef \in [iMCU_row_num : Int, MCU_vert_offset : Int, mcu_ctr : Int]
        /\ coef' = IF coef.mcu_ctr + 1 < image.columns
                   THEN [coef EXCEPT !.mcu_ctr = @ + 1]
                   ELSE [coef EXCEPT !.mcu_ctr = 0, !.MCU_vert_offset = @ + 1]
    BY <1>1 DEF TypeOK, Records, EncodeMcu
  <2>2. coef.MCU_vert_offset + 1 \in 0..v
    BY ONLY <1>2, <2>1
  <2>3. CASE coef.mcu_ctr + 1 < image.columns
    <3>1. coef' = [coef EXCEPT !.mcu_ctr = @ + 1]
      BY ONLY <2>1, <2>3
    <3> QED
      BY ONLY <1>2, <2>1, <2>3, <3>1
  <2>4. CASE ~(coef.mcu_ctr + 1 < image.columns)
    <3>1. coef' = [coef EXCEPT !.mcu_ctr = 0, !.MCU_vert_offset = @ + 1]
      BY ONLY <2>1, <2>4
    <3>2. /\ coef' \in [iMCU_row_num : Int, MCU_vert_offset : Int, mcu_ctr : Int]
          /\ coef'.mcu_ctr = 0 /\ coef'.MCU_vert_offset = coef.MCU_vert_offset + 1
      <4>1. coef \in [iMCU_row_num : Int, MCU_vert_offset : Int, mcu_ctr : Int]
        BY ONLY <2>1
      <4>2. coef' = [iMCU_row_num |-> coef.iMCU_row_num,
                     MCU_vert_offset |-> coef.MCU_vert_offset + 1, mcu_ctr |-> 0]
        BY ONLY <3>1, <4>1
      <4> QED
        BY ONLY <4>1, <4>2
    <3>3. 0 \in 0..(image.columns - 1)
      BY ONLY <1>2
    <3> QED
      BY ONLY <2>2, <3>2, <3>3
  <2> QED
    BY ONLY <2>3, <2>4
<1>6. entropy' \in [restarts_to_go : Int, next_restart_num : Int]
      /\ entropy'.restarts_to_go \in 0..image.interval
      /\ entropy'.next_restart_num \in 0..(RST_CYCLE - 1)
  <2>1. entropy.restarts_to_go \in 0..image.interval
        /\ entropy.next_restart_num \in 0..(RST_CYCLE - 1)
        /\ entropy \in [restarts_to_go : Int, next_restart_num : Int]
        /\ entropy' =
             IF image.interval = 0 THEN entropy
             ELSE IF image.interval > 0 /\ entropy.restarts_to_go = 0
             THEN [restarts_to_go |-> image.interval - 1,
                   next_restart_num |-> (entropy.next_restart_num + 1) % RST_CYCLE]
             ELSE [entropy EXCEPT !.restarts_to_go = @ - 1]
    BY <1>1 DEF TypeOK, Records, EncodeMcu, RestartDue
  <2>2. (entropy.next_restart_num + 1) % RST_CYCLE \in 0..(RST_CYCLE - 1)
    BY ONLY <1>2, <2>1
  <2> QED
    BY ONLY <1>2, <2>1, <2>2
<1>7. TypeOK'
  BY <1>1, <1>3, <1>4, <1>5, <1>6 DEF TypeOK
<1>8. Records'
  BY <1>1, <1>3, <1>5, <1>6 DEF Records
<1>9. (Counted /\ Returnable /\ Simple /\ Ring /\ DoneMeansWritten)'
  BY <1>3, <1>4
     DEF IInv, Counted, Returnable, Simple, Ring, DoneMeansWritten, Consumed, TakenBack,
         MoreImcuRows
<1> QED
  BY <1>7, <1>8, <1>9 DEF IInv

\* A call's rows are those the image still has.
LEMMA WriteScanlinesInv == IInv /\ WriteScanlines => IInv'
<1> SUFFICES ASSUME IInv, WriteScanlines PROVE IInv'
  OBVIOUS
<1>1. TypeOK /\ Records
  BY DEF IInv
<1>2. image.height \in Nat \ {0} /\ MAX_LINES \in Nat \ {0}
      /\ next_scanline \in 0..image.height
  BY <1>1, ImageFacts DEF TypeOK
<1>3. UNCHANGED <<image, next_scanline, prep, main, coef, entropy>>
      /\ pc = "app" /\ pc' = "process" /\ next_scanline < image.height
  BY DEF WriteScanlines, prepVars
<1>4. UNCHANGED <<v, BufHeight, TotalImcuRows>>
  BY <1>3, ImageStays
<1>5. /\ call' \in [avail : Int, row_ctr : Int] /\ call'.row_ctr = 0
      /\ call'.avail \in 1..MAX_LINES /\ next_scanline + call'.avail <= image.height
  <2>1. PICK num_lines \in 1..MAX_LINES :
          call' = [avail |-> Least(num_lines, image.height - next_scanline), row_ctr |-> 0]
    BY DEF WriteScanlines
  <2>2. Least(num_lines, image.height - next_scanline) \in 1..MAX_LINES
        /\ next_scanline + Least(num_lines, image.height - next_scanline) <= image.height
    BY <1>2, <1>3 DEF Least
  <2> QED
    BY <2>1, <2>2
<1>6. TypeOK'
  BY <1>1, <1>3, <1>4, <1>5 DEF TypeOK
<1>7. Records'
  BY <1>1, <1>3, <1>5 DEF Records
<1>8. Counted' /\ Returnable'
  BY <1>2, <1>3, <1>4, <1>5
     DEF IInv, Counted, Returnable, Consumed, TakenBack, MoreImcuRows
<1>9. (Simple /\ Ring /\ DoneMeansWritten)'
  BY <1>3, <1>4
     DEF IInv, Simple, Ring, DoneMeansWritten, Consumed, MoreImcuRows
<1> QED
  BY <1>6, <1>7, <1>8, <1>9 DEF IInv

\* Only a first suspension gives a row back, and then the application has not
\* reached the image's height.
LEMMA SuspendInv == IInv /\ Suspend => IInv'
<1> SUFFICES ASSUME IInv, Suspend PROVE IInv'
  OBVIOUS
<1>1. TypeOK /\ Records
  BY DEF IInv
<1>2. /\ image.height \in Nat \ {0} /\ next_scanline \in 0..image.height
      /\ prep.rows_to_go \in 0..image.height /\ MAX_LINES \in Nat
  BY <1>1, ImageFacts DEF TypeOK
<1>3. /\ UNCHANGED <<image, prep, coef, entropy>> /\ pc = "process" /\ pc' = "app"
      /\ MoreImcuRows /\ main.rowgroup_ctr = DCTSIZE
      /\ next_scanline' = next_scanline + call'.row_ctr
      /\ main' = [main EXCEPT !.suspended = TRUE]
      /\ call' = IF main.suspended THEN call ELSE [call EXCEPT !.row_ctr = @ - 1]
  BY DEF Suspend, Compressing, ReturnToApp, prepVars
<1>4. UNCHANGED <<v, BufHeight, TotalImcuRows>>
  BY <1>3, ImageStays
<1>5. /\ main \in [cur_iMCU_row : Nat, rowgroup_ctr : Int, suspended : BOOLEAN]
      /\ call \in [avail : Int, row_ctr : Int]
      /\ call.avail \in 0..MAX_LINES /\ call.row_ctr \in 0..call.avail
  BY <1>1 DEF Records, TypeOK
<1>6. /\ main'.suspended = TRUE /\ main'.rowgroup_ctr = DCTSIZE
      /\ main'.cur_iMCU_row = main.cur_iMCU_row
      /\ main' \in [cur_iMCU_row : Nat, rowgroup_ctr : Int, suspended : BOOLEAN]
  BY ONLY <1>3, <1>5
<1>7. /\ call.avail >= 1 /\ next_scanline + call.avail <= image.height
      /\ main.suspended => call.row_ctr = 0
      /\ ~main.suspended => call.row_ctr >= 1
      /\ next_scanline + call.row_ctr + TakenBack = image.height - prep.rows_to_go
  BY <1>3 DEF IInv, Counted, Returnable, Consumed
<1>8. /\ call' \in [avail : Int, row_ctr : Int] /\ call'.avail = call.avail
      /\ call'.row_ctr \in 0..call.avail /\ next_scanline + call'.row_ctr < image.height
      /\ next_scanline + call'.row_ctr + 1 = image.height - prep.rows_to_go
  <2>1. CASE main.suspended
    <3>1. call' = call /\ TakenBack = 1
      BY <1>3, <2>1 DEF TakenBack
    <3> QED
      BY ONLY <1>2, <1>5, <1>7, <2>1, <3>1
  <2>2. CASE ~main.suspended
    <3>1. call' = [call EXCEPT !.row_ctr = @ - 1] /\ TakenBack = 0
      BY <1>3, <2>2 DEF TakenBack
    <3> QED
      BY ONLY <1>2, <1>5, <1>7, <2>2, <3>1
  <2> QED
    BY <2>1, <2>2
<1>9. TypeOK'
  <2>1. next_scanline' \in 0..image.height
    BY ONLY <1>2, <1>3, <1>5, <1>8
  <2>2. /\ call'.avail \in 0..MAX_LINES /\ call'.row_ctr \in 0..call'.avail
        /\ main'.rowgroup_ctr \in 0..DCTSIZE
    BY <1>1, <1>3, <1>5, <1>6, <1>8 DEF TypeOK
  <2> QED
    BY <1>1, <1>3, <1>4, <1>6, <2>1, <2>2 DEF TypeOK
<1>10. Records'
  BY <1>1, <1>3, <1>6, <1>8 DEF Records
<1>11. Counted' /\ Returnable' /\ DoneMeansWritten'
  <2>1. pc' = "app" /\ pc' # "process" /\ TakenBack' = 1
        /\ Consumed' = image.height - prep.rows_to_go
        /\ next_scanline' < image'.height
    BY <1>2, <1>3, <1>6, <1>8 DEF TakenBack, Consumed
  <2>2. MoreImcuRows'
    BY <1>3, <1>4, <1>6 DEF MoreImcuRows
  <2>3. Counted'
    BY <1>3, <1>8, <2>1 DEF Counted
  <2>4. Returnable'
    BY <1>3, <1>6, <2>1, <2>2 DEF Returnable
  <2>5. next_scanline' \in Int /\ image'.height \in Int
    BY <1>2, <1>3, <1>8
  <2> QED
    BY <2>1, <2>3, <2>4, <2>5 DEF DoneMeansWritten
<1>12. Simple' /\ Ring'
  BY <1>3, <1>4, <1>6 DEF IInv, Simple, Ring, Consumed, MoreImcuRows
<1> QED
  BY <1>9, <1>10, <1>11, <1>12 DEF IInv

\* Below the bottom without context rows the iMCU row is padded at once, so a
\* call never ends there with an iMCU row half filled.
LEMMA NeedMoreDataInv == IInv /\ NeedMoreData => IInv'
<1> SUFFICES ASSUME IInv, NeedMoreData PROVE IInv'
  OBVIOUS
<1>1. TypeOK /\ Records
  BY DEF IInv
<1>2. /\ image.height \in Nat \ {0} /\ next_scanline \in 0..image.height
      /\ prep.rows_to_go \in 0..image.height /\ MAX_LINES \in Nat
      /\ call.row_ctr \in 0..call.avail /\ call.avail \in Nat /\ DCTSIZE \in Nat
      /\ main.rowgroup_ctr \in Nat /\ image.context \in BOOLEAN
  BY <1>1, ImageFacts DEF TypeOK
<1>3. /\ UNCHANGED <<image, call, prep, main, coef, entropy>>
      /\ pc = "process" /\ pc' = "app"
      /\ next_scanline' = next_scanline + call.row_ctr
  BY DEF NeedMoreData, ReturnToApp, prepVars
<1>4. UNCHANGED <<v, BufHeight, TotalImcuRows>>
  BY <1>3, ImageStays
<1>5. next_scanline + call.avail <= image.height
      /\ next_scanline + call.row_ctr + TakenBack = image.height - prep.rows_to_go
  BY <1>3 DEF IInv, Counted, Returnable, Consumed
<1>6. MoreImcuRows => main.rowgroup_ctr < DCTSIZE /\ prep.rows_to_go # 0
  <2>1. MoreImcuRows => Filling /\ (image.context => prep.rows_to_go # 0)
    BY DEF NeedMoreData
  <2>2. Filling => main.rowgroup_ctr < DCTSIZE /\ MoreImcuRows
    BY DEF Filling
  <2>3. ~image.context /\ prep.rows_to_go = 0 /\ MoreImcuRows =>
          main.rowgroup_ctr = DCTSIZE
    BY DEF IInv, Simple
  <2>4. main.rowgroup_ctr < DCTSIZE => main.rowgroup_ctr # DCTSIZE
    BY <1>2
  <2> QED
    BY ONLY <2>1, <2>2, <2>3, <2>4
<1>7. ~main.suspended /\ TakenBack = 0
  <2>1. main.suspended => main.rowgroup_ctr = DCTSIZE /\ MoreImcuRows
    BY DEF IInv, Returnable
  <2> QED
    BY <1>2, <1>6, <2>1 DEF TakenBack
<1>8. next_scanline' \in 0..image.height
  BY ONLY <1>2, <1>3, <1>5
<1>9. TypeOK' /\ Records'
  BY <1>1, <1>3, <1>4, <1>8 DEF TypeOK, Records
<1>10. Counted'
  <2>1. TakenBack' = TakenBack /\ Consumed' = image.height - prep.rows_to_go
        /\ pc' # "process"
    BY <1>3 DEF TakenBack, Consumed
  <2> QED
    BY <1>2, <1>3, <1>5, <1>7, <2>1 DEF Counted
<1>11. Returnable'
  <2>1. UNCHANGED MoreImcuRows /\ pc' # "process"
    BY <1>3, <1>4 DEF MoreImcuRows
  <2> QED
    BY <1>2, <1>3, <1>6, <1>7, <2>1 DEF Returnable
<1>12. DoneMeansWritten'
  <2>1. MoreImcuRows => next_scanline + call.row_ctr < image.height
    BY <1>2, <1>5, <1>6, <1>7
  <2>2. UNCHANGED MoreImcuRows
    BY <1>3, <1>4 DEF MoreImcuRows
  <2> QED
    BY <1>2, <1>3, <2>1, <2>2 DEF DoneMeansWritten
<1>13. Simple' /\ Ring'
  BY <1>3, <1>4 DEF IInv, Simple, Ring, Consumed, MoreImcuRows
<1> QED
  BY <1>9, <1>10, <1>11, <1>12, <1>13 DEF IInv

\* The row a suspension took back is consumed when its iMCU row is complete;
\* an iMCU row padded at the bottom is the last.
LEMMA ImcuRowDoneInv == IInv /\ ImcuRowDone => IInv'
<1> SUFFICES ASSUME IInv, ImcuRowDone PROVE IInv'
  OBVIOUS
<1>1. TypeOK /\ Records
  BY DEF IInv
<1>2. /\ image.height \in Nat \ {0} /\ next_scanline \in 0..image.height
      /\ prep.rows_to_go \in 0..image.height /\ MAX_LINES \in Nat
      /\ DCTSIZE \in Nat \ {0} /\ v \in Nat \ {0} /\ image.columns \in Nat \ {0}
      /\ image.context \in BOOLEAN /\ TotalImcuRows \in Nat
  BY <1>1, ImageFacts, ImcuRows DEF TypeOK
<1>3. /\ UNCHANGED <<image, pc, next_scanline, prep, entropy>> /\ pc = "process"
      /\ MoreImcuRows /\ main.rowgroup_ctr = DCTSIZE
      /\ coef' = [iMCU_row_num |-> coef.iMCU_row_num + 1, MCU_vert_offset |-> 0, mcu_ctr |-> 0]
      /\ call' = IF main.suspended THEN [call EXCEPT !.row_ctr = @ + 1] ELSE call
      /\ main' = [cur_iMCU_row |-> main.cur_iMCU_row + 1, rowgroup_ctr |-> 0,
                  suspended |-> FALSE]
  BY DEF ImcuRowDone, Compressing, prepVars
<1>4. UNCHANGED <<v, BufHeight, TotalImcuRows>>
  BY <1>3, ImageStays
<1>5. /\ main.cur_iMCU_row \in Nat /\ main.suspended \in BOOLEAN
      /\ call \in [avail : Int, row_ctr : Int]
      /\ call.avail \in 0..MAX_LINES /\ call.row_ctr \in 0..call.avail
      /\ coef.iMCU_row_num \in Int
  BY <1>1 DEF Records, TypeOK
<1>6. /\ call.avail >= 1 /\ next_scanline + call.avail <= image.height
      /\ main.suspended => call.row_ctr = 0
      /\ next_scanline + call.row_ctr + TakenBack = image.height - prep.rows_to_go
  BY <1>3 DEF IInv, Counted, Returnable, Consumed
<1>7. /\ call' \in [avail : Int, row_ctr : Int] /\ call'.avail = call.avail
      /\ call'.row_ctr \in 0..call.avail
      /\ next_scanline + call'.row_ctr = image.height - prep.rows_to_go
  <2>1. CASE main.suspended
    <3>1. call' = [call EXCEPT !.row_ctr = @ + 1] /\ TakenBack = 1
      BY <1>3, <2>1 DEF TakenBack
    <3> QED
      BY ONLY <1>2, <1>5, <1>6, <2>1, <3>1
  <2>2. CASE ~main.suspended
    <3>1. call' = call /\ TakenBack = 0
      BY <1>3, <2>2 DEF TakenBack
    <3> QED
      BY ONLY <1>2, <1>5, <1>6, <2>2, <3>1
  <2> QED
    BY <2>1, <2>2
<1>8. /\ main' \in [cur_iMCU_row : Nat, rowgroup_ctr : Int, suspended : BOOLEAN]
      /\ main'.cur_iMCU_row = main.cur_iMCU_row + 1 /\ main'.rowgroup_ctr = 0
      /\ main'.suspended = FALSE
      /\ coef' \in [iMCU_row_num : Int, MCU_vert_offset : Int, mcu_ctr : Int]
      /\ coef'.MCU_vert_offset = 0 /\ coef'.mcu_ctr = 0
  BY ONLY <1>3, <1>5
<1>9. TypeOK'
  <2>1. /\ coef'.mcu_ctr \in 0..(image.columns - 1) /\ coef'.MCU_vert_offset \in 0..v
        /\ main'.rowgroup_ctr \in 0..DCTSIZE /\ main'.suspended \in BOOLEAN
        /\ call'.avail \in 0..MAX_LINES /\ call'.row_ctr \in 0..call'.avail
    BY ONLY <1>2, <1>5, <1>7, <1>8
  <2> QED
    BY <1>1, <1>3, <1>4, <2>1 DEF TypeOK
<1>10. Records'
  BY <1>1, <1>3, <1>7, <1>8 DEF Records
<1>11. Counted'
  <2>1. TakenBack' = 0 /\ Consumed' = image.height - prep.rows_to_go
    BY <1>3, <1>8 DEF TakenBack, Consumed
  <2>2. pc' # "app" /\ next_scanline' + call'.row_ctr + TakenBack' = Consumed'
    BY <1>2, <1>3, <1>5, <1>7, <2>1
  <2> QED
    BY <2>2 DEF Counted
<1>12. Returnable'
  <2>1. pc' # "app" /\ main'.rowgroup_ctr # DCTSIZE' /\ ~main'.suspended
        /\ call'.avail >= 1 /\ next_scanline' + call'.avail <= image'.height
    BY <1>2, <1>3, <1>6, <1>7, <1>8
  <2> QED
    BY <2>1 DEF Returnable
<1>13. Simple'
  <2> SUFFICES ASSUME ~image.context PROVE Simple'
    BY <1>3 DEF Simple
  <2>1. /\ prep.next_buf_row = 0 /\ prep.next_buf_row < v
        /\ prep.rows_to_go > 0 =>
             Consumed = main.cur_iMCU_row * (DCTSIZE * v) + main.rowgroup_ctr * v
                          + prep.next_buf_row
        /\ prep.rows_to_go = 0 => main.cur_iMCU_row = TotalImcuRows - 1
    BY <1>3 DEF IInv, Simple
  <2>2. (main.cur_iMCU_row + 1) * (DCTSIZE * v)
          = main.cur_iMCU_row * (DCTSIZE * v) + DCTSIZE * v
    BY <1>2, <1>5
  <2>3. Consumed' = Consumed /\ prep' = prep
    BY <1>3 DEF Consumed
  <2>4. 0 * v = 0 /\ DCTSIZE * v \in Nat /\ main.cur_iMCU_row * (DCTSIZE * v) \in Nat
    BY <1>2, <1>5
  <2>5. prep.rows_to_go = 0 => ~MoreImcuRows'
    <3>1. MoreImcuRows' = (main.cur_iMCU_row + 1 < TotalImcuRows)
      BY <1>4, <1>8 DEF MoreImcuRows
    <3>2. ASSUME prep.rows_to_go = 0 PROVE ~(main.cur_iMCU_row + 1 < TotalImcuRows)
      <4>1. main.cur_iMCU_row = TotalImcuRows - 1
        BY <2>1, <3>2
      <4> QED
        BY ONLY <1>2, <1>5, <4>1
    <3> QED
      BY <3>1, <3>2
  <2>6. prep.rows_to_go > 0 =>
          Consumed = (main.cur_iMCU_row + 1) * (DCTSIZE * v) + 0 * v + prep.next_buf_row
    <3>1. prep.rows_to_go > 0 =>
            Consumed = main.cur_iMCU_row * (DCTSIZE * v) + DCTSIZE * v + 0
      BY <1>3, <2>1
    <3> QED
      BY ONLY <2>1, <2>2, <2>4, <3>1
  <2>7. /\ prep'.next_buf_row = 0 /\ prep'.next_buf_row < v'
        /\ prep'.rows_to_go > 0 =>
             Consumed' = main'.cur_iMCU_row * (DCTSIZE' * v') + main'.rowgroup_ctr * v'
                           + prep'.next_buf_row
        /\ ~(prep'.rows_to_go = 0 /\ MoreImcuRows')
    BY <1>4, <1>8, <2>1, <2>3, <2>5, <2>6
  <2> QED
    BY <2>7 DEF Simple
<1>14. Ring' /\ DoneMeansWritten'
  BY <1>3, <1>4 DEF IInv, Ring, DoneMeansWritten
<1> QED
  BY <1>9, <1>10, <1>11, <1>12, <1>13, <1>14 DEF IInv

LEMMA FinishInv == IInv /\ (FinishCompress \/ FinishTooEarly) => IInv'
<1> SUFFICES ASSUME IInv, FinishCompress \/ FinishTooEarly PROVE IInv'
  OBVIOUS
<1>1. /\ UNCHANGED <<image, next_scanline, call, prep, main, coef, entropy>>
      /\ pc' \in {"finished", "error"}
  BY DEF FinishCompress, FinishTooEarly, prepVars
<1>2. UNCHANGED <<v, BufHeight, TotalImcuRows>>
  BY <1>1, ImageStays
<1>3. TypeOK' /\ Records'
  BY <1>1, <1>2 DEF IInv, TypeOK, Records
<1>4. (Counted /\ Returnable /\ Simple /\ Ring /\ DoneMeansWritten)'
  BY <1>1, <1>2
     DEF IInv, Counted, Returnable, Simple, Ring, DoneMeansWritten, Consumed, TakenBack,
         MoreImcuRows
<1> QED
  BY <1>3, <1>4 DEF IInv

\* An iteration of the preprocessor leaves the call a row to give back, and
\* takes no more rows than the image has left.
LEMMA RowsTaken ==
  ASSUME IInv, Filling, NEW n \in Nat, n <= call.avail - call.row_ctr,
         call' = [call EXCEPT !.row_ctr = @ + n], call.row_ctr + n >= 1
  PROVE  /\ n <= prep.rows_to_go
         /\ call' \in [avail : Int, row_ctr : Int] /\ call'.avail = call.avail
         /\ call'.row_ctr = call.row_ctr + n /\ call'.row_ctr \in 1..call.avail
         /\ ~main.suspended /\ TakenBack = 0
         /\ next_scanline + call'.row_ctr = image.height - (prep.rows_to_go - n)
<1>1. TypeOK /\ Records
  BY DEF IInv
<1>2. /\ image.height \in Nat /\ next_scanline \in 0..image.height
      /\ prep.rows_to_go \in 0..image.height /\ DCTSIZE \in Nat
      /\ call.avail \in Nat /\ call.row_ctr \in 0..call.avail
      /\ call \in [avail : Int, row_ctr : Int] /\ main.rowgroup_ctr \in Nat
  BY <1>1, ImageFacts DEF TypeOK, Records
<1>3. /\ next_scanline + call.avail <= image.height
      /\ next_scanline + call.row_ctr + TakenBack = image.height - prep.rows_to_go
      /\ main.suspended => main.rowgroup_ctr = DCTSIZE
      /\ main.rowgroup_ctr < DCTSIZE
  BY DEF IInv, Counted, Returnable, Consumed, Filling
<1>4. ~main.suspended /\ TakenBack = 0
  BY <1>2, <1>3 DEF TakenBack
<1>5. /\ call' \in [avail : Int, row_ctr : Int] /\ call'.avail = call.avail
      /\ call'.row_ctr = call.row_ctr + n
  BY <1>2
<1> QED
  BY <1>2, <1>3, <1>4, <1>5

\* What an iteration keeps, once its record of the buffer is right.
LEMMA IterationInv ==
  ASSUME IInv, Filling, UNCHANGED <<image, pc, next_scanline, coef, entropy>>,
         NEW n \in Nat, n <= call.avail - call.row_ctr,
         call' = [call EXCEPT !.row_ctr = @ + n], call.row_ctr + n >= 1,
         prep' \in [rows_to_go : Int, next_buf_row : Int, this_row_group : Int,
                    next_buf_stop : Int],
         prep'.rows_to_go = prep.rows_to_go - n,
         prep'.next_buf_row \in 0..(BufHeight - 1),
         prep'.this_row_group \in 0..(BufHeight - 1),
         NEW ctr \in 0..DCTSIZE, main' = [main EXCEPT !.rowgroup_ctr = ctr]
  PROVE  (TypeOK /\ Records /\ Counted /\ Returnable /\ DoneMeansWritten)'
         /\ UNCHANGED <<v, BufHeight, TotalImcuRows, MoreImcuRows>>
         /\ main'.rowgroup_ctr = ctr /\ main'.cur_iMCU_row = main.cur_iMCU_row
<1>1. TypeOK /\ Records
  BY DEF IInv
<1>2. /\ image.height \in Nat /\ next_scanline \in 0..image.height
      /\ prep.rows_to_go \in 0..image.height /\ DCTSIZE \in Nat
      /\ call.avail \in 0..MAX_LINES /\ MAX_LINES \in Nat
      /\ main \in [cur_iMCU_row : Nat, rowgroup_ctr : Int, suspended : BOOLEAN]
  BY <1>1, ImageFacts DEF TypeOK, Records
<1>3. UNCHANGED <<v, BufHeight, TotalImcuRows>>
  BY ImageStays
<1>4. /\ n <= prep.rows_to_go
      /\ call' \in [avail : Int, row_ctr : Int] /\ call'.avail = call.avail
      /\ call'.row_ctr \in 1..call.avail /\ ~main.suspended
      /\ next_scanline + call'.row_ctr = image.height - (prep.rows_to_go - n)
  BY RowsTaken
<1>5. /\ main' \in [cur_iMCU_row : Nat, rowgroup_ctr : Int, suspended : BOOLEAN]
      /\ main'.rowgroup_ctr = ctr /\ main'.cur_iMCU_row = main.cur_iMCU_row
      /\ main'.suspended = FALSE
  BY <1>2, <1>4
<1>6. UNCHANGED MoreImcuRows
  BY <1>3, <1>5 DEF MoreImcuRows
<1>7. TypeOK'
  <2>1. /\ call'.avail \in 0..MAX_LINES /\ call'.row_ctr \in 0..call'.avail
        /\ prep'.rows_to_go \in 0..image.height
        /\ main'.rowgroup_ctr \in 0..DCTSIZE /\ main'.suspended \in BOOLEAN
    BY <1>2, <1>4, <1>5
  <2> QED
    BY <1>1, <1>3, <2>1 DEF TypeOK
<1>8. Records'
  BY <1>1, <1>4, <1>5 DEF Records
<1>9. pc = "process" /\ pc' = "process"
  BY DEF Filling
<1>10. Counted'
  <2>1. TakenBack' = 0 /\ Consumed' = image.height - (prep.rows_to_go - n)
    BY <1>5 DEF TakenBack, Consumed
  <2>2. next_scanline' + call'.row_ctr + TakenBack' = Consumed'
    BY <1>2, <1>4, <2>1
  <2> QED
    BY <1>9, <2>2 DEF Counted
<1>11. Returnable'
  <2>1. next_scanline + call.avail <= image.height
    BY <1>9 DEF IInv, Returnable
  <2>2. /\ call'.avail >= 1 /\ next_scanline' + call'.avail <= image'.height
        /\ call'.row_ctr >= 1 /\ ~main'.suspended
    BY <1>2, <1>4, <1>5, <2>1
  <2> QED
    BY <1>9, <2>2 DEF Returnable
<1>12. DoneMeansWritten'
  BY <1>9 DEF DoneMeansWritten
<1> QED
  BY <1>3, <1>5, <1>6, <1>7, <1>8, <1>10, <1>11, <1>12

\* Without context rows the last scanline completes the last iMCU row.
LEMMA PreProcessDataInv == IInv /\ PreProcessData => IInv'
<1> SUFFICES ASSUME IInv, PreProcessData PROVE IInv'
  OBVIOUS
<1>1. TypeOK /\ Records
  BY DEF IInv
<1>2. /\ image.height \in Nat /\ v \in Nat \ {0} /\ DCTSIZE \in Nat \ {0}
      /\ prep \in [rows_to_go : Int, next_buf_row : Int, this_row_group : Int,
                   next_buf_stop : Int]
      /\ prep.rows_to_go \in 0..image.height
      /\ prep.next_buf_row \in 0..(BufHeight - 1)
      /\ prep.this_row_group \in 0..(BufHeight - 1)
      /\ call.avail \in Nat /\ call.row_ctr \in 0..call.avail
      /\ main.cur_iMCU_row \in Nat /\ main.rowgroup_ctr \in 0..DCTSIZE
  BY <1>1, ImageFacts DEF TypeOK, Records
<1>3. /\ Filling /\ ~image.context /\ call.row_ctr < call.avail /\ BufHeight = v
      /\ UNCHANGED <<image, pc, next_scanline, coef, entropy>>
      /\ MoreImcuRows /\ main.rowgroup_ctr < DCTSIZE
  BY DEF PreProcessData, Filling, RowsLeft, BufHeight
<1>4. PICK n : n = Least(v - prep.next_buf_row, call.avail - call.row_ctr)
  OBVIOUS
<1>5. n \in Nat \ {0} /\ n <= v - prep.next_buf_row /\ n <= call.avail - call.row_ctr
  BY <1>2, <1>3, <1>4 DEF Least
<1>6. PICK ctr : ctr = IF prep.rows_to_go = n THEN DCTSIZE
                       ELSE IF prep.next_buf_row + n = v THEN main.rowgroup_ctr + 1
                       ELSE main.rowgroup_ctr
  OBVIOUS
<1>7. PICK row : row = IF prep.rows_to_go = n \/ prep.next_buf_row + n = v THEN 0
                       ELSE prep.next_buf_row + n
  OBVIOUS
<1>8. /\ call' = [call EXCEPT !.row_ctr = @ + n]
      /\ prep' = [prep EXCEPT !.rows_to_go = @ - n, !.next_buf_row = row]
      /\ main' = [main EXCEPT !.rowgroup_ctr = ctr]
  BY <1>4, <1>6, <1>7 DEF PreProcessData
<1>9. \/ prep.rows_to_go = n /\ ctr = DCTSIZE /\ row = 0
      \/ /\ prep.rows_to_go # n /\ prep.next_buf_row + n = v
         /\ ctr = main.rowgroup_ctr + 1 /\ row = 0
      \/ /\ prep.rows_to_go # n /\ prep.next_buf_row + n < v
         /\ ctr = main.rowgroup_ctr /\ row = prep.next_buf_row + n
  BY <1>2, <1>3, <1>5, <1>6, <1>7
<1>10. ctr \in 0..DCTSIZE /\ row \in 0..(v - 1)
  BY ONLY <1>2, <1>3, <1>5, <1>9
<1>11. /\ prep' \in [rows_to_go : Int, next_buf_row : Int, this_row_group : Int,
                     next_buf_stop : Int]
       /\ prep'.rows_to_go = prep.rows_to_go - n /\ prep'.next_buf_row = row
       /\ prep'.this_row_group = prep.this_row_group
  <2>1. prep' = [rows_to_go |-> prep.rows_to_go - n, next_buf_row |-> row,
                 this_row_group |-> prep.this_row_group,
                 next_buf_stop |-> prep.next_buf_stop]
    BY <1>2, <1>8
  <2>2. prep.rows_to_go - n \in Int /\ row \in Int
        /\ prep.this_row_group \in Int /\ prep.next_buf_stop \in Int
    BY <1>2, <1>5, <1>10
  <2> QED
    BY <2>1, <2>2
<1>12. call.row_ctr + n >= 1 /\ n \in Nat
  BY <1>2, <1>5
<1>13. /\ (TypeOK /\ Records /\ Counted /\ Returnable /\ DoneMeansWritten)'
       /\ UNCHANGED <<v, BufHeight, TotalImcuRows, MoreImcuRows>>
       /\ main'.rowgroup_ctr = ctr /\ main'.cur_iMCU_row = main.cur_iMCU_row
  BY <1>2, <1>3, <1>5, <1>8, <1>10, <1>11, <1>12, IterationInv
<1>14. n <= prep.rows_to_go
  BY <1>3, <1>5, <1>8, <1>12, RowsTaken
<1>15. PICK U, taken : U = main.cur_iMCU_row * (DCTSIZE * v)
                       /\ taken = main.rowgroup_ctr * v
  OBVIOUS
<1>16. U \in Nat /\ taken \in Nat /\ DCTSIZE * v \in Nat
  BY <1>2, <1>15
<1>17. image.height - prep.rows_to_go = U + taken + prep.next_buf_row
  BY <1>2, <1>3, <1>5, <1>14, <1>15 DEF IInv, Simple, Consumed
<1>18. (main.rowgroup_ctr + 1) * v = taken + v
  BY <1>2, <1>15
<1>19. Simple'
  <2>1. prep.rows_to_go - n = 0 => ctr = DCTSIZE /\ row = 0
    BY ONLY <1>2, <1>5, <1>9
  <2>2. ctr = DCTSIZE => row = 0
    BY ONLY <1>2, <1>3, <1>9
  <2>3. ASSUME prep.rows_to_go - n > 0
        PROVE  image.height - (prep.rows_to_go - n) = U + ctr * v + row
    <3>1. CASE prep.next_buf_row + n = v /\ ctr = main.rowgroup_ctr + 1 /\ row = 0
      <4>1. ctr * v = taken + v
        BY <1>18, <3>1
      <4>2. image.height - (prep.rows_to_go - n) = U + taken + v + 0
        BY ONLY <1>2, <1>5, <1>16, <1>17, <3>1
      <4> QED
        BY ONLY <1>2, <1>16, <3>1, <4>1, <4>2
    <3>2. CASE ctr = main.rowgroup_ctr /\ row = prep.next_buf_row + n
      <4>1. ctr * v = taken
        BY <1>15, <3>2
      <4>2. image.height - (prep.rows_to_go - n) = U + taken + (prep.next_buf_row + n)
        BY ONLY <1>2, <1>5, <1>16, <1>17
      <4> QED
        BY ONLY <3>2, <4>1, <4>2
    <3>3. prep.rows_to_go # n
      BY ONLY <1>2, <1>5, <2>3
    <3> QED
      BY <1>9, <3>1, <3>2, <3>3
  <2>4. ASSUME prep.rows_to_go - n = 0
        PROVE  main.cur_iMCU_row = TotalImcuRows - 1
    <3>1. (main.rowgroup_ctr + 1) * v <= DCTSIZE * v
      BY <1>2, <1>3, MulMonotone
    <3>2. image.height <= U + DCTSIZE * v
      BY ONLY <1>2, <1>5, <1>16, <1>17, <1>18, <2>4, <3>1
    <3>3. (main.cur_iMCU_row + 1) * (DCTSIZE * v) = U + DCTSIZE * v
      BY <1>2, <1>15, <1>16
    <3>4. TotalImcuRows \in Nat /\ TotalImcuRows <= main.cur_iMCU_row + 1
      BY <1>1, <1>2, <3>2, <3>3, ImcuRows
    <3> QED
      BY <1>2, <1>3, <3>4 DEF MoreImcuRows
  <2>5. /\ prep'.next_buf_row < v' /\ main'.rowgroup_ctr = DCTSIZE => prep'.next_buf_row = 0
    BY <1>2, <1>10, <1>11, <1>13, <2>2
  <2>6. prep'.rows_to_go > 0 =>
          Consumed' = main'.cur_iMCU_row * (DCTSIZE * v') + main'.rowgroup_ctr * v'
                        + prep'.next_buf_row
    <3>1. Consumed' = image.height - (prep.rows_to_go - n)
      BY <1>3, <1>11 DEF Consumed
    <3> QED
      BY <1>11, <1>13, <1>15, <2>3, <3>1
  <2>7. prep'.rows_to_go = 0 =>
          main'.rowgroup_ctr = DCTSIZE /\ main'.cur_iMCU_row = TotalImcuRows' - 1
    BY <1>11, <1>13, <2>1, <2>4
  <2>8. prep'.next_buf_row < v'
    BY <1>10, <1>11, <1>13, <1>2
  <2> QED
    BY <2>5, <2>6, <2>7, <2>8 DEF Simple
<1>20. Ring'
  BY <1>3 DEF Ring
<1> QED
  BY <1>13, <1>19, <1>20 DEF IInv

\* The ring of row groups goes round: after the last group of color_buf comes
\* the first.
LEMMA RingAdvances ==
  ASSUME TypeOK, Records, Ring, image.context, Filling,
         NEW n \in Int, call'.row_ctr = call.row_ctr + n, call.row_ctr \in Int,
         NEW stored \in prep.next_buf_row..prep.next_buf_stop,
         \E rows : DownsampleWithContext(rows, stored)
  PROVE  /\ prep' \in [rows_to_go : Int, next_buf_row : Int, this_row_group : Int,
                       next_buf_stop : Int]
         /\ prep'.rows_to_go = prep.rows_to_go - n
         /\ prep'.next_buf_row \in 0..(BufHeight - 1)
         /\ prep'.this_row_group \in 0..(BufHeight - 1)
         /\ prep'.next_buf_stop \in {v, 2 * v, 3 * v}
         /\ prep'.this_row_group \in {0, v, 2 * v}
         /\ prep'.next_buf_row < prep'.next_buf_stop
         /\ \E ctr \in 0..DCTSIZE : main' = [main EXCEPT !.rowgroup_ctr = ctr]
<1>1. /\ v \in Nat \ {0} /\ BufHeight = 3 * v /\ DCTSIZE \in Nat
      /\ main.rowgroup_ctr \in 0..DCTSIZE /\ main.rowgroup_ctr < DCTSIZE
      /\ main \in [cur_iMCU_row : Nat, rowgroup_ctr : Int, suspended : BOOLEAN]
      /\ prep.rows_to_go \in Int /\ prep.next_buf_row \in 0..(3 * v - 1)
  BY ImageFacts DEF TypeOK, Records, Filling
<1>2. /\ prep.next_buf_stop \in {v, 2 * v, 3 * v}
      /\ prep.this_row_group \in {0, v, 2 * v}
      /\ prep.next_buf_row < prep.next_buf_stop
  BY DEF Ring
<1>3. PICK rows : DownsampleWithContext(rows, stored)
  OBVIOUS
<1>4. CASE stored = prep.next_buf_stop
  <2>1. PICK next : next = IF stored >= 3 * v THEN 0 ELSE stored
    OBVIOUS
  <2>2. PICK this : this = IF prep.this_row_group + v >= 3 * v THEN 0
                           ELSE prep.this_row_group + v
    OBVIOUS
  <2>3. /\ main' = [main EXCEPT !.rowgroup_ctr = @ + 1]
        /\ prep' = [rows_to_go |-> prep.rows_to_go - (call'.row_ctr - call.row_ctr),
                    next_buf_row |-> next, this_row_group |-> this,
                    next_buf_stop |-> next + v]
    BY <1>1, <1>3, <1>4, <2>1, <2>2 DEF DownsampleWithContext
  <2>4. next \in 0..(3 * v - 1) /\ next + v \in {v, 2 * v, 3 * v} /\ next < next + v
    BY ONLY <1>1, <1>2, <1>4, <2>1
  <2>5. this \in 0..(3 * v - 1) /\ this \in {0, v, 2 * v}
    BY ONLY <1>1, <1>2, <2>2
  <2>6. /\ main.rowgroup_ctr + 1 \in 0..DCTSIZE
        /\ main' = [main EXCEPT !.rowgroup_ctr = main.rowgroup_ctr + 1]
    BY <1>1, <2>3
  <2>7. prep.rows_to_go - (call'.row_ctr - call.row_ctr) = prep.rows_to_go - n
    BY <1>1
  <2> QED
    BY ONLY <1>1, <2>3, <2>4, <2>5, <2>6, <2>7
<1>5. CASE stored # prep.next_buf_stop
  <2>1. /\ main' = main
        /\ prep' = [rows_to_go |-> prep.rows_to_go - (call'.row_ctr - call.row_ctr),
                    next_buf_row |-> stored, this_row_group |-> prep.this_row_group,
                    next_buf_stop |-> prep.next_buf_stop]
    BY <1>3, <1>5 DEF DownsampleWithContext
  <2>2. stored \in 0..(3 * v - 1) /\ stored < prep.next_buf_stop
    <3>1. prep.next_buf_stop \in Int /\ prep.next_buf_stop <= 3 * v
      BY ONLY <1>1, <1>2
    <3>2. /\ stored \in Int /\ prep.next_buf_row <= stored
          /\ stored <= prep.next_buf_stop /\ stored # prep.next_buf_stop
      BY <1>1, <1>5, <3>1
    <3> QED
      BY ONLY <1>1, <3>1, <3>2
  <2>3. main' = [main EXCEPT !.rowgroup_ctr = main.rowgroup_ctr]
    BY <1>1, <2>1
  <2>4. prep.rows_to_go - (call'.row_ctr - call.row_ctr) = prep.rows_to_go - n
    BY <1>1
  <2>5. prep.this_row_group \in 0..(3 * v - 1) /\ prep.next_buf_stop \in Int
    BY ONLY <1>1, <1>2
  <2>6. /\ prep'.rows_to_go = prep.rows_to_go - n /\ prep'.next_buf_row = stored
        /\ prep'.this_row_group = prep.this_row_group
        /\ prep'.next_buf_stop = prep.next_buf_stop
    BY ONLY <2>1, <2>4
  <2>7. prep' \in [rows_to_go : Int, next_buf_row : Int, this_row_group : Int,
                   next_buf_stop : Int]
    BY ONLY <1>1, <2>1, <2>2, <2>4, <2>5
  <2>8. \E ctr \in 0..DCTSIZE : main' = [main EXCEPT !.rowgroup_ctr = ctr]
    BY ONLY <1>1, <2>3
  <2> QED
    BY <1>1, <1>2, <2>2, <2>5, <2>6, <2>7, <2>8
<1> QED
  BY <1>4, <1>5

\* With context rows an iteration takes scanlines, or pads below the bottom.
LEMMA ContextInv == IInv /\ (PreProcessContext \/ PadContext) => IInv'
<1> SUFFICES ASSUME IInv, PreProcessContext \/ PadContext PROVE IInv'
  OBVIOUS
<1>1. TypeOK /\ Records /\ Ring
  BY DEF IInv
<1>2. /\ Filling /\ image.context /\ pc = "process"
      /\ UNCHANGED <<image, pc, next_scanline, coef, entropy>>
  BY DEF PreProcessContext, PadContext, Filling
<1>3. /\ call \in [avail : Int, row_ctr : Int] /\ call.avail \in Nat
      /\ call.row_ctr \in 0..call.avail /\ prep.next_buf_row \in Nat
      /\ prep.next_buf_stop \in Int /\ prep.next_buf_row < prep.next_buf_stop
  BY <1>1, <1>2, ImageFacts DEF TypeOK, Records, Ring
<1>4. call.avail >= 1
  BY <1>2 DEF IInv, Returnable
<1>5. \E n \in Nat : \E stored \in prep.next_buf_row..prep.next_buf_stop :
        /\ n <= call.avail - call.row_ctr /\ call.row_ctr + n >= 1
        /\ call' = [call EXCEPT !.row_ctr = @ + n]
        /\ \E rows : DownsampleWithContext(rows, stored)
  <2>1. CASE PreProcessContext
    <3>1. PICK n : n = Least(prep.next_buf_stop - prep.next_buf_row,
                             call.avail - call.row_ctr)
      OBVIOUS
    <3>2. /\ call' = [call EXCEPT !.row_ctr = @ + n] /\ call.row_ctr < call.avail
          /\ \E rows : DownsampleWithContext(rows, prep.next_buf_row + n)
      BY <2>1, <3>1 DEF PreProcessContext, RowsLeft
    <3>3. n \in Nat \ {0} /\ n <= prep.next_buf_stop - prep.next_buf_row
          /\ n <= call.avail - call.row_ctr
      BY <1>3, <3>1, <3>2 DEF Least
    <3>4. /\ prep.next_buf_row + n \in prep.next_buf_row..prep.next_buf_stop
          /\ call.row_ctr + n >= 1 /\ n \in Nat
      BY ONLY <1>3, <3>3
    <3> QED
      BY <3>2, <3>3, <3>4
  <2>2. CASE PadContext
    <3>1. /\ call' = call /\ ~(call.row_ctr < call.avail)
          /\ \E rows : DownsampleWithContext(rows, prep.next_buf_stop)
      BY <2>2 DEF PadContext, RowsLeft
    <3>2. /\ call' = [call EXCEPT !.row_ctr = @ + 0] /\ call.row_ctr + 0 >= 1
          /\ 0 <= call.avail - call.row_ctr
          /\ prep.next_buf_stop \in prep.next_buf_row..prep.next_buf_stop
      BY <1>3, <1>4, <3>1
    <3> QED
      BY <3>1, <3>2
  <2> QED
    BY <2>1, <2>2
<1>6. PICK n \in Nat, stored \in prep.next_buf_row..prep.next_buf_stop :
        /\ n <= call.avail - call.row_ctr /\ call.row_ctr + n >= 1
        /\ call' = [call EXCEPT !.row_ctr = @ + n]
        /\ \E rows : DownsampleWithContext(rows, stored)
  BY <1>5
<1>7. n \in Int /\ call.row_ctr \in Int /\ call'.row_ctr = call.row_ctr + n
  BY <1>3, <1>6
<1>8. /\ prep' \in [rows_to_go : Int, next_buf_row : Int, this_row_group : Int,
                    next_buf_stop : Int]
      /\ prep'.rows_to_go = prep.rows_to_go - n
      /\ prep'.next_buf_row \in 0..(BufHeight - 1)
      /\ prep'.this_row_group \in 0..(BufHeight - 1)
      /\ prep'.next_buf_stop \in {v, 2 * v, 3 * v}
      /\ prep'.this_row_group \in {0, v, 2 * v}
      /\ prep'.next_buf_row < prep'.next_buf_stop
      /\ \E ctr \in 0..DCTSIZE : main' = [main EXCEPT !.rowgroup_ctr = ctr]
  BY <1>1, <1>2, <1>6, <1>7, RingAdvances
<1>9. PICK ctr \in 0..DCTSIZE : main' = [main EXCEPT !.rowgroup_ctr = ctr]
  BY <1>8
<1>10. (TypeOK /\ Records /\ Counted /\ Returnable /\ DoneMeansWritten)'
       /\ UNCHANGED <<v, BufHeight, TotalImcuRows, MoreImcuRows>>
  BY <1>2, <1>6, <1>8, <1>9, IterationInv
<1>11. Simple' /\ Ring'
  BY <1>2, <1>8, <1>10 DEF Simple, Ring
<1> QED
  BY <1>10, <1>11 DEF IInv

LEMMA NextInv == IInv /\ [Next]_vars => IInv'
<1> SUFFICES ASSUME IInv, [Next]_vars PROVE IInv'
  OBVIOUS
<1>1. CASE UNCHANGED vars
  <2>1. UNCHANGED <<image, pc, next_scanline, call, prep, main, coef, entropy>>
    BY <1>1 DEF vars, prepVars
  <2>2. UNCHANGED <<v, BufHeight, TotalImcuRows>>
    BY <2>1, ImageStays
  <2> QED
    BY <2>1, <2>2
       DEF IInv, TypeOK, Records, Counted, Returnable, Simple, Ring, DoneMeansWritten,
           Consumed, TakenBack, MoreImcuRows
<1>2. CASE WriteScanlines
  BY <1>2, WriteScanlinesInv
<1>3. CASE PreProcessData
  BY <1>3, PreProcessDataInv
<1>4. CASE PreProcessContext \/ PadContext
  BY <1>4, ContextInv
<1>5. CASE NeedMoreData
  BY <1>5, NeedMoreDataInv
<1>6. CASE EncodeMcu
  BY <1>6, EncodeMcuInv
<1>7. CASE Suspend
  BY <1>7, SuspendInv
<1>8. CASE ImcuRowDone
  BY <1>8, ImcuRowDoneInv
<1>9. CASE FinishCompress \/ FinishTooEarly
  BY <1>9, FinishInv
<1>10. CASE Stopped
  BY <1>1, <1>10 DEF Stopped
<1> QED
  BY <1>1, <1>2, <1>3, <1>4, <1>5, <1>6, <1>7, <1>8, <1>9, <1>10 DEF Next, Process

-----------------------------------------------------------------------------

\* Main, preprocessor and coefficient controller keep their counters in step
\* with the application's, whatever is handed over and refused.
THEOREM Inductive == Spec => []IInv
<1>1. Init => IInv
  BY InitInv
<1>2. IInv /\ [Next]_vars => IInv'
  BY NextInv
<1> QED
  BY <1>1, <1>2, PTL DEF Spec

\* No unsigned counter of process_data_simple_main, pre_process_data,
\* pre_process_context or compress_data wraps below zero, and no row of
\* color_buf outside the buffer is named.
THEOREM TypeCorrect == Spec => []TypeOK
<1>1. IInv => TypeOK
  BY DEF IInv
<1> QED
  BY <1>1, Inductive, PTL

\* Between two calls of jpeg_write_scanlines the application's count and the
\* preprocessor's differ by exactly the row that a suspension took back.
THEOREM RowsAreAccounted == Spec => []RowsAccounted
<1>1. IInv => RowsAccounted
  BY DEF IInv, Counted, Consumed, TakenBack, RowsAccounted
<1> QED
  BY <1>1, Inductive, PTL

\* next_scanline reaches the image's height only after the last iMCU row has
\* been written: jpeg_finish_compress never cuts off a suspended image.
THEOREM DoneIsWritten == Spec => []DoneMeansWritten
<1>1. IInv => DoneMeansWritten
  BY DEF IInv
<1> QED
  BY <1>1, Inductive, PTL

-----------------------------------------------------------------------------
(* What is in the buffers and in the scan.                                 *)

\* Rows of MCUs before iMCU row c.
RowsBefore(c) ==
  IF image.interleaved THEN c
  ELSE IF c < TotalImcuRows THEN c * v ELSE HeightInBlocks

McusDone ==
  (RowsBefore(main.cur_iMCU_row) + coef.MCU_vert_offset) * image.columns + coef.mcu_ctr

\* The coefficient controller works on the main controller's iMCU row, and has
\* begun it only when it is full.
InStep ==
  /\ coef.iMCU_row_num = main.cur_iMCU_row /\ main.cur_iMCU_row <= TotalImcuRows
  /\ coef.MCU_vert_offset <= McuRowsPerImcuRow
  /\ coef.MCU_vert_offset = McuRowsPerImcuRow => coef.mcu_ctr = 0
  /\ ~(MoreImcuRows /\ main.rowgroup_ctr = DCTSIZE) =>
       coef.MCU_vert_offset = 0 /\ coef.mcu_ctr = 0
  /\ pc = "finished" => ~MoreImcuRows

\* Tokens of the first k that no restart marker follows.
Rest(k) == k % (image.interval + 1)

Tokens == {TokenAt(k) : k \in Nat \ {0}}

\* The scan so far is the beginning of the reference, and the entropy encoder's
\* counters follow from its length.
Scanned ==
  /\ out \in Seq(Tokens)
  /\ \A k \in 1..Len(out) : out[k] = TokenAt(k)
  /\ Len(out) = McusDone + Markers(Len(out))
  /\ image.interval > 0 =>
       /\ Rest(Len(out)) = 0 => Len(out) = 0
       /\ entropy.restarts_to_go = image.interval - Rest(Len(out))
       /\ entropy.next_restart_num = Markers(Len(out)) % RST_CYCLE

\* The first scanline of the iMCU row, and of the row group to be downsampled.
Start == main.cur_iMCU_row * (DCTSIZE * v)
Base == Start + main.rowgroup_ctr * v

\* The row groups downsampled are those of the reference.
Sampled ==
  /\ DOMAIN buffer = 0..(v * DCTSIZE - 1)
  /\ \A y \in DOMAIN buffer :
       y < main.rowgroup_ctr * v => buffer[y] = ReferenceRow(Start + y)

\* Without context rows color_buf holds the beginning of a row group.
GroupHeld ==
  ~image.context =>
    \A r \in DOMAIN color_buf : r < prep.next_buf_row => color_buf[r] = Base + r

\* Rows stored of the row group to be downsampled and the one behind it.
Ahead == 2 * v - (prep.next_buf_stop - prep.next_buf_row)

\* With context rows color_buf holds them and the row above.
RingHeld ==
  image.context =>
    /\ \/ prep.this_row_group = 0 /\ prep.next_buf_stop = 2 * v
       \/ prep.this_row_group = v /\ prep.next_buf_stop = 3 * v
       \/ prep.this_row_group = 2 * v /\ prep.next_buf_stop = v
    /\ Ahead \in 0..(2 * v - 1)
    /\ Ahead < v => Base = 0 /\ prep.this_row_group = 0
    /\ prep.rows_to_go > 0 => Consumed = Base + Ahead
    /\ prep.rows_to_go = 0 => image.height <= Base + Ahead
    /\ Ahead > 0 =>
         \A d \in (-1)..(Ahead - 1) :
           color_buf[Wrapped(prep.this_row_group + d)] = Clipped(Base + d)

CInv ==
  /\ DOMAIN color_buf = 0..(BufHeight - 1)
  /\ InStep /\ Scanned /\ Sampled /\ GroupHeld /\ RingHeld

\* The block rows fill the iMCU rows, the last one with LastRowHeight of them.
LEMMA BlockRowsOfImage ==
  ASSUME TypeOK
  PROVE  /\ TotalImcuRows \in Nat \ {0} /\ HeightInBlocks \in Nat
         /\ HeightInBlocks = (TotalImcuRows - 1) * v + LastRowHeight
         /\ LastRowHeight \in 1..v
<1>1. v \in Nat \ {0} /\ DCTSIZE \in Nat \ {0} /\ image.height \in Nat \ {0}
  BY ImageFacts
<1>2. PICK H \in Nat \ {0}, u \in Nat \ {0}, T \in Nat, hb \in Nat :
        /\ H = image.height /\ u = DCTSIZE * v /\ T = TotalImcuRows /\ hb = HeightInBlocks
        /\ H <= u * T /\ u * T < H + u
        /\ H <= DCTSIZE * hb /\ DCTSIZE * hb < H + DCTSIZE
  <2>1. AtLeastOne(v) = v /\ DCTSIZE * v \in Nat \ {0}
    BY <1>1, MulPositive DEF AtLeastOne
  <2>2. TotalImcuRows = McuRows(image.height, DCTSIZE * v)
    BY <2>1 DEF TotalImcuRows, TotalMcuRows, McuRowHeight
  <2> QED
    BY <1>1, <2>1, <2>2, McuRowsBounds DEF HeightInBlocks
<1>3. T # 0
  BY <1>2
<1>4. hb <= v * T
  <2>1. u * T = DCTSIZE * (v * T) /\ v * T \in Nat
    BY <1>1, <1>2
  <2>2. SUFFICES ASSUME v * T + 1 <= hb PROVE FALSE
    BY <1>2, <2>1
  <2>3. (v * T + 1) * DCTSIZE <= hb * DCTSIZE
    BY <1>1, <1>2, <2>1, <2>2, MulMonotone
  <2>4. PICK w \in Nat, a \in Nat, b \in Nat : w = v * T /\ a = DCTSIZE * w /\ b = DCTSIZE * hb
    BY <1>1, <1>2, <2>1
  <2>5. (w + 1) * DCTSIZE = a + DCTSIZE /\ hb * DCTSIZE = b
    BY <1>1, <1>2, <2>4
  <2> QED
    BY <1>1, <1>2, <2>1, <2>3, <2>4, <2>5
<1>5. v * T - v < hb
  <2>1. SUFFICES ASSUME hb <= v * T - v PROVE FALSE
    BY <1>1, <1>2
  <2>2. PICK w \in Nat : w = v * T
    BY <1>1, <1>2
  <2>3. hb * DCTSIZE <= (w - v) * DCTSIZE
    BY <1>1, <1>2, <2>1, <2>2, MulMonotone
  <2>4. (w - v) * DCTSIZE = w * DCTSIZE - v * DCTSIZE
    BY <1>1, <2>2
  <2>5. w * DCTSIZE = u * T /\ v * DCTSIZE = u /\ hb * DCTSIZE = DCTSIZE * hb
    BY <1>1, <1>2, <2>2
  <2>6. u * T \in Nat /\ DCTSIZE * hb \in Nat
    BY <1>1, <1>2
  <2> QED
    BY <1>2, <2>3, <2>4, <2>5, <2>6
<1>6. PICK r \in 1..v : hb = (T - 1) * v + r
  <2>1. PICK w \in Nat : w = v * T
    BY <1>1, <1>2
  <2>2. (T - 1) * v = w - v
    BY <1>1, <1>2, <2>1
  <2>3. hb - (w - v) \in 1..v
    BY <1>1, <1>2, <1>4, <1>5, <2>1
  <2> QED
    BY <1>1, <1>2, <2>1, <2>2, <2>3
<1>7. LastRowHeight = r
  <2>1. CASE r = v
    <3>1. hb = T * v
      BY <1>1, <1>2, <1>6, <2>1
    <3> QED
      BY <1>1, <1>2, <2>1, <3>1, ModOfMultiple DEF LastRowHeight
  <2>2. CASE r # v
    <3>1. T - 1 \in Nat
      BY <1>2, <1>3
    <3>0. r \in 0..(v - 1)
      BY <1>1, <1>6, <2>2
    <3>2. hb % v = r
      BY <1>1, <1>6, <3>0, <3>1, ModUnique
    <3> QED
      BY <1>2, <1>6, <2>2, <3>2 DEF LastRowHeight
  <2> QED
    BY <2>1, <2>2
<1> QED
  BY <1>2, <1>3, <1>6, <1>7

\* The rows of MCUs before the next iMCU row.
LEMMA RowsBeforeNext ==
  ASSUME TypeOK, MoreImcuRows, main.cur_iMCU_row \in Nat,
         coef.iMCU_row_num = main.cur_iMCU_row
  PROVE  /\ RowsBefore(main.cur_iMCU_row) \in Nat
         /\ RowsBefore(main.cur_iMCU_row + 1) = RowsBefore(main.cur_iMCU_row) + McuRowsPerImcuRow
<1>1. /\ v \in Nat \ {0} /\ TotalImcuRows \in Nat \ {0}
      /\ HeightInBlocks = (TotalImcuRows - 1) * v + LastRowHeight /\ LastRowHeight \in 1..v
      /\ main.cur_iMCU_row < TotalImcuRows
  BY ImageFacts, BlockRowsOfImage DEF MoreImcuRows
<1>2. PICK c \in Nat, T \in Nat \ {0} : c = main.cur_iMCU_row /\ T = TotalImcuRows
  BY <1>1
<1>3. CASE image.interleaved
  BY <1>1, <1>2, <1>3 DEF RowsBefore, McuRowsPerImcuRow
<1>4. CASE ~image.interleaved /\ c + 1 < T
  <2>1. (c + 1) * v = c * v + v /\ c * v \in Nat
    BY <1>1, <1>2
  <2>2. c # T - 1
    BY <1>2, <1>4
  <2> QED
    BY <1>1, <1>2, <1>4, <2>1, <2>2 DEF RowsBefore, McuRowsPerImcuRow, LastImcuRow
<1>5. CASE ~image.interleaved /\ c + 1 = T
  <2>1. c = T - 1
    BY <1>2, <1>5
  <2>2. (T - 1) * v = c * v /\ c * v \in Nat
    BY <1>1, <1>2, <2>1
  <2> QED
    BY <1>1, <1>2, <1>5, <2>1, <2>2 DEF RowsBefore, McuRowsPerImcuRow, LastImcuRow
<1> QED
  BY <1>1, <1>2, <1>3, <1>4, <1>5

-----------------------------------------------------------------------------
(* Tokens and their places.                                                *)

\* A place in the scan is a number of whole periods and a rest.
LEMMA PlaceSplit ==
  ASSUME NEW I \in Nat, NEW n \in Nat
  PROVE  \E q \in Nat, j \in 0..I :
           /\ n = q * (I + 1) + j /\ n \div (I + 1) = q /\ n % (I + 1) = j
<1>1. PICK q \in Nat : q = n \div (I + 1) /\ (I + 1) * q <= n /\ n < (I + 1) * q + (I + 1)
  BY DivBounds, I + 1 \in Nat \ {0}
<1>2. PICK a \in Nat : a = (I + 1) * q /\ a = q * (I + 1)
  OBVIOUS
<1>3. n - a \in 0..((I + 1) - 1) /\ n = q * (I + 1) + (n - a)
  <2>1. a <= n /\ n < a + (I + 1)
    BY <1>1, <1>2
  <2>2. n - a \in 0..((I + 1) - 1) /\ n = a + (n - a)
    BY ONLY <2>1, a \in Nat, n \in Nat, I \in Nat
  <2> QED
    BY <1>2, <2>2
<1>4. n % (I + 1) = n - a
  <2>1. I + 1 \in Nat \ {0} /\ q \in Int
    OBVIOUS
  <2>2. (q * (I + 1) + (n - a)) % (I + 1) = n - a
    BY ONLY <1>3, <2>1, ModUnique, ZenonT(30)
  <2> QED
    BY <1>3, <2>2
<1> QED
  BY <1>1, <1>3, <1>4

LEMMA PlaceJoin ==
  ASSUME NEW I \in Nat, NEW q \in Nat, NEW j \in 0..I, NEW n \in Nat, n = q * (I + 1) + j
  PROVE  n \div (I + 1) = q /\ n % (I + 1) = j
<1>1. I + 1 \in Nat \ {0} /\ j \in 0..((I + 1) - 1)
  OBVIOUS
<1>2. n % (I + 1) = j
  BY <1>1, ModUnique
<1>3. (I + 1) * q <= n /\ n < (I + 1) * q + (I + 1)
  OBVIOUS
<1> QED
  BY <1>1, <1>2, <1>3, DivUnique

LEMMA ModStep ==
  ASSUME NEW a \in Nat, NEW C \in Nat \ {0}
  PROVE  ((a % C) + 1) % C = (a + 1) % C
<1>1. a % C \in Int /\ (a % C) + 1 = (a + 1) + (0 - (a \div C)) * C /\ 0 - (a \div C) \in Int
  OBVIOUS
<1> QED
  BY <1>1, a + 1 \in Int, ModShift

\* The next token is behind the same markers, or a marker.
LEMMA MarkersOfNext ==
  ASSUME NEW I \in Nat, image.interval = I, NEW n \in Nat
  PROVE  /\ Markers(n) \in Nat /\ Rest(n) \in 0..I
         /\ I = 0 => Markers(n) = 0 /\ Markers(n + 1) = 0
         /\ I > 0 /\ Rest(n) < I => Markers(n + 1) = Markers(n) /\ Rest(n + 1) = Rest(n) + 1
         /\ I > 0 /\ Rest(n) = I =>
              /\ Markers(n + 1) = Markers(n) + 1 /\ Rest(n + 1) = 0
              /\ Markers(n + 2) = Markers(n) + 1 /\ Rest(n + 2) = 1
<1>1. PICK q \in Nat, j \in 0..I :
        /\ n = q * (I + 1) + j /\ n \div (I + 1) = q /\ n % (I + 1) = j
  BY PlaceSplit
<1>2. PICK a \in Nat, b \in Nat : a = q * (I + 1) /\ b = (q + 1) * (I + 1) /\ b = a + (I + 1)
  <2>1. q * (I + 1) \in Nat /\ (q + 1) * (I + 1) = q * (I + 1) + (I + 1)
    OBVIOUS
  <2> QED
    BY <2>1
<1>3. I > 0 => Markers(n) = q
  BY <1>1 DEF Markers
<1>4. I = 0 => Markers(n) = 0 /\ Markers(n + 1) = 0
  BY DEF Markers
<1>5. ASSUME I > 0, j < I
      PROVE  Markers(n + 1) = q /\ Rest(n + 1) = j + 1
  <2>1. PICK m \in Nat, i \in 0..I : m = n + 1 /\ i = j + 1 /\ m = q * (I + 1) + i
    BY <1>1, <1>2, <1>5
  <2>2. m \div (I + 1) = q /\ m % (I + 1) = i
    BY ONLY <2>1, q \in Nat, I \in Nat, PlaceJoin
  <2> QED
    BY <1>5, <2>1, <2>2 DEF Markers, Rest
<1>6. ASSUME I > 0, j = I
      PROVE  /\ Markers(n + 1) = q + 1 /\ Rest(n + 1) = 0
             /\ Markers(n + 2) = q + 1 /\ Rest(n + 2) = 1
  <2>1. PICK m \in Nat, p \in Nat, k \in Nat :
          m = n + 1 /\ k = n + 2 /\ p = q + 1 /\ m = p * (I + 1) + 0 /\ k = p * (I + 1) + 1
    <3>1. n + 1 = b + 0 /\ n + 2 = b + 1 /\ n + 1 \in Nat /\ n + 2 \in Nat /\ q + 1 \in Nat
      BY <1>1, <1>2, <1>6
    <3>2. b = (q + 1) * (I + 1)
      BY <1>2
    <3> QED
      BY ONLY <3>1, <3>2, SMTT(30)
  <2>2. 0 \in 0..I /\ 1 \in 0..I
    BY <1>6
  <2>3. m \div (I + 1) = p /\ m % (I + 1) = 0
    BY ONLY <2>1, <2>2, I \in Nat, PlaceJoin, SMTT(30)
  <2>4. k \div (I + 1) = p /\ k % (I + 1) = 1
    <3>1. k = p * (I + 1) + 1
      BY <2>1
    <3> QED
      BY ONLY <2>2, <3>1, k \in Nat, p \in Nat, I \in Nat, PlaceJoin, SMTT(30)
  <2> QED
    BY <1>6, <2>1, <2>3, <2>4 DEF Markers, Rest
<1>7. Markers(n) \in Nat /\ Rest(n) = j
  BY <1>1, <1>3, <1>4 DEF Rest
<1> QED
  BY <1>3, <1>4, <1>5, <1>6, <1>7

LEMMA TokenKinds ==
  ASSUME NEW k
  PROVE  /\ image.interval > 0 /\ Rest(k) = 0 => TokenAt(k) = Rst((Markers(k) - 1) % RST_CYCLE)
         /\ ~(image.interval > 0 /\ Rest(k) = 0) => TokenAt(k) = ReferenceMcu(k - 1 - Markers(k))
  BY DEF TokenAt, Rest

\* The reference depends on the image alone.
LEMMA ReferenceStays ==
  ASSUME UNCHANGED image
  PROVE  /\ \A k : TokenAt(k)' = TokenAt(k) /\ Markers(k)' = Markers(k)
         /\ \A y : ReferenceRow(y)' = ReferenceRow(y) /\ Clipped(y)' = Clipped(y)
         /\ \A c : RowsBefore(c)' = RowsBefore(c)
         /\ Tokens' = Tokens
<1>1. UNCHANGED <<v, BufHeight, TotalImcuRows, HeightInBlocks>>
  BY ImageStays
<1>2. \A k : Markers(k)' = Markers(k)
  BY DEF Markers
<1>3. \A y : Clipped(y)' = Clipped(y)
  BY DEF Clipped
<1>4. \A y : ReferenceRow(y)' = ReferenceRow(y)
  BY <1>3 DEF ReferenceRow
<1>5. \A m : ReferenceMcu(m)' = ReferenceMcu(m)
  BY <1>1, <1>4 DEF ReferenceMcu
<1>6. \A k : TokenAt(k)' = TokenAt(k)
  BY <1>2, <1>5 DEF TokenAt
<1>7. \A c : RowsBefore(c)' = RowsBefore(c)
  BY <1>1 DEF RowsBefore
<1>8. Tokens' = Tokens
  BY <1>6 DEF Tokens
<1> QED
  BY <1>2, <1>3, <1>4, <1>6, <1>7, <1>8

\* What the entropy encoder writes is what the reference goes on with, if the
\* MCU is.
LEMMA TokensGoOn ==
  ASSUME TypeOK, Records, Scanned, EncodeMcu, McusDone \in Nat, McusDone' = McusDone + 1,
         Mcu(coef.mcu_ctr, SampleRows(BlockRows)) = ReferenceMcu(McusDone)
  PROVE  Scanned'
<1> DEFINE mcu == Mcu(coef.mcu_ctr, SampleRows(BlockRows))
           num == entropy.next_restart_num
<1>1. PICK I \in Nat, n \in Nat, N \in Nat :
        I = image.interval /\ n = Len(out) /\ N = McusDone
  <2>1. image.interval \in Nat /\ Len(out) \in Nat
    BY ImageFacts DEF Scanned
  <2> QED
    BY <2>1
<1>2. PICK M \in Nat, j \in 0..I : M = Markers(n) /\ j = Rest(n) /\ n = N + M
  <2>1. Markers(n) \in Nat /\ Rest(n) \in 0..I
    BY <1>1, MarkersOfNext
  <2> QED
    BY <1>1, <2>1 DEF Scanned
<1>3. /\ out \in Seq(Tokens) /\ \A k \in 1..n : out[k] = TokenAt(k)
      /\ I > 0 => (j = 0 => n = 0) /\ entropy.restarts_to_go = I - j /\ num = M % RST_CYCLE
  BY <1>1, <1>2 DEF Scanned
<1>4. /\ I = 0 => M = 0 /\ Markers(n + 1) = 0
      /\ I > 0 /\ j < I => Markers(n + 1) = M /\ Rest(n + 1) = j + 1
      /\ I > 0 /\ j = I => /\ Markers(n + 1) = M + 1 /\ Rest(n + 1) = 0
                           /\ Markers(n + 2) = M + 1 /\ Rest(n + 2) = 1
  BY <1>1, <1>2, MarkersOfNext
<1>5. /\ UNCHANGED image
      /\ out' = (out \o (IF RestartDue THEN <<Rst(num)>> ELSE <<>>)) \o <<mcu>>
      /\ entropy' = IF I = 0 THEN entropy
                    ELSE IF RestartDue
                    THEN [restarts_to_go |-> I - 1, next_restart_num |-> (num + 1) % RST_CYCLE]
                    ELSE [entropy EXCEPT !.restarts_to_go = @ - 1]
  BY <1>1 DEF EncodeMcu
<1>6. RestartDue <=> I > 0 /\ entropy.restarts_to_go = 0
  BY <1>1 DEF RestartDue
<1>7. entropy \in [restarts_to_go : Int, next_restart_num : Int]
  BY DEF Records
<1>8. /\ \A k : TokenAt(k)' = TokenAt(k) /\ Markers(k)' = Markers(k) /\ Rest(k)' = Rest(k)
      /\ Tokens' = Tokens /\ image'.interval = I
  BY <1>1, <1>5, ReferenceStays DEF Rest
<1>9. mcu = ReferenceMcu(N) /\ McusDone' = N + 1
  BY <1>1
<1> HIDE DEF mcu, num
<1>10. I > 0 => num = M % RST_CYCLE /\ (num + 1) % RST_CYCLE = (M + 1) % RST_CYCLE
  <2>1. RST_CYCLE \in Nat \ {0}
    BY ImageFacts
  <2> QED
    BY ONLY <1>2, <1>3, <2>1, ModStep
<1>11. CASE ~RestartDue
  <2>1. I > 0 => j < I /\ Rest(n + 1) = j + 1
    BY <1>1, <1>2, <1>3, <1>4, <1>6, <1>11
  <2>2. Markers(n + 1) = M
    BY <1>2, <1>4, <2>1
  <2>3. TokenAt(n + 1) = ReferenceMcu(N)
    <3>1. (n + 1) - 1 - M = N
      BY <1>1, <1>2
    <3>2. ~(I > 0 /\ Rest(n + 1) = 0)
      BY <1>2, <2>1
    <3> QED
      BY <1>1, <2>2, <3>1, <3>2, TokenKinds
  <2>4. mcu \in Tokens
    BY <1>9, <2>3, n + 1 \in Nat \ {0} DEF Tokens
  <2>5. out' = Append(out, mcu)
    BY ONLY <1>3, <1>5, <1>11, <2>4
  <2>6. /\ out' \in Seq(Tokens) /\ Len(out') = n + 1 /\ out'[n + 1] = mcu
        /\ \A k \in 1..n : out'[k] = out[k]
    BY ONLY <1>1, <1>3, <2>4, <2>5, Len(out) = n
  <2>7. \A k \in 1..(n + 1) : out'[k] = TokenAt(k)
    BY <1>3, <1>9, <2>3, <2>6
  <2>8. I > 0 => /\ Rest(n + 1) # 0
                 /\ entropy'.restarts_to_go = I - Rest(n + 1)
                 /\ entropy'.next_restart_num = Markers(n + 1) % RST_CYCLE
    <3>1. I > 0 => entropy' = [entropy EXCEPT !.restarts_to_go = @ - 1]
      BY <1>5, <1>11
    <3>2. I > 0 => entropy'.restarts_to_go = I - j - 1 /\ entropy'.next_restart_num = num
      BY <1>3, <1>7, <3>1 DEF num
    <3>3. I > 0 => I - j - 1 = I - (j + 1)
      BY <1>2
    <3> QED
      BY <1>2, <1>10, <2>1, <2>2, <3>2, <3>3
  <2>9. Len(out') = McusDone' + Markers(Len(out'))
    BY <1>1, <1>2, <1>9, <2>2, <2>6
  <2> QED
    BY <1>8, <2>6, <2>7, <2>8, <2>9 DEF Scanned
<1>12. CASE RestartDue
  <2>1. /\ I > 0 /\ j = I /\ Markers(n + 1) = M + 1 /\ Rest(n + 1) = 0
        /\ Markers(n + 2) = M + 1 /\ Rest(n + 2) = 1
    BY <1>1, <1>2, <1>3, <1>4, <1>6, <1>12
  <2>2. TokenAt(n + 1) = Rst(num)
    <3>1. (M + 1) - 1 = M
      BY <1>2
    <3> QED
      BY <1>1, <1>10, <2>1, <3>1, TokenKinds
  <2>3. TokenAt(n + 2) = ReferenceMcu(N)
    <3>1. (n + 2) - 1 - (M + 1) = N
      <4>1. n = N + M
        BY <1>2
      <4> QED
        BY ONLY <4>1, N \in Nat, M \in Nat
    <3> QED
      BY <1>1, <2>1, <3>1, TokenKinds
  <2>4. mcu \in Tokens /\ Rst(num) \in Tokens
    BY <1>9, <2>2, <2>3, n + 1 \in Nat \ {0}, n + 2 \in Nat \ {0} DEF Tokens
  <2>5. PICK s : s = Append(out, Rst(num))
    OBVIOUS
  <2>6. out' = Append(s, mcu)
    <3>1. out' = (out \o <<Rst(num)>>) \o <<mcu>>
      BY <1>5, <1>12
    <3> QED
      BY ONLY <1>3, <2>4, <2>5, <3>1
  <2>7. /\ s \in Seq(Tokens) /\ Len(s) = n + 1 /\ s[n + 1] = Rst(num)
        /\ \A k \in 1..n : s[k] = out[k]
    BY <1>1, <1>3, <2>4, <2>5
  <2>8. /\ out' \in Seq(Tokens) /\ Len(out') = n + 2 /\ out'[n + 2] = mcu
        /\ out'[n + 1] = Rst(num) /\ \A k \in 1..n : out'[k] = out[k]
    BY ONLY <2>4, <2>6, <2>7, n \in Nat
  <2>9. \A k \in 1..(n + 2) : out'[k] = TokenAt(k)
    BY <1>3, <1>9, <2>2, <2>3, <2>8
  <2>10. /\ Rest(n + 2) # 0
         /\ entropy'.restarts_to_go = I - Rest(n + 2)
         /\ entropy'.next_restart_num = Markers(n + 2) % RST_CYCLE
    BY <1>5, <1>10, <1>12, <2>1
  <2>11. Len(out') = McusDone' + Markers(Len(out'))
    BY <1>1, <1>2, <1>9, <2>1, <2>8
  <2> QED
    BY <1>8, <2>8, <2>9, <2>10, <2>11 DEF Scanned
<1> QED
  BY <1>11, <1>12

-----------------------------------------------------------------------------
(* The MCU that is written.                                                *)

\* The samples of a run of block rows.
LEMMA SamplesOfBlocks ==
  ASSUME NEW a \in Nat, NEW b \in Nat, NEW n \in Nat \ {0}, n = b - a + 1
  PROVE  SampleRows(a..b) = [j \in 1..(DCTSIZE * n) |-> buffer[DCTSIZE * a + j - 1]]
<1> DEFINE first == CHOOSE x \in a..b : \A y \in a..b : x <= y
<1>1. first = a
  <2>1. a \in a..b /\ \A y \in a..b : a <= y
    OBVIOUS
  <2>2. \A x \in a..b : (\A y \in a..b : x <= y) => x = a
    BY <2>1
  <2> QED
    BY <2>1, <2>2
<1>2. Cardinality(a..b) = n
  BY FS_Interval
<1>3. SampleRows(a..b) =
        [j \in 1..(DCTSIZE * Cardinality(a..b)) |-> buffer[DCTSIZE * first + j - 1]]
  BY Zenon DEF SampleRows
<1> HIDE DEF first
<1> QED
  BY <1>1, <1>2, <1>3

LEMMA SamplesOfFirstBlocks ==
  ASSUME NEW b \in Nat, NEW n \in Nat \ {0}, n = b - 0 + 1
  PROVE  SampleRows(0..b) = [j \in 1..(DCTSIZE * n) |-> buffer[DCTSIZE * 0 + j - 1]]
  BY 0 \in Nat, SamplesOfBlocks, Zenon

\* It is the reference's MCU of that number.
LEMMA McuIsReference ==
  ASSUME TypeOK, Records, InStep, Sampled, Compressing,
         coef.MCU_vert_offset < McuRowsPerImcuRow
  PROVE  /\ McusDone \in Nat
         /\ Mcu(coef.mcu_ctr, SampleRows(BlockRows)) = ReferenceMcu(McusDone)
<1>1. /\ v \in Nat \ {0} /\ DCTSIZE \in Nat \ {0} /\ image.columns \in Nat \ {0}
      /\ TotalImcuRows \in Nat \ {0} /\ LastRowHeight \in 1..v /\ HeightInBlocks \in Nat
      /\ HeightInBlocks = (TotalImcuRows - 1) * v + LastRowHeight
  BY ImageFacts, BlockRowsOfImage
<1>2. /\ main.cur_iMCU_row \in Nat /\ coef.iMCU_row_num = main.cur_iMCU_row
      /\ main.cur_iMCU_row < TotalImcuRows /\ main.rowgroup_ctr = DCTSIZE
      /\ coef.MCU_vert_offset \in Nat /\ coef.mcu_ctr \in 0..(image.columns - 1)
  BY DEF TypeOK, Records, InStep, Compressing, MoreImcuRows
<1>3. PICK c \in Nat, T \in Nat \ {0}, o \in Nat, x \in Nat, L \in 1..v, W \in Nat \ {0} :
        /\ c = main.cur_iMCU_row /\ T = TotalImcuRows /\ o = coef.MCU_vert_offset
        /\ x = coef.mcu_ctr /\ L = LastRowHeight /\ W = image.columns
  <2>1. coef.mcu_ctr \in Nat
    BY <1>1, <1>2
  <2> QED
    BY <1>1, <1>2, <2>1, Zenon
<1>4. PICK R \in Nat : R = RowsBefore(c) + o
  BY <1>2, <1>3, RowsBeforeNext DEF Compressing
<1>5. McusDone = R * W + x /\ R * W + x \in Nat
  BY <1>1, <1>3, <1>4 DEF McusDone
<1>6. (R * W + x) \div W = R /\ (R * W + x) % W = x
  <2>1. x \in 0..(W - 1)
    BY <1>2, <1>3
  <2>2. PICK n \in Nat, a \in Nat : n = a + x /\ a = R * W /\ a = W * R
    BY <1>3, <1>4
  <2>3. W * R <= n /\ n < W * R + W /\ n = R * W + x
    BY <1>3, <2>1, <2>2
  <2>4. n % W = x
    BY <2>1, <2>3, ModUnique
  <2> QED
    BY <2>3, <2>4, DivUnique
<1>7. DCTSIZE \in Nat
  BY <1>1
<1>8. \A y \in 0..(v * DCTSIZE - 1) : buffer[y] = ReferenceRow(c * (DCTSIZE * v) + y)
  <2>1. main.rowgroup_ctr * v = v * DCTSIZE /\ v * DCTSIZE \in Nat
    BY <1>1, <1>2, <1>7
  <2>2. ASSUME NEW y \in 0..(v * DCTSIZE - 1)
        PROVE  buffer[y] = ReferenceRow(c * (DCTSIZE * v) + y)
    <3>1. y \in DOMAIN buffer
      BY <1>7 DEF Sampled
    <3>2. y < v * DCTSIZE
      BY <2>1
    <3> QED
      BY <1>3, <1>7, <2>1, <3>1, <3>2 DEF Sampled, Start
  <2> QED
    BY <2>2
<1>9. CASE image.interleaved
  <2>1. o = 0 /\ R = c
    BY <1>2, <1>3, <1>4, <1>9 DEF McuRowsPerImcuRow, RowsBefore
  <2>2. PICK K \in 1..v : K = IF c = T - 1 THEN L ELSE v
    BY <1>1, <1>3
  <2>3. BlockRows = 0..(K - 1)
    BY <1>2, <1>3, <1>9, <2>2 DEF BlockRows, LastImcuRow
  <2>4. Least(v, HeightInBlocks - c * v) = K
    <3>1. CASE c = T - 1
      <4>1. HeightInBlocks - c * v = L
        BY <1>1, <1>3, <3>1
      <4> QED
        BY <1>1, <2>2, <3>1, <4>1 DEF Least
    <3>2. CASE c # T - 1
      <4>1. c + 1 \in Int /\ T - 1 \in Int /\ c + 1 <= T - 1
        BY <1>2, <1>3, <3>2
      <4>2. (c + 1) * v <= (T - 1) * v
        BY <1>1, <4>1, MulMonotone
      <4>3. (c + 1) * v = c * v + v /\ c * v \in Nat /\ (T - 1) * v \in Int
        BY <1>1, <1>3
      <4>4. HeightInBlocks - c * v \in Int /\ v <= HeightInBlocks - c * v
        BY <1>1, <1>3, <4>2, <4>3
      <4> QED
        BY <1>1, <2>2, <3>2, <4>4 DEF Least
    <3> QED
      BY <3>1, <3>2
  <2>5. SampleRows(BlockRows) = [i \in 1..(DCTSIZE * K) |-> buffer[DCTSIZE * 0 + i - 1]]
    <3>1. PICK b \in Nat : b = K - 1 /\ K = b - 0 + 1
      BY <1>1, <2>2
    <3>2. K \in Nat \ {0} /\ b \in Nat /\ K = b - 0 + 1
      BY <2>2, <3>1
    <3>3. SampleRows(0..b) = [i \in 1..(DCTSIZE * K) |-> buffer[DCTSIZE * 0 + i - 1]]
      BY ONLY <3>2, SamplesOfFirstBlocks, Zenon
    <3> QED
      BY ONLY <2>3, <3>1, <3>3
  <2>6. ASSUME NEW i \in 1..(DCTSIZE * K)
        PROVE  buffer[DCTSIZE * 0 + i - 1] = ReferenceRow(c * v * DCTSIZE + i - 1)
    <3>1. DCTSIZE * K <= v * DCTSIZE /\ DCTSIZE * K \in Nat /\ DCTSIZE * 0 = 0
      <4>1. K * DCTSIZE <= v * DCTSIZE
        BY <1>1, <1>7, <2>2, MulMonotone
      <4> QED
        BY <1>1, <1>7, <2>2, <4>1
    <3>2. PICK y \in 0..(v * DCTSIZE - 1) : y = i - 1
      BY <1>1, <1>7, <3>1
    <3>3. c * (DCTSIZE * v) = c * v * DCTSIZE /\ c * v * DCTSIZE \in Nat
      BY <1>1, <1>3, <1>7
    <3>4. DCTSIZE * 0 + i - 1 = y /\ c * v * DCTSIZE + i - 1 = c * (DCTSIZE * v) + y
      BY <3>1, <3>2, <3>3
    <3> QED
      BY <1>8, <3>4
  <2>7. ReferenceMcu(R * W + x) =
          Mcu(x, [i \in 1..(DCTSIZE * K) |-> ReferenceRow(c * v * DCTSIZE + i - 1)])
    BY <1>3, <1>6, <1>7, <1>9, <2>1, <2>4 DEF ReferenceMcu
  <2>8. SampleRows(BlockRows) = [i \in 1..(DCTSIZE * K) |-> ReferenceRow(c * v * DCTSIZE + i - 1)]
    BY ONLY <2>5, <2>6
  <2> QED
    BY <1>3, <1>5, <2>7, <2>8
<1>10. CASE ~image.interleaved
  <2>1. R = c * v + o
    BY <1>2, <1>3, <1>4, <1>10 DEF RowsBefore
  <2>2. o < v
    BY <1>1, <1>2, <1>3, <1>10, McuRowsRange
  <2>3. BlockRows = o..o
    BY <1>3, <1>10 DEF BlockRows
  <2>4. SampleRows(BlockRows) = [i \in 1..(DCTSIZE * 1) |-> buffer[DCTSIZE * o + i - 1]]
    <3>1. 1 = o - o + 1 /\ 1 \in Nat \ {0} /\ o \in Nat
      BY <1>3
    <3>2. SampleRows(o..o) = [i \in 1..(DCTSIZE * 1) |-> buffer[DCTSIZE * o + i - 1]]
      BY ONLY <3>1, SamplesOfBlocks, Zenon
    <3> QED
      BY ONLY <2>3, <3>2
  <2>5. ASSUME NEW i \in 1..(DCTSIZE * 1)
        PROVE  buffer[DCTSIZE * o + i - 1] = ReferenceRow(R * DCTSIZE + i - 1)
    <3>1. (o + 1) * DCTSIZE <= v * DCTSIZE /\ (o + 1) * DCTSIZE = DCTSIZE * o + DCTSIZE /\ DCTSIZE * o \in Nat
      <4>1. o + 1 <= v /\ o + 1 \in Int
        BY <1>1, <2>2
      <4>2. (o + 1) * DCTSIZE <= v * DCTSIZE
        BY <1>1, <1>7, <4>1, MulMonotone
      <4> QED
        BY <1>3, <1>7, <4>2
    <3>2. PICK y \in 0..(v * DCTSIZE - 1) : y = DCTSIZE * o + i - 1
      <4>1. v * DCTSIZE \in Nat /\ i \in 1..DCTSIZE
        BY <1>1, <1>7
      <4> QED
        BY <1>7, <3>1, <4>1
    <3>3. c * (DCTSIZE * v) + y = R * DCTSIZE + i - 1
      <4>1. R * DCTSIZE = c * (DCTSIZE * v) + DCTSIZE * o /\ c * (DCTSIZE * v) \in Nat
        BY <1>1, <1>3, <1>7, <2>1
      <4> QED
        BY <1>7, <3>1, <3>2, <4>1
    <3> QED
      BY <1>8, <3>2, <3>3
  <2>6. ReferenceMcu(R * W + x) = Mcu(x, [i \in 1..(DCTSIZE * 1) |-> ReferenceRow(R * DCTSIZE + i - 1)])
    BY <1>3, <1>6, <1>7, <1>10 DEF ReferenceMcu
  <2>7. SampleRows(BlockRows) = [i \in 1..(DCTSIZE * 1) |-> ReferenceRow(R * DCTSIZE + i - 1)]
    BY ONLY <2>4, <2>5
  <2> QED
    BY <1>3, <1>5, <2>6, <2>7
<1> QED
  BY <1>5, <1>9, <1>10

\* Writing an MCU.
LEMMA EncodeMcuScan == IInv /\ CInv /\ EncodeMcu => CInv'
<1> SUFFICES ASSUME IInv, CInv, EncodeMcu PROVE CInv'
  OBVIOUS
<1>1. TypeOK /\ Records /\ InStep /\ Scanned /\ Sampled /\ Compressing
      /\ coef.MCU_vert_offset < McuRowsPerImcuRow
  BY DEF IInv, CInv, EncodeMcu
<1>2. UNCHANGED <<image, pc, next_scanline, call, prep, color_buf, buffer, main>>
  BY DEF EncodeMcu, prepVars
<1>3. /\ UNCHANGED <<v, BufHeight, TotalImcuRows, HeightInBlocks>>
      /\ \A y : ReferenceRow(y)' = ReferenceRow(y) /\ Clipped(y)' = Clipped(y)
      /\ \A c : RowsBefore(c)' = RowsBefore(c)
  BY <1>2, ImageStays, ReferenceStays
<1>4. /\ McusDone \in Nat
      /\ Mcu(coef.mcu_ctr, SampleRows(BlockRows)) = ReferenceMcu(McusDone)
  BY <1>1, McuIsReference
<1>5. PICK W \in Nat \ {0}, o \in Nat, x \in Nat, K \in Nat, R \in Nat :
        /\ W = image.columns /\ o = coef.MCU_vert_offset /\ x = coef.mcu_ctr
        /\ K = McuRowsPerImcuRow /\ R = RowsBefore(main.cur_iMCU_row)
        /\ x < W /\ o < K
  <2>1. /\ image.columns \in Nat \ {0} /\ McuRowsPerImcuRow \in Nat
    BY <1>1, ImageFacts, McuRowsRange
  <2>2. RowsBefore(main.cur_iMCU_row) \in Nat
    BY <1>1, RowsBeforeNext DEF Compressing, InStep, Records
  <2>3. coef.MCU_vert_offset \in Nat /\ coef.mcu_ctr \in Nat /\ coef.mcu_ctr < image.columns
    BY <1>1, <2>1 DEF TypeOK
  <2> QED
    BY <1>1, <2>1, <2>2, <2>3
<1>6. \/ x + 1 < W /\ coef'.mcu_ctr = x + 1 /\ coef'.MCU_vert_offset = o
      \/ x + 1 = W /\ coef'.mcu_ctr = 0 /\ coef'.MCU_vert_offset = o + 1
  <2>1. coef' = IF x + 1 < W THEN [coef EXCEPT !.mcu_ctr = @ + 1]
                ELSE [coef EXCEPT !.mcu_ctr = 0, !.MCU_vert_offset = @ + 1]
    BY <1>5 DEF EncodeMcu
  <2>2. coef \in [iMCU_row_num : Int, MCU_vert_offset : Int, mcu_ctr : Int]
    BY <1>1 DEF Records
  <2> QED
    BY <1>5, <2>1, <2>2
<1>7. coef'.iMCU_row_num = coef.iMCU_row_num
  <2>1. coef' = IF coef.mcu_ctr + 1 < image.columns THEN [coef EXCEPT !.mcu_ctr = @ + 1]
                ELSE [coef EXCEPT !.mcu_ctr = 0, !.MCU_vert_offset = @ + 1]
    BY DEF EncodeMcu
  <2>2. coef \in [iMCU_row_num : Int, MCU_vert_offset : Int, mcu_ctr : Int]
    BY <1>1 DEF Records
  <2> QED
    BY <2>1, <2>2
<1>8. McuRowsPerImcuRow' = K /\ MoreImcuRows' = MoreImcuRows
  <2>1. LastImcuRow' = LastImcuRow /\ LastRowHeight' = LastRowHeight
    BY <1>3, <1>7 DEF LastImcuRow, LastRowHeight
  <2> QED
    BY <1>2, <1>3, <1>5, <2>1 DEF McuRowsPerImcuRow, MoreImcuRows
<1>9. McusDone' = McusDone + 1
  <2>1. McusDone = (R + o) * W + x
    BY <1>5 DEF McusDone
  <2>2. McusDone' = (R + coef'.MCU_vert_offset) * W + coef'.mcu_ctr
    BY <1>2, <1>3, <1>5 DEF McusDone
  <2>3. PICK a \in Nat : a = (R + o) * W /\ (R + (o + 1)) * W = a + W
    BY <1>5
  <2> QED
    BY <1>5, <1>6, <2>1, <2>2, <2>3
<1>10. InStep'
  <2>1. coef'.MCU_vert_offset <= K /\ (coef'.MCU_vert_offset = K => coef'.mcu_ctr = 0)
    BY <1>5, <1>6
  <2> QED
    BY <1>1, <1>2, <1>3, <1>7, <1>8, <2>1 DEF InStep, Compressing
<1>11. Scanned'
  BY <1>1, <1>4, <1>9, TokensGoOn
<1>12. (Sampled /\ GroupHeld /\ RingHeld)' /\ (DOMAIN color_buf = 0..(BufHeight - 1))'
  <2>1. UNCHANGED <<Start, Base, Ahead, Consumed>>
    BY <1>2, <1>3 DEF Start, Base, Ahead, Consumed
  <2>2. \A r : Wrapped(r)' = Wrapped(r)
    BY <1>3 DEF Wrapped
  <2> QED
    BY <1>2, <1>3, <2>1, <2>2 DEF CInv, Sampled, GroupHeld, RingHeld
<1> QED
  BY <1>10, <1>11, <1>12 DEF CInv

-----------------------------------------------------------------------------
(* Steps that move no sample.                                              *)

LEMMA InitScan == Init => CInv
<1> SUFFICES ASSUME Init PROVE CInv
  OBVIOUS
<1>1. TypeOK
  BY InitInv DEF IInv
<1>2. /\ v \in Nat \ {0} /\ image.height \in Nat \ {0} /\ image.columns \in Nat \ {0}
      /\ image.interval \in Nat /\ DCTSIZE \in Nat \ {0} /\ RST_CYCLE \in Nat \ {0}
      /\ TotalImcuRows \in Nat \ {0} /\ McuRowsPerImcuRow \in 1..v
  BY <1>1, ImageFacts, BlockRowsOfImage, McuRowsRange
<1>3. /\ pc = "app" /\ out = <<>>
      /\ prep = [rows_to_go |-> image.height, next_buf_row |-> 0,
                 this_row_group |-> 0, next_buf_stop |-> 2 * v]
      /\ color_buf = [r \in 0..(BufHeight - 1) |-> EMPTY]
      /\ buffer = [y \in 0..(v * DCTSIZE - 1) |-> <<EMPTY>>]
      /\ main = [cur_iMCU_row |-> 0, rowgroup_ctr |-> 0, suspended |-> FALSE]
      /\ coef = [iMCU_row_num |-> 0, MCU_vert_offset |-> 0, mcu_ctr |-> 0]
      /\ entropy = [restarts_to_go |-> image.interval, next_restart_num |-> 0]
  BY DEF Init
<1>4. InStep
  BY <1>2, <1>3 DEF InStep
<1>5. Start = 0 /\ Base = 0 /\ main.rowgroup_ctr * v = 0
  <2>1. 0 * (DCTSIZE * v) = 0 /\ 0 * v = 0
    BY <1>2
  <2> QED
    BY <1>3, <2>1 DEF Start, Base
<1>6. Scanned
  <2>1. out \in Seq(Tokens) /\ Len(out) = 0
    BY <1>3
  <2>2. RowsBefore(0) = 0 /\ McusDone = 0
    <3>1. 0 * v = 0 /\ (0 + 0) * image.columns + 0 = 0
      BY <1>2
    <3>2. RowsBefore(0) = 0
      BY <1>2, <3>1 DEF RowsBefore
    <3> QED
      BY <1>3, <3>1, <3>2 DEF McusDone
  <2>3. Markers(0) = 0 /\ Rest(0) = 0
    <3>1. 0 = 0 * (image.interval + 1) + 0 /\ 0 \in 0..image.interval /\ 0 \in Nat
      BY <1>2
    <3>2. 0 \div (image.interval + 1) = 0 /\ 0 % (image.interval + 1) = 0
      BY ONLY <1>2, <3>1, PlaceJoin
    <3> QED
      BY <3>2 DEF Markers, Rest
  <2>4. 0 % RST_CYCLE = 0
    BY <1>2
  <2> QED
    BY <1>2, <1>3, <2>1, <2>2, <2>3, <2>4 DEF Scanned
<1>7. Sampled
  BY <1>2, <1>3, <1>5 DEF Sampled
<1>8. GroupHeld
  BY <1>2, <1>3, <1>5, ImageFacts, <1>1 DEF GroupHeld
<1>9. RingHeld
  BY <1>2, <1>3, <1>5 DEF RingHeld, Ahead, Consumed
<1> QED
  BY <1>3, <1>4, <1>6, <1>7, <1>8, <1>9 DEF CInv

\* The application's part of a call, and a suspension.
LEMMA StaysScan ==
  ASSUME CInv, UNCHANGED <<image, prepVars, coef, entropy, out>>,
         main'.cur_iMCU_row = main.cur_iMCU_row, main'.rowgroup_ctr = main.rowgroup_ctr,
         pc' = "finished" => ~MoreImcuRows
  PROVE  CInv'
<1>1. /\ UNCHANGED <<v, BufHeight, TotalImcuRows, HeightInBlocks>>
      /\ \A k : TokenAt(k)' = TokenAt(k) /\ Markers(k)' = Markers(k) /\ Rest(k)' = Rest(k)
      /\ \A y : ReferenceRow(y)' = ReferenceRow(y) /\ Clipped(y)' = Clipped(y)
      /\ \A c : RowsBefore(c)' = RowsBefore(c)
      /\ Tokens' = Tokens
  BY ImageStays, ReferenceStays DEF Rest
<1>2. UNCHANGED <<image, prep, color_buf, buffer>>
  BY DEF prepVars
<1>3. UNCHANGED <<McuRowsPerImcuRow, MoreImcuRows, McusDone>>
  BY <1>1, <1>2
     DEF McuRowsPerImcuRow, LastImcuRow, LastRowHeight, MoreImcuRows, McusDone
<1>4. UNCHANGED <<Start, Base, Ahead, Consumed>> /\ \A r : Wrapped(r)' = Wrapped(r)
  BY <1>1, <1>2 DEF Start, Base, Ahead, Consumed, Wrapped
<1>5. InStep'
  BY <1>1, <1>3 DEF CInv, InStep
<1>6. Scanned'
  BY <1>1, <1>2, <1>3 DEF CInv, Scanned
<1>7. Sampled' /\ GroupHeld' /\ (DOMAIN color_buf = 0..(BufHeight - 1))'
  BY <1>1, <1>2, <1>4 DEF CInv, Sampled, GroupHeld
<1>8. RingHeld'
  BY <1>1, <1>2, <1>4 DEF CInv, RingHeld
<1> QED
  BY <1>5, <1>6, <1>7, <1>8 DEF CInv

\* The next iMCU row begins where this one ended.
LEMMA ImcuRowDoneScan == IInv /\ CInv /\ ImcuRowDone => CInv'
<1> SUFFICES ASSUME IInv, CInv, ImcuRowDone PROVE CInv'
  OBVIOUS
<1>1. TypeOK /\ Records /\ InStep /\ Scanned /\ Sampled /\ GroupHeld /\ RingHeld
  BY DEF IInv, CInv
<1>2. /\ UNCHANGED <<image, pc, prep, color_buf, buffer, entropy, out>>
      /\ coef' = [iMCU_row_num |-> coef.iMCU_row_num + 1, MCU_vert_offset |-> 0, mcu_ctr |-> 0]
      /\ main' = [cur_iMCU_row |-> main.cur_iMCU_row + 1, rowgroup_ctr |-> 0,
                  suspended |-> FALSE]
      /\ pc = "process" /\ MoreImcuRows /\ main.rowgroup_ctr = DCTSIZE
      /\ coef.MCU_vert_offset = McuRowsPerImcuRow
  BY DEF ImcuRowDone, prepVars, Compressing
<1>3. /\ UNCHANGED <<v, BufHeight, TotalImcuRows, HeightInBlocks>>
      /\ \A k : TokenAt(k)' = TokenAt(k) /\ Markers(k)' = Markers(k) /\ Rest(k)' = Rest(k)
      /\ \A y : ReferenceRow(y)' = ReferenceRow(y) /\ Clipped(y)' = Clipped(y)
      /\ \A c : RowsBefore(c)' = RowsBefore(c)
      /\ Tokens' = Tokens
  BY <1>2, ImageStays, ReferenceStays DEF Rest
<1>4. /\ v \in Nat \ {0} /\ DCTSIZE \in Nat \ {0} /\ image.columns \in Nat \ {0}
      /\ TotalImcuRows \in Nat /\ McuRowsPerImcuRow \in 1..v
  BY <1>1, ImageFacts, BlockRowsOfImage, McuRowsRange
<1>5. PICK c \in Nat : /\ c = main.cur_iMCU_row /\ c = coef.iMCU_row_num
                       /\ c < TotalImcuRows
  BY <1>1, <1>2 DEF Records, InStep, MoreImcuRows
<1>6. main'.cur_iMCU_row = c + 1 /\ main'.rowgroup_ctr = 0
      /\ coef'.iMCU_row_num = c + 1 /\ coef'.MCU_vert_offset = 0 /\ coef'.mcu_ctr = 0
  BY <1>2, <1>5
<1>7. InStep'
  <2>1. McuRowsPerImcuRow' \in Nat \ {0}
    <3>1. LastRowHeight' \in 1..v
      BY <1>1, <1>3, BlockRowsOfImage DEF LastRowHeight
    <3>2. McuRowsPerImcuRow' \in {1, LastRowHeight', v}
      BY <1>3 DEF McuRowsPerImcuRow
    <3> QED
      BY <1>4, <3>1, <3>2
  <2> QED
    BY <1>2, <1>3, <1>4, <1>5, <1>6, <2>1 DEF InStep
<1>8. McusDone' = McusDone
  <2>1. RowsBefore(c + 1) = RowsBefore(c) + McuRowsPerImcuRow /\ RowsBefore(c) \in Nat
    BY <1>1, <1>2, <1>5, RowsBeforeNext
  <2>2. coef.mcu_ctr = 0
    BY <1>1, <1>2 DEF InStep
  <2>3. McusDone' = (RowsBefore(c + 1) + 0) * image.columns + 0
    BY <1>2, <1>3, <1>6 DEF McusDone
  <2>4. McusDone = (RowsBefore(c) + McuRowsPerImcuRow) * image.columns + 0
    BY <1>2, <1>5, <2>2 DEF McusDone
  <2>5. RowsBefore(c + 1) + 0 = RowsBefore(c) + McuRowsPerImcuRow
    BY <1>4, <2>1
  <2> QED
    BY <2>3, <2>4, <2>5
<1>9. Scanned'
  BY <1>1, <1>2, <1>3, <1>8 DEF Scanned
<1>10. Base' = Base
  <2>0. PICK u \in Nat : u = DCTSIZE * v
    BY <1>4
  <2>1. PICK a \in Nat : u = DCTSIZE * v /\ a = c * u /\ (c + 1) * u = a + u
    BY <2>0
  <2>2. Base = a + u
    BY <1>2, <1>5, <2>1 DEF Base, Start
  <2>3. Base' = (a + u) + 0 * v
    BY <1>3, <1>6, <2>1 DEF Base, Start
  <2>4. 0 * v = 0
    BY <1>4
  <2> QED
    BY <2>1, <2>2, <2>3, <2>4
<1>11. Sampled'
  <2>1. main'.rowgroup_ctr * v = 0
    BY <1>4, <1>6
  <2>2. \A y \in DOMAIN buffer : ~(y < 0)
    BY <1>1, <1>4 DEF Sampled
  <2> QED
    BY <1>1, <1>2, <1>3, <2>1, <2>2 DEF Sampled
<1>12. GroupHeld' /\ RingHeld' /\ (DOMAIN color_buf = 0..(BufHeight - 1))'
  <2>1. UNCHANGED <<Ahead, Consumed>> /\ \A r : Wrapped(r)' = Wrapped(r)
    BY <1>2, <1>3 DEF Ahead, Consumed, Wrapped
  <2> QED
    BY <1>1, <1>2, <1>3, <1>10, <2>1 DEF CInv, GroupHeld, RingHeld
<1> QED
  BY <1>7, <1>9, <1>11, <1>12 DEF CInv

-----------------------------------------------------------------------------
(* The preprocessor without context rows.                                  *)

LEMMA ClippedRows ==
  ASSUME TypeOK, NEW y \in Int
  PROVE  /\ y >= 0 /\ y < image.height => Clipped(y) = y
         /\ y >= image.height - 1 => Clipped(y) = image.height - 1
         /\ y <= 0 => Clipped(y) = 0
<1>1. image.height \in Nat \ {0}
  BY ImageFacts
<1> QED
  BY <1>1 DEF Clipped

\* The rows of row group g.
LEMMA RowOfGroup ==
  ASSUME NEW V \in Nat \ {0}, NEW g \in Nat, NEW y \in Nat
  PROVE  /\ y \div V = g <=> g * V <= y /\ y < g * V + V
         /\ y \div V = g => y % V = y - g * V
<1>1. ASSUME y \div V = g PROVE g * V <= y /\ y < g * V + V
  <2>1. V * g <= y /\ y < V * g + V
    BY <1>1, DivBounds
  <2>2. V * g = g * V
    OBVIOUS
  <2> QED
    BY <2>1, <2>2
<1>2. ASSUME g * V <= y, y < g * V + V PROVE y \div V = g
  <2>1. V * g = g * V
    OBVIOUS
  <2>2. V * g <= y /\ y < V * g + V
    BY <1>2, <2>1
  <2> QED
    BY <2>2, DivUnique
<1>3. ASSUME y \div V = g PROVE y % V = y - g * V
  <2>1. PICK a \in Nat : a = g * V
    OBVIOUS
  <2>2. PICK i \in 0..(V - 1) : i = y - a
    BY <1>1, <1>3, <2>1
  <2>3. y = g * V + i
    BY <2>1, <2>2
  <2>4. (g * V + i) % V = i
    BY ModUnique
  <2> QED
    BY <2>1, <2>2, <2>3, <2>4
<1> QED
  BY <1>1, <1>2, <1>3

\* While the iMCU row is being filled the coders have not begun it.
LEMMA CodersWait ==
  ASSUME IInv, CInv, Filling, UNCHANGED <<image, pc, coef, entropy, out>>,
         main'.cur_iMCU_row = main.cur_iMCU_row
  PROVE  /\ InStep' /\ Scanned'
         /\ UNCHANGED <<v, BufHeight, TotalImcuRows, Start>>
         /\ \A y : ReferenceRow(y)' = ReferenceRow(y) /\ Clipped(y)' = Clipped(y)
<1>1. /\ UNCHANGED <<v, BufHeight, TotalImcuRows, HeightInBlocks>>
      /\ \A k : TokenAt(k)' = TokenAt(k) /\ Markers(k)' = Markers(k) /\ Rest(k)' = Rest(k)
      /\ \A y : ReferenceRow(y)' = ReferenceRow(y) /\ Clipped(y)' = Clipped(y)
      /\ \A c : RowsBefore(c)' = RowsBefore(c)
      /\ Tokens' = Tokens
  BY ImageStays, ReferenceStays DEF Rest
<1>2. UNCHANGED <<McuRowsPerImcuRow, MoreImcuRows, McusDone, Start>>
  BY <1>1
     DEF McuRowsPerImcuRow, LastImcuRow, LastRowHeight, MoreImcuRows, McusDone, Start
<1>3. main.rowgroup_ctr # DCTSIZE /\ pc = "process"
  <2>1. main.rowgroup_ctr \in 0..DCTSIZE /\ DCTSIZE \in Nat
    BY ImageFacts DEF IInv, TypeOK
  <2> QED
    BY <2>1 DEF Filling
<1>4. InStep'
  BY <1>1, <1>2, <1>3 DEF CInv, InStep
<1>5. Scanned'
  BY <1>1, <1>2 DEF CInv, Scanned
<1> QED
  BY <1>1, <1>2, <1>4, <1>5

LEMMA PreProcessDataScan == IInv /\ CInv /\ PreProcessData => CInv'
<1> SUFFICES ASSUME IInv, CInv, PreProcessData PROVE CInv'
  OBVIOUS
<1> DEFINE num == Least(v - prep.next_buf_row, call.avail - call.row_ctr)
<1>1. TypeOK /\ Records /\ Simple /\ Counted /\ GroupHeld /\ Sampled
  BY DEF IInv, CInv
<1>2. /\ Filling /\ ~image.context /\ RowsLeft /\ pc = "process"
      /\ UNCHANGED <<image, pc, next_scanline, coef, entropy, out>>
      /\ main.rowgroup_ctr < DCTSIZE
  BY DEF PreProcessData, Filling
<1>3. /\ v \in Nat \ {0} /\ DCTSIZE \in Nat \ {0} /\ image.height \in Nat \ {0}
      /\ BufHeight = v
      /\ prep \in [rows_to_go : Int, next_buf_row : Int, this_row_group : Int,
                   next_buf_stop : Int]
      /\ main \in [cur_iMCU_row : Nat, rowgroup_ctr : Int, suspended : BOOLEAN]
      /\ call \in [avail : Int, row_ctr : Int]
      /\ prep.rows_to_go \in Nat /\ prep.next_buf_row \in Nat /\ prep.next_buf_row < v
      /\ call.avail \in Nat /\ call.row_ctr \in Nat /\ next_scanline \in Nat
      /\ main.rowgroup_ctr \in Nat
  BY <1>1, <1>2, ImageFacts DEF TypeOK, Records, Simple
<1>4. num \in Nat \ {0} /\ num <= v - prep.next_buf_row /\ num <= call.avail - call.row_ctr
  BY <1>2, <1>3 DEF Least, RowsLeft
<1>5. PICK V \in Nat \ {0}, b \in Nat, n \in Nat \ {0}, g \in Nat, S \in Nat, P \in Nat :
        /\ V = v /\ b = prep.next_buf_row /\ n = num /\ g = main.rowgroup_ctr /\ S = Start
        /\ P = S + g * V /\ b + n <= V
  <2>1. Start \in Nat
    BY <1>3 DEF Start, Records
  <2>2. Start + main.rowgroup_ctr * v \in Nat
    BY <1>3, <2>1
  <2> QED
    BY <1>3, <1>4, <2>1, <2>2
<1> DEFINE H == image.height
<1>6. call' = [call EXCEPT !.row_ctr = @ + n]
  BY <1>5 DEF PreProcessData
<1>7. n <= prep.rows_to_go /\ ~main.suspended
  BY <1>2, <1>3, <1>4, <1>5, <1>6, RowsTaken
<1>8. H - prep.rows_to_go = P + b /\ next_scanline + call.row_ctr = P + b
  <2>1. Consumed = Start + main.rowgroup_ctr * v + prep.next_buf_row
    BY <1>1, <1>2, <1>3, <1>5, <1>7 DEF Simple, Start
  <2>2. next_scanline + call.row_ctr + 0 = Consumed
    BY <1>1, <1>2, <1>7 DEF Counted, TakenBack
  <2> QED
    BY <1>3, <1>5, <2>1, <2>2 DEF Consumed
<1>9a. PICK bottom : bottom = (prep.rows_to_go = n)
  OBVIOUS
<1>9b. PICK group : group = (bottom \/ b + n = V)
  OBVIOUS
<1>9c. PICK ctr : ctr = IF group THEN g + 1 ELSE g
  OBVIOUS
<1>9d. PICK next : next = IF group THEN 0 ELSE b + n
  OBVIOUS
<1>9. /\ bottom \in BOOLEAN /\ group \in BOOLEAN /\ ctr \in Nat /\ next \in Nat
      /\ bottom <=> prep.rows_to_go = n
      /\ group <=> bottom \/ b + n = V
      /\ ctr = IF group THEN g + 1 ELSE g
      /\ next = IF group THEN 0 ELSE b + n
  <2>1. bottom \in BOOLEAN /\ (bottom <=> prep.rows_to_go = n)
    BY <1>9a
  <2>2. group \in BOOLEAN /\ (group <=> bottom \/ b + n = V)
    BY <1>9b, <2>1
  <2>3. g + 1 \in Nat /\ b + n \in Nat /\ g \in Nat /\ 0 \in Nat
    BY <1>5
  <2> QED
    BY <1>9c, <1>9d, <2>1, <2>2, <2>3
<1>10. PICK conv : conv = Converted(n)
  OBVIOUS
<1>11. PICK rows : rows = Expanded(conv, b + n, IF bottom THEN V ELSE b + n)
  OBVIOUS
<1>12. PICK sampled : sampled = [y \in DOMAIN buffer |->
                                   IF group /\ y \div V = g THEN <<rows[y % V]>> ELSE buffer[y]]
  OBVIOUS
<1>13. /\ prep' = [prep EXCEPT !.rows_to_go = @ - n, !.next_buf_row = next]
       /\ color_buf' = rows
       /\ buffer' = IF bottom THEN Expanded(sampled, ctr * V, DCTSIZE * V) ELSE sampled
       /\ main' = [main EXCEPT !.rowgroup_ctr = IF bottom THEN DCTSIZE ELSE ctr]
  BY <1>5, <1>9a, <1>9b, <1>9c, <1>9d, <1>10, <1>11, <1>12 DEF PreProcessData
<1>14. bottom => H = P + b + n
  BY <1>3, <1>5, <1>7, <1>8, <1>9
<1>15. P + b + n <= H
  BY <1>3, <1>5, <1>7, <1>8
<1> HIDE DEF num, H
<1>16. /\ DOMAIN conv = 0..(V - 1)
       /\ \A r \in 0..(V - 1) : r < b + n => conv[r] = P + r
  <2>1. DOMAIN color_buf = 0..(V - 1)
    BY <1>3, <1>5 DEF CInv
  <2>2. conv = [r \in 0..(V - 1) |-> IF r \in b..(b + n - 1)
                                     THEN next_scanline + (call.row_ctr + r - b)
                                     ELSE color_buf[r]]
    BY <1>5, <1>10, <2>1 DEF Converted, Offered
  <2>3. ASSUME NEW r \in 0..(V - 1), r < b + n PROVE conv[r] = P + r
    <3>1. CASE r < b
      <4>1. color_buf[r] = Base + r /\ Base = P
        BY <1>1, <1>2, <1>5, <2>1, <3>1 DEF GroupHeld, Base
      <4>2. r \notin b..(b + n - 1)
        BY ONLY <3>1, b \in Nat, r \in 0..(V - 1), V \in Nat \ {0}
      <4> QED
        BY <2>2, <4>1, <4>2
    <3>2. CASE b <= r
      <4>1. conv[r] = next_scanline + (call.row_ctr + r - b)
        BY <1>5, <2>2, <2>3, <3>2
      <4>2. PICK i \in Int, k \in Int : i = next_scanline /\ k = call.row_ctr /\ i + k = P + b
        BY <1>3, <1>8
      <4>3. i + (k + r - b) = P + r
        <5>1. PICK j \in Int : j = r
          BY <1>5
        <5>2. i \in Int /\ k \in Int /\ P \in Int /\ b \in Int /\ i + k = P + b
          BY <1>5, <4>2
        <5>3. i + (k + j - b) = P + j
          BY ONLY <5>1, <5>2
        <5> QED
          BY <5>1, <5>3
      <4> QED
        BY <4>1, <4>2, <4>3
    <3> QED
      BY <1>5, <3>1, <3>2
  <2> QED
    BY <2>2, <2>3
<1>17. /\ DOMAIN rows = 0..(V - 1)
       /\ \A r \in 0..(V - 1) : r < b + n => rows[r] = P + r
       /\ \A r \in 0..(V - 1) : group => rows[r] = Clipped(P + r)
  <2>1. rows = [r \in 0..(V - 1) |-> IF r \in (b + n)..((IF bottom THEN V ELSE b + n) - 1)
                                     THEN conv[b + n - 1] ELSE conv[r]]
    BY <1>11, <1>16 DEF Expanded
  <2>2. ASSUME NEW r \in 0..(V - 1), r < b + n PROVE rows[r] = P + r
    BY <1>5, <1>16, <2>1, <2>2
  <2>3. ASSUME NEW r \in 0..(V - 1), group PROVE rows[r] = Clipped(P + r)
    <3>1. CASE r < b + n
      <4>1. P + r \in Int /\ P + r >= 0 /\ P + r < H
        BY <1>3, <1>5, <1>15, <3>1 DEF H
      <4> QED
        BY <1>1, <2>2, <3>1, <4>1, ClippedRows DEF H
    <3>2. CASE ~(r < b + n)
      <4>1. bottom
        BY <1>5, <1>9, <2>3, <3>2
      <4>2. rows[r] = conv[b + n - 1]
        <5>1. r \in (b + n)..(V - 1)
          BY ONLY <3>2, b \in Nat, n \in Nat \ {0}, r \in 0..(V - 1), V \in Nat \ {0}
        <5> QED
          BY <2>1, <4>1, <5>1
      <4>3. conv[b + n - 1] = P + (b + n - 1)
        <5>1. b + n - 1 \in 0..(V - 1) /\ b + n - 1 < b + n
          BY <1>5
        <5> QED
          BY <1>16, <5>1
      <4>4. P + (b + n - 1) = H - 1 /\ P + r \in Int /\ P + r >= H - 1
        BY <1>3, <1>5, <1>14, <3>2, <4>1 DEF H
      <4> QED
        BY <1>1, <4>2, <4>3, <4>4, ClippedRows DEF H
    <3> QED
      BY <3>1, <3>2
  <2> QED
    BY <2>1, <2>2, <2>3
<1>18. DOMAIN sampled = DOMAIN buffer /\ DOMAIN buffer = 0..(V * DCTSIZE - 1)
  BY <1>1, <1>5, <1>12 DEF Sampled
<1>19. ASSUME NEW y \in 0..(V * DCTSIZE - 1), y < ctr * V
       PROVE  sampled[y] = ReferenceRow(S + y)
  <2>1. y \in Nat /\ (g + 1) * V = g * V + V /\ g * V \in Nat
    BY <1>5
  <2>2. CASE y < g * V
    <3>1. y \div V # g
      <4>1. y \div V = g => g * V <= y
        BY <1>5, <2>1, RowOfGroup
      <4> QED
        BY <2>1, <2>2, <4>1
    <3>2. buffer[y] = ReferenceRow(S + y)
      BY <1>1, <1>5, <1>18, <2>2 DEF Sampled
    <3> QED
      BY <1>12, <1>18, <3>1, <3>2
  <2>3. CASE g * V <= y
    <3>1. group /\ y < g * V + V
      BY <1>9, <1>19, <2>1, <2>3
    <3>2. y \div V = g /\ y % V = y - g * V
      BY ONLY <2>1, <2>3, <3>1, RowOfGroup, g \in Nat, V \in Nat \ {0}
    <3>3. PICK i \in 0..(V - 1) : i = y - g * V /\ P + i = S + y
      BY <1>5, <2>1, <2>3, <3>1
    <3>4. sampled[y] = <<rows[i]>>
      BY <1>12, <1>18, <3>1, <3>2, <3>3
    <3>5. rows[i] = Clipped(S + y)
      BY <1>17, <3>1, <3>3
    <3> QED
      BY <1>2, <3>4, <3>5 DEF ReferenceRow
  <2> QED
    BY <2>1, <2>2, <2>3
<1>20. (main'.rowgroup_ctr = IF bottom THEN DCTSIZE ELSE ctr) /\ main'.cur_iMCU_row = main.cur_iMCU_row
  BY <1>3, <1>13
<1>21. /\ InStep' /\ Scanned' /\ UNCHANGED <<v, BufHeight, TotalImcuRows, Start>>
       /\ \A y : ReferenceRow(y)' = ReferenceRow(y) /\ Clipped(y)' = Clipped(y)
  BY <1>2, <1>20, CodersWait
<1>22. Sampled'
  <2>1. CASE ~bottom
    BY <1>5, <1>13, <1>18, <1>19, <1>20, <1>21, <2>1 DEF Sampled
  <2>2. CASE bottom
    <3>1. ctr = g + 1 /\ g + 1 <= DCTSIZE
      BY <1>2, <1>3, <1>5, <1>9, <2>2
    <3>2. PICK w \in Nat : w = ctr * V /\ w = g * V + V /\ w <= V * DCTSIZE
      <4>1. (g + 1) * V <= DCTSIZE * V /\ (g + 1) * V = g * V + V /\ g * V \in Nat
        BY <1>3, <1>5, <3>1, MulMonotone
      <4>2. DCTSIZE * V = V * DCTSIZE
        BY <1>3
      <4> QED
        BY <3>1, <4>1, <4>2
    <3>3. DCTSIZE * V = V * DCTSIZE /\ V * DCTSIZE \in Nat /\ g * V \in Nat
      BY <1>3
    <3>4. buffer' = [y \in 0..(V * DCTSIZE - 1) |->
                       IF y \in w..(V * DCTSIZE - 1) THEN sampled[w - 1] ELSE sampled[y]]
      BY <1>13, <1>18, <2>2, <3>2, <3>3 DEF Expanded
    <3>5. ASSUME NEW y \in 0..(V * DCTSIZE - 1) PROVE buffer'[y] = ReferenceRow(S + y)
      <4>1. CASE y < w
        BY <1>19, <3>2, <3>4, <4>1
      <4>2. CASE w <= y
        <5>1. buffer'[y] = sampled[w - 1]
          BY <3>2, <3>4, <4>2
        <5>2. w - 1 \in 0..(V * DCTSIZE - 1) /\ w - 1 < w
          BY <3>2, <3>3
        <5>3. sampled[w - 1] = ReferenceRow(S + (w - 1))
          BY <1>19, <3>2, <5>2
        <5>4. /\ S + (w - 1) \in Int /\ S + y \in Int
              /\ S + (w - 1) >= H - 1 /\ S + y >= H - 1
          <6>1. S + (w - 1) = P + V - 1
            BY <1>5, <3>2, <3>3
          <6>2. S + y >= S + (w - 1)
            BY <1>5, <3>2, <4>2
          <6> QED
            BY <1>3, <1>5, <1>14, <2>2, <3>2, <6>1, <6>2 DEF H
        <5>5. Clipped(S + (w - 1)) = H - 1 /\ Clipped(S + y) = H - 1
          BY <1>1, <5>4, ClippedRows DEF H
        <5> QED
          BY <1>2, <5>1, <5>3, <5>5 DEF ReferenceRow
      <4> QED
        BY <3>2, <4>1, <4>2
    <3> QED
      BY <1>5, <1>21, <3>4, <3>5 DEF Sampled
  <2> QED
    BY <2>1, <2>2
<1>23. GroupHeld' /\ DOMAIN color_buf' = 0..(BufHeight' - 1)
  <2>1. prep'.next_buf_row = next
    BY <1>3, <1>13
  <2>2. CASE group
    BY <1>3, <1>5, <1>9, <1>13, <1>17, <1>21, <2>1, <2>2 DEF GroupHeld
  <2>3. CASE ~group
    <3>1. next = b + n /\ ~bottom /\ ctr = g
      BY <1>9, <2>3
    <3>2. Base' = P
      BY <1>5, <1>20, <1>21, <3>1 DEF Base
    <3> QED
      BY <1>3, <1>5, <1>13, <1>17, <1>21, <2>1, <3>1, <3>2 DEF GroupHeld
  <2> QED
    BY <2>2, <2>3
<1>24. RingHeld'
  BY <1>2 DEF RingHeld
<1> QED
  BY <1>21, <1>22, <1>23, <1>24 DEF CInv

-----------------------------------------------------------------------------
(* The preprocessor with context rows.                                     *)

LEMMA WrappedIs ==
  ASSUME TypeOK, image.context, NEW r \in Int, -1 <= r, r < 4 * v
  PROVE  /\ r < 0 => Wrapped(r) = r + 3 * v
         /\ 0 <= r /\ r < 3 * v => Wrapped(r) = r
         /\ r >= 3 * v => Wrapped(r) = r - 3 * v
<1>1. PICK V \in Nat \ {0} : V = v
  BY ImageFacts
<1>2. PICK M \in Nat \ {0} : M = 3 * V /\ M = BufHeight
  BY <1>1, ImageFacts
<1>3. Wrapped(r) = (r + M) % M
  BY <1>2 DEF Wrapped
<1>4. ASSUME r < 0 PROVE Wrapped(r) = r + M
  <2>1. PICK i \in 0..(M - 1) : i = r + M /\ 0 * M + i = r + M
    BY <1>1, <1>2, <1>4
  <2>2. (0 * M + i) % M = i
    BY ModUnique
  <2> QED
    BY <1>3, <2>1, <2>2
<1>5. ASSUME 0 <= r, r < M PROVE Wrapped(r) = r
  <2>1. PICK i \in 0..(M - 1) : i = r /\ 1 * M + i = r + M
    BY <1>5
  <2>2. (1 * M + i) % M = i
    BY ModUnique
  <2> QED
    BY <1>3, <2>1, <2>2
<1>6. ASSUME r >= M PROVE Wrapped(r) = r - M
  <2>1. PICK i \in 0..(M - 1) : i = r - M /\ 2 * M + i = r + M
    BY <1>1, <1>2, <1>6
  <2>2. (2 * M + i) % M = i
    BY ModUnique
  <2> QED
    BY <1>3, <2>1, <2>2
<1> QED
  BY <1>1, <1>2, <1>4, <1>5, <1>6

\* The numbers of the ring.
LEMMA RingNumbers ==
  ASSUME TypeOK, Records, RingHeld, image.context
  PROVE  \E V \in Nat \ {0}, t \in Nat, s \in Nat, b \in Nat, F \in Nat :
           /\ V = v /\ BufHeight = 3 * V /\ t = prep.this_row_group
           /\ s = prep.next_buf_stop /\ b = prep.next_buf_row /\ F = Ahead
           /\ s - b = 2 * V - F /\ F < 2 * V
           /\ \/ t = 0 /\ s = 2 * V
              \/ t = V /\ s = 3 * V
              \/ t = 2 * V /\ s = V
<1>1. v \in Nat \ {0} /\ BufHeight = 3 * v
  BY ImageFacts
<1>2. prep.next_buf_row \in Nat
  BY <1>1 DEF TypeOK
<1>3. /\ \/ prep.this_row_group = 0 /\ prep.next_buf_stop = 2 * v
         \/ prep.this_row_group = v /\ prep.next_buf_stop = 3 * v
         \/ prep.this_row_group = 2 * v /\ prep.next_buf_stop = v
      /\ Ahead \in 0..(2 * v - 1)
  BY DEF RingHeld
<1>4. Ahead = 2 * v - (prep.next_buf_stop - prep.next_buf_row)
  BY DEF Ahead
<1>5. prep.this_row_group \in Nat /\ prep.next_buf_stop \in Nat /\ Ahead \in Nat
      /\ Ahead < 2 * v
  BY <1>1, <1>3
<1>6. prep.next_buf_stop - prep.next_buf_row = 2 * v - Ahead
  BY <1>1, <1>2, <1>4, <1>5
<1> QED
  BY <1>1, <1>2, <1>3, <1>5, <1>6, Zenon

\* The row of color_buf that is d rows behind the row group's first: filled
\* already, or the next to be filled.
LEMMA RingPlaces ==
  ASSUME TypeOK, Records, RingHeld, image.context, NEW d \in Int, -1 <= d, d < 2 * v
  PROVE  /\ Wrapped(prep.this_row_group + d) \in 0..(BufHeight - 1)
         /\ d < Ahead => ~(/\ prep.next_buf_row <= Wrapped(prep.this_row_group + d)
                           /\ Wrapped(prep.this_row_group + d) < prep.next_buf_stop)
         /\ d >= Ahead =>
              Wrapped(prep.this_row_group + d) = prep.next_buf_row + (d - Ahead)
         /\ prep.this_row_group = 0 /\ d < 0 => Wrapped(prep.this_row_group + d) >= 2 * v
         /\ prep.this_row_group = 0 /\ d >= 0 => Wrapped(prep.this_row_group + d) < 2 * v
<1>1. PICK V \in Nat \ {0}, t \in Nat, s \in Nat, b \in Nat, F \in Nat :
        /\ V = v /\ BufHeight = 3 * V /\ t = prep.this_row_group
        /\ s = prep.next_buf_stop /\ b = prep.next_buf_row /\ F = Ahead
        /\ s - b = 2 * V - F /\ F < 2 * V
        /\ \/ t = 0 /\ s = 2 * V
           \/ t = V /\ s = 3 * V
           \/ t = 2 * V /\ s = V
  BY RingNumbers
<1>2. PICK r \in Int : r = t + d /\ -1 <= r /\ r < 4 * V
  BY <1>1
<1>3. PICK w : w = Wrapped(r)
  OBVIOUS
<1>4. /\ r < 0 => w = r + 3 * V
      /\ 0 <= r /\ r < 3 * V => w = r
      /\ r >= 3 * V => w = r - 3 * V
  BY <1>1, <1>2, <1>3, WrappedIs
<1>5. w \in Int /\ d < 2 * V
  BY <1>1, <1>2, <1>4
<1>6. /\ w \in 0..(3 * V - 1)
      /\ d < F => ~(b <= w /\ w < s)
      /\ d >= F => w = b + (d - F)
      /\ t = 0 /\ d < 0 => w >= 2 * V
      /\ t = 0 /\ d >= 0 => w < 2 * V
  <2>1. CASE t = 0 /\ s = 2 * V
    BY ONLY <1>1, <1>2, <1>4, <1>5, <2>1, d \in Int, -1 <= d
  <2>2. CASE t = V /\ s = 3 * V
    BY ONLY <1>1, <1>2, <1>4, <1>5, <2>2, d \in Int, -1 <= d
  <2>3. CASE t = 2 * V /\ s = V
    BY ONLY <1>1, <1>2, <1>4, <1>5, <2>3, d \in Int, -1 <= d
  <2> QED
    BY <1>1, <2>1, <2>2, <2>3
<1> QED
  BY ONLY <1>1, <1>2, <1>3, <1>6

\* The row before the next to be filled, and the turn to the next row group.
LEMMA RingTurns ==
  ASSUME TypeOK, Records, RingHeld, image.context
  PROVE  /\ Ahead > 0 =>
              Wrapped(prep.next_buf_row - 1) = Wrapped(prep.this_row_group + (Ahead - 1))
         /\ \A d \in Int : -1 <= d /\ d < v =>
              Wrapped((IF prep.this_row_group + v >= BufHeight THEN 0
                       ELSE prep.this_row_group + v) + d)
                = Wrapped(prep.this_row_group + (v + d))
<1>1. PICK V \in Nat \ {0}, t \in Nat, s \in Nat, b \in Nat, F \in Nat :
        /\ V = v /\ BufHeight = 3 * V /\ t = prep.this_row_group
        /\ s = prep.next_buf_stop /\ b = prep.next_buf_row /\ F = Ahead
        /\ s - b = 2 * V - F /\ F < 2 * V
        /\ \/ t = 0 /\ s = 2 * V
           \/ t = V /\ s = 3 * V
           \/ t = 2 * V /\ s = V
  BY RingNumbers
<1>2. ASSUME F > 0 PROVE Wrapped(b - 1) = Wrapped(t + (F - 1))
  <2>1. CASE t # 2 * V
    <3>1. t + (F - 1) = b - 1
      BY <1>1, <2>1
    <3> QED
      BY <3>1
  <2>2. CASE t = 2 * V
    <3>1. t + (F - 1) = b + 3 * V - 1 /\ b < V
      BY <1>1, <2>2
    <3>2. PICK q \in Int, r \in Int : /\ q = b - 1 /\ r = b + 3 * V - 1
                                      /\ -1 <= q /\ q < 4 * V /\ -1 <= r /\ r < 4 * V
      BY <1>1, <3>1
    <3>3. /\ q < 0 => Wrapped(q) = q + 3 * V
          /\ 0 <= q /\ q < 3 * V => Wrapped(q) = q
      BY <1>1, <3>2, WrappedIs
    <3>4. /\ 0 <= r /\ r < 3 * V => Wrapped(r) = r
          /\ r >= 3 * V => Wrapped(r) = r - 3 * V
      BY <1>1, <3>2, WrappedIs
    <3>5. Wrapped(q) = Wrapped(r)
      BY <1>1, <3>1, <3>2, <3>3, <3>4
    <3> QED
      BY <3>1, <3>2, <3>5
  <2> QED
    BY <2>1, <2>2
<1>3. ASSUME NEW d \in Int, -1 <= d, d < V
      PROVE  Wrapped((IF t + V >= 3 * V THEN 0 ELSE t + V) + d) = Wrapped(t + (V + d))
  <2>1. CASE t # 2 * V
    <3>1. (IF t + V >= 3 * V THEN 0 ELSE t + V) + d = t + (V + d)
      BY <1>1, <1>3, <2>1
    <3> QED
      BY <3>1
  <2>2. CASE t = 2 * V
    <3>1. (IF t + V >= 3 * V THEN 0 ELSE t + V) + d = d /\ t + (V + d) = d + 3 * V
      BY <1>1, <1>3, <2>2
    <3>2. PICK r \in Int : r = d + 3 * V /\ -1 <= r /\ r < 4 * V /\ d < 4 * V
      BY <1>1, <1>3
    <3>3. /\ d < 0 => Wrapped(d) = d + 3 * V
          /\ 0 <= d /\ d < 3 * V => Wrapped(d) = d
      BY <1>1, <1>3, <3>2, WrappedIs
    <3>4. /\ 0 <= r /\ r < 3 * V => Wrapped(r) = r
          /\ r >= 3 * V => Wrapped(r) = r - 3 * V
      BY <1>1, <3>2, WrappedIs
    <3>5. Wrapped(d) = Wrapped(r)
      BY <1>1, <1>3, <3>2, <3>3, <3>4
    <3> QED
      BY <3>1, <3>2, <3>5
  <2> QED
    BY <2>1, <2>2
<1> QED
  BY <1>1, <1>2, <1>3

-----------------------------------------------------------------------------

LEMMA NextGroup ==
  ASSUME NEW g \in Nat, NEW V \in Nat \ {0}
  PROVE  g * V \in Nat /\ (g + 1) * V = g * V + V
OBVIOUS

LEMMA PlacesInside ==
  ASSUME NEW f \in Int, NEW d \in (-1)..(f - 1)
  PROVE  d \in Int /\ -1 <= d /\ d < f
OBVIOUS

\* Once n more rows of the ring are right, the rest of the iteration is.
LEMMA RingGoesOn ==
  ASSUME IInv, CInv, Filling, image.context,
         UNCHANGED <<image, pc, coef, entropy, out>>,
         NEW n \in Nat, n <= prep.next_buf_stop - prep.next_buf_row, Ahead + n > 0,
         NEW rows, DOMAIN rows = 0..(BufHeight - 1),
         \A d \in Int : -1 <= d /\ d < Ahead + n =>
           rows[Wrapped(prep.this_row_group + d)] = Clipped(Base + d),
         DownsampleWithContext(rows, prep.next_buf_row + n),
         prep'.rows_to_go > 0 => image.height - prep'.rows_to_go = Base + Ahead + n,
         prep'.rows_to_go = 0 => image.height <= Base + Ahead + n
  PROVE  CInv'
<1>1. TypeOK /\ Records /\ RingHeld /\ Sampled
  BY DEF IInv, CInv
<1>2. PICK V \in Nat \ {0}, t \in Nat, s \in Nat, b \in Nat, F \in Nat :
        /\ V = v /\ BufHeight = 3 * V /\ t = prep.this_row_group
        /\ s = prep.next_buf_stop /\ b = prep.next_buf_row /\ F = Ahead
        /\ s - b = 2 * V - F /\ F < 2 * V
        /\ \/ t = 0 /\ s = 2 * V
           \/ t = V /\ s = 3 * V
           \/ t = 2 * V /\ s = V
  BY <1>1, RingNumbers
<1>0. n <= s - b /\ n \in Nat
  BY ONLY <1>2, n <= prep.next_buf_stop - prep.next_buf_row, n \in Nat
<1>3. /\ main.rowgroup_ctr \in Nat /\ main.rowgroup_ctr < DCTSIZE /\ DCTSIZE \in Nat \ {0}
      /\ main \in [cur_iMCU_row : Nat, rowgroup_ctr : Int, suspended : BOOLEAN]
      /\ image.height \in Nat
  <2>1. main.rowgroup_ctr \in 0..DCTSIZE /\ main.rowgroup_ctr < DCTSIZE
    BY <1>1 DEF TypeOK, Filling
  <2>2. DCTSIZE \in Nat \ {0} /\ image.height \in Nat
    BY <1>1, ImageFacts
  <2>3. main \in [cur_iMCU_row : Nat, rowgroup_ctr : Int, suspended : BOOLEAN]
    BY <1>1 DEF Records
  <2>4. main.rowgroup_ctr \in Nat
    BY ONLY <2>1, <2>2
  <2> QED
    BY ONLY <2>1, <2>2, <2>3, <2>4
<1>4. PICK g \in Nat, S \in Nat, P \in Nat :
        /\ g = main.rowgroup_ctr /\ S = Start /\ P = Base /\ P = S + g * V
  <2>1. main.cur_iMCU_row * (DCTSIZE * V) \in Nat /\ main.rowgroup_ctr * V \in Nat
    <3>1. PICK c \in Nat, g \in Nat, D \in Nat :
            c = main.cur_iMCU_row /\ g = main.rowgroup_ctr /\ D = DCTSIZE
      BY ONLY <1>3
    <3>2. c * (D * V) \in Nat /\ g * V \in Nat
      BY ONLY <1>2, <3>1
    <3> QED
      BY ONLY <3>1, <3>2
  <2>2. Start \in Nat /\ Base = Start + main.rowgroup_ctr * V
    BY ONLY <1>2, <2>1 DEF Start, Base
  <2>3. Base \in Nat
    BY ONLY <2>1, <2>2
  <2> QED
    BY ONLY <1>3, <2>2, <2>3, Zenon
<1>5. /\ main'.cur_iMCU_row = main.cur_iMCU_row
      /\ main'.rowgroup_ctr = IF b + n = s THEN g + 1 ELSE g
  BY <1>2, <1>3, <1>4 DEF DownsampleWithContext
<1>6. /\ InStep' /\ Scanned' /\ UNCHANGED <<v, BufHeight, TotalImcuRows, Start>>
      /\ \A y : ReferenceRow(y)' = ReferenceRow(y) /\ Clipped(y)' = Clipped(y)
  BY <1>5, CodersWait
<1>7. \A r : Wrapped(r)' = Wrapped(r)
  BY <1>6 DEF Wrapped
<1>8. color_buf' = rows /\ (DOMAIN color_buf = 0..(BufHeight - 1))'
  BY <1>6 DEF DownsampleWithContext
<1>9. GroupHeld'
  BY DEF GroupHeld
<1>10. CASE b + n # s
  <2>1. /\ buffer' = [y \in DOMAIN buffer |-> buffer[y]] /\ main' = main
        /\ prep'.next_buf_row = b + n /\ prep'.this_row_group = t
        /\ prep'.next_buf_stop = s
    BY <1>2, <1>10 DEF DownsampleWithContext
  <2>2. DOMAIN buffer' = DOMAIN buffer /\ \A y \in DOMAIN buffer : buffer'[y] = buffer[y]
    BY ONLY <2>1
  <2>3. Sampled'
    BY <1>1, <1>6, <2>1, <2>2 DEF Sampled
  <2>4. Base' = P /\ Ahead' = F + n /\ F + n \in 0..(2 * V - 1)
    <3>1. Base' = S + g * V
      BY ONLY <1>2, <1>4, <1>6, <2>1 DEF Base
    <3>2. Ahead' = 2 * V - (s - (b + n))
      BY ONLY <1>2, <1>6, <2>1 DEF Ahead
    <3>3. b + n < s
      BY ONLY <1>0, <1>2, <1>10
    <3>4. 2 * V - (s - (b + n)) = F + n /\ F + n \in 0..(2 * V - 1)
      BY ONLY <1>0, <1>2, <3>3
    <3> QED
      BY ONLY <1>4, <3>1, <3>2, <3>4
  <2>5. RingHeld'
    <3>1. \/ t = 0 /\ s = 2 * V
          \/ t = V /\ s = 3 * V
          \/ t = 2 * V /\ s = V
      BY <1>2
    <3>2. F + n < V => P = 0 /\ t = 0
      <4>1. F + n < V => F < V
        BY <1>2
      <4> QED
        BY <1>1, <1>2, <1>4, <4>1 DEF RingHeld
    <3>3. \A d \in (-1)..(F + n - 1) : rows[Wrapped(t + d)] = Clipped(P + d)
      BY <1>2, <1>4
    <3>4. /\ prep'.rows_to_go > 0 => Consumed' = P + (F + n)
          /\ prep'.rows_to_go = 0 => image.height <= P + (F + n)
      <4>1. P + F + n = P + (F + n)
        BY ONLY <1>2, <1>4, n \in Nat
      <4> QED
        BY <1>2, <1>4, <4>1, Zenon DEF Consumed
    <3>5. /\ \/ prep'.this_row_group = 0 /\ prep'.next_buf_stop = 2 * v'
             \/ prep'.this_row_group = v' /\ prep'.next_buf_stop = 3 * v'
             \/ prep'.this_row_group = 2 * v' /\ prep'.next_buf_stop = v'
          /\ Ahead' \in 0..(2 * v' - 1)
          /\ Ahead' < v' => Base' = 0 /\ prep'.this_row_group = 0
      BY ONLY <1>2, <1>6, <2>1, <2>4, <3>1, <3>2
    <3>6. /\ prep'.rows_to_go > 0 => Consumed' = Base' + Ahead'
          /\ prep'.rows_to_go = 0 => image'.height <= Base' + Ahead'
      BY <2>4, <3>4
    <3>7. \A d \in (-1)..(Ahead' - 1) :
            color_buf'[Wrapped(prep.this_row_group + d)'] = Clipped(Base + d)'
      <4>1. \A d : Wrapped(prep.this_row_group + d)' = Wrapped(t + d)
        BY ONLY <1>7, <2>1
      <4>2. \A d : Clipped(Base + d)' = Clipped(P + d)
        BY ONLY <1>6, <2>4
      <4>3. ASSUME NEW d \in (-1)..(F + n - 1)
            PROVE  color_buf'[Wrapped(prep.this_row_group + d)'] = Clipped(Base + d)'
        BY <1>8, <3>3, <4>1, <4>2, Zenon
      <4> QED
        BY <2>4, <4>3
    <3> QED
      BY <3>5, <3>6, <3>7 DEF RingHeld
  <2> QED
    BY <1>6, <1>8, <1>9, <2>3, <2>5 DEF CInv
<1>11. CASE b + n = s
  <2>1. F + n = 2 * V
    BY <1>2, <1>11
  <2>2. PICK u \in Nat : u = IF t + V >= 3 * V THEN 0 ELSE t + V
    BY <1>2
  <2>3. PICK x \in Nat : x = IF s >= 3 * V THEN 0 ELSE s
    BY <1>2
  <2>4. prep'.next_buf_row = x /\ prep'.this_row_group = u /\ prep'.next_buf_stop = x + V
    BY <1>2, <1>11, <2>2, <2>3 DEF DownsampleWithContext
  <2>5. \/ u = 0 /\ x + V = 2 * V
        \/ u = V /\ x + V = 3 * V
        \/ u = 2 * V /\ x + V = V
    BY ONLY <1>2, <2>2, <2>3
  <2>6. Base' = P + V /\ Ahead' = V
    <3>1. (g + 1) * V = g * V + V /\ g * V \in Nat
      BY ONLY <1>2, <1>4, NextGroup
    <3>2. Base' = S + (g + 1) * V
      <4>1. main'.rowgroup_ctr = g + 1
        BY <1>5, <1>11
      <4> QED
        BY ONLY <1>2, <1>4, <1>6, <4>1 DEF Base
    <3>3. Ahead' = 2 * V - ((x + V) - x)
      BY ONLY <1>2, <1>6, <2>4 DEF Ahead
    <3> QED
      BY ONLY <1>2, <1>4, <3>1, <3>2, <3>3, x \in Nat
  <2>7. RingHeld'
    <3>1. ASSUME NEW d \in Int, -1 <= d, d < V
          PROVE  rows[Wrapped(u + d)] = Clipped((P + V) + d)
      <4>1. Wrapped(u + d) = Wrapped(t + (V + d))
        BY <1>1, <1>2, <2>2, <3>1, RingTurns
      <4>2. V + d \in Int /\ -1 <= V + d /\ V + d < F + n
        BY <2>1, <3>1
      <4>3. rows[Wrapped(t + (V + d))] = Clipped(P + (V + d))
        BY <1>2, <1>4, <4>2
      <4>4. P + (V + d) = (P + V) + d
        OBVIOUS
      <4> QED
        BY <4>1, <4>3, <4>4
    <3>2. ASSUME NEW d \in (-1)..(V - 1)
          PROVE  rows[Wrapped(u + d)] = Clipped((P + V) + d)
      <4>1. V \in Int
        BY ONLY <1>2
      <4>2. d \in Int /\ -1 <= d /\ d < V
        BY ONLY <4>1, PlacesInside
      <4> QED
        BY ONLY <3>1, <4>2
    <3>3. P + F + n = (P + V) + V
      BY <2>1
    <3>4. /\ prep'.rows_to_go > 0 => Consumed' = (P + V) + V
          /\ prep'.rows_to_go = 0 => image.height <= (P + V) + V
      BY <1>2, <1>4, <3>3 DEF Consumed
    <3>5. V \in 0..(2 * V - 1) /\ ~(V < V)
      BY ONLY <1>2
    <3>6. /\ \/ prep'.this_row_group = 0 /\ prep'.next_buf_stop = 2 * v'
             \/ prep'.this_row_group = v' /\ prep'.next_buf_stop = 3 * v'
             \/ prep'.this_row_group = 2 * v' /\ prep'.next_buf_stop = v'
          /\ Ahead' \in 0..(2 * v' - 1) /\ ~(Ahead' < v')
      BY ONLY <1>2, <1>6, <2>4, <2>5, <2>6, <3>5
    <3>7. /\ prep'.rows_to_go > 0 => Consumed' = Base' + Ahead'
          /\ prep'.rows_to_go = 0 => image'.height <= Base' + Ahead'
      BY <2>6, <3>4
    <3>8. \A d \in (-1)..(Ahead' - 1) :
            color_buf'[Wrapped(prep.this_row_group + d)'] = Clipped(Base + d)'
      <4>1. \A d : Wrapped(prep.this_row_group + d)' = Wrapped(u + d)
        BY ONLY <1>7, <2>4
      <4>2. \A d : Clipped(Base + d)' = Clipped((P + V) + d)
        BY ONLY <1>6, <2>6
      <4> QED
        BY ONLY <1>8, <2>6, <3>2, <4>1, <4>2
    <3> QED
      BY <3>6, <3>7, <3>8 DEF RingHeld
  <2>8. ASSUME NEW y \in DOMAIN buffer, y < (g + 1) * V
        PROVE  buffer'[y] = ReferenceRow(S + y)
    <3>1. y \in Nat /\ (g + 1) * V = g * V + V /\ g * V \in Nat
      BY <1>1, <1>2, <1>3 DEF Sampled
    <3>2. CASE y < g * V
      <4>1. y \div V # g
        <5>1. y \div V = g => g * V <= y
          BY <3>1, RowOfGroup
        <5> QED
          BY <3>1, <3>2, <5>1
      <4>2. buffer'[y] = buffer[y]
        BY <1>2, <1>4, <4>1 DEF DownsampleWithContext
      <4> QED
        BY <1>1, <1>2, <1>4, <3>2, <4>2 DEF Sampled
    <3>3. CASE g * V <= y
      <4>1. y \div V = g /\ y % V = y - g * V
        <5>1. y < g * V + V
          BY ONLY <2>8, <3>1
        <5> QED
          BY ONLY <3>1, <3>3, <5>1, RowOfGroup, g \in Nat, V \in Nat \ {0}
      <4>2. PICK i \in Nat : i = y - g * V /\ i < V /\ P + i = S + y
        <5>1. PICK a \in Nat, j \in Nat : a = g * V /\ j = y
          BY ONLY <3>1
        <5>2. a <= j /\ j < a + V /\ P = S + a
          BY ONLY <1>4, <2>8, <3>1, <3>3, <5>1
        <5>3. j - a \in Nat /\ j - a < V /\ P + (j - a) = S + j
          BY ONLY <1>2, <1>4, <5>1, <5>2
        <5> QED
          BY ONLY <5>1, <5>3
      <4>3. buffer'[y] = [k \in 1..3 |-> rows[Wrapped(t + i + k - 2)]]
        BY <1>2, <1>4, <1>11, <4>1, <4>2 DEF DownsampleWithContext
      <4>4. ASSUME NEW k \in 1..3
            PROVE  rows[Wrapped(t + i + k - 2)] = Clipped((S + y) + k - 2)
        <5>1. PICK d \in Int : d = i + k - 2 /\ -1 <= d /\ d < F + n
          BY <2>1, <4>2
        <5>2. rows[Wrapped(t + d)] = Clipped(P + d)
          BY <1>2, <1>4, <5>1
        <5>3. t + d = t + i + k - 2 /\ P + d = (S + y) + k - 2
          BY ONLY <1>2, <1>4, <3>1, <4>2, <5>1, k \in 1..3
        <5> QED
          BY ONLY <5>2, <5>3
      <4>5. /\ (S + y) + 1 - 2 = (S + y) - 1 /\ (S + y) + 2 - 2 = S + y
            /\ (S + y) + 3 - 2 = (S + y) + 1
        BY <3>1
      <4>6. /\ rows[Wrapped(t + i + 1 - 2)] = Clipped((S + y) - 1)
            /\ rows[Wrapped(t + i + 2 - 2)] = Clipped(S + y)
            /\ rows[Wrapped(t + i + 3 - 2)] = Clipped((S + y) + 1)
        BY <4>4, <4>5
      <4>7. buffer'[y] = <<Clipped((S + y) - 1), Clipped(S + y), Clipped((S + y) + 1)>>
        BY <4>3, <4>6
      <4> QED
        BY <4>7 DEF ReferenceRow
    <3> QED
      BY <3>1, <3>2, <3>3
  <2>9. Sampled'
    <3>1. DOMAIN buffer' = DOMAIN buffer
      BY DEF DownsampleWithContext
    <3> QED
      BY <1>1, <1>2, <1>4, <1>5, <1>6, <1>11, <2>8, <3>1 DEF Sampled
  <2> QED
    BY <1>6, <1>8, <1>9, <2>7, <2>9 DEF CInv
<1> QED
  BY <1>10, <1>11

\* Scanlines into the ring; before the first, the rows above the image.
LEMMA PreProcessContextScan == IInv /\ CInv /\ PreProcessContext => CInv'
<1> SUFFICES ASSUME IInv, CInv, PreProcessContext PROVE CInv'
  OBVIOUS
<1> DEFINE num == Least(prep.next_buf_stop - prep.next_buf_row, call.avail - call.row_ctr)
<1>1. TypeOK /\ Records /\ RingHeld /\ Counted
  BY DEF IInv, CInv
<1>2. /\ Filling /\ image.context /\ RowsLeft /\ pc = "process"
      /\ UNCHANGED <<image, pc, next_scanline, coef, entropy, out>>
  BY DEF PreProcessContext, Filling
<1>3. PICK V \in Nat \ {0}, t \in Nat, s \in Nat, b \in Nat, F \in Nat :
        /\ V = v /\ BufHeight = 3 * V /\ t = prep.this_row_group
        /\ s = prep.next_buf_stop /\ b = prep.next_buf_row /\ F = Ahead
        /\ s - b = 2 * V - F /\ F < 2 * V
        /\ \/ t = 0 /\ s = 2 * V
           \/ t = V /\ s = 3 * V
           \/ t = 2 * V /\ s = V
  BY <1>1, <1>2, RingNumbers
<1>4. PICK H \in Nat \ {0}, A \in Nat, R \in Nat, N \in Nat, G \in Nat :
        /\ H = image.height /\ A = call.avail /\ R = call.row_ctr /\ N = next_scanline
        /\ G = prep.rows_to_go
  <2>1. /\ image.height \in Nat \ {0} /\ MAX_LINES \in Nat
    BY <1>1, ImageFacts
  <2>2. /\ call.avail \in 0..MAX_LINES /\ call.row_ctr \in 0..call.avail
        /\ next_scanline \in 0..image.height /\ prep.rows_to_go \in 0..image.height
    BY <1>1 DEF TypeOK
  <2>3. /\ call.avail \in Nat /\ call.row_ctr \in Nat /\ next_scanline \in Nat
        /\ prep.rows_to_go \in Nat
    BY ONLY <2>1, <2>2
  <2> QED
    BY ONLY <2>1, <2>3, Zenon
<1>5. R < A /\ num = Least(s - b, A - R)
  BY <1>2, <1>3, <1>4 DEF RowsLeft
<1>6. PICK n \in Nat \ {0} : n = num /\ n <= s - b /\ n <= A - R
  <2>1. s - b \in Nat \ {0} /\ A - R \in Nat \ {0}
    BY ONLY <1>3, <1>4, <1>5
  <2> QED
    BY ONLY <1>5, <2>1 DEF Least
<1>7. PICK conv : conv = Converted(n)
  OBVIOUS
<1>8. PICK rows : rows = IF G = H THEN [r \in DOMAIN conv |-> IF r >= 2 * V THEN conv[0] ELSE conv[r]]
                         ELSE conv
  OBVIOUS
<1>9. /\ call' = [call EXCEPT !.row_ctr = @ + n]
      /\ DownsampleWithContext(rows, prep.next_buf_row + n)
  BY <1>3, <1>4, <1>6, <1>7, <1>8 DEF PreProcessContext
<1> HIDE DEF num
<1>10. /\ n <= G /\ TakenBack = 0 /\ call'.row_ctr = R + n
  <2>1. n \in Nat /\ n <= call.avail - call.row_ctr /\ call.row_ctr + n >= 1
    BY ONLY <1>4, <1>6
  <2> QED
    BY <1>2, <1>4, <1>9, <2>1, RowsTaken
<1>11. PICK P \in Int : P = Base /\ N + R = P + F /\ H - G = P + F /\ P >= 0
  <2>1. G > 0
    BY ONLY <1>4, <1>6, <1>10
  <2>2. Consumed = Base + F
    BY <1>1, <1>2, <1>3, <1>4, <2>1 DEF RingHeld
  <2>3. N + R + 0 = Consumed /\ Consumed = H - G
    BY <1>1, <1>2, <1>4, <1>10 DEF Counted, Consumed
  <2>4. Base \in Nat
    <3>1. /\ main.cur_iMCU_row \in Nat /\ main.rowgroup_ctr \in Nat /\ DCTSIZE \in Nat
      BY <1>1, ImageFacts DEF Records, TypeOK
    <3>2. PICK c \in Nat, g \in Nat, D \in Nat :
            c = main.cur_iMCU_row /\ g = main.rowgroup_ctr /\ D = DCTSIZE
      BY ONLY <3>1
    <3>3. c * (D * V) + g * V \in Nat
      BY ONLY <1>3, <3>2
    <3> QED
      BY ONLY <1>3, <3>2, <3>3 DEF Base, Start
  <2> QED
    BY ONLY <1>3, <1>4, <2>2, <2>3, <2>4
<1>12. P + F + n <= H /\ P + F + n = H - (G - n)
  BY ONLY <1>3, <1>4, <1>6, <1>10, <1>11
<1>13. F = 0 => P = 0 /\ t = 0 /\ s = 2 * V /\ b = 0
  <2>1. F < V => P = 0 /\ t = 0
    BY <1>1, <1>2, <1>3, <1>11 DEF RingHeld
  <2> QED
    BY ONLY <1>3, <2>1
<1>14. G = H <=> F = 0
  <2>1. ASSUME G = H PROVE F = 0
    BY ONLY <1>3, <1>4, <1>11, <2>1
  <2>2. ASSUME F = 0 PROVE G = H
    <3>1. P = 0
      BY <1>13, <2>2
    <3>2. H - G = 0 + 0
      BY <1>11, <2>2, <3>1
    <3> QED
      BY ONLY <1>4, <3>2
  <2> QED
    BY <2>1, <2>2
<1>15. DOMAIN conv = 0..(3 * V - 1) /\ DOMAIN rows = 0..(3 * V - 1)
  <2>1. DOMAIN color_buf = 0..(3 * V - 1)
    BY <1>3 DEF CInv
  <2>2. DOMAIN conv = 0..(3 * V - 1)
    BY ONLY <1>7, <2>1 DEF Converted
  <2> QED
    BY ONLY <1>8, <2>2
<1>16. ASSUME NEW r \in 0..(3 * V - 1)
       PROVE  /\ b <= r /\ r < b + n => conv[r] = P + (F + (r - b))
              /\ r < b \/ b + n <= r => conv[r] = color_buf[r]
  <2>1. conv[r] = IF r \in b..(b + n - 1) THEN N + (R + r - b) ELSE color_buf[r]
    <3>1. r \in DOMAIN color_buf
      BY <1>3, <1>16 DEF CInv
    <3> QED
      BY ONLY <1>3, <1>4, <1>7, <3>1 DEF Converted, Offered
  <2>2. r \in Int
    BY ONLY <1>3, <1>16
  <2>3. N + (R + r - b) = P + (F + (r - b))
    BY ONLY <1>3, <1>4, <1>11, <2>2
  <2>4. r \in b..(b + n - 1) <=> b <= r /\ r < b + n
    BY ONLY <1>3, <1>6, <2>2
  <2>5. r < b \/ b + n <= r => ~(b <= r /\ r < b + n)
    BY ONLY <1>3, <1>6, <2>2
  <2> QED
    BY ONLY <2>1, <2>3, <2>4, <2>5
<1>17. ASSUME NEW d \in Int, -1 <= d, d < F + n
       PROVE  rows[Wrapped(prep.this_row_group + d)] = Clipped(Base + d)
  <2>1. d < 2 * v
    BY ONLY <1>3, <1>6, <1>17
  <2>2. PICK w \in 0..(3 * V - 1) :
          /\ w = Wrapped(t + d)
          /\ d < F => ~(b <= w /\ w < s)
          /\ d >= F => w = b + (d - F)
          /\ t = 0 /\ d < 0 => w >= 2 * V
          /\ t = 0 /\ d >= 0 => w < 2 * V
    <3>1. TypeOK /\ Records /\ RingHeld /\ image.context /\ d \in Int /\ -1 <= d /\ d < 2 * v
      BY <1>1, <1>2, <1>17, <2>1
    <3>2. /\ Wrapped(prep.this_row_group + d) \in 0..(BufHeight - 1)
          /\ d < Ahead => ~(/\ prep.next_buf_row <= Wrapped(prep.this_row_group + d)
                            /\ Wrapped(prep.this_row_group + d) < prep.next_buf_stop)
          /\ d >= Ahead =>
               Wrapped(prep.this_row_group + d) = prep.next_buf_row + (d - Ahead)
          /\ prep.this_row_group = 0 /\ d < 0 => Wrapped(prep.this_row_group + d) >= 2 * v
          /\ prep.this_row_group = 0 /\ d >= 0 => Wrapped(prep.this_row_group + d) < 2 * v
      BY ONLY <3>1, RingPlaces
    <3> QED
      BY ONLY <1>3, <3>2
  <2>3. /\ P + d \in Int
        /\ P + d >= 0 => Clipped(P + d) = P + d
        /\ P + d <= 0 => Clipped(P + d) = 0
    <3>1. P + d \in Int /\ P + d < H
      BY ONLY <1>3, <1>4, <1>6, <1>11, <1>12, <1>17
    <3> QED
      BY ONLY <1>1, <1>4, <3>1, ClippedRows
  <2>4. CASE F > 0
    <3>1. rows[w] = conv[w]
      BY ONLY <1>3, <1>8, <1>14, <2>4
    <3>2. CASE d < F
      <4>1. color_buf[w] = Clipped(P + d)
        <5>1. Ahead > 0 /\ Ahead \in Int /\ d \in Int /\ -1 <= d /\ d <= Ahead - 1
          BY ONLY <1>3, <1>17, <2>4, <3>2
        <5>2. d \in (-1)..(Ahead - 1)
          BY ONLY <5>1
        <5>3. color_buf[Wrapped(prep.this_row_group + d)] = Clipped(Base + d)
          BY ONLY <1>1, <1>2, <5>1, <5>2 DEF RingHeld
        <5> QED
          BY ONLY <1>3, <1>11, <2>2, <5>3
      <4>2. w < b \/ b + n <= w
        BY ONLY <1>3, <1>6, <2>2, <3>2
      <4> QED
        BY ONLY <1>3, <1>11, <1>16, <2>2, <3>1, <4>1, <4>2
    <3>3. CASE F <= d
      <4>1. b <= w /\ w < b + n /\ F + (w - b) = d
        BY ONLY <1>3, <1>6, <1>17, <2>2, <3>3
      <4>2. conv[w] = P + d
        BY ONLY <1>16, <2>2, <4>1
      <4>3. P + d >= 0
        BY ONLY <1>3, <1>11, <1>17, <3>3
      <4> QED
        BY ONLY <1>3, <1>11, <2>2, <2>3, <3>1, <4>2, <4>3
    <3> QED
      BY ONLY <1>3, <1>17, <3>2, <3>3
  <2>5. CASE F = 0
    <3>1. rows[w] = IF w >= 2 * V THEN conv[0] ELSE conv[w]
      BY ONLY <1>8, <1>14, <1>15, <2>2, <2>5
    <3>2. t = 0 /\ P = 0 /\ b = 0 /\ P + d = d
      BY ONLY <1>13, <1>17, <2>5
    <3>3. CASE d < 0
      <4>1. 0 \in 0..(3 * V - 1) /\ b <= 0 /\ 0 < b + n /\ P + (F + (0 - b)) = 0
        BY ONLY <1>3, <1>6, <2>5, <3>2
      <4>2. conv[0] = 0
        BY ONLY <1>16, <4>1
      <4>3. w >= 2 * V /\ P + d <= 0
        BY ONLY <1>17, <2>2, <3>2, <3>3
      <4> QED
        BY ONLY <1>3, <1>11, <2>2, <2>3, <3>1, <4>2, <4>3
    <3>4. CASE d >= 0
      <4>1. w = d /\ w < 2 * V /\ b <= w /\ w < b + n /\ P + (F + (w - b)) = P + d /\ P + d >= 0
        BY ONLY <1>3, <1>6, <1>17, <2>2, <2>5, <3>2, <3>4
      <4>2. conv[w] = P + d /\ ~(w >= 2 * V)
        BY ONLY <1>3, <1>16, <2>2, <4>1
      <4> QED
        BY ONLY <1>3, <1>11, <2>2, <2>3, <3>1, <4>1, <4>2
    <3> QED
      BY ONLY <1>17, <3>3, <3>4
  <2> QED
    BY ONLY <1>3, <2>4, <2>5
<1>18. prep'.rows_to_go = G - n
  <2>1. prep'.rows_to_go = G - ((R + n) - R)
    BY <1>4, <1>9, <1>10 DEF DownsampleWithContext
  <2> QED
    BY ONLY <1>4, <1>6, <2>1
<1>19. /\ n \in Nat /\ n <= prep.next_buf_stop - prep.next_buf_row /\ Ahead + n > 0
       /\ DOMAIN rows = 0..(BufHeight - 1)
       /\ \A d \in Int : -1 <= d /\ d < Ahead + n =>
            rows[Wrapped(prep.this_row_group + d)] = Clipped(Base + d)
       /\ prep'.rows_to_go > 0 => image.height - prep'.rows_to_go = Base + Ahead + n
       /\ prep'.rows_to_go = 0 => image.height <= Base + Ahead + n
  <2>1. n \in Nat /\ n <= prep.next_buf_stop - prep.next_buf_row /\ Ahead + n > 0
    BY ONLY <1>3, <1>6
  <2>2. /\ DOMAIN rows = 0..(BufHeight - 1)
        /\ image.height - prep'.rows_to_go = Base + Ahead + n
        /\ image.height <= Base + Ahead + n \/ prep'.rows_to_go # 0
    BY ONLY <1>3, <1>4, <1>6, <1>11, <1>12, <1>15, <1>18
  <2> QED
    BY <1>3, <1>17, <2>1, <2>2, Zenon
<1> QED
  BY <1>2, <1>9, <1>19, RingGoesOn

\* Below the bottom the last row of the image is repeated.
LEMMA PadContextScan == IInv /\ CInv /\ PadContext => CInv'
<1> SUFFICES ASSUME IInv, CInv, PadContext PROVE CInv'
  OBVIOUS
<1>1. TypeOK /\ Records /\ RingHeld
  BY DEF IInv, CInv
<1>2. /\ Filling /\ image.context /\ prep.rows_to_go = 0 /\ call' = call
      /\ UNCHANGED <<image, pc, coef, entropy, out>>
  BY DEF PadContext
<1>3. PICK V \in Nat \ {0}, t \in Nat, s \in Nat, b \in Nat, F \in Nat :
        /\ V = v /\ BufHeight = 3 * V /\ t = prep.this_row_group
        /\ s = prep.next_buf_stop /\ b = prep.next_buf_row /\ F = Ahead
        /\ s - b = 2 * V - F /\ F < 2 * V
        /\ \/ t = 0 /\ s = 2 * V
           \/ t = V /\ s = 3 * V
           \/ t = 2 * V /\ s = V
  BY <1>1, <1>2, RingNumbers
<1>4. PICK H \in Nat \ {0} : H = image.height
  BY <1>1, ImageFacts
<1>5. PICK P \in Nat : P = Base /\ H <= P + F
  <2>1. Base \in Nat
    <3>1. /\ main.cur_iMCU_row \in Nat /\ main.rowgroup_ctr \in Nat /\ DCTSIZE \in Nat
      BY <1>1, ImageFacts DEF Records, TypeOK
    <3>2. PICK c \in Nat, g \in Nat, D \in Nat :
            c = main.cur_iMCU_row /\ g = main.rowgroup_ctr /\ D = DCTSIZE
      BY ONLY <3>1
    <3>3. c * (D * V) + g * V \in Nat
      BY ONLY <1>3, <3>2
    <3> QED
      BY ONLY <1>3, <3>2, <3>3 DEF Base, Start
  <2>2. H <= Base + F
    BY <1>1, <1>2, <1>3, <1>4 DEF RingHeld
  <2> QED
    BY ONLY <2>1, <2>2
<1>6. F > 0
  <2>1. F < V => P = 0
    BY <1>1, <1>2, <1>3, <1>5 DEF RingHeld
  <2> QED
    BY ONLY <1>3, <1>4, <1>5, <2>1
<1>7. PICK last : last = color_buf[Wrapped(b - 1)]
  OBVIOUS
<1>8. PICK rows : rows = [r \in DOMAIN color_buf |-> IF r \in b..(s - 1) THEN last ELSE color_buf[r]]
  OBVIOUS
<1>9. DownsampleWithContext(rows, prep.next_buf_stop)
  BY <1>3, <1>7, <1>8 DEF PadContext
<1>10. last = H - 1
  <2>1. PICK d \in Int : d = F - 1 /\ -1 <= d /\ d <= F - 1 /\ d \in (-1)..(F - 1)
    BY ONLY <1>3, <1>6
  <2>2. Wrapped(b - 1) = Wrapped(t + d)
    BY <1>1, <1>2, <1>3, <1>6, <2>1, RingTurns
  <2>3. color_buf[Wrapped(t + d)] = Clipped(P + d)
    BY <1>1, <1>2, <1>3, <1>5, <1>6, <2>1 DEF RingHeld
  <2>4. P + d \in Int /\ P + d >= H - 1
    BY ONLY <1>3, <1>4, <1>5, <2>1
  <2>5. Clipped(P + d) = H - 1
    BY ONLY <1>1, <1>4, <2>4, ClippedRows
  <2> QED
    BY ONLY <1>7, <2>2, <2>3, <2>5
<1>11. ASSUME NEW d \in Int, -1 <= d, d < 2 * V
       PROVE  rows[Wrapped(prep.this_row_group + d)] = Clipped(Base + d)
  <2>1. PICK w \in 0..(3 * V - 1) :
          /\ w = Wrapped(t + d)
          /\ d < F => ~(b <= w /\ w < s)
          /\ d >= F => w = b + (d - F)
    <3>1. TypeOK /\ Records /\ RingHeld /\ image.context /\ d \in Int /\ -1 <= d /\ d < 2 * v
      BY <1>1, <1>2, <1>3, <1>11
    <3>2. /\ Wrapped(prep.this_row_group + d) \in 0..(BufHeight - 1)
          /\ d < Ahead => ~(/\ prep.next_buf_row <= Wrapped(prep.this_row_group + d)
                            /\ Wrapped(prep.this_row_group + d) < prep.next_buf_stop)
          /\ d >= Ahead =>
               Wrapped(prep.this_row_group + d) = prep.next_buf_row + (d - Ahead)
      BY ONLY <3>1, RingPlaces
    <3> QED
      BY ONLY <1>3, <3>2
  <2>2. rows[w] = IF w \in b..(s - 1) THEN last ELSE color_buf[w]
    <3>1. w \in DOMAIN color_buf
      BY <1>3, <2>1 DEF CInv
    <3> QED
      BY ONLY <1>8, <3>1
  <2>3. CASE d < F
    <3>1. w \notin b..(s - 1)
      BY ONLY <1>3, <2>1, <2>3
    <3>2. Ahead > 0 /\ d \in (-1)..(Ahead - 1)
      BY ONLY <1>3, <1>6, <1>11, <2>3
    <3>3. color_buf[Wrapped(prep.this_row_group + d)] = Clipped(Base + d)
      BY ONLY <1>1, <1>2, <3>2 DEF RingHeld
    <3> QED
      BY ONLY <1>3, <2>1, <2>2, <3>1, <3>3
  <2>4. CASE F <= d
    <3>1. w \in b..(s - 1)
      BY ONLY <1>3, <1>11, <2>1, <2>4
    <3>2. P + d \in Int /\ P + d >= H - 1
      BY ONLY <1>3, <1>4, <1>5, <1>11, <2>4
    <3>3. Clipped(P + d) = H - 1
      BY ONLY <1>1, <1>4, <3>2, ClippedRows
    <3> QED
      BY ONLY <1>3, <1>5, <1>10, <2>1, <2>2, <3>1, <3>3
  <2> QED
    BY ONLY <1>3, <1>11, <2>3, <2>4
<1>12. PICK n \in Nat : n = s - b /\ F + n = 2 * V /\ b + n = s
  BY ONLY <1>3
<1>13. prep'.rows_to_go = 0
  <2>1. prep'.rows_to_go = 0 - (call.row_ctr - call.row_ctr)
    BY <1>2, <1>9 DEF DownsampleWithContext
  <2>2. call.row_ctr \in Int
    BY <1>1 DEF Records
  <2> QED
    BY ONLY <2>1, <2>2
<1>14. /\ n \in Nat /\ n <= prep.next_buf_stop - prep.next_buf_row /\ Ahead + n > 0
       /\ DOMAIN rows = 0..(BufHeight - 1)
       /\ \A d \in Int : -1 <= d /\ d < Ahead + n =>
            rows[Wrapped(prep.this_row_group + d)] = Clipped(Base + d)
       /\ prep'.rows_to_go > 0 => image.height - prep'.rows_to_go = Base + Ahead + n
       /\ prep'.rows_to_go = 0 => image.height <= Base + Ahead + n
       /\ DownsampleWithContext(rows, prep.next_buf_row + n)
  <2>1. n \in Nat /\ n <= prep.next_buf_stop - prep.next_buf_row /\ Ahead + n > 0
    BY ONLY <1>3, <1>6, <1>12
  <2>2. DOMAIN rows = 0..(BufHeight - 1)
    BY ONLY <1>8, CInv DEF CInv
  <2>3. \A d \in Int : -1 <= d /\ d < Ahead + n =>
            rows[Wrapped(prep.this_row_group + d)] = Clipped(Base + d)
    BY <1>3, <1>11, <1>12, Zenon
  <2>4. ~(prep'.rows_to_go > 0) /\ image.height <= Base + Ahead + n
    BY ONLY <1>3, <1>4, <1>5, <1>12, <1>13
  <2>5. DownsampleWithContext(rows, prep.next_buf_row + n)
    BY <1>3, <1>9, <1>12, Zenon
  <2> QED
    BY <2>1, <2>2, <2>3, <2>4, <2>5, Zenon
<1> QED
  BY <1>2, <1>14, RingGoesOn

-----------------------------------------------------------------------------

LEMMA NextScan == IInv /\ CInv /\ [Next]_vars => CInv'
<1> SUFFICES ASSUME IInv, CInv, [Next]_vars PROVE CInv'
  OBVIOUS
<1>1. ASSUME UNCHANGED <<image, prepVars, coef, entropy, out>>,
             main'.cur_iMCU_row = main.cur_iMCU_row,
             main'.rowgroup_ctr = main.rowgroup_ctr,
             pc' = "finished" => ~MoreImcuRows
      PROVE  CInv'
  BY <1>1, StaysScan
<1>2. CASE UNCHANGED vars
  <2>1. UNCHANGED <<image, pc, prepVars, main, coef, entropy, out>>
    BY <1>2 DEF vars
  <2>2. pc' = "finished" => ~MoreImcuRows
    BY <2>1 DEF CInv, InStep
  <2> QED
    BY <1>1, <2>1, <2>2
<1>3. CASE WriteScanlines
  BY <1>1, <1>3 DEF WriteScanlines
<1>4. CASE PreProcessData
  BY <1>4, PreProcessDataScan
<1>5. CASE PreProcessContext
  BY <1>5, PreProcessContextScan
<1>6. CASE PadContext
  BY <1>6, PadContextScan
<1>7. CASE NeedMoreData
  BY <1>1, <1>7 DEF NeedMoreData, ReturnToApp
<1>8. CASE EncodeMcu
  BY <1>8, EncodeMcuScan
<1>9. CASE Suspend
  <2>1. /\ UNCHANGED <<image, prepVars, coef, entropy, out>> /\ pc' = "app"
        /\ main' = [main EXCEPT !.suspended = TRUE]
    BY <1>9 DEF Suspend, ReturnToApp
  <2>2. main \in [cur_iMCU_row : Nat, rowgroup_ctr : Int, suspended : BOOLEAN]
    BY DEF IInv, Records
  <2>3. main'.cur_iMCU_row = main.cur_iMCU_row /\ main'.rowgroup_ctr = main.rowgroup_ctr
    BY ONLY <2>1, <2>2
  <2> QED
    BY <1>1, <2>1, <2>3
<1>10. CASE ImcuRowDone
  BY <1>10, ImcuRowDoneScan
<1>11. CASE FinishCompress
  <2>1. ~MoreImcuRows
    BY <1>11 DEF FinishCompress, IInv, DoneMeansWritten
  <2> QED
    BY <1>1, <1>11, <2>1 DEF FinishCompress
<1>12. CASE FinishTooEarly
  BY <1>1, <1>12 DEF FinishTooEarly
<1>13. CASE Stopped
  BY <1>2, <1>13 DEF Stopped
<1> QED
  BY <1>2, <1>3, <1>4, <1>5, <1>6, <1>7, <1>8, <1>9, <1>10, <1>11, <1>12, <1>13
     DEF Next, Process

\* When the last iMCU row is done, all MCUs are.
LEMMA AllMcusDone ==
  ASSUME TypeOK, InStep, ~MoreImcuRows, main.cur_iMCU_row \in Nat
  PROVE  McusDone = McuCount /\ McuCount \in Nat \ {0}
<1>1. /\ v \in Nat \ {0} /\ image.columns \in Nat \ {0} /\ image.interleaved \in BOOLEAN
      /\ TotalImcuRows \in Nat \ {0} /\ HeightInBlocks \in Nat
      /\ HeightInBlocks = (TotalImcuRows - 1) * v + LastRowHeight
      /\ LastRowHeight \in 1..v
  BY ImageFacts, BlockRowsOfImage
<1>2. main.cur_iMCU_row = TotalImcuRows
  BY <1>1 DEF InStep, MoreImcuRows
<1>3. coef.MCU_vert_offset = 0 /\ coef.mcu_ctr = 0
  BY DEF InStep
<1>4. PICK R \in Nat \ {0} :
        R = (IF image.interleaved THEN TotalImcuRows ELSE HeightInBlocks)
  <2>1. PICK a \in Nat, L \in Nat \ {0} : L = LastRowHeight /\ a = (TotalImcuRows - 1) * v
    <3>1. PICK T \in Nat : T = TotalImcuRows - 1
      BY ONLY <1>1
    <3>2. PICK V \in Nat : V = v
      BY ONLY <1>1
    <3>3. T * V \in Nat
      OBVIOUS
    <3>4. LastRowHeight \in Nat \ {0}
      BY ONLY <1>1
    <3> QED
      BY <3>1, <3>2, <3>3, <3>4
  <2>2. HeightInBlocks \in Nat \ {0}
    BY ONLY <1>1, <2>1
  <2> QED
    BY <1>1, <2>2
<1>5. RowsBefore(main.cur_iMCU_row) = R
  BY <1>1, <1>2, <1>4 DEF RowsBefore
<1>6. McusDone = (R + 0) * image.columns + 0
  BY <1>3, <1>5 DEF McusDone
<1>7. McuCount = image.columns * R
  BY <1>4 DEF McuCount
<1>8. PICK W \in Nat \ {0} : W = image.columns
  BY <1>1
<1>9. (R + 0) * W + 0 = W * R /\ W * R \in Nat \ {0}
  BY ONLY <1>4, <1>8, MulPositive
<1> QED
  BY <1>6, <1>7, <1>8, <1>9

\* A scan that does not end with a marker has one for each interval begun.
LEMMA MarkersOfScan ==
  ASSUME NEW I \in Nat, I = image.interval, NEW n \in Nat, NEW M \in Nat \ {0},
         n = M + Markers(n), I > 0 => Rest(n) # 0
  PROVE  Markers(n) = IF I > 0 THEN (M - 1) \div I ELSE 0
<1>1. CASE I = 0
  BY <1>1 DEF Markers
<1>2. CASE I > 0
  <2>1. PICK q \in Nat, j \in 0..I :
          /\ n = q * (I + 1) + j /\ n \div (I + 1) = q /\ n % (I + 1) = j
    BY PlaceSplit
  <2>2. Markers(n) = q /\ j \in 1..I
    BY <1>2, <2>1 DEF Markers, Rest
  <2>3. PICK a \in Nat : a = q * I /\ a = I * q /\ q * (I + 1) = a + q
    OBVIOUS
  <2>4. M - 1 \in Nat /\ a <= M - 1 /\ M - 1 < a + I
    BY ONLY <1>2, <2>1, <2>2, <2>3, M \in Nat \ {0}, n = M + Markers(n), I \in Nat
  <2>5. I \in Nat \ {0} /\ I * q <= M - 1 /\ M - 1 < I * q + I
    BY ONLY <1>2, <2>3, <2>4
  <2>6. (M - 1) \div I = q
    BY ONLY <2>4, <2>5, q \in Nat, DivUnique
  <2> QED
    BY <1>2, <2>2, <2>6
<1> QED
  BY <1>1, <1>2

\* What is in color_buf, in the main controller's buffer and in the scan is
\* what the image has there, and the coders' counters are those of the scan.
THEOREM ScanInductive == Spec => [](IInv /\ CInv)
<1>1. Init => IInv /\ CInv
  BY InitInv, InitScan
<1>2. (IInv /\ CInv) /\ [Next]_vars => (IInv /\ CInv)'
  BY NextInv, NextScan
<1> QED
  BY <1>1, <1>2, PTL DEF Spec

\* However the scanlines are split over the calls of jpeg_write_scanlines and
\* wherever the destination suspends, the finished scan is the reference: every
\* MCU from its own place in the image, padded at the edges, and a restart
\* marker before every interval'th, numbered modulo RST_CYCLE.
THEOREM ScanIsTheReference == Spec => []ScanIsReference
<1>1. ASSUME IInv, CInv, pc = "finished" PROVE out = Reference
  <2>1. TypeOK /\ InStep /\ Scanned /\ ~MoreImcuRows /\ main.cur_iMCU_row \in Nat
    BY <1>1 DEF IInv, CInv, InStep, Records
  <2>2. McusDone = McuCount /\ McuCount \in Nat \ {0}
    BY <2>1, AllMcusDone
  <2>3. PICK I \in Nat, n \in Nat, M \in Nat \ {0}, k \in Nat :
          /\ I = image.interval /\ n = Len(out) /\ M = McuCount /\ k = Markers(n)
    <3>1. image.interval \in Nat
      BY <2>1, ImageFacts
    <3>2. Len(out) \in Nat
      BY <2>1 DEF Scanned
    <3>3. Markers(Len(out)) \in Nat
      BY <3>1, <3>2, MarkersOfNext
    <3> QED
      BY <2>2, <3>1, <3>2, <3>3, Zenon
  <2>4. n = M + k
    BY <2>1, <2>2, <2>3 DEF Scanned
  <2>5. I > 0 => Rest(n) # 0
    <3>1. n # 0
      BY ONLY <2>3, <2>4
    <3> QED
      BY <2>1, <2>3, <3>1 DEF Scanned
  <2>6. Markers(n) = IF I > 0 THEN (M - 1) \div I ELSE 0
    BY <2>3, <2>4, <2>5, MarkersOfScan
  <2>7. Reference = [i \in 1..n |-> TokenAt(i)]
    <3>1. Reference = [i \in 1..(M + Markers(n)) |-> TokenAt(i)]
      BY <2>3, <2>6 DEF Reference
    <3> QED
      BY <2>3, <2>4, <3>1
  <2>8. out = [i \in 1..n |-> out[i]]
    BY <2>1, <2>3 DEF Scanned
  <2>9. \A i \in 1..n : out[i] = TokenAt(i)
    BY <2>1, <2>3 DEF Scanned
  <2> QED
    BY <2>7, <2>8, <2>9
<1>2. IInv /\ CInv => ScanIsReference
  BY <1>1 DEF ScanIsReference
<1> QED
  BY <1>2, ScanInductive, PTL

=============================================================================
