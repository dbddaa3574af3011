--------------------------- MODULE AdaptiveProofs ---------------------------
(***************************************************************************)
(* Theorems about the sequential parts of the adaptive encoder: the plan   *)
(* of the strips (StripBounds), the memory of one strip (StripBuffer) and  *)
(* the program around the encoder (AdaptiveEncode).                        *)
(*                                                                         *)
(* The strips partition the image, start on MCU rows, are never empty, fit *)
(* the caller's array, and their own MCU rows are those of the image.  A   *)
(* strip's stream survives any number of growths of its buffer, a success  *)
(* hands over exactly one block, a failure leaves no pointer.  The program *)
(* only encodes whole images and releases what it holds on every exit.     *)
(***************************************************************************)
EXTENDS StripBounds, StripBuffer, AdaptiveEncode, ArithmeticProofs, TLAPS

-----------------------------------------------------------------------------
(* StripBounds: the inductive invariant.                                   *)

\* Once made, the plan is the one the arguments determine.
PlanInv ==
  /\ mcu_row_height = McuRowHeight(max_v_samp_factor)
  /\ total_mcu_rows = McuRows(image_height, mcu_row_height)
  /\ n = StripCount(total_mcu_rows, num_threads)
  /\ mcu_rows_per_strip = McuRowsPerStrip(total_mcu_rows, n)

Stride == mcu_rows_per_strip * mcu_row_height

\* The closed form of the loop: strip k starts at k strides, and all but the
\* last are one stride tall.
LoopInv ==
  /\ rows_done = IF i = n THEN image_height ELSE i * Stride
  /\ \A k \in DOMAIN strips :
       strips[k] = [start_row |-> k * Stride,
                    num_rows  |-> IF k = n - 1 THEN image_height - k * Stride
                                  ELSE Stride]

BoundsIInv ==
  /\ BoundsTypeOK
  /\ bpc = "setup" => i = 0
  /\ bpc # "setup" => PlanInv /\ LoopInv
  /\ bpc = "done" => i = n

\* What the arithmetic lemmas say of a state in which the plan is made.
LEMMA PlanFacts ==
  ASSUME BoundsTypeOK, PlanInv
  PROVE  /\ n <= AtLeastOne(num_threads)
         /\ Stride \in Nat \ {0}
         /\ image_height \in Nat
         /\ \A k \in 0..(n - 1) :
              /\ k * Stride \in Nat
              /\ k * Stride <= image_height
              /\ image_height > 0 => k * Stride < image_height
              /\ k < n - 1 => (k + 1) * Stride < image_height
<1>1. /\ image_height \in Nat /\ num_threads \in Int
      /\ mcu_row_height \in Nat \ {0} /\ total_mcu_rows \in Nat
      /\ n \in Nat \ {0} /\ mcu_rows_per_strip \in Nat \ {0}
  BY InputAssumption DEF BoundsTypeOK
<1>2. /\ n <= AtLeastOne(num_threads)
      /\ total_mcu_rows > 0 => n * mcu_rows_per_strip <= total_mcu_rows
      /\ total_mcu_rows = 0 => n = 1
  BY <1>1, PlanFits DEF PlanInv
<1>3. Stride \in Nat \ {0}
  BY <1>1, MulPositive DEF Stride
<1>4. ASSUME NEW k \in 0..(n - 1)
      PROVE  /\ k * Stride \in Nat
             /\ k * Stride <= image_height
             /\ image_height > 0 => k * Stride < image_height
             /\ k < n - 1 => (k + 1) * Stride < image_height
  BY <1>1, <1>2, BoundariesInside DEF Stride, PlanInv
<1> QED
  BY <1>1, <1>2, <1>3, <1>4

\* No step changes what BoundsIInv says: Setup makes the plan, and an iteration of
\* the loop adds one strip in closed form.
THEOREM BoundsInductive == BoundsSpec => []BoundsIInv
<1>1. BoundsInit => BoundsIInv
  BY InputAssumption DEF BoundsInit, BoundsIInv, BoundsTypeOK, PlanInv, LoopInv, Strip
<1>2. BoundsIInv /\ [BoundsNext]_boundsVars => BoundsIInv'
  <2> SUFFICES ASSUME BoundsIInv, [BoundsNext]_boundsVars
               PROVE  BoundsIInv'
    OBVIOUS
  <2>1. CASE Setup
    <3>1. image_height \in Nat /\ num_threads \in Int /\ max_v_samp_factor \in Int
      BY InputAssumption DEF BoundsIInv, BoundsTypeOK
    <3>2. mcu_row_height' \in Nat \ {0}
      BY <2>1, <3>1, DctsizeAssumption, MulPositive DEF Setup, McuRowHeight, AtLeastOne
    <3>3. total_mcu_rows' \in Nat
      BY <2>1, <3>1, <3>2, McuRowsBounds DEF Setup, TotalMcuRows
    <3>4. n' \in Nat \ {0} /\ mcu_rows_per_strip' \in Nat \ {0}
      BY <2>1, <3>1, <3>3, PlanFits DEF Setup
    <3>5. strips = [k \in {} |-> 0] /\ strips' = strips /\ i = 0 /\ i' = 0
      BY <2>1 DEF Setup, BoundsIInv, BoundsTypeOK
    <3>6. BoundsTypeOK'
      BY <2>1, <3>2, <3>3, <3>4, <3>5 DEF Setup, BoundsIInv, BoundsTypeOK, args
    <3>7. PlanInv'
      BY <2>1 DEF Setup, PlanInv, args, TotalMcuRows
    <3>8. LoopInv'
      BY <2>1, <3>2, <3>4, <3>5 DEF Setup, LoopInv, Stride
    <3> QED
      BY <2>1, <3>6, <3>7, <3>8 DEF Setup, BoundsIInv
  <2>2. CASE Fill
    <3>1. BoundsTypeOK /\ PlanInv /\ LoopInv /\ bpc = "fill" /\ i < n
      BY <2>2 DEF Fill, BoundsIInv
    <3>2. /\ Stride \in Nat \ {0} /\ image_height \in Nat
          /\ i \in 0..(n - 1) /\ n \in Nat \ {0}
          /\ i * Stride \in Nat
          /\ i * Stride <= image_height
          /\ i < n - 1 => (i + 1) * Stride < image_height
      <4>1. i \in 0..(n - 1) /\ n \in Nat \ {0}
        BY <3>1 DEF BoundsTypeOK
      <4> QED
        BY <3>1, <4>1, PlanFacts
    <3>3. rows_done = i * Stride
      BY <3>1, <3>2 DEF LoopInv
    <3>4. (i + 1) * Stride = i * Stride + Stride
      BY <3>2
    <3>5. EndRow = IF i = n - 1 THEN image_height ELSE (i + 1) * Stride
      BY <3>2, <3>3, <3>4 DEF EndRow, Stride
    <3>6. EndRow \in Nat /\ EndRow - rows_done \in Nat
      BY <3>2, <3>3, <3>4, <3>5
    <3>7. /\ rows_done' = EndRow /\ i' = i + 1
          /\ UNCHANGED <<args, plan, bpc>> /\ Stride' = Stride
          /\ DOMAIN strips = 0..(i - 1)
          /\ strips' = [k \in 0..i |->
                          IF k = i THEN [start_row |-> rows_done,
                                         num_rows  |-> EndRow - rows_done]
                          ELSE strips[k]]
      BY <2>2, <3>1, <3>2 DEF Fill, BoundsTypeOK, plan, Stride
    <3>8. BoundsTypeOK'
      <4>1. i' \in 0..n' /\ rows_done' \in Nat
        BY <3>2, <3>6, <3>7 DEF plan
      <4>2. strips' \in [0..(i' - 1) -> Strip]
        BY <3>1, <3>2, <3>3, <3>6, <3>7 DEF BoundsTypeOK, Strip
      <4> QED
        BY <3>1, <3>7, <4>1, <4>2 DEF BoundsTypeOK, args, plan
    <3>9. PlanInv'
      BY <3>1, <3>7 DEF PlanInv, args, plan
    <3>10. LoopInv'
      <4>1. rows_done' = IF i' = n' THEN image_height' ELSE i' * Stride'
        BY <3>2, <3>5, <3>7 DEF args, plan
      <4>2. ASSUME NEW k \in 0..i
            PROVE  strips'[k] = [start_row |-> k * Stride,
                                 num_rows  |-> IF k = n - 1
                                               THEN image_height - k * Stride
                                               ELSE Stride]
        <5>1. CASE k = i
          BY <3>2, <3>3, <3>4, <3>5, <3>7, <5>1
        <5>2. CASE k # i
          BY <3>1, <3>2, <3>7, <5>2 DEF LoopInv
        <5> QED
          BY <5>1, <5>2
      <4> QED
        BY <3>7, <4>1, <4>2 DEF LoopInv, args, plan
    <3> QED
      BY <3>1, <3>7, <3>8, <3>9, <3>10 DEF BoundsIInv
  <2>3. CASE Return
    BY <2>3 DEF Return, BoundsIInv, BoundsTypeOK, PlanInv, LoopInv, Stride, args, plan
  <2>4. CASE UNCHANGED boundsVars
    BY <2>4 DEF boundsVars, BoundsIInv, BoundsTypeOK, PlanInv, LoopInv, Stride, args, plan
  <2> QED
    BY <2>1, <2>2, <2>3, <2>4 DEF BoundsNext, Done
<1> QED
  BY <1>1, <1>2, PTL DEF BoundsSpec

\* Every variable keeps its type and no unsigned row count wraps below zero,
\* for every input.
THEOREM BoundsTypeCorrect == BoundsSpec => []BoundsTypeOK
<1>1. BoundsIInv => BoundsTypeOK
  BY DEF BoundsIInv
<1> QED
  BY <1>1, BoundsInductive, PTL

-----------------------------------------------------------------------------
(* The properties, from the closed form.                                   *)

\* Before the plan is made no strip has been written.
LEMMA ClosedForm ==
  ASSUME BoundsIInv
  PROVE  /\ DOMAIN strips = 0..(i - 1) /\ i \in 0..n /\ n \in Nat \ {0}
         /\ DOMAIN strips # {} => BoundsTypeOK /\ PlanInv /\ LoopInv
  BY DEF BoundsIInv, BoundsTypeOK

\* The strips returned partition the image's scanlines, whatever its height,
\* the sampling factor and the number of threads.
THEOREM StripsPartition == BoundsSpec => []Partition
<1>1. BoundsIInv => Partition
  <2> SUFFICES ASSUME BoundsIInv
               PROVE  Partition
    OBVIOUS
  <2>1. ASSUME NEW k \in DOMAIN strips
        PROVE  strips[k].start_row =
                 IF k = 0 THEN 0
                 ELSE strips[k - 1].start_row + strips[k - 1].num_rows
    <3>1. k \in 0..(n - 1) /\ k \in 0..(i - 1) /\ n \in Nat \ {0} /\ i \in 0..n
      BY <2>1, ClosedForm
    <3>2. PlanInv /\ LoopInv /\ Stride \in Nat
      BY <2>1, ClosedForm, PlanFacts
    <3>3. strips[k].start_row = k * Stride
      BY <2>1, <3>2 DEF LoopInv
    <3>4. CASE k = 0
      BY <3>2, <3>3, <3>4
    <3>5. CASE k # 0
      <4>1. k - 1 \in 0..(i - 1) /\ k - 1 # n - 1
        BY <3>1, <3>5
      <4>2. strips[k - 1].start_row = (k - 1) * Stride /\ strips[k - 1].num_rows = Stride
        BY <4>1, <3>2, ClosedForm DEF LoopInv
      <4>3. (k - 1) * Stride + Stride = k * Stride
        BY <3>1, <3>2
      <4> QED
        BY <3>3, <3>5, <4>2, <4>3
    <3> QED
      BY <3>4, <3>5
  <2>2. ASSUME bpc = "done"
        PROVE  strips[n - 1].start_row + strips[n - 1].num_rows = image_height
    <3>1. n - 1 \in DOMAIN strips /\ n - 1 \in 0..(n - 1)
      BY <2>2, ClosedForm DEF BoundsIInv
    <3>2. LoopInv /\ (n - 1) * Stride \in Nat /\ image_height \in Nat
      BY <3>1, ClosedForm, PlanFacts
    <3>3. /\ strips[n - 1].start_row = (n - 1) * Stride
          /\ strips[n - 1].num_rows = image_height - (n - 1) * Stride
      BY <3>1, <3>2 DEF LoopInv
    <3> QED
      BY <3>2, <3>3
  <2> QED
    BY <2>1, <2>2 DEF Partition
<1> QED
  BY <1>1, BoundsInductive, PTL

\* Every strip starts on a row of MCUs.
THEOREM StripsAligned == BoundsSpec => []Aligned
<1>1. BoundsIInv => Aligned
  <2> SUFFICES ASSUME BoundsIInv, NEW k \in DOMAIN strips
               PROVE  strips[k].start_row % mcu_row_height = 0
    BY DEF Aligned
  <2>1. /\ k \in Nat /\ mcu_rows_per_strip \in Nat /\ mcu_row_height \in Nat \ {0}
    BY ClosedForm DEF BoundsTypeOK
  <2>2. strips[k].start_row = (k * mcu_rows_per_strip) * mcu_row_height
    <3>1. strips[k].start_row = k * Stride
      BY ClosedForm DEF LoopInv
    <3> QED
      BY <2>1, <3>1 DEF Stride
  <2>3. k * mcu_rows_per_strip \in Nat
    BY <2>1
  <2> QED
    BY <2>1, <2>2, <2>3, ModOfMultiple
<1> QED
  BY <1>1, BoundsInductive, PTL

\* No strip of a non-empty image is empty, and none lies outside the array of
\* num_threads elements.
THEOREM StripsHaveRows == BoundsSpec => []StripsNonEmpty
<1>1. BoundsIInv => StripsNonEmpty
  <2> SUFFICES ASSUME BoundsIInv, NEW k \in DOMAIN strips
               PROVE  /\ image_height > 0 => strips[k].num_rows > 0
                      /\ k < AtLeastOne(num_threads)
    BY DEF StripsNonEmpty
  <2>1. BoundsTypeOK /\ PlanInv /\ LoopInv /\ k \in 0..(n - 1) /\ n \in Nat \ {0}
    BY ClosedForm
  <2>2. /\ Stride \in Nat \ {0} /\ image_height \in Nat /\ k * Stride \in Nat
        /\ n <= AtLeastOne(num_threads)
        /\ image_height > 0 => k * Stride < image_height
    BY <2>1, PlanFacts
  <2>3. strips[k].num_rows = IF k = n - 1 THEN image_height - k * Stride ELSE Stride
    BY <2>1 DEF LoopInv
  <2>4. AtLeastOne(num_threads) \in Int
    BY InputAssumption DEF BoundsIInv, BoundsTypeOK, AtLeastOne
  <2> QED
    BY <2>1, <2>2, <2>3, <2>4
<1> QED
  BY <1>1, BoundsInductive, PTL

\* The MCU rows of the strips, each rounded up on its own, are the MCU rows of
\* the image: a strip's padding never adds one.
THEOREM StripMcuRowsAddUp == BoundsSpec => []McuRowsAddUp
<1>1. BoundsIInv => McuRowsAddUp
  <2> SUFFICES ASSUME BoundsIInv, NEW k \in DOMAIN strips
               PROVE  strips[k].start_row \div mcu_row_height
                        + McuRows(strips[k].num_rows, mcu_row_height) =
                        IF k = n - 1 THEN total_mcu_rows
                        ELSE (strips[k].start_row + strips[k].num_rows)
                               \div mcu_row_height
    BY DEF McuRowsAddUp
  <2> DEFINE h   == mcu_row_height
             per == mcu_rows_per_strip
             H   == image_height
  <2>1. /\ BoundsTypeOK /\ PlanInv /\ LoopInv
        /\ k \in 0..(n - 1) /\ n \in Nat \ {0}
        /\ h \in Nat \ {0} /\ per \in Nat \ {0} /\ H \in Nat
    <3>1. BoundsTypeOK /\ PlanInv /\ LoopInv /\ k \in 0..(n - 1) /\ n \in Nat \ {0}
      BY ClosedForm
    <3>2. h \in Nat \ {0} /\ per \in Nat \ {0} /\ H \in Nat
      BY <3>1, InputAssumption DEF BoundsTypeOK
    <3> QED
      BY <3>1, <3>2
  <2>2. /\ strips[k].start_row = k * Stride
        /\ strips[k].num_rows = IF k = n - 1 THEN H - k * Stride ELSE Stride
        /\ k * Stride \in Nat /\ k * Stride <= H /\ Stride \in Nat
    BY <2>1, PlanFacts DEF LoopInv
  <2>3. k * per \in Nat /\ k * Stride = h * (k * per) /\ Stride = h * per
    BY <2>1 DEF Stride
  <2>4. strips[k].start_row \div h = k * per
    BY <2>1, <2>2, <2>3, DivUnique
  <2>5. CASE k # n - 1
    <3>1. McuRows(Stride, h) = per
      BY <2>1, <2>2, <2>3, McuRowsUnique
    <3>2. k * Stride + Stride = h * (k * per + per)
      BY <2>1, <2>3
    <3>3. (k * Stride + Stride) \div h = k * per + per
      BY <2>1, <2>2, <2>3, <3>2, DivUnique
    <3> QED
      BY <2>2, <2>4, <2>5, <3>1, <3>3
  <2>6. CASE k = n - 1
    <3>1. /\ total_mcu_rows \in Nat
          /\ H <= h * total_mcu_rows /\ h * total_mcu_rows < H + h
      BY <2>1, McuRowsBounds DEF PlanInv
    <3>2. H - k * Stride \in Nat
      BY <2>1, <2>2
    <3>3. k * per <= total_mcu_rows
      <4>1. h * (k * per) <= h * total_mcu_rows
        BY <2>1, <2>2, <2>3, <3>1
      <4> QED
        BY <2>1, <2>3, <3>1, <4>1
    <3>4. total_mcu_rows - k * per \in Nat
      BY <2>3, <3>1, <3>3
    <3>5. h * (total_mcu_rows - k * per) = h * total_mcu_rows - k * Stride
      BY <2>1, <2>3, <3>1
    <3>6. McuRows(H - k * Stride, h) = total_mcu_rows - k * per
      BY <2>1, <2>2, <3>1, <3>2, <3>4, <3>5, McuRowsUnique
    <3> QED
      BY <2>2, <2>3, <2>4, <2>6, <3>1, <3>6
  <2> QED
    BY <2>5, <2>6
<1> QED
  BY <1>1, BoundsInductive, PTL

-----------------------------------------------------------------------------
(* StripBuffer.                                                            *)

Dest == [newbuffer : Nat, buffer : Nat, bufsize : Nat, free : Nat]

\* Before the scan at most the first buffer exists, and it is empty.
BeforeScan ==
  /\ pc = "create" => /\ mallocs = 0 /\ live = {} /\ jpeg_buf = NULL
                      /\ jpeg_size = 0 /\ written = 0
  /\ pc = "setup" => /\ mallocs = 1 /\ live = {1} /\ dest.buffer = 1
                     /\ filled[1] = 0 /\ written = 0
                     /\ dest.free = dest.bufsize

\* During the scan the youngest block is the only live one.
OneBlock ==
  /\ pc = "scan" => /\ mallocs > 0 /\ dest.buffer = mallocs /\ live = {mallocs}
  /\ pc \in {"setup", "scan"} => dest.bufsize > 0 /\ jpeg_buf = 1

\* The handler knows the first buffer alone, whichever is the live one.
InHandler ==
  pc = "handler" =>
    \/ mallocs = 0 /\ live = {} /\ jpeg_buf = NULL
    \/ mallocs > 0 /\ live = {mallocs} /\ dest.buffer = mallocs /\ jpeg_buf = 1

\* A value is returned exactly when the call has returned.
RetSet == ret = "none" <=> pc # "returned"

BufferIInv ==
  /\ BufferTypeOK
  /\ dest \in Dest
  /\ BeforeScan
  /\ OneBlock
  /\ InHandler
  /\ RetSet
  /\ NothingLost
  /\ SuccessHandsOver
  /\ LossOnlyAfterGrowth

-----------------------------------------------------------------------------

\* The call starts in a state of the invariant.
LEMMA BufferInitIInv == BufferInit => BufferIInv
<1>. SUFFICES ASSUME BufferInit PROVE BufferIInv
  OBVIOUS
<1>. USE SizeAssumption DEF BufferInit, NULL
<1>1. filled \in [1..mallocs -> Nat]
  <2>1. 1..0 = {}
    OBVIOUS
  <2>. QED  BY <2>1
<1>2. BufferTypeOK /\ dest \in Dest
  BY <1>1 DEF BufferTypeOK, Dest
<1>3. BeforeScan /\ OneBlock /\ InHandler /\ RetSet
  BY DEF BeforeScan, OneBlock, InHandler, RetSet
<1>4. NothingLost /\ SuccessHandsOver /\ LossOnlyAfterGrowth
  BY DEF NothingLost, SuccessHandsOver, LossOnlyAfterGrowth
<1>. QED  BY <1>2, <1>3, <1>4 DEF BufferIInv

\* Every step keeps the invariant.
LEMMA BufferNextIInv == BufferIInv /\ [BufferNext]_bufferVars => BufferIInv'
<1>. SUFFICES ASSUME BufferIInv, [BufferNext]_bufferVars PROVE BufferIInv'
  OBVIOUS
<1>. USE SizeAssumption DEF NULL
<1>1. CASE MemDest
  <2>1. /\ BufferTypeOK' /\ (dest \in Dest)'
    BY <1>1 DEF MemDest, BufferIInv, BufferTypeOK, Dest, BeforeScan
  <2>2. mallocs' = 1 /\ live' = {1} /\ filled'[1] = 0
    BY <1>1 DEF MemDest, BufferIInv, BeforeScan
  <2>3. BeforeScan'
    BY <1>1, <2>2 DEF MemDest, BufferIInv, BeforeScan
  <2>4. OneBlock' /\ InHandler' /\ RetSet'
    BY <1>1, <2>2 DEF MemDest, BufferIInv, OneBlock, InHandler, RetSet
  <2>5. NothingLost' /\ SuccessHandsOver' /\ LossOnlyAfterGrowth'
    BY <1>1 DEF MemDest, BufferIInv, RetSet, NothingLost, SuccessHandsOver, LossOnlyAfterGrowth
  <2>. QED  BY <2>1, <2>3, <2>4, <2>5 DEF BufferIInv
<1>2. CASE CreateError \/ StartError \/ GrowError
  <2>1. /\ pc' = "handler" /\ pc \in {"create", "setup", "scan"}
        /\ UNCHANGED <<jpeg_buf, jpeg_size, dest, live, mallocs, filled, written, ret>>
    BY <1>2 DEF CreateError, StartError, GrowError
  <2>2. InHandler'
    BY <2>1 DEF BufferIInv, BeforeScan, OneBlock, InHandler
  <2>3. BufferTypeOK' /\ (dest \in Dest)' /\ BeforeScan' /\ OneBlock' /\ RetSet'
    BY <2>1 DEF BufferIInv, BufferTypeOK, BeforeScan, OneBlock, RetSet
  <2>4. NothingLost' /\ SuccessHandsOver' /\ LossOnlyAfterGrowth'
    BY <2>1 DEF BufferIInv, RetSet, NothingLost, SuccessHandsOver, LossOnlyAfterGrowth
  <2>. QED  BY <2>2, <2>3, <2>4 DEF BufferIInv
<1>3. CASE StartCompress
  BY <1>3 DEF StartCompress, BufferIInv, BufferTypeOK, Dest, BeforeScan, OneBlock, InHandler,
              RetSet,
              NothingLost, SuccessHandsOver, LossOnlyAfterGrowth
<1>4. CASE EmitByte
  <2>1. /\ BufferTypeOK' /\ (dest \in Dest)'
    <3>1. /\ dest' \in Dest
          /\ dest'.buffer = dest.buffer /\ dest'.newbuffer = dest.newbuffer
          /\ dest'.bufsize = dest.bufsize /\ dest'.free = dest.free - 1
      BY SMTT(30), <1>4 DEF EmitByte, BufferIInv, BufferTypeOK, Dest
    <3>2. filled' \in [1..mallocs -> Nat]
      <4>1. dest.buffer \in 1..mallocs
        BY <1>4 DEF EmitByte, BufferIInv, BufferTypeOK, OneBlock
      <4>2. filled[dest.buffer] + 1 \in Nat
        BY <4>1 DEF BufferIInv, BufferTypeOK
      <4>3. filled' = [filled EXCEPT ![dest.buffer] = filled[dest.buffer] + 1]
        BY <1>4 DEF EmitByte
      <4>4. filled \in [1..mallocs -> Nat]
        BY DEF BufferIInv, BufferTypeOK
      <4>. QED  BY <4>2, <4>3, <4>4
    <3>3. written' \in 0..MAX_BYTES
      BY <1>4 DEF EmitByte, BufferIInv, BufferTypeOK
    <3>4. /\ dest'.bufsize \in Nat /\ dest'.free \in 0..dest'.bufsize
          /\ dest'.buffer \in 0..mallocs /\ dest'.newbuffer = dest'.buffer
      BY SMTT(30), <1>4, <3>1 DEF EmitByte, BufferIInv, BufferTypeOK, Dest
    <3>5. /\ UNCHANGED <<pc, jpeg_buf, jpeg_size, live, mallocs, ret>>
      BY <1>4 DEF EmitByte
    <3>. QED  BY <3>1, <3>2, <3>3, <3>4, <3>5 DEF BufferIInv, BufferTypeOK
  <2>2. /\ BeforeScan' /\ OneBlock' /\ InHandler' /\ RetSet'
    BY <1>4 DEF EmitByte, BufferIInv, BufferTypeOK, Dest, BeforeScan, OneBlock, InHandler, RetSet
  <2>3. /\ NothingLost' /\ SuccessHandsOver' /\ LossOnlyAfterGrowth'
    BY <1>4 DEF EmitByte, BufferIInv, BufferTypeOK, Dest, OneBlock, InHandler, RetSet, NothingLost,
                SuccessHandsOver, LossOnlyAfterGrowth
  <2>. QED  BY <2>1, <2>2, <2>3 DEF BufferIInv
<1>5. CASE Grow
  <2>1. /\ BufferTypeOK' /\ (dest \in Dest)'
    BY <1>5 DEF Grow, BufferIInv, BufferTypeOK, Dest, OneBlock
  <2>2. /\ BeforeScan' /\ OneBlock' /\ InHandler' /\ RetSet'
    BY <1>5 DEF Grow, BufferIInv, BufferTypeOK, Dest, BeforeScan, OneBlock, InHandler, RetSet
  <2>3. /\ NothingLost' /\ SuccessHandsOver' /\ LossOnlyAfterGrowth'
    BY <1>5 DEF Grow, BufferIInv, BufferTypeOK, Dest, OneBlock, InHandler, RetSet, NothingLost,
                SuccessHandsOver, LossOnlyAfterGrowth
  <2>. QED  BY <2>1, <2>2, <2>3 DEF BufferIInv
<1>6. CASE Finish
  <2>1. /\ BufferTypeOK' /\ (dest \in Dest)'
    BY <1>6 DEF Finish, BufferIInv, BufferTypeOK, Dest
  <2>2. /\ BeforeScan' /\ OneBlock' /\ InHandler' /\ RetSet'
    BY <1>6 DEF Finish, BufferIInv, BeforeScan, OneBlock, InHandler, RetSet
  <2>3. /\ NothingLost' /\ SuccessHandsOver' /\ LossOnlyAfterGrowth'
    BY <1>6 DEF Finish, BufferIInv, BufferTypeOK, Dest, OneBlock, InHandler, NothingLost,
                SuccessHandsOver, LossOnlyAfterGrowth
  <2>. QED  BY <2>1, <2>2, <2>3 DEF BufferIInv
<1>7. CASE Handler
  <2>1. /\ jpeg_buf = NULL => mallocs = 0 /\ live = {}
        /\ jpeg_buf # NULL => mallocs = 1 /\ live = {1} /\ jpeg_buf = 1
    BY <1>7 DEF Handler, BufferIInv, BufferTypeOK, InHandler
  <2>2. live' = {} /\ mallocs <= 1
    BY <1>7, <2>1 DEF Handler
  <2>3. BufferTypeOK' /\ (dest \in Dest)' /\ BeforeScan' /\ OneBlock' /\ InHandler' /\ RetSet'
    BY <1>7, <2>2 DEF Handler, BufferIInv, BufferTypeOK, BeforeScan, OneBlock, InHandler, RetSet
  <2>4. NothingLost' /\ SuccessHandsOver'
    BY <1>7 DEF Handler, NothingLost, SuccessHandsOver
  <2>5. pc' = "returned" /\ mallocs' = mallocs /\ mallocs \in Nat /\ ~(mallocs > 1)
    BY <1>7, <2>2 DEF Handler, BufferIInv, BufferTypeOK
  <2>6. LossOnlyAfterGrowth'
    BY <2>2, <2>5 DEF LossOnlyAfterGrowth
  <2>. QED  BY <2>3, <2>4, <2>6 DEF BufferIInv
<1>8. CASE HandlerDoubleFree
  <2>1. mallocs > 1 /\ live = {mallocs} /\ dest.buffer = mallocs
    BY <1>8 DEF HandlerDoubleFree, BufferIInv, BufferTypeOK, InHandler
  <2>2. /\ pc' \in {"aborted", "returned"} /\ UNCHANGED <<dest, live, mallocs, filled, written>>
        /\ jpeg_buf' \in {jpeg_buf, NULL} /\ jpeg_size' \in {jpeg_size, 0}
        /\ ret' \in {ret, "FALSE"} /\ ret = "none" /\ (ret' = "none" <=> pc' # "returned")
    BY <1>8 DEF HandlerDoubleFree, BufferIInv, RetSet
  <2>3. BufferTypeOK' /\ (dest \in Dest)' /\ BeforeScan' /\ OneBlock' /\ InHandler' /\ RetSet'
    BY <2>2 DEF BufferIInv, BufferTypeOK, BeforeScan, OneBlock, InHandler, RetSet
  <2>4. NothingLost' /\ SuccessHandsOver' /\ LossOnlyAfterGrowth'
    BY <2>1, <2>2 DEF BufferIInv, BufferTypeOK, NothingLost, SuccessHandsOver,
                      LossOnlyAfterGrowth
  <2>. QED  BY <2>3, <2>4 DEF BufferIInv
<1>9. CASE UNCHANGED bufferVars
  BY <1>9 DEF bufferVars, BufferIInv, BufferTypeOK, Dest, BeforeScan, OneBlock, InHandler, RetSet,
              NothingLost, SuccessHandsOver, LossOnlyAfterGrowth
<1>. QED
  BY <1>1, <1>2, <1>3, <1>4, <1>5, <1>6, <1>7, <1>8, <1>9 DEF BufferNext, Stopped

-----------------------------------------------------------------------------

\* jpar_encode_strip with its growing buffer never leaves the invariant.
THEOREM BufferInductive == BufferSpec => []BufferIInv
  BY BufferInitIInv, BufferNextIInv, PTL DEF BufferSpec

\* The destination manager never counts more free bytes than it has, for every
\* size of the first buffer.
THEOREM BufferTypeCorrect == BufferSpec => []BufferTypeOK
<1>1. BufferIInv => BufferTypeOK
  BY DEF BufferIInv
<1>. QED  BY <1>1, BufferInductive, PTL

\* However often empty_mem_output_buffer doubles the buffer, no byte is lost.
THEOREM NoByteLost == BufferSpec => []NothingLost
<1>1. BufferIInv => NothingLost
  BY DEF BufferIInv
<1>. QED  BY <1>1, BufferInductive, PTL

\* A strip that succeeds leaves its caller one block with the whole stream.
THEOREM CallerOwnsStream == BufferSpec => []SuccessHandsOver
<1>1. BufferIInv => SuccessHandsOver
  BY DEF BufferIInv
<1>. QED  BY <1>1, BufferInductive, PTL

\* A strip that fails before its buffer was replaced frees all it had; after that
\* it loses the last buffer, for every size of the buffers and every failure.
THEOREM FailureAfterGrowth == BufferSpec => []LossOnlyAfterGrowth
<1>1. BufferIInv => LossOnlyAfterGrowth
  BY DEF BufferIInv
<1>. QED  BY <1>1, BufferInductive, PTL

-----------------------------------------------------------------------------
(* AdaptiveEncode.                                                         *)

ColorSpaces ==
  {"none", "UNKNOWN", "GRAYSCALE", "RGB", "EXT_RGB", "EXT_BGR", "EXT_BGRA"}

Image == [color_space : ColorSpaces, height : Nat, filled : Nat]

\* What the loader holds at each of its positions.
LoaderHolds ==
  /\ lpc = "idle" => held = {}
  /\ lpc = "header" => held = {"file", "cinfo"}
  /\ lpc = "rows" => held = {"file", "cinfo", "data", "rows"} \cup PngContext
  /\ lpc = "loaded" => held = {"data", "rows"}
  /\ lpc = "failed" => held \subseteq PngContext

\* The rows copied are the first ones of an image of the file's height.
RowsCopied ==
  /\ lpc = "rows" => img.height = file.height /\ img.filled = scanline
  /\ lpc = "loaded" => img.height = file.height /\ img.filled = file.height

\* What main holds once the loader has returned.
MainHolds ==
  /\ apc = "load" => LoaderHolds
  /\ apc \in {"classify", "encode"} => lpc = "loaded" /\ held = {"data", "rows"}
  /\ apc = "write" => lpc = "loaded" /\ held = {"data", "rows", "jpeg"}
  /\ apc \in {"load", "classify", "encode", "stopped"} => outfile = "absent"
  /\ apc = "stopped" => held = {"data", "rows"}
  /\ apc = "returned" => \/ lpc = "loaded" /\ held = {}
                         \/ lpc = "failed" /\ held \subseteq PngContext

MainIInv ==
  /\ TypeOK
  /\ img \in Image /\ forced \in ForcedThreads
  /\ RowsCopied
  /\ MainHolds

\* An image cleared by the loader has no row.
LEMMA NoImageFields ==
  NoImage \in Image /\ NoImage.height = 0 /\ NoImage.filled = 0
  BY DEF NoImage, Image, ColorSpaces

\* The program starts with nothing held.
LEMMA MainInit == Init => MainIInv
<1> SUFFICES ASSUME Init
             PROVE  MainIInv
  OBVIOUS
<1>1. file.height \in Nat
  BY FileAssumption DEF Init
<1>2. TypeOK /\ img \in Image
  BY <1>1, NoImageFields DEF Init, TypeOK
<1> QED
  BY <1>2 DEF Init, MainIInv, RowsCopied, MainHolds, LoaderHolds

\* A step of the loader keeps the invariant: every way out of it releases what
\* the steps before acquired.
LEMMA LoaderKeeps ==
  ASSUME MainIInv, LoadStep
  PROVE  MainIInv'
<1>1. /\ file.height \in Nat \ {0} /\ READER_ROWS \in Nat \ {0} /\ file \in Files
      /\ UNCHANGED mainVars /\ apc = "load" /\ LoaderHolds /\ Load
  BY FileAssumption DEF MainIInv, TypeOK, MainHolds, LoadStep
<1>2. file' = file
  BY <1>1 DEF Load, LoadOpen, LoadRefused, LoadBadPrecision, LoadCrash, LoadAlloc,
              LoadAllocFail, LoadRows, LoadFinish, LoadError
<1>3. /\ PngContext' = PngContext /\ PngContext \subseteq {"spng"}
  BY <1>2 DEF PngContext
<1>4. UNCHANGED <<forced, apc, features, threads, outfile, exit>>
  BY <1>1 DEF mainVars
<1> SUFFICES /\ lpc' \in {"idle", "header", "rows", "loaded", "failed", "crashed"}
             /\ held' \subseteq {"file", "cinfo", "spng", "data", "rows", "jpeg"}
             /\ img'.filled \in 0..img'.height /\ scanline' \in 0..file.height
             /\ img' \in Image
             /\ RowsCopied'
             /\ LoaderHolds'
  BY <1>1, <1>2, <1>4 DEF MainIInv, TypeOK, MainHolds
<1>5. CASE LoadOpen
  <2>1. UNCHANGED scanline /\ img' = NoImage /\ lpc' = "header"
    BY <1>5 DEF LoadOpen
  <2>2. held' = {"file", "cinfo"}
    BY <1>1, <1>5 DEF LoadOpen, LoaderHolds
  <2> QED
    BY <1>1, <1>2, <1>3, <2>1, <2>2, NoImageFields
       DEF MainIInv, TypeOK, RowsCopied, LoaderHolds
<1>6. CASE LoadRefused \/ LoadBadPrecision \/ LoadCrash
  <2>1. UNCHANGED scanline /\ img' \in {img, NoImage}
    BY <1>6 DEF LoadRefused, LoadBadPrecision, LoadCrash
  <2>2. /\ lpc' \in {"failed", "crashed"}
        /\ held' \subseteq held
        /\ lpc' = "failed" => held' \subseteq PngContext
    BY <1>1, <1>6 DEF LoadRefused, LoadBadPrecision, LoadCrash, LoaderHolds
  <2> QED
    BY <1>1, <1>2, <1>3, <2>1, <2>2, NoImageFields
       DEF MainIInv, TypeOK, RowsCopied, LoaderHolds
<1>7. CASE LoadAlloc
  <2>1. ColorSpaceOf(file) \in ColorSpaces
    BY DEF ColorSpaceOf, ColorSpaces
  <2>2. /\ img' \in Image /\ img'.height = file.height /\ img'.filled = 0
        /\ lpc' = "rows" /\ scanline' = 0
    BY <1>1, <1>7, <2>1 DEF LoadAlloc, Image
  <2>3. held' = {"file", "cinfo", "data", "rows"} \cup PngContext
    BY <1>1, <1>7 DEF LoadAlloc, HeaderRead, LoaderHolds
  <2> QED
    BY <1>1, <1>2, <1>3, <2>2, <2>3 DEF RowsCopied, LoaderHolds
<1>8. CASE LoadAllocFail \/ LoadError
  <2>1. UNCHANGED scanline /\ img' = NoImage /\ lpc' = "failed"
    BY <1>8 DEF LoadAllocFail, LoadError
  <2>2. held' \subseteq PngContext
    BY <1>1, <1>3, <1>8 DEF LoadAllocFail, HeaderRead, LoadError, LoaderHolds
  <2> QED
    BY <1>1, <1>2, <1>3, <2>1, <2>2, NoImageFields
       DEF MainIInv, TypeOK, RowsCopied, LoaderHolds
<1>9. CASE LoadRows
  <2>1. /\ lpc = "rows" /\ scanline < img.height /\ UNCHANGED <<file, lpc, held>>
        /\ img.height = file.height /\ img.filled = scanline /\ img \in Image
        /\ scanline \in Nat
    BY <1>1, <1>9 DEF LoadRows, MainIInv, TypeOK, RowsCopied
  <2>2. PICK copied \in Nat : /\ scanline + copied <= img.height
                              /\ scanline' = scanline + copied
                              /\ img' = [img EXCEPT !.filled = @ + copied]
    <3>1. PICK delivered \in 1..(IF ViaReader THEN READER_ROWS ELSE 1) :
            LET copied == IF scanline + delivered > img.height
                          THEN img.height - scanline ELSE delivered
            IN  /\ scanline' = scanline + copied
                /\ img' = [img EXCEPT !.filled = @ + copied]
      BY <1>9 DEF LoadRows
    <3>2. delivered \in Nat
      BY <1>1
    <3>3. img.height \in Nat
      BY <2>1 DEF Image
    <3> DEFINE copied == IF scanline + delivered > img.height
                         THEN img.height - scanline ELSE delivered
    <3>4. copied \in Nat /\ scanline + copied <= img.height
      BY <2>1, <3>2, <3>3
    <3>5. scanline' = scanline + copied /\ img' = [img EXCEPT !.filled = @ + copied]
      BY <3>1
    <3> HIDE DEF copied
    <3> QED
      BY <3>4, <3>5
  <2>3. img' \in Image /\ img'.height = img.height /\ img'.filled = scanline + copied
    BY <2>1, <2>2 DEF Image
  <2> QED
    BY <1>1, <1>3, <2>1, <2>2, <2>3 DEF MainIInv, TypeOK, RowsCopied, LoaderHolds
<1>10. CASE LoadFinish
  BY <1>1, <1>2, <1>3, <1>10
     DEF LoadFinish, MainIInv, TypeOK, RowsCopied, LoaderHolds
<1> QED
  BY <1>1, <1>5, <1>6, <1>7, <1>8, <1>9, <1>10 DEF Load

\* So does every step of main.
LEMMA MainKeeps == MainIInv /\ [Next]_vars => MainIInv'
<1> SUFFICES ASSUME MainIInv, [Next]_vars
             PROVE  MainIInv'
  OBVIOUS
<1>1. CASE LoadStep
  BY <1>1, LoaderKeeps
<1>2. CASE LoadFailed
  BY <1>2 DEF LoadFailed, MainReturn, loadVars, MainIInv, TypeOK, RowsCopied, MainHolds,
              LoaderHolds, PngContext
<1>3. CASE Features
  <2>1. FirstSample \in {"gray", "red", "blue"}
    BY DEF FirstSample
  <2> QED
    BY <1>3, <2>1 DEF Features, loadVars, MainIInv, TypeOK, RowsCopied, MainHolds,
                      LoaderHolds, PngContext
<1>4. CASE Classify
  <2>1. threads' \in Nat
    BY <1>4, ForcedAssumption DEF Classify, MainIInv, SIMPLE_THREADS, COMPLEX_THREADS
  <2> QED
    BY <1>4, <2>1 DEF Classify, loadVars, MainIInv, TypeOK, RowsCopied, MainHolds,
                      LoaderHolds, PngContext
<1>5. CASE SampFactorExits \/ EncodeAborts \/ Encode \/ EncodeFails
  BY <1>5 DEF SampFactorExits, EncodeAborts, Encode, EncodeFails, MainReturn, loadVars, MainIInv,
              TypeOK, RowsCopied, MainHolds, LoaderHolds, PngContext
<1>6. CASE WriteFails \/ Write
  BY <1>6 DEF WriteFails, Write, MainReturn, MainIInv, TypeOK, RowsCopied, MainHolds,
              LoaderHolds, PngContext
<1>7. CASE UNCHANGED vars
  BY <1>7 DEF vars, loadVars, mainVars, MainIInv, TypeOK, RowsCopied, MainHolds,
              LoaderHolds, PngContext
<1> QED
  BY <1>1, <1>2, <1>3, <1>4, <1>5, <1>6, <1>7 DEF Next, Ended

\* The invariant of the program around the encoder.
THEOREM MainInductive == Spec => []MainIInv
  BY MainInit, MainKeeps, PTL DEF Spec

\* No row is stored past the rows array, whatever the readers deliver per call
\* and whatever heights the files have.
THEOREM MainTypeCorrect == Spec => []TypeOK
<1>1. MainIInv => TypeOK
  BY DEF MainIInv
<1> QED
  BY <1>1, MainInductive, PTL

\* Wherever main returns, the files, libjpeg objects and buffers it acquired are
\* released, but for the context of a PNG that failed to load; where a call of
\* main's stops the process, no file is open or half written.
THEOREM ReturnReleases == Spec => []ReturnsWithPngContextAtMost
<1>1. MainIInv => ReturnsWithPngContextAtMost
  BY DEF MainIInv, MainHolds, ReturnsWithPngContextAtMost, PngContext
<1> QED
  BY <1>1, MainInductive, PTL

\* The encoder is called with every row of the image filled in, and with
\* nothing of the loader left but the pixels.
THEOREM EncodeAfterLoad == Spec => []EncodesLoadedRows
<1>1. MainIInv => EncodesLoadedRows
  BY DEF MainIInv, MainHolds, RowsCopied, EncodesLoadedRows
<1> QED
  BY <1>1, MainInductive, PTL

=============================================================================
