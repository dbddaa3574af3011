------------------------ MODULE SplicedEncodeProofs ------------------------
(***************************************************************************)
(* The parallel strip encoder keeps its promise for every image, number of *)
(* threads, team the runtime grants and schedule of the team: its strips   *)
(* are never shared, it loses memory only by a strip that fails after its  *)
(* buffer was replaced, and what it returns is the JPEG of a               *)
(* single-threaded encode.                                                 *)
(***************************************************************************)
EXTENDS SplicedEncode, ArithmeticProofs, SequenceTheorems, FiniteSetTheorems, TLAPS

-----------------------------------------------------------------------------
(* The inductive invariant.                                                *)

Per == McuRowsPerStrip(Total, n)
StripRows(s) == McuRows(NumRows(s), Height)

\* MCU rows in the first k strips.
RowsIn(k) == IF k = n THEN Total ELSE k * Per

\* The first `rows' MCU rows of a picture, with the markers between them.
PartScan(first, count, h, rows) ==
  [j \in 1..(2 * rows - 1) |->
     IF j % 2 = 1 THEN McuRow(first, count, h, j \div 2)
     ELSE Rst((j \div 2 - 1) % RST_CYCLE)]

StripScan(s, rows) == PartScan(StartRow(s), NumRows(s), Height, rows)

\* Strip s when rows of its MCU rows are coded, and when all are, in its first
\* buffer (block 1) or a later one.
OpenStrip(s, rows, block) ==
  [state |-> "open", block |-> block, height |-> NumRows(s), scan |-> StripScan(s, rows)]
WholeStrip(s, block) ==
  [state |-> "complete", block |-> block, height |-> NumRows(s),
   scan |-> StripScan(s, StripRows(s))]

Open(s, rows, b) == b \in {OpenStrip(s, rows, 1), OpenStrip(s, rows, 2)}
Whole(s, b) == b \in {WholeStrip(s, 1), WholeStrip(s, 2)} /\ NumRows(s) > 0
Failed(b) == b \in {Null, Lost}

Reference == [height |-> call.height, scan |-> ReferenceScan(call.height, Height)]

Positions == {"alloc", "bounds", "parallel", "splice", "output", "copy", "cleanup",
              "returned", "undefined"}
Buffers == [state : {"null", "open", "complete"}, block : 0..2,
            height : 0..JPEG_MAX_DIMENSION, scan : Seq(Tokens)]

Typed ==
  /\ call \in Calls /\ pc \in Positions /\ ret \in {"none", "TRUE", "FALSE"}
  /\ n \in 0..MAX_TEAM /\ bufs \in [0..(n - 1) -> Buffers]
  /\ team \in 0..MAX_TEAM
  /\ thr \in [0..(team - 1) -> [todo : SUBSET (0..(n - 1)), at : {"idle", "encode"}, row : Nat]]
  /\ copied \in 0..n
  /\ out \in [height : 0..(HEIGHT_FIELD - 1), scan : Seq(Tokens)]

\* The number of strips is that of the plan, once there is one.
Planned ==
  IF n = 0
  THEN pc \in {"alloc", "bounds", "returned"} /\ team = 0 /\ (pc = "returned" => ret = "FALSE")
  ELSE pc \notin {"alloc", "bounds"} /\ n = StripCount(Total, call.threads)

\* Each thread has an interval of strips left, and no other thread has them.
Divided ==
  /\ \A t \in DOMAIN thr : \E lo, hi \in Int : thr[t].todo = lo..hi
  /\ \A t, u \in DOMAIN thr : t # u => thr[t].todo \cap thr[u].todo = {}
  /\ pc \notin {"parallel", "undefined"} => \A t \in DOMAIN thr : thr[t].todo = {}

\* What a thread has left is untouched but for the strip it works on; any other
\* strip failed or is complete.
Working ==
  /\ \A t \in DOMAIN thr :
       IF thr[t].at = "idle" THEN thr[t].row = 0 /\ \A s \in thr[t].todo : bufs[s] = Null
       ELSE /\ thr[t].todo # {}
            /\ Open(Current(t), thr[t].row, bufs[Current(t)])
            /\ thr[t].row <= StripRows(Current(t))
            /\ \A s \in thr[t].todo \ {Current(t)} : bufs[s] = Null
  /\ \A s \in 0..(n - 1) :
       \/ Failed(bufs[s])
       \/ Whole(s, bufs[s])
       \/ \E t \in DOMAIN thr : thr[t].at = "encode" /\ Current(t) = s

ArrayBlocks == {<<a>> : a \in Arrays}
SpliceBlocks == {<<a>> : a \in SpliceArrays}
Output == {<<"out_buf">>}
StripBlocks == {Buffer(s, bufs[s].block) : s \in {u \in 0..(n - 1) : bufs[u].block # 0}}
LostBlocks == {Buffer(s, 2) : s \in {u \in 0..(n - 1) : bufs[u] = Lost}}

\* The block strip s has when b describes its buffer, if any.
BlockOf(s, b) == IF b.block = 0 THEN {} ELSE {Buffer(s, b.block)}

\* What is allocated at every position of the master, and which strip has put
\* the process at risk.
Allocated ==
  /\ pc = "alloc" => heap = {}
  /\ pc = "bounds" => heap = ArrayBlocks
  /\ pc \in {"parallel", "splice"} => heap = ArrayBlocks \cup StripBlocks
  /\ pc = "output" => heap = ArrayBlocks \cup StripBlocks \cup SpliceBlocks
  /\ pc = "copy" => heap = ArrayBlocks \cup StripBlocks \cup SpliceBlocks \cup Output
  /\ pc = "cleanup" => \/ heap = ArrayBlocks \cup StripBlocks
                       \/ heap = ArrayBlocks \cup StripBlocks \cup Output
  /\ pc = "returned" => heap = IF ret = "TRUE" THEN Output ELSE LostBlocks
  /\ pc = "undefined" =>
       \E t \in DOMAIN thr : thr[t].at = "encode" /\ bufs[Current(t)].block = 2

\* The scan has the first rows of the image in place, and some restart marker
\* between any two of them.
HasRows(scan, rows) ==
  /\ Len(scan) = IF rows = 0 THEN 0 ELSE 2 * rows - 1
  /\ \A j \in 1..Len(scan) :
       IF j % 2 = 1 THEN scan[j] = McuRow(0, call.height, Height, j \div 2)
       ELSE IsRst(scan[j])

NoneLost == \A s \in 0..(n - 1) : bufs[s] # Lost

\* Only complete strips are spliced, and a whole output is the reference.
Spliced ==
  /\ pc \in {"splice", "output", "copy"} => \A s \in 0..(n - 1) : Whole(s, bufs[s])
  /\ pc = "copy" => out.height = call.height /\ HasRows(out.scan, RowsIn(copied))
  /\ pc = "cleanup" /\ <<"out_buf">> \in heap => out = Reference /\ NoneLost
  /\ pc = "returned" /\ ret = "TRUE" => out = Reference /\ NoneLost
  /\ ret = "none" <=> pc # "returned"

IInv == Typed /\ Planned /\ Divided /\ Working /\ Allocated /\ Spliced

-----------------------------------------------------------------------------
(* The arithmetic of the strips.                                           *)

\* The arguments of a call, and what they say of its image.
LEMMA CallFacts ==
  ASSUME call \in Calls
  PROVE  /\ call.height \in Nat /\ call.height <= JPEG_MAX_DIMENSION
         /\ call.v \in Int /\ call.threads \in Int
         /\ JPEG_MAX_DIMENSION \in Nat /\ HEIGHT_FIELD \in Nat /\ JPEG_MAX_DIMENSION < HEIGHT_FIELD
         /\ Threads \in Nat \ {0} /\ Threads <= MAX_TEAM /\ MAX_TEAM \in Nat
         /\ Height \in Nat \ {0} /\ Total \in Nat /\ Total = McuRows(call.height, Height)
<1>1. /\ call.height \in Nat /\ call.height <= JPEG_MAX_DIMENSION
      /\ call.v \in Int /\ call.threads \in Int
      /\ JPEG_MAX_DIMENSION \in Nat /\ HEIGHT_FIELD \in Nat /\ JPEG_MAX_DIMENSION < HEIGHT_FIELD
      /\ AtLeastOne(call.threads) <= MAX_TEAM /\ MAX_TEAM \in Nat
  BY CallAssumption
<1>2. Threads \in Nat \ {0} /\ Threads <= MAX_TEAM
  BY <1>1 DEF Threads, AtLeastOne
<1>3. AtLeastOne(call.v) \in Nat \ {0}
  BY <1>1 DEF AtLeastOne
<1>4. Height \in Nat \ {0}
  BY <1>3, DctsizeAssumption, MulPositive DEF Height, McuRowHeight
<1>5. Total = McuRows(call.height, Height)
  BY DEF Total, TotalMcuRows, Height
<1>6. Total \in Nat
  BY <1>1, <1>4, <1>5, McuRowsBounds
<1> QED
  BY <1>1, <1>2, <1>4, <1>5, <1>6

\* The plan: strips start at multiples of the stride inside the image.
LEMMA PlanFacts ==
  ASSUME call \in Calls, n = StripCount(Total, call.threads)
  PROVE  /\ n \in Nat \ {0} /\ n <= Threads
         /\ Per \in Nat \ {0} /\ Stride = Per * Height /\ Stride \in Nat \ {0}
         /\ Total > 0 => n * Per <= Total
         /\ Total = 0 => n = 1
         /\ \A s \in 0..(n - 1) :
              /\ StartRow(s) = s * (Per * Height)
              /\ StartRow(s) \in Nat /\ StartRow(s) <= call.height
              /\ s < n - 1 => (s + 1) * (Per * Height) < call.height
<1>1. /\ n \in Nat \ {0} /\ n <= Threads /\ Per \in Nat \ {0}
      /\ Total > 0 => n * Per <= Total
      /\ Total = 0 => n = 1
  BY CallFacts, PlanFits DEF Per, Threads
<1>2. Stride = Per * Height /\ Stride \in Nat \ {0}
  BY <1>1, CallFacts, MulPositive DEF Stride, Per
<1>3. ASSUME NEW s \in 0..(n - 1)
      PROVE  /\ StartRow(s) = s * (Per * Height)
             /\ StartRow(s) \in Nat /\ StartRow(s) <= call.height
             /\ s < n - 1 => (s + 1) * (Per * Height) < call.height
  <2>1. StartRow(s) = s * (Per * Height)
    BY <1>2 DEF StartRow
  <2>2. /\ McuRows(call.height, Height) > 0 => n * Per <= McuRows(call.height, Height)
        /\ McuRows(call.height, Height) = 0 => n = 1
    BY <1>1, CallFacts
  <2>3. call.height \in Nat /\ Height \in Nat \ {0}
    BY CallFacts
  <2>4. /\ s * (Per * Height) \in Nat /\ s * (Per * Height) <= call.height
        /\ s < n - 1 => (s + 1) * (Per * Height) < call.height
    BY <1>1, <2>2, <2>3, BoundariesInside
  <2> QED
    BY <2>1, <2>4
<1> QED
  BY <1>1, <1>2, <1>3

\* A strip lies in the image, and its MCU rows follow those of the strips above.
LEMMA StripShape ==
  ASSUME call \in Calls, n = StripCount(Total, call.threads), NEW s \in 0..(n - 1)
  PROVE  /\ StartRow(s) \in Nat /\ NumRows(s) \in Nat
         /\ StartRow(s) + NumRows(s) <= call.height
         /\ StripRows(s) \in Nat
         /\ RowsIn(s) = s * Per /\ RowsIn(s) \in Nat
         /\ RowsIn(s + 1) = RowsIn(s) + StripRows(s)
         /\ StartRow(s) = RowsIn(s) * Height
<1> DEFINE H == call.height
           h == Height
<1>1. /\ H \in Nat /\ h \in Nat \ {0} /\ Total \in Nat
      /\ n \in Nat \ {0} /\ Per \in Nat \ {0} /\ Stride = Per * h /\ Stride \in Nat \ {0}
      /\ StartRow(s) = s * (Per * h) /\ StartRow(s) \in Nat /\ StartRow(s) <= H
      /\ s < n - 1 => (s + 1) * (Per * h) < H
  BY CallFacts, PlanFacts
<1>2. RowsIn(s) = s * Per /\ RowsIn(s) \in Nat
  <2>1. s # n /\ s \in Nat
    BY <1>1
  <2> QED
    BY <1>1, <2>1 DEF RowsIn
<1>3. StartRow(s) = RowsIn(s) * h
  BY <1>1, <1>2
<1>4. CASE s < n - 1
  <2>1. NumRows(s) = Per * h
    BY <1>1, <1>4 DEF NumRows
  <2>2. StartRow(s) + NumRows(s) <= H
    <3>1. (s + 1) * (Per * h) = s * (Per * h) + Per * h
      BY <1>1
    <3> QED
      BY <1>1, <1>4, <2>1, <3>1
  <2>3. StripRows(s) = Per
    <3>1. Per * h \in Nat /\ Per * h = h * Per
      BY <1>1
    <3>2. Per * h <= h * Per /\ h * Per < Per * h + h
      BY <1>1, <3>1
    <3> QED
      BY <1>1, <2>1, <3>1, <3>2, McuRowsUnique DEF StripRows
  <2>4. RowsIn(s + 1) = RowsIn(s) + Per
    <3>1. s + 1 # n
      BY <1>1, <1>4
    <3>2. (s + 1) * Per = s * Per + Per
      BY <1>1
    <3> QED
      BY <1>2, <3>1, <3>2 DEF RowsIn
  <2>5. NumRows(s) \in Nat
    BY <1>1, <2>1
  <2> QED
    BY <1>1, <1>2, <1>3, <2>2, <2>3, <2>4, <2>5
<1>5. CASE s = n - 1
  <2>1. NumRows(s) = H - StartRow(s) /\ NumRows(s) \in Nat
    BY <1>1, <1>5 DEF NumRows
  <2>2. H <= h * Total /\ h * Total < H + h
    BY CallFacts, McuRowsBounds
  <2>3. RowsIn(s) <= Total
    <3>1. CASE Total > 0
      <4>1. n * Per <= Total
        BY <3>1, PlanFacts
      <4>2. n * Per = s * Per + Per
        BY <1>1, <1>5
      <4> QED
        BY <1>1, <1>2, <4>1, <4>2
    <3>2. CASE Total = 0
      <4>1. s = 0
        BY <3>2, <1>5, PlanFacts
      <4> QED
        BY <1>1, <1>2, <4>1
    <3> QED
      BY <1>1, <3>1, <3>2
  <2>4. StripRows(s) = Total - RowsIn(s)
    <3> DEFINE q == Total - RowsIn(s)
    <3>1. q \in Nat
      BY <1>1, <1>2, <2>3
    <3>2. h * q = h * Total - RowsIn(s) * h
      BY <1>1, <1>2
    <3>3. h * Total \in Nat /\ RowsIn(s) * h \in Nat
      BY <1>1, <1>2
    <3>4. NumRows(s) <= h * q /\ h * q < NumRows(s) + h
      BY <1>1, <1>3, <2>1, <2>2, <3>2, <3>3
    <3> QED
      BY <1>1, <2>1, <3>1, <3>4, McuRowsUnique DEF StripRows
  <2>5. RowsIn(s + 1) = Total
    BY <1>1, <1>5 DEF RowsIn
  <2> QED
    BY <1>1, <1>2, <1>3, <2>1, <2>3, <2>4, <2>5
<1> QED
  BY <1>1, <1>4, <1>5

\* A row of a strip is a row of the image: it starts where the image's does and
\* is as tall.
LEMMA StripRow ==
  ASSUME call \in Calls, n = StripCount(Total, call.threads), NEW s \in 0..(n - 1),
         NEW r \in Nat, r < StripRows(s)
  PROVE  McuRow(StartRow(s), NumRows(s), Height, r)
           = McuRow(0, call.height, Height, RowsIn(s) + r)
<1> DEFINE H == call.height
           h == Height
           k == RowsIn(s)
<1>1. /\ H \in Nat /\ h \in Nat \ {0} /\ k \in Nat /\ StripRows(s) \in Nat
      /\ StartRow(s) \in Nat /\ NumRows(s) \in Nat
      /\ StartRow(s) = k * h /\ StartRow(s) + NumRows(s) <= H
  BY CallFacts, StripShape
<1>2. StartRow(s) + r * h = (k + r) * h
  BY <1>1
<1>3. r * h \in Nat /\ (k + r) * h \in Nat
  BY <1>1
<1>4. CASE s = n - 1
  <2>1. NumRows(s) = H - StartRow(s)
    BY <1>4 DEF NumRows
  <2>2. NumRows(s) - r * h = H - (k + r) * h
    BY <1>1, <1>2, <1>3, <2>1
  <2> QED
    BY <1>1, <1>2, <1>3, <2>2 DEF McuRow
<1>5. CASE s # n - 1
  <2>1. NumRows(s) = Per * h /\ Per \in Nat
    BY <1>5, PlanFacts DEF NumRows
  <2>2. StripRows(s) = Per
    <3>1. Per * h = h * Per /\ Per * h \in Nat
      BY <1>1, <2>1
    <3>2. NumRows(s) <= h * Per /\ h * Per < NumRows(s) + h
      BY <1>1, <2>1, <3>1
    <3> QED
      BY <1>1, <2>1, <3>2, McuRowsUnique DEF StripRows
  <2>3. (r + 1) * h <= Per * h
    BY <1>1, <2>1, <2>2, MulMonotone
  <2>4. (r + 1) * h = r * h + h
    BY <1>1
  <2>5. NumRows(s) - r * h >= h
    BY <1>1, <1>3, <2>1, <2>3, <2>4
  <2>6. H - (k + r) * h >= h
    BY <1>1, <1>2, <1>3, <2>5
  <2>7. /\ ~(NumRows(s) - r * h < h) \/ NumRows(s) - r * h = h
        /\ ~(H - (k + r) * h < h)
    BY <1>1, <1>3, <2>5, <2>6
  <2> QED
    BY <1>1, <1>2, <1>3, <2>5, <2>6 DEF McuRow
<1> QED
  BY <1>4, <1>5

-----------------------------------------------------------------------------
(* Scans.                                                                  *)

LEMMA MarkerToken ==
  ASSUME NEW k \in Nat
  PROVE  Rst(k % RST_CYCLE) \in Tokens /\ IsRst(Rst(k % RST_CYCLE))
<1>1. k % RST_CYCLE \in 0..(RST_CYCLE - 1)
  BY CycleAssumption
<1> QED
  BY <1>1 DEF Tokens, Rst, IsRst

\* Every MCU row of a strip has a scanline, so it is a row of the image.
LEMMA RowToken ==
  ASSUME call \in Calls, n = StripCount(Total, call.threads), NEW s \in 0..(n - 1),
         NEW r \in Nat, r < StripRows(s)
  PROVE  /\ McuRow(StartRow(s), NumRows(s), Height, r) \in Tokens
         /\ ~IsRst(McuRow(StartRow(s), NumRows(s), Height, r))
         /\ NumRows(s) > 0
<1> DEFINE h == Height
           left == NumRows(s) - r * h
<1>1. /\ h \in Nat \ {0} /\ StartRow(s) \in Nat /\ NumRows(s) \in Nat /\ StripRows(s) \in Nat
      /\ StartRow(s) + NumRows(s) <= JPEG_MAX_DIMENSION /\ JPEG_MAX_DIMENSION \in Nat
  BY CallFacts, StripShape
<1>2. h * StripRows(s) < NumRows(s) + h
  BY <1>1, McuRowsBounds DEF StripRows
<1>3. (r + 1) * h <= StripRows(s) * h
  BY <1>1, MulMonotone
<1>4. (r + 1) * h = r * h + h /\ StripRows(s) * h = h * StripRows(s) /\ r * h \in Nat
      /\ h * StripRows(s) \in Nat
  BY <1>1
<1>5. r * h < NumRows(s)
  BY <1>1, <1>2, <1>3, <1>4
<1>6. StartRow(s) + r * h \in 0..JPEG_MAX_DIMENSION
  BY <1>1, <1>4, <1>5
<1>7. (IF left < h THEN left ELSE h) \in 1..JPEG_MAX_DIMENSION
  BY <1>1, <1>4, <1>5
<1>8. McuRow(StartRow(s), NumRows(s), h, r) = Row(StartRow(s) + r * h, IF left < h THEN left ELSE h)
  BY DEF McuRow
<1> QED
  BY <1>1, <1>4, <1>5, <1>6, <1>7, <1>8 DEF Tokens, Row, IsRst

\* The scan of a strip, when rows of its rows are coded.
LEMMA StripScanShape ==
  ASSUME call \in Calls, n = StripCount(Total, call.threads), NEW s \in 0..(n - 1),
         NEW rows \in Nat, rows <= StripRows(s)
  PROVE  /\ StripScan(s, rows) \in Seq(Tokens)
         /\ Len(StripScan(s, rows)) = IF rows = 0 THEN 0 ELSE 2 * rows - 1
         /\ \A j \in 1..(2 * rows - 1) :
              StripScan(s, rows)[j] =
                IF j % 2 = 1 THEN McuRow(StartRow(s), NumRows(s), Height, j \div 2)
                ELSE Rst((j \div 2 - 1) % RST_CYCLE)
<1> DEFINE len == IF rows = 0 THEN 0 ELSE 2 * rows - 1
           El(j) == IF j % 2 = 1 THEN McuRow(StartRow(s), NumRows(s), Height, j \div 2)
                    ELSE Rst((j \div 2 - 1) % RST_CYCLE)
<1>1. len \in Nat /\ 1..(2 * rows - 1) = 1..len
  OBVIOUS
<1>2. ASSUME NEW j \in 1..len
      PROVE  El(j) \in Tokens
  <2>1. CASE j % 2 = 1
    <3>1. j \div 2 \in Nat /\ j \div 2 < rows
      BY <1>2, <2>1
    <3>2. j \div 2 < StripRows(s)
      BY <3>1, StripShape
    <3> QED
      BY <2>1, <3>1, <3>2, RowToken
  <2>2. CASE j % 2 # 1
    <3>1. j \div 2 - 1 \in Nat
      BY <1>2, <2>2
    <3> QED
      BY <2>2, <3>1, MarkerToken
  <2> QED
    BY <2>1, <2>2
<1>3. StripScan(s, rows) = [j \in 1..len |-> El(j)]
  BY <1>1 DEF StripScan, PartScan
<1> HIDE DEF El, len
<1>4. StripScan(s, rows) \in Seq(Tokens) /\ Len(StripScan(s, rows)) = len
  BY <1>1, <1>2, <1>3
<1>5. \A j \in 1..(2 * rows - 1) : StripScan(s, rows)[j] = El(j)
  BY <1>1, <1>3
<1> QED
  BY <1>4, <1>5 DEF El, len

\* Concatenation, element by element.
LEMMA Joined2 ==
  ASSUME NEW a \in Seq(Tokens), NEW b \in Seq(Tokens)
  PROVE  /\ a \o b \in Seq(Tokens) /\ Len(a) \in Nat /\ Len(b) \in Nat
         /\ Len(a \o b) = Len(a) + Len(b)
         /\ \A i \in 1..Len(a) : (a \o b)[i] = a[i]
         /\ \A i \in (Len(a) + 1)..(Len(a) + Len(b)) : (a \o b)[i] = b[i - Len(a)]
<1>1. Len(a) \in Nat /\ Len(b) \in Nat
  BY LenProperties
<1>2. /\ a \o b \in Seq(Tokens) /\ Len(a \o b) = Len(a) + Len(b)
      /\ \A i \in 1..Len(a) + Len(b) : (a \o b)[i] = IF i <= Len(a) THEN a[i] ELSE b[i - Len(a)]
  BY ConcatProperties
<1> QED
  BY <1>1, <1>2

\* Coding one more row, with its marker, extends the scan of the strip.
LEMMA ScanGrows ==
  ASSUME call \in Calls, n = StripCount(Total, call.threads), NEW s \in 0..(n - 1),
         NEW r \in Nat, r < StripRows(s)
  PROVE  StripScan(s, r) \o (IF r = 0 THEN <<>> ELSE <<Rst((r - 1) % RST_CYCLE)>>)
           \o <<McuRow(StartRow(s), NumRows(s), Height, r)>> = StripScan(s, r + 1)
<1> DEFINE a == StripScan(s, r)
           b == IF r = 0 THEN <<>> ELSE <<Rst((r - 1) % RST_CYCLE)>>
           c == <<McuRow(StartRow(s), NumRows(s), Height, r)>>
           d == StripScan(s, r + 1)
<1>1. StripRows(s) \in Nat
  BY StripShape
<1>2. /\ a \in Seq(Tokens) /\ Len(a) = IF r = 0 THEN 0 ELSE 2 * r - 1
      /\ \A j \in 1..(2 * r - 1) :
           a[j] = IF j % 2 = 1 THEN McuRow(StartRow(s), NumRows(s), Height, j \div 2)
                  ELSE Rst((j \div 2 - 1) % RST_CYCLE)
  BY <1>1, StripScanShape
<1>3. /\ d \in Seq(Tokens) /\ Len(d) = 2 * r + 1
      /\ \A j \in 1..(2 * r + 1) :
           d[j] = IF j % 2 = 1 THEN McuRow(StartRow(s), NumRows(s), Height, j \div 2)
                  ELSE Rst((j \div 2 - 1) % RST_CYCLE)
  <2>1. r + 1 \in Nat /\ r + 1 <= StripRows(s) /\ r + 1 # 0 /\ 2 * (r + 1) - 1 = 2 * r + 1
    BY <1>1
  <2> QED
    BY <2>1, StripScanShape
<1>4. b \in Seq(Tokens) /\ Len(b) = IF r = 0 THEN 0 ELSE 1
  <2>1. r # 0 => Rst((r - 1) % RST_CYCLE) \in Tokens
    BY MarkerToken
  <2> QED
    BY <2>1
<1>5. c \in Seq(Tokens) /\ Len(c) = 1
  BY RowToken
<1> HIDE DEF a, b, c, d
<1>6. /\ a \o b \in Seq(Tokens) /\ Len(a \o b) = Len(a) + Len(b)
      /\ \A i \in 1..Len(a) : (a \o b)[i] = a[i]
      /\ \A i \in (Len(a) + 1)..(Len(a) + Len(b)) : (a \o b)[i] = b[i - Len(a)]
  BY <1>2, <1>4, Joined2
<1> DEFINE ab == a \o b
<1>7. ab \in Seq(Tokens) /\ Len(ab) = 2 * r
  BY <1>2, <1>4, <1>6
<1>8. /\ ab \o c \in Seq(Tokens) /\ Len(ab \o c) = Len(ab) + Len(c)
      /\ \A i \in 1..Len(ab) : (ab \o c)[i] = ab[i]
      /\ \A i \in (Len(ab) + 1)..(Len(ab) + Len(c)) : (ab \o c)[i] = c[i - Len(ab)]
  <2> HIDE DEF ab
  <2> QED
    BY <1>5, <1>7, Joined2
<1>9. ASSUME NEW j \in 1..(2 * r + 1)
      PROVE  (ab \o c)[j] = d[j]
  <2>1. CASE j = 2 * r + 1
    <3>1. j % 2 = 1 /\ j \div 2 = r
      BY <2>1
    <3>2. (ab \o c)[j] = c[1]
      <4> HIDE DEF ab
      <4>1. j \in (Len(ab) + 1)..(Len(ab) + Len(c)) /\ j - Len(ab) = 1
        BY <1>5, <1>7, <2>1
      <4> QED
        BY <1>8, <4>1
    <3> QED
      BY <1>3, <2>1, <3>1, <3>2 DEF c
  <2>2. CASE j = 2 * r
    <3>1. j % 2 = 0 /\ j \div 2 = r /\ r # 0 /\ Len(a) = 2 * r - 1 /\ Len(b) = 1
      BY <1>2, <1>4, <2>2
    <3>2. (ab \o c)[j] = ab[j]
      <4> HIDE DEF ab
      <4> QED
        BY <1>7, <1>8, <2>2
    <3>3. ab[j] = b[1]
      BY <1>6, <2>2, <3>1
    <3> QED
      BY <1>3, <2>2, <3>1, <3>2, <3>3 DEF b
  <2>3. CASE j < 2 * r
    <3>1. r # 0 /\ Len(a) = 2 * r - 1 /\ j \in 1..(2 * r - 1)
      BY <1>2, <2>3
    <3>2. (ab \o c)[j] = ab[j]
      <4> HIDE DEF ab
      <4> QED
        BY <1>7, <1>8, <2>3
    <3>3. ab[j] = a[j]
      BY <1>6, <3>1
    <3> QED
      BY <1>2, <1>3, <3>1, <3>2, <3>3
  <2>4. j < 2 * r \/ j = 2 * r \/ j = 2 * r + 1
    <3> HIDE DEF ab
    <3> QED
      OBVIOUS
  <2> QED
    BY <2>1, <2>2, <2>3, <2>4
<1>10. ab \o c \in Seq(Tokens) /\ Len(ab \o c) = Len(d)
  <2> HIDE DEF ab
  <2> QED
    BY <1>3, <1>5, <1>7, <1>8
<1>11. ab \o c = d
  <2> HIDE DEF ab
  <2> QED
    BY <1>3, <1>9, <1>10, SeqEqual
<1> QED
  BY <1>11 DEF a, b, c, d

\* A whole strip ends with a row, so nothing of it is cut off.
LEMMA NothingTrimmed ==
  ASSUME call \in Calls, n = StripCount(Total, call.threads), NEW s \in 0..(n - 1)
  PROVE  Trim(StripScan(s, StripRows(s))) = StripScan(s, StripRows(s))
<1> DEFINE scan == StripScan(s, StripRows(s))
           rows == StripRows(s)
<1>1. rows \in Nat /\ rows <= rows
  <2>1. rows \in Nat
    BY StripShape
  <2> QED
    BY <2>1
<1>2. /\ scan \in Seq(Tokens) /\ Len(scan) = IF rows = 0 THEN 0 ELSE 2 * rows - 1
      /\ \A j \in 1..(2 * rows - 1) :
           scan[j] = IF j % 2 = 1 THEN McuRow(StartRow(s), NumRows(s), Height, j \div 2)
                     ELSE Rst((j \div 2 - 1) % RST_CYCLE)
  <2> HIDE DEF rows
  <2>1. /\ StripScan(s, rows) \in Seq(Tokens)
        /\ Len(StripScan(s, rows)) = IF rows = 0 THEN 0 ELSE 2 * rows - 1
        /\ \A j \in 1..(2 * rows - 1) :
             StripScan(s, rows)[j] =
               IF j % 2 = 1 THEN McuRow(StartRow(s), NumRows(s), Height, j \div 2)
               ELSE Rst((j \div 2 - 1) % RST_CYCLE)
    <3>1. rows \in Nat /\ rows <= StripRows(s)
      BY <1>1 DEF rows
    <3> QED
      BY <3>1, StripScanShape
  <2> QED
    BY <2>1 DEF rows
<1>3. CASE rows = 0
  <2>1. scan = <<>>
    BY <1>2, <1>3, EmptySeq
  <2> QED
    BY <2>1 DEF Trim
<1>4. CASE rows > 0
  <2>1. /\ Len(scan) \in 1..(2 * rows - 1) /\ Len(scan) % 2 = 1
        /\ Len(scan) \div 2 \in Nat /\ Len(scan) \div 2 < rows
    BY <1>1, <1>2, <1>4
  <2>2. ~IsRst(scan[Len(scan)])
    BY SMTT(30), <1>2, <2>1, RowToken
  <2> QED
    BY <2>2 DEF Trim
<1> QED
  BY <1>1, <1>3, <1>4

\* A strip's scan behind those of the strips above: the rows are the image's.
LEMMA CopyGrows ==
  ASSUME call \in Calls, n = StripCount(Total, call.threads), NEW k \in 0..(n - 1),
         StripRows(k) > 0, NEW scan \in Seq(Tokens), HasRows(scan, RowsIn(k))
  PROVE  LET longer == scan \o (IF k = 0 THEN <<>> ELSE <<Rst(0)>>) \o StripScan(k, StripRows(k))
         IN  longer \in Seq(Tokens) /\ HasRows(longer, RowsIn(k + 1))
<1> DEFINE b == IF k = 0 THEN <<>> ELSE <<Rst(0)>>
           c == StripScan(k, StripRows(k))
           R == RowsIn(k)
           S == StripRows(k)
           ab == scan \o b
           d == ab \o c
<1>1. /\ R \in Nat /\ S \in Nat /\ RowsIn(k + 1) = R + S /\ k \in Nat
      /\ k = 0 <=> R = 0
  <2>1. R = k * Per /\ R \in Nat /\ S \in Nat /\ RowsIn(k + 1) = R + S
    BY StripShape
  <2>2. Per \in Nat \ {0} /\ k \in Nat
    BY PlanFacts
  <2>3. k # 0 => k * Per # 0
    BY <2>2, MulPositive
  <2> QED
    BY <2>1, <2>2, <2>3
<1>2. /\ c \in Seq(Tokens) /\ Len(c) = 2 * S - 1
      /\ \A j \in 1..(2 * S - 1) :
           c[j] = IF j % 2 = 1 THEN McuRow(StartRow(k), NumRows(k), Height, j \div 2)
                  ELSE Rst((j \div 2 - 1) % RST_CYCLE)
  <2> HIDE DEF S
  <2>1. S \in Nat /\ S <= StripRows(k) /\ S # 0
    BY <1>1 DEF S
  <2>2. /\ StripScan(k, S) \in Seq(Tokens)
        /\ Len(StripScan(k, S)) = IF S = 0 THEN 0 ELSE 2 * S - 1
        /\ \A j \in 1..(2 * S - 1) :
             StripScan(k, S)[j] =
               IF j % 2 = 1 THEN McuRow(StartRow(k), NumRows(k), Height, j \div 2)
               ELSE Rst((j \div 2 - 1) % RST_CYCLE)
    BY <2>1, StripScanShape
  <2> QED
    BY <2>1, <2>2 DEF S
<1>3. /\ b \in Seq(Tokens) /\ Len(b) = IF R = 0 THEN 0 ELSE 1
      /\ R # 0 => IsRst(b[1])
  <2>1. Rst(0) \in Tokens
    BY CycleAssumption DEF Tokens, Rst
  <2>2. IsRst(Rst(0))
    BY DEF Rst, IsRst
  <2> QED
    BY <1>1, <2>1, <2>2
<1>4. /\ Len(scan) = IF R = 0 THEN 0 ELSE 2 * R - 1
      /\ \A j \in 1..Len(scan) :
           IF j % 2 = 1 THEN scan[j] = McuRow(0, call.height, Height, j \div 2)
           ELSE IsRst(scan[j])
  BY DEF HasRows
<1> HIDE DEF b, c, R, S
<1>5. /\ ab \in Seq(Tokens) /\ Len(ab) = 2 * R
      /\ \A i \in 1..Len(scan) : ab[i] = scan[i]
      /\ \A i \in (Len(scan) + 1)..(2 * R) : ab[i] = b[i - Len(scan)]
  <2>1. /\ ab \in Seq(Tokens) /\ Len(ab) = Len(scan) + Len(b)
        /\ \A i \in 1..Len(scan) : ab[i] = scan[i]
        /\ \A i \in (Len(scan) + 1)..(Len(scan) + Len(b)) : ab[i] = b[i - Len(scan)]
    BY <1>3, Joined2
  <2>2. Len(scan) + Len(b) = 2 * R
    BY <1>1, <1>3, <1>4
  <2> QED
    BY <2>1, <2>2
<1> HIDE DEF ab
<1>6. /\ d \in Seq(Tokens) /\ Len(d) = 2 * (R + S) - 1
      /\ \A i \in 1..(2 * R) : d[i] = ab[i]
      /\ \A i \in (2 * R + 1)..(2 * (R + S) - 1) : d[i] = c[i - 2 * R]
  <2>1. /\ d \in Seq(Tokens) /\ Len(d) = Len(ab) + Len(c)
        /\ \A i \in 1..Len(ab) : d[i] = ab[i]
        /\ \A i \in (Len(ab) + 1)..(Len(ab) + Len(c)) : d[i] = c[i - Len(ab)]
    BY <1>2, <1>5, Joined2
  <2>2. Len(ab) + Len(c) = 2 * (R + S) - 1
    BY <1>1, <1>2, <1>5
  <2> QED
    BY <1>5, <2>1, <2>2
<1> HIDE DEF d
<1>7. ASSUME NEW j \in 1..(2 * (R + S) - 1)
      PROVE  IF j % 2 = 1 THEN d[j] = McuRow(0, call.height, Height, j \div 2) ELSE IsRst(d[j])
  <2>1. CASE j > 2 * R
    <3> DEFINE i == j - 2 * R
    <3>1. i \in 1..(2 * S - 1) /\ i % 2 = j % 2 /\ i \div 2 = j \div 2 - R
      BY <1>1, <2>1
    <3>2. d[j] = c[i]
      BY SMTT(30), <1>1, <1>6, <2>1
    <3>3. CASE j % 2 = 1
      <4>1. i \div 2 \in Nat /\ i \div 2 < S /\ R + i \div 2 = j \div 2
        BY <1>1, <3>1, <3>3
      <4>2. d[j] = McuRow(StartRow(k), NumRows(k), Height, i \div 2)
        BY <1>2, <3>1, <3>2, <3>3
      <4>3. d[j] = McuRow(0, call.height, Height, R + i \div 2)
        BY <4>1, <4>2, StripRow DEF R, S
      <4> QED
        BY <3>3, <4>1, <4>3
    <3>4. CASE j % 2 # 1
      <4>1. i \div 2 - 1 \in Nat
        BY <1>1, <3>1, <3>4
      <4>2. d[j] = Rst((i \div 2 - 1) % RST_CYCLE)
        BY <1>2, <3>1, <3>2, <3>4
      <4> QED
        BY <3>4, <4>1, <4>2, MarkerToken
    <3> QED
      BY <3>3, <3>4
  <2>2. CASE j = 2 * R
    <3>1. j % 2 = 0 /\ R # 0 /\ Len(scan) = 2 * R - 1
      BY <1>1, <1>4, <2>2
    <3>2. d[j] = b[1]
      BY <1>1, <1>5, <1>6, <2>2, <3>1
    <3> QED
      BY <1>3, <3>1, <3>2
  <2>3. CASE j < 2 * R
    <3>1. R # 0 /\ j \in 1..Len(scan)
      BY <1>1, <1>4, <2>3
    <3>2. d[j] = scan[j]
      BY <1>1, <1>4, <1>5, <1>6, <2>3, <3>1
    <3> QED
      BY <1>4, <3>1, <3>2
  <2> QED
    BY <1>1, <2>1, <2>2, <2>3
<1>8. Len(d) = IF R + S = 0 THEN 0 ELSE 2 * (R + S) - 1
  BY <1>1, <1>6 DEF S
<1>9. HasRows(d, R + S)
  BY <1>6, <1>7, <1>8 DEF HasRows
<1> QED
  BY <1>1, <1>6, <1>9 DEF ab, b, c, d, R, S

\* There are m - 1 even numbers below 2 m.
LEMMA CountEvens ==
  ASSUME NEW m \in Nat \ {0}
  PROVE  Cardinality({k \in 1..(2 * m - 1) : k % 2 = 0}) = m - 1
<1> DEFINE T == {k \in 1..(2 * m - 1) : k % 2 = 0}
           f == [i \in 1..(m - 1) |-> 2 * i]
<1>1. f \in Injection(1..(m - 1), T)
  <2>1. ASSUME NEW i \in 1..(m - 1) PROVE 2 * i \in T
    BY (2 * i) % 2 = 0
  <2>2. f \in [1..(m - 1) -> T]
    BY <2>1
  <2>3. ASSUME NEW i \in 1..(m - 1), NEW j \in 1..(m - 1), f[i] = f[j] PROVE i = j
    BY <2>3
  <2> QED
    BY <2>2, <2>3 DEF Injection, IsInjective
<1>2. f \in Surjection(1..(m - 1), T)
  <2>1. \A k \in T : k \div 2 \in 1..(m - 1) /\ f[k \div 2] = k
    OBVIOUS
  <2>2. f \in [1..(m - 1) -> T]
    BY <1>1 DEF Injection
  <2> QED
    BY <2>1, <2>2 DEF Surjection
<1>3. ExistsBijection(1..(m - 1), T)
  BY <1>1, <1>2 DEF ExistsBijection, Bijection
<1>4. IsFiniteSet(1..(m - 1)) /\ Cardinality(1..(m - 1)) = m - 1
  BY FS_Interval
<1> QED
  BY <1>3, <1>4, FS_Bijection

\* A scan with every row of the image is, renumbered, that of one thread.
LEMMA RenumberedIsReference ==
  ASSUME call \in Calls, NEW scan \in Seq(Tokens), HasRows(scan, Total), Total > 0
  PROVE  Renumbered(scan) = ReferenceScan(call.height, Height)
<1>1. Total \in Nat /\ Total = McuRows(call.height, Height)
  BY CallFacts
<1>2. /\ Len(scan) = 2 * Total - 1
      /\ \A j \in 1..Len(scan) :
           IF j % 2 = 1 THEN scan[j] = McuRow(0, call.height, Height, j \div 2)
           ELSE IsRst(scan[j])
  BY <1>1 DEF HasRows
<1>3. \A r : ~IsRst(McuRow(0, call.height, Height, r))
  BY DEF McuRow, Row, IsRst
<1>4. \A j \in 1..Len(scan) : IsRst(scan[j]) <=> j % 2 = 0
  BY <1>1, <1>2, <1>3
<1>5. ASSUME NEW j \in 1..Len(scan), j % 2 = 0
      PROVE  Cardinality({k \in 1..(j - 1) : IsRst(scan[k])}) = j \div 2 - 1
  <2>1. j \div 2 \in Nat \ {0} /\ j = 2 * (j \div 2)
    BY <1>1, <1>2, <1>5
  <2>2. {k \in 1..(j - 1) : IsRst(scan[k])} = {k \in 1..(2 * (j \div 2) - 1) : k % 2 = 0}
    BY <1>1, <1>2, <1>4, <2>1
  <2> QED
    BY <2>1, <2>2, CountEvens
<1>6. ASSUME NEW j \in 1..(2 * Total - 1)
      PROVE  (IF IsRst(scan[j])
              THEN Rst(Cardinality({k \in 1..(j - 1) : IsRst(scan[k])}) % RST_CYCLE)
              ELSE scan[j])
             = IF j % 2 = 1 THEN McuRow(0, call.height, Height, j \div 2)
               ELSE Rst((j \div 2 - 1) % RST_CYCLE)
  <2>1. j \in 1..Len(scan) /\ (j % 2 = 0 \/ j % 2 = 1)
    BY <1>1, <1>2
  <2>2. CASE j % 2 = 0
    BY <1>4, <1>5, <2>1, <2>2
  <2>3. CASE j % 2 = 1
    BY <1>2, <1>4, <2>1, <2>3
  <2> QED
    BY <2>1, <2>2, <2>3
<1> QED
  BY <1>1, <1>2, <1>6 DEF Renumbered, ReferenceScan

-----------------------------------------------------------------------------
(* The chunks of the static schedule, and the strips left to a thread.     *)

\* Chunks are intervals of strips, and no strip is in two of them.
LEMMA ChunksDivide ==
  ASSUME NEW count \in Nat, NEW size \in Nat \ {0}
  PROVE  /\ \A t \in 0..(size - 1) :
              /\ Chunk(t, size, count) \subseteq 0..(count - 1)
              /\ \E lo, hi \in Int : Chunk(t, size, count) = lo..hi
         /\ \A t, u \in 0..(size - 1) :
              t # u => Chunk(t, size, count) \cap Chunk(u, size, count) = {}
<1> DEFINE q == count \div size
           r == count % size
           From(t) == IF t < r THEN t * (q + 1) ELSE t * q + r
<1>1. q \in Nat /\ r \in 0..(size - 1) /\ count = size * q + r
  OBVIOUS
<1> HIDE DEF q, r
<1>2. ASSUME NEW t \in 0..size
      PROVE  From(t) \in Nat
  BY <1>1
<1>3. ASSUME NEW t \in 0..(size - 1)
      PROVE  Chunk(t, size, count) = From(t)..(From(t + 1) - 1)
  <2>1. CASE t + 1 < r
    <3>1. From(t) = t * (q + 1) /\ From(t + 1) = (t + 1) * (q + 1)
      BY <1>1, <2>1
    <3>2. (t + 1) * (q + 1) = t * (q + 1) + (q + 1)
      BY <1>1
    <3>3. Chunk(t, size, count) = t * (q + 1)..(t * (q + 1) + (q + 1) - 1)
      BY <1>1, <2>1 DEF Chunk, q, r
    <3>4. From(t + 1) - 1 = t * (q + 1) + (q + 1) - 1
      <4> HIDE DEF From
      <4> QED
        BY <1>1, <3>1, <3>2
    <3> QED
      <4> HIDE DEF From
      <4> QED
        BY <3>1, <3>3, <3>4
  <2>2. CASE t + 1 = r
    <3>1. From(t) = t * (q + 1) /\ From(t + 1) = (t + 1) * q + r
      BY <1>1, <2>2
    <3>2. (t + 1) * q + r = t * (q + 1) + (q + 1)
      BY <1>1, <2>2
    <3>3. Chunk(t, size, count) = t * (q + 1)..(t * (q + 1) + (q + 1) - 1)
      BY <1>1, <2>2 DEF Chunk, q, r
    <3>4. From(t + 1) - 1 = t * (q + 1) + (q + 1) - 1
      <4> HIDE DEF From
      <4> QED
        BY <1>1, <3>1, <3>2
    <3> QED
      <4> HIDE DEF From
      <4> QED
        BY <3>1, <3>3, <3>4
  <2>3. CASE t >= r
    <3>1. From(t) = t * q + r /\ From(t + 1) = (t + 1) * q + r
      BY <1>1, <2>3
    <3>2. (t + 1) * q + r = (t * q + r) + q
      BY <1>1
    <3>3. Chunk(t, size, count) = (t * q + r)..((t * q + r) + q - 1)
      BY <1>1, <2>3 DEF Chunk, q, r
    <3>4. From(t + 1) - 1 = (t * q + r) + q - 1
      <4> HIDE DEF From
      <4> QED
        BY <1>1, <3>1, <3>2
    <3> QED
      <4> HIDE DEF From
      <4> QED
        BY <3>1, <3>3, <3>4
  <2> QED
    BY <1>1, <2>1, <2>2, <2>3
<1>4. ASSUME NEW t \in 0..size, NEW u \in 0..size, t <= u
      PROVE  From(t) <= From(u)
  <2>1. t * (q + 1) <= u * (q + 1) /\ t * q <= u * q
    BY <1>1, <1>4, MulMonotone
  <2>2. t * (q + 1) = t * q + t /\ u * (q + 1) = u * q + u
    BY <1>1
  <2>3. t * q \in Nat /\ u * q \in Nat
    BY <1>1
  <2> QED
    BY <1>1, <1>4, <2>1, <2>2, <2>3
<1>5. From(size) = count
  BY <1>1
<1> HIDE DEF From
<1>6. ASSUME NEW t \in 0..(size - 1)
      PROVE  /\ Chunk(t, size, count) \subseteq 0..(count - 1)
             /\ \E lo, hi \in Int : Chunk(t, size, count) = lo..hi
  <2>1. t \in 0..size /\ t + 1 \in 0..size /\ size \in 0..size
    OBVIOUS
  <2>2. From(t) \in Nat /\ From(t + 1) \in Nat /\ From(t + 1) <= count
    BY <1>2, <1>4, <1>5, <2>1
  <2> QED
    BY <1>3, <2>2
<1>7. ASSUME NEW t \in 0..(size - 1), NEW u \in 0..(size - 1), t < u
      PROVE  Chunk(t, size, count) \cap Chunk(u, size, count) = {}
  <2>1. t + 1 \in 0..size /\ u \in 0..size /\ t + 1 <= u /\ t \in 0..size /\ u + 1 \in 0..size
    BY <1>7
  <2>2. From(t + 1) <= From(u)
    BY <1>4, <2>1
  <2>3. From(t) \in Nat /\ From(t + 1) \in Nat /\ From(u) \in Nat /\ From(u + 1) \in Nat
    BY <1>2, <2>1
  <2> QED
    BY <1>3, <2>2, <2>3
<1>8. ASSUME NEW t \in 0..(size - 1), NEW u \in 0..(size - 1), t # u
      PROVE  Chunk(t, size, count) \cap Chunk(u, size, count) = {}
  <2>1. t < u \/ u < t
    BY <1>8
  <2> QED
    BY <1>7, <2>1
<1> QED
  BY <1>6, <1>8

\* The loop takes the strips of an interval from the first one on.
LEMMA FirstOfInterval ==
  ASSUME NEW lo \in Int, NEW hi \in Int, lo <= hi
  PROVE  /\ (CHOOSE s \in lo..hi : \A u \in lo..hi : s <= u) = lo
         /\ lo..hi \ {lo} = (lo + 1)..hi
<1>1. lo \in lo..hi /\ \A u \in lo..hi : lo <= u
  OBVIOUS
<1>2. \A s \in lo..hi : (\A u \in lo..hi : s <= u) => s = lo
  BY <1>1
<1> QED
  BY <1>1, <1>2

LEMMA CurrentFirst ==
  ASSUME NEW t, NEW lo \in Int, NEW hi \in Int, thr[t].todo = lo..hi, thr[t].todo # {}
  PROVE  /\ Current(t) = lo /\ Current(t) \in thr[t].todo
         /\ thr[t].todo \ {Current(t)} = (lo + 1)..hi
<1>1. lo <= hi
  OBVIOUS
<1>2. Current(t) = lo
  BY <1>1, FirstOfInterval DEF Current
<1> QED
  BY <1>1, <1>2, FirstOfInterval

-----------------------------------------------------------------------------
(* What the plan determines stays when the call and the number of strips   *)
(* do.                                                                     *)

LEMMA PlanStays ==
  ASSUME call' = call, n' = n
  PROVE  /\ Threads' = Threads /\ Height' = Height /\ Total' = Total
         /\ Per' = Per /\ Reference' = Reference
         /\ \A s : NumRows(s)' = NumRows(s) /\ StripRows(s)' = StripRows(s)
         /\ \A s : RowsIn(s)' = RowsIn(s)
         /\ \A s, b : Whole(s, b)' = Whole(s, b)
         /\ \A s, r, b : Open(s, r, b)' = Open(s, r, b)
         /\ \A scan, rows : HasRows(scan, rows)' = HasRows(scan, rows)
  BY DEF Threads, Height, Total, Per, Reference, NumRows, StartRow, Stride, StripRows,
         Whole, WholeStrip, RowsIn, Open, OpenStrip, StripScan, HasRows

-----------------------------------------------------------------------------
(* The invariant holds initially and after every step.                     *)

LEMMA InitInvariant == Init => IInv
<1> SUFFICES ASSUME Init PROVE IInv
  OBVIOUS
<1>1. /\ call \in Calls /\ pc = "alloc" /\ n = 0 /\ team = 0 /\ copied = 0
      /\ heap = {} /\ ret = "none" /\ bufs = <<>> /\ thr = <<>> /\ out = NoJpeg
  BY DEF Init
<1>2. 0..(n - 1) = {} /\ 0..(team - 1) = {} /\ DOMAIN thr = {}
  BY <1>1
<1>3. MAX_TEAM \in Nat /\ HEIGHT_FIELD \in Nat /\ HEIGHT_FIELD > 0
  BY <1>1, CallFacts
<1>4. Typed
  <2>1. out \in [height : 0..(HEIGHT_FIELD - 1), scan : Seq(Tokens)]
    BY <1>1, <1>3 DEF NoJpeg
  <2>2. /\ bufs \in [0..(n - 1) -> Buffers]
        /\ thr \in [0..(team - 1) -> [todo : SUBSET (0..(n - 1)),
                                      at : {"idle", "encode"}, row : Nat]]
    BY <1>1, <1>2
  <2> QED
    BY <1>1, <1>3, <2>1, <2>2 DEF Typed, Positions
<1>5. Planned
  BY <1>1 DEF Planned
<1>6. Divided /\ Working
  BY <1>1, <1>2 DEF Divided, Working
<1>7. Allocated /\ Spliced
  BY <1>1 DEF Allocated, Spliced
<1> QED
  BY <1>4, <1>5, <1>6, <1>7 DEF IInv

\* Strip buffers differ from one another and from the other blocks.
LEMMA BlocksDiffer ==
  /\ \A s, u, j, k : Buffer(s, j) = Buffer(u, k) => s = u /\ j = k
  /\ \A s, k : Buffer(s, k) \notin ArrayBlocks \cup SpliceBlocks \cup Output
  /\ ArrayBlocks \cap SpliceBlocks = {} /\ <<"out_buf">> \notin ArrayBlocks \cup SpliceBlocks
<1>1. \A s, k : Len(Buffer(s, k)) = 3
  BY DEF Buffer
<1>2. \A b \in ArrayBlocks \cup SpliceBlocks \cup Output : Len(b) = 1
  BY DEF ArrayBlocks, SpliceBlocks, Output
<1>3. \A s, k : Buffer(s, k) \notin ArrayBlocks \cup SpliceBlocks \cup Output
  BY <1>1, <1>2
<1>4. \A s, u, j, k : Buffer(s, j) = Buffer(u, k) => s = u /\ j = k
  BY DEF Buffer
<1>5. ArrayBlocks \cap SpliceBlocks = {} /\ <<"out_buf">> \notin ArrayBlocks \cup SpliceBlocks
  BY DEF ArrayBlocks, SpliceBlocks, Arrays, SpliceArrays
<1> QED
  BY <1>3, <1>4, <1>5

\* No strip has a block that its record does not name.
LEMMA OneBlock ==
  ASSUME NEW s \in 0..(n - 1), NEW k
  PROVE  Buffer(s, k) \in StripBlocks <=> bufs[s].block = k /\ k # 0
<1>1. ASSUME Buffer(s, k) \in StripBlocks PROVE bufs[s].block = k /\ k # 0
  <2>1. PICK u \in 0..(n - 1) : bufs[u].block # 0 /\ Buffer(s, k) = Buffer(u, bufs[u].block)
    BY <1>1 DEF StripBlocks
  <2> QED
    BY <2>1, BlocksDiffer
<1>2. ASSUME bufs[s].block = k, k # 0 PROVE Buffer(s, k) \in StripBlocks
  BY <1>2 DEF StripBlocks
<1> QED
  BY <1>1, <1>2

\* An array or function with one element changed.
LEMMA OneChanged ==
  ASSUME NEW D, NEW R, NEW f \in [D -> R], NEW x \in D, NEW v \in R,
         NEW g, g = [f EXCEPT ![x] = v]
  PROVE  /\ g \in [D -> R] /\ g[x] = v
         /\ \A y \in D : y # x => g[y] = f[y]
OBVIOUS

\* A worker's step: thread t goes on with its strip or leaves it.
LEMMA ThreadStep ==
  ASSUME IInv, pc = "parallel", NEW t \in DOMAIN thr, thr[t].todo # {},
         UNCHANGED <<call, pc, n, team, copied, out, ret>>,
         NEW b \in Buffers, bufs' = [bufs EXCEPT ![Current(t)] = b],
         NEW r \in Nat, r <= StripRows(Current(t)), NEW stays \in BOOLEAN,
         thr' = [thr EXCEPT ![t] =
                   IF stays THEN [todo |-> thr[t].todo, at |-> "encode", row |-> r]
                   ELSE [todo |-> thr[t].todo \ {Current(t)}, at |-> "idle", row |-> 0]],
         IF stays THEN Open(Current(t), r, b) ELSE Failed(b) \/ Whole(Current(t), b),
         heap' = (heap \ {Buffer(Current(t), bufs[Current(t)].block)})
                   \cup BlockOf(Current(t), b)
  PROVE  IInv'
<1> DEFINE s == Current(t)
           w == IF stays THEN [todo |-> thr[t].todo, at |-> "encode", row |-> r]
                ELSE [todo |-> thr[t].todo \ {s}, at |-> "idle", row |-> 0]
           Thread == [todo : SUBSET (0..(n - 1)), at : {"idle", "encode"}, row : Nat]
<1>1. Typed /\ Planned /\ Divided /\ Working /\ Allocated /\ Spliced
  BY DEF IInv
<1>2. PICK lo \in Int, hi \in Int : thr[t].todo = lo..hi
  BY <1>1 DEF Divided
<1>3. s = lo /\ s \in thr[t].todo /\ thr[t].todo \ {s} = (lo + 1)..hi
  BY <1>2, CurrentFirst
<1>4. /\ thr \in [0..(team - 1) -> Thread] /\ bufs \in [0..(n - 1) -> Buffers]
      /\ DOMAIN thr = 0..(team - 1) /\ s \in 0..(n - 1)
  BY <1>1, <1>3 DEF Typed
<1> HIDE DEF s
<1>5. w \in Thread
  BY <1>4
<1>6. /\ thr' = [thr EXCEPT ![t] = w] /\ bufs' = [bufs EXCEPT ![s] = b]
      /\ heap' = (heap \ {Buffer(s, bufs[s].block)}) \cup BlockOf(s, b)
      /\ r <= StripRows(s)
      /\ IF stays THEN Open(s, r, b) ELSE Failed(b) \/ Whole(s, b)
  BY DEF s
<1>7. /\ w.todo = IF stays THEN thr[t].todo ELSE thr[t].todo \ {s}
      /\ w.at = IF stays THEN "encode" ELSE "idle"
      /\ w.row = IF stays THEN r ELSE 0
      /\ w.todo \subseteq thr[t].todo
  OBVIOUS
<1> HIDE DEF w
<1>8. /\ thr' \in [0..(team - 1) -> Thread] /\ bufs' \in [0..(n - 1) -> Buffers]
      /\ thr'[t] = w /\ bufs'[s] = b
      /\ \A u \in DOMAIN thr : u # t => thr'[u] = thr[u]
      /\ \A u \in 0..(n - 1) : u # s => bufs'[u] = bufs[u]
      /\ DOMAIN thr' = DOMAIN thr
  <2> HIDE DEF Thread
  <2>1. t \in 0..(team - 1) /\ thr' = [thr EXCEPT ![t] = w]
    BY <1>4, <1>6
  <2>2. /\ thr' \in [0..(team - 1) -> Thread] /\ thr'[t] = w
        /\ \A u \in 0..(team - 1) : u # t => thr'[u] = thr[u]
    BY ONLY OneChanged, <1>4, <1>5, <2>1
  <2>3. /\ bufs' \in [0..(n - 1) -> Buffers] /\ bufs'[s] = b
        /\ \A u \in 0..(n - 1) : u # s => bufs'[u] = bufs[u]
    BY ONLY OneChanged, <1>4, <1>6, b \in Buffers
  <2> QED
    BY ONLY <1>4, <2>2, <2>3
<1>9. Typed'
  BY <1>1, <1>8 DEF Typed
<1>10. Planned'
  BY <1>1, PlanStays DEF Planned
<1>11. Divided'
  <2>1. ASSUME NEW u \in DOMAIN thr
        PROVE  \E x, y \in Int : thr'[u].todo = x..y
    <3>1. CASE u = t
      <4>1. thr'[u].todo = w.todo
        BY <1>8, <3>1
      <4>2. CASE stays
        <5>1. thr'[u].todo = lo..hi
          BY <1>2, <1>7, <4>1, <4>2
        <5> QED
          BY <5>1
      <4>3. CASE ~stays
        <5>1. thr'[u].todo = (lo + 1)..hi /\ lo + 1 \in Int
          <6>1. w.todo = thr[t].todo \ {s}
            BY <1>7, <4>3
          <6>2. lo + 1 \in Int
            OBVIOUS
          <6> QED
            BY <1>3, <4>1, <6>1, <6>2, Zenon
        <5> QED
          BY <5>1
      <4> QED
        BY <4>2, <4>3
    <3>2. CASE u # t
      BY <1>1, <1>8, <3>2 DEF Divided
    <3> QED
      BY <3>1, <3>2
  <2>2. ASSUME NEW u \in DOMAIN thr, NEW v \in DOMAIN thr, u # v
        PROVE  thr'[u].todo \cap thr'[v].todo = {}
    <3>1. thr[u].todo \cap thr[v].todo = {}
      BY <1>1, <2>2 DEF Divided
    <3>2. thr'[u].todo \subseteq thr[u].todo /\ thr'[v].todo \subseteq thr[v].todo
      BY <1>7, <1>8
    <3> QED
      BY <3>1, <3>2
  <2> QED
    BY <1>8, <2>1, <2>2 DEF Divided
<1>12. ASSUME NEW u \in DOMAIN thr, u # t
       PROVE  /\ Current(u)' = Current(u) /\ s \notin thr[u].todo
              /\ thr[u].todo # {} => Current(u) \in thr[u].todo
  <2>1. Current(u)' = Current(u)
    BY <1>8, <1>12 DEF Current
  <2>2. s \notin thr[u].todo
    BY <1>1, <1>3, <1>12 DEF Divided
  <2>3. PICK x \in Int, y \in Int : thr[u].todo = x..y
    BY <1>1 DEF Divided
  <2> QED
    BY <2>1, <2>2, <2>3, CurrentFirst
<1>13. stays => Current(t)' = s
  BY <1>7, <1>8 DEF Current, s
<1>14. ASSUME NEW u \in DOMAIN thr
       PROVE  IF thr'[u].at = "idle" THEN thr'[u].row = 0 /\ \A x \in thr'[u].todo : bufs'[x] = Null
              ELSE /\ thr'[u].todo # {}
                   /\ Open(Current(u)', thr'[u].row, bufs'[Current(u)'])
                   /\ thr'[u].row <= StripRows(Current(u)')
                   /\ \A x \in thr'[u].todo \ {Current(u)'} : bufs'[x] = Null
  <2>1. /\ thr[u].todo \subseteq 0..(n - 1) /\ thr[t].todo \subseteq 0..(n - 1)
        /\ thr[u].at \in {"idle", "encode"}
    BY <1>4
  <2>2. IF thr[u].at = "idle" THEN thr[u].row = 0 /\ \A x \in thr[u].todo : bufs[x] = Null
        ELSE /\ thr[u].todo # {}
             /\ Open(Current(u), thr[u].row, bufs[Current(u)])
             /\ thr[u].row <= StripRows(Current(u))
             /\ \A x \in thr[u].todo \ {Current(u)} : bufs[x] = Null
    BY <1>1 DEF Working
  <2>3. CASE u # t
    <3>1. \A x \in thr[u].todo : bufs'[x] = bufs[x]
      BY <1>8, <1>12, <2>1, <2>3
    <3>2. thr'[u] = thr[u] /\ Current(u)' = Current(u)
      BY <1>8, <1>12, <2>3
    <3>3. thr[u].todo # {} => Current(u) \in thr[u].todo
      BY <1>12, <2>3
    <3> QED
      BY <2>2, <3>1, <3>2, <3>3
  <2>4. CASE u = t
    <3>1. \A x \in thr[t].todo \ {s} : bufs'[x] = Null
      <4>1. \A x \in thr[t].todo \ {s} : bufs[x] = Null
        BY <2>2, <2>4 DEF s
      <4> QED
        BY <1>8, <2>1, <4>1
    <3>2. CASE stays
      BY <1>3, <1>6, <1>7, <1>8, <1>13, <2>4, <3>1, <3>2
    <3>3. CASE ~stays
      BY <1>7, <1>8, <2>4, <3>1, <3>3
    <3> QED
      BY <3>2, <3>3
  <2> QED
    BY <2>3, <2>4
<1>15. ASSUME NEW x \in 0..(n - 1)
       PROVE  \/ Failed(bufs'[x])
              \/ Whole(x, bufs'[x])
              \/ \E u \in DOMAIN thr : thr'[u].at = "encode" /\ Current(u)' = x
  <2>1. CASE x = s
    <3>1. CASE stays
      BY <1>7, <1>8, <1>13, <2>1, <3>1
    <3>2. CASE ~stays
      BY <1>6, <1>8, <2>1, <3>2
    <3> QED
      BY <3>1, <3>2
  <2>2. CASE x # s
    <3>1. bufs'[x] = bufs[x]
      BY <1>8, <2>2
    <3>2. CASE \E u \in DOMAIN thr : thr[u].at = "encode" /\ Current(u) = x
      <4>1. PICK u \in DOMAIN thr : thr[u].at = "encode" /\ Current(u) = x
        BY <3>2
      <4>2. u # t
        BY <2>2, <4>1 DEF s
      <4>3. thr'[u].at = "encode" /\ Current(u)' = x
        BY <1>8, <1>12, <4>1, <4>2
      <4> QED
        BY <4>3
    <3> QED
      BY <1>1, <3>1, <3>2 DEF Working
  <2> QED
    BY <2>1, <2>2
<1>16. Working'
  <2>1. /\ \A x : StripRows(x)' = StripRows(x)
        /\ \A x, y : Whole(x, y)' = Whole(x, y)
        /\ \A x, y, z : Open(x, y, z)' = Open(x, y, z)
    BY PlanStays
  <2> QED
    BY <1>8, <1>14, <1>15, <2>1 DEF Working, Failed
<1>17. StripBlocks' = (StripBlocks \ {Buffer(s, bufs[s].block)}) \cup BlockOf(s, b)
  <2> DEFINE Has == {u \in 0..(n - 1) : bufs[u].block # 0} \ {s}
             Others == {Buffer(x, bufs[x].block) : x \in Has}
  <2>1. \A x \in Has : Buffer(x, bufs[x].block) # Buffer(s, bufs[s].block)
    BY BlocksDiffer
  <2>2. StripBlocks \ {Buffer(s, bufs[s].block)} = Others
    BY <2>1 DEF StripBlocks
  <2>3. StripBlocks' = {Buffer(x, bufs'[x].block) : x \in {u \in 0..(n - 1) : bufs'[u].block # 0}}
    BY DEF StripBlocks, Buffer
  <2>4. StripBlocks' = Others \cup BlockOf(s, b)
    BY <1>4, <1>8, <2>3 DEF BlockOf
  <2> QED
    BY <2>2, <2>4
<1>18. Allocated'
  <2>1. heap = ArrayBlocks \cup StripBlocks /\ ArrayBlocks' = ArrayBlocks
    BY <1>1 DEF Allocated, ArrayBlocks
  <2>2. heap' = ArrayBlocks \cup StripBlocks'
    BY <1>6, <1>17, <2>1, BlocksDiffer DEF BlockOf
  <2> QED
    BY <2>1, <2>2 DEF Allocated
<1>19. Spliced'
  BY <1>1 DEF Spliced
<1> QED
  BY <1>9, <1>10, <1>11, <1>16, <1>18, <1>19 DEF IInv

\* A thread that goes on with its strip, and one that leaves it.
LEMMA StaysStep ==
  ASSUME IInv, pc = "parallel", NEW t \in DOMAIN thr, thr[t].todo # {},
         UNCHANGED <<call, pc, n, team, copied, out, ret>>,
         NEW r \in Nat, r <= StripRows(Current(t)),
         NEW b \in Buffers, Open(Current(t), r, b),
         bufs' = [bufs EXCEPT ![Current(t)] = b],
         thr' = [thr EXCEPT ![t] = [todo |-> thr[t].todo, at |-> "encode", row |-> r]],
         heap' = (heap \ {Buffer(Current(t), bufs[Current(t)].block)})
                   \cup BlockOf(Current(t), b)
  PROVE  IInv'
<1> DEFINE s == Current(t)
           stays == TRUE
<1>1. stays \in BOOLEAN /\ IF stays THEN Open(s, r, b) ELSE Failed(b) \/ Whole(s, b)
  OBVIOUS
<1>2. thr' = [thr EXCEPT ![t] =
                IF stays THEN [todo |-> thr[t].todo, at |-> "encode", row |-> r]
                ELSE [todo |-> thr[t].todo \ {s}, at |-> "idle", row |-> 0]]
  OBVIOUS
<1> HIDE DEF stays
<1> QED
  BY <1>1, <1>2, ThreadStep

LEMMA LeavesStep ==
  ASSUME IInv, pc = "parallel", NEW t \in DOMAIN thr, thr[t].todo # {},
         UNCHANGED <<call, pc, n, team, copied, out, ret>>,
         NEW b \in Buffers, bufs' = [bufs EXCEPT ![Current(t)] = b],
         Failed(b) \/ Whole(Current(t), b),
         StripRows(Current(t)) \in Nat,
         NextStrip(t),
         heap' = (heap \ {Buffer(Current(t), bufs[Current(t)].block)})
                   \cup BlockOf(Current(t), b)
  PROVE  IInv'
<1> DEFINE s == Current(t)
           stays == FALSE
           r == 0
<1>1. /\ stays \in BOOLEAN /\ r \in Nat /\ r <= StripRows(s)
      /\ IF stays THEN Open(s, r, b) ELSE Failed(b) \/ Whole(s, b)
  OBVIOUS
<1>2. thr' = [thr EXCEPT ![t] =
                IF stays THEN [todo |-> thr[t].todo, at |-> "encode", row |-> r]
                ELSE [todo |-> thr[t].todo \ {s}, at |-> "idle", row |-> 0]]
  BY DEF NextStrip
<1> HIDE DEF stays, r
<1> QED
  BY <1>1, <1>2, ThreadStep

\* What a busy thread works on.
LEMMA WorkerFacts ==
  ASSUME IInv, NEW t \in DOMAIN thr, Busy(t)
  PROVE  /\ pc = "parallel" /\ thr[t].todo # {}
         /\ call \in Calls /\ n = StripCount(Total, call.threads)
         /\ Current(t) \in thr[t].todo /\ Current(t) \in 0..(n - 1)
         /\ bufs \in [0..(n - 1) -> Buffers]
         /\ thr \in [DOMAIN thr -> [todo : SUBSET (0..(n - 1)), at : {"idle", "encode"}, row : Nat]]
         /\ NumRows(Current(t)) \in 0..JPEG_MAX_DIMENSION
         /\ StripRows(Current(t)) \in Nat
         /\ heap = ArrayBlocks \cup StripBlocks
         /\ IF thr[t].at = "idle" THEN thr[t].row = 0 /\ bufs[Current(t)] = Null
            ELSE /\ Open(Current(t), thr[t].row, bufs[Current(t)])
                 /\ thr[t].row <= StripRows(Current(t))
<1>1. pc = "parallel" /\ thr[t].todo # {}
  BY DEF Busy
<1>2. Typed /\ Planned /\ Divided /\ Working /\ Allocated
  BY DEF IInv
<1>3. PICK lo \in Int, hi \in Int : thr[t].todo = lo..hi
  BY <1>2 DEF Divided
<1>4. Current(t) \in thr[t].todo
  BY <1>1, <1>3, CurrentFirst
<1>5. /\ bufs \in [0..(n - 1) -> Buffers] /\ call \in Calls
      /\ thr \in [DOMAIN thr -> [todo : SUBSET (0..(n - 1)), at : {"idle", "encode"}, row : Nat]]
      /\ n \in Nat
  <2>1. /\ bufs \in [0..(n - 1) -> Buffers] /\ call \in Calls
        /\ thr \in [0..(team - 1) -> [todo : SUBSET (0..(n - 1)),
                                      at : {"idle", "encode"}, row : Nat]]
        /\ n \in 0..MAX_TEAM
    BY <1>2 DEF Typed
  <2>2. DOMAIN thr = 0..(team - 1)
    BY <2>1
  <2> QED
    BY <2>1, <2>2
<1>6. Current(t) \in 0..(n - 1)
  BY <1>4, <1>5
<1>7. n = StripCount(Total, call.threads)
  BY <1>2, <1>5, <1>6 DEF Planned
<1>8. /\ NumRows(Current(t)) \in Nat /\ StripRows(Current(t)) \in Nat
      /\ StartRow(Current(t)) \in Nat
      /\ StartRow(Current(t)) + NumRows(Current(t)) <= call.height
  BY <1>5, <1>6, <1>7, StripShape
<1>9. NumRows(Current(t)) \in 0..JPEG_MAX_DIMENSION
  BY SMTT(30), <1>5, <1>8, CallFacts
<1>10. heap = ArrayBlocks \cup StripBlocks
  BY <1>1, <1>2 DEF Allocated
<1>11. IF thr[t].at = "idle" THEN thr[t].row = 0 /\ bufs[Current(t)] = Null
       ELSE /\ Open(Current(t), thr[t].row, bufs[Current(t)])
            /\ thr[t].row <= StripRows(Current(t))
  BY <1>2, <1>4 DEF Working
<1> QED
  BY <1>1, <1>4, <1>5, <1>6, <1>7, <1>8, <1>9, <1>10, <1>11

\* A strip is a buffer, whether it is open or complete.
LEMMA StripBuffers ==
  ASSUME call \in Calls, n = StripCount(Total, call.threads), NEW s \in 0..(n - 1),
         NEW r \in Nat, r <= StripRows(s), NEW k \in 0..2
  PROVE  /\ OpenStrip(s, r, k) \in Buffers /\ WholeStrip(s, k) \in Buffers
         /\ StripScan(s, 0) = <<>>
<1>1. /\ NumRows(s) \in Nat /\ StripRows(s) \in Nat /\ StartRow(s) \in Nat
      /\ StartRow(s) + NumRows(s) <= JPEG_MAX_DIMENSION /\ JPEG_MAX_DIMENSION \in Nat
  BY StripShape, CallFacts
<1>2. NumRows(s) \in 0..JPEG_MAX_DIMENSION
  BY <1>1
<1>3. StripScan(s, r) \in Seq(Tokens)
  BY StripScanShape
<1>4. StripScan(s, StripRows(s)) \in Seq(Tokens)
  BY <1>1, StripScanShape
<1>5. StripScan(s, 0) \in Seq(Tokens) /\ Len(StripScan(s, 0)) = 0
  BY <1>1, StripScanShape
<1>6. StripScan(s, 0) = <<>>
  BY <1>5, EmptySeq
<1> QED
  BY <1>2, <1>3, <1>4, <1>6 DEF Buffers, OpenStrip, WholeStrip

\* A step of the master that leaves the strips alone.
LEMMA QuietStep ==
  ASSUME IInv, UNCHANGED <<call, n, bufs, team, thr>>,
         pc' \in Positions, copied' \in 0..n, ret' \in {"none", "TRUE", "FALSE"},
         out' \in [height : 0..(HEIGHT_FIELD - 1), scan : Seq(Tokens)],
         pc' \notin {"parallel", "undefined"} => \A t \in DOMAIN thr : thr[t].todo = {}
  PROVE  /\ Typed' /\ Divided' /\ Working'
         /\ StripBlocks' = StripBlocks /\ LostBlocks' = LostBlocks /\ ArrayBlocks' = ArrayBlocks
         /\ SpliceBlocks' = SpliceBlocks /\ Output' = Output
<1>1. Typed /\ Divided /\ Working
  BY DEF IInv
<1>2. Typed'
  BY <1>1 DEF Typed
<1>3. Divided'
  BY <1>1 DEF Divided
<1>4. \A t : Current(t)' = Current(t)
  BY DEF Current
<1>5. Working'
  BY <1>1, <1>4, PlanStays DEF Working, Failed
<1>6. StripBlocks' = StripBlocks /\ LostBlocks' = LostBlocks
  BY DEF StripBlocks, LostBlocks, Buffer
<1>7. ArrayBlocks' = ArrayBlocks /\ SpliceBlocks' = SpliceBlocks /\ Output' = Output
  BY DEF ArrayBlocks, SpliceBlocks, Output
<1> QED
  BY <1>2, <1>3, <1>5, <1>6, <1>7

\* The double free of a strip whose buffer was replaced.
LEMMA UndefinedStep ==
  ASSUME IInv, pc = "parallel", pc' = "undefined",
         UNCHANGED <<call, n, bufs, team, thr, copied, out, heap, ret>>,
         NEW t \in DOMAIN thr, thr[t].at = "encode", bufs[Current(t)].block = 2,
         n = StripCount(Total, call.threads), Current(t) \in 0..(n - 1)
  PROVE  IInv'
<1>1. Typed /\ Planned /\ Spliced
  BY DEF IInv
<1>2. Typed' /\ Divided' /\ Working'
  <2>1. /\ pc' \in Positions /\ copied' \in 0..n /\ ret' \in {"none", "TRUE", "FALSE"}
        /\ out' \in [height : 0..(HEIGHT_FIELD - 1), scan : Seq(Tokens)]
    BY <1>1 DEF Typed, Positions
  <2>2. pc' \notin {"parallel", "undefined"} => \A u \in DOMAIN thr : thr[u].todo = {}
    OBVIOUS
  <2> QED
    BY <2>1, <2>2, QuietStep
<1>3. Planned'
  <2>1. n # 0
    BY <1>1 DEF Typed
  <2> QED
    BY <1>1, <2>1, PlanStays DEF Planned
<1>4. Allocated'
  <2>1. Current(t)' = Current(t)
    BY DEF Current
  <2> QED
    BY <2>1 DEF Allocated
<1>5. Spliced'
  BY <1>1 DEF Spliced
<1> QED
  BY <1>2, <1>3, <1>4, <1>5 DEF IInv

\* Every step of a worker keeps the invariant.
LEMMA WorkerStep ==
  ASSUME IInv, NEW t \in DOMAIN thr, Worker(t)
  PROVE  IInv'
<1> DEFINE s == Current(t)
<1>1. Busy(t)
  BY DEF Worker, Begin, BeginFail, EncodeRow, Grow, Finish, EncodeFail, EncodeFailGrown
<1>2. /\ pc = "parallel" /\ thr[t].todo # {}
      /\ call \in Calls /\ n = StripCount(Total, call.threads)
      /\ s \in thr[t].todo /\ s \in 0..(n - 1)
      /\ bufs \in [0..(n - 1) -> Buffers]
      /\ thr \in [DOMAIN thr -> [todo : SUBSET (0..(n - 1)), at : {"idle", "encode"}, row : Nat]]
      /\ NumRows(s) \in 0..JPEG_MAX_DIMENSION
      /\ StripRows(s) \in Nat
      /\ heap = ArrayBlocks \cup StripBlocks
  BY <1>1, WorkerFacts
<1>3. /\ thr[t].at = "idle" => thr[t].row = 0 /\ bufs[s] = Null
      /\ thr[t].at = "encode" => /\ Open(s, thr[t].row, bufs[s])
                                 /\ thr[t].row <= StripRows(s)
  BY <1>1, WorkerFacts
<1>4. /\ thr[t].row \in Nat
      /\ thr[t] = [todo |-> thr[t].todo, at |-> thr[t].at, row |-> thr[t].row]
  BY <1>2
<1>5. /\ Null \in Buffers /\ Lost \in Buffers /\ Failed(Null) /\ Failed(Lost)
      /\ Null.block = 0 /\ Lost.block = 2
  <2>1. 0 \in 0..JPEG_MAX_DIMENSION /\ <<>> \in Seq(Tokens)
    BY CallAssumption
  <2>2. Null = [state |-> "null", block |-> 0, height |-> 0, scan |-> <<>>]
        /\ Lost = [state |-> "null", block |-> 2, height |-> 0, scan |-> <<>>]
    BY DEF Null, Lost
  <2>3. Null \in Buffers /\ Lost \in Buffers
    BY <2>1, <2>2 DEF Buffers
  <2> QED
    BY <2>2, <2>3 DEF Failed
<1> DEFINE k == bufs[s].block
<1>6. \A j : Buffer(s, j) \in heap <=> k = j /\ j # 0
  <2>1. \A j : Buffer(s, j) \in heap <=> Buffer(s, j) \in StripBlocks
    BY <1>2, BlocksDiffer
  <2> QED
    BY <1>2, <2>1, OneBlock
<1>7. ASSUME thr[t].at = "encode"
      PROVE  k \in 1..2 /\ bufs[s] = OpenStrip(s, thr[t].row, k)
  BY <1>3, <1>7 DEF Open, OpenStrip
<1>8. CASE Begin(t)
  <2> DEFINE b == OpenStrip(s, 0, 1)
  <2>1. /\ thr[t].at = "idle" /\ thr[t].row = 0 /\ 0 <= StripRows(s) /\ k = 0
        /\ UNCHANGED <<call, pc, n, team, copied, out, ret>>
        /\ thr' = [thr EXCEPT ![t].at = "encode"]
        /\ heap' = heap \cup {Buffer(s, 1)}
    BY <1>2, <1>3, <1>5, <1>8 DEF Begin
  <2>2. b \in Buffers /\ StripScan(s, 0) = <<>>
    <3>1. 0 \in Nat /\ 1 \in 0..2
      OBVIOUS
    <3> HIDE DEF s
    <3> QED
      BY <1>2, <2>1, <3>1, StripBuffers
  <2>3. bufs' = [bufs EXCEPT ![s] = b] /\ b.block = 1 /\ Open(s, 0, b)
    BY <1>8, <2>2 DEF Begin, OpenStrip, Open
  <2>4. thr' = [thr EXCEPT ![t] = [todo |-> thr[t].todo, at |-> "encode", row |-> 0]]
    <3>1. thr' = [thr EXCEPT ![t] = [thr[t] EXCEPT !.at = "encode"]]
      BY <2>1
    <3>2. [thr[t] EXCEPT !.at = "encode"] =
          [todo |-> thr[t].todo, at |-> "encode", row |-> thr[t].row]
      BY <1>4
    <3> QED
      BY <2>1, <3>1, <3>2
  <2> HIDE DEF b
  <2>5. heap' = (heap \ {Buffer(s, k)}) \cup BlockOf(s, b)
    BY <1>6, <2>1, <2>3 DEF BlockOf
  <2> QED
    BY <1>2, <2>1, <2>2, <2>3, <2>4, <2>5, StaysStep
<1>9. CASE BeginFail(t)
  <2>1. /\ thr[t].at = "idle" /\ NextStrip(t)
        /\ UNCHANGED <<call, pc, n, team, copied, out, ret>>
        /\ heap' = heap /\ bufs' = [bufs EXCEPT ![s] = Null]
    BY <1>9 DEF BeginFail
  <2>2. heap' = (heap \ {Buffer(s, k)}) \cup BlockOf(s, Null)
    BY <1>3, <1>5, <1>6, <2>1 DEF BlockOf
  <2> QED
    BY <1>2, <1>5, <2>1, <2>2, LeavesStep
<1>10. CASE EncodeRow(t)
  <2> DEFINE r == thr[t].row
             b == OpenStrip(s, r + 1, k)
  <2>1. /\ r < StripRows(s) /\ thr[t].at = "encode"
        /\ UNCHANGED <<call, pc, n, team, copied, out, ret>> /\ heap' = heap
        /\ thr' = [thr EXCEPT ![t].row = r + 1]
        /\ bufs' = [bufs EXCEPT ![s].scan =
             @ \o (IF r = 0 THEN <<>> ELSE <<Rst((r - 1) % RST_CYCLE)>>)
               \o <<McuRow(StartRow(s), NumRows(s), Height, r)>>]
    BY <1>10 DEF EncodeRow, StripRows
  <2>2. r + 1 \in Nat /\ r + 1 <= StripRows(s)
    BY <1>2, <1>4, <2>1
  <2>3. bufs[s] = [state |-> "open", block |-> k, height |-> NumRows(s), scan |-> StripScan(s, r)]
        /\ k \in 1..2
    BY <1>7, <2>1 DEF OpenStrip
  <2>4. b \in Buffers
    <3>1. k \in 0..2
      BY <2>3
    <3> HIDE DEF s, r, k
    <3> QED
      BY <1>2, <2>2, <3>1, StripBuffers
  <2>5. StripScan(s, r) \o (IF r = 0 THEN <<>> ELSE <<Rst((r - 1) % RST_CYCLE)>>)
          \o <<McuRow(StartRow(s), NumRows(s), Height, r)>> = StripScan(s, r + 1)
    <3>1. r \in Nat
      BY <1>4
    <3> HIDE DEF s, r
    <3> QED
      BY <1>2, <2>1, <3>1, ScanGrows
  <2>6. bufs' = [bufs EXCEPT ![s] = b]
    <3> DEFINE grown == bufs[s].scan \o (IF r = 0 THEN <<>> ELSE <<Rst((r - 1) % RST_CYCLE)>>)
                          \o <<McuRow(StartRow(s), NumRows(s), Height, r)>>
    <3>1. grown = StripScan(s, r + 1)
      <4>1. bufs[s].scan = StripScan(s, r)
        BY <2>3
      <4> QED
        BY <2>5, <4>1, Zenon
    <3>2. bufs' = [bufs EXCEPT ![s] = [bufs[s] EXCEPT !.scan = grown]]
      BY <2>1
    <3> HIDE DEF grown, s, r, k
    <3>3. [bufs[s] EXCEPT !.scan = grown] = b
      BY <2>3, <3>1 DEF OpenStrip
    <3> QED
      BY <3>2, <3>3
  <2>7. thr' = [thr EXCEPT ![t] = [todo |-> thr[t].todo, at |-> "encode", row |-> r + 1]]
    <3>1. thr' = [thr EXCEPT ![t] = [thr[t] EXCEPT !.row = r + 1]]
      BY <2>1
    <3> HIDE DEF r
    <3>2. [thr[t] EXCEPT !.row = r + 1] = [todo |-> thr[t].todo, at |-> thr[t].at, row |-> r + 1]
      BY <1>4
    <3> QED
      BY <2>1, <3>1, <3>2
  <2>8. b.block = k /\ Open(s, r + 1, b)
    BY <2>3 DEF OpenStrip, Open
  <2> HIDE DEF b
  <2>9. heap' = (heap \ {Buffer(s, k)}) \cup BlockOf(s, b)
    BY <1>6, <2>1, <2>3, <2>8 DEF BlockOf
  <2> HIDE DEF r
  <2> QED
    BY <1>2, <2>1, <2>2, <2>4, <2>6, <2>7, <2>8, <2>9, StaysStep
<1>11. CASE Grow(t)
  <2> DEFINE r == thr[t].row
             b == OpenStrip(s, r, 2)
  <2>1. /\ thr[t].at = "encode" /\ k = 1 /\ thr' = thr
        /\ UNCHANGED <<call, pc, n, team, copied, out, ret>>
        /\ heap' = (heap \ {Buffer(s, 1)}) \cup {Buffer(s, 2)}
        /\ bufs' = [bufs EXCEPT ![s].block = 2]
    BY <1>11 DEF Grow
  <2>2. r \in Nat /\ r <= StripRows(s)
    BY <1>3, <1>4, <2>1
  <2>3. b \in Buffers
    <3>1. 2 \in 0..2
      OBVIOUS
    <3> HIDE DEF s, r
    <3> QED
      BY <1>2, <2>2, <3>1, StripBuffers
  <2>4. bufs' = [bufs EXCEPT ![s] = b] /\ b.block = 2 /\ Open(s, r, b)
    <3>1. bufs[s] = OpenStrip(s, r, 1)
      BY <1>7, <2>1
    <3>2. [bufs[s] EXCEPT !.block = 2] = b
      BY <3>1 DEF OpenStrip
    <3>3. bufs' = [bufs EXCEPT ![s] = [bufs[s] EXCEPT !.block = 2]]
      BY <2>1
    <3> QED
      BY <3>2, <3>3 DEF OpenStrip, Open
  <2>5. thr' = [thr EXCEPT ![t] = [todo |-> thr[t].todo, at |-> "encode", row |-> r]]
    <3>1. thr[t] = [todo |-> thr[t].todo, at |-> "encode", row |-> r]
      BY <1>4, <2>1
    <3> HIDE DEF r
    <3>2. thr = [thr EXCEPT ![t] = thr[t]]
      BY <1>2
    <3> QED
      BY <2>1, <3>1, <3>2
  <2> HIDE DEF b, r
  <2>6. heap' = (heap \ {Buffer(s, k)}) \cup BlockOf(s, b)
    BY <2>1, <2>4 DEF BlockOf
  <2> QED
    BY <1>2, <2>1, <2>2, <2>3, <2>4, <2>5, <2>6, StaysStep
<1>12. CASE Finish(t)
  <2> DEFINE b == WholeStrip(s, k)
  <2>1. /\ thr[t].at = "encode" /\ NextStrip(t) /\ thr[t].row = StripRows(s)
        /\ UNCHANGED <<call, pc, n, team, copied, out, ret>> /\ heap' = heap
        /\ bufs' = [bufs EXCEPT ![s].state = "complete"] /\ NumRows(s) \in 1..JPEG_MAX_DIMENSION
    BY <1>12 DEF Finish, Encodable, StripRows
  <2>2. k \in 1..2 /\ k \in 0..2 /\ bufs[s] = OpenStrip(s, StripRows(s), k)
    BY <1>7, <2>1
  <2>3. b \in Buffers
    <3>1. StripRows(s) <= StripRows(s)
      BY <1>2
    <3> HIDE DEF s, k
    <3> QED
      BY <1>2, <2>2, <3>1, StripBuffers
  <2>4. bufs' = [bufs EXCEPT ![s] = b]
    <3>1. bufs' = [bufs EXCEPT ![s] = [bufs[s] EXCEPT !.state = "complete"]]
      BY <2>1
    <3> HIDE DEF s, k
    <3>2. [bufs[s] EXCEPT !.state = "complete"] = b
      BY <2>2 DEF OpenStrip, WholeStrip
    <3> QED
      BY <3>1, <3>2
  <2>5. b.block = k /\ Whole(s, b)
    BY <2>1, <2>2 DEF WholeStrip, Whole
  <2> HIDE DEF b
  <2>6. heap' = (heap \ {Buffer(s, k)}) \cup BlockOf(s, b)
    BY <1>6, <2>1, <2>2, <2>5 DEF BlockOf
  <2> QED
    BY <1>2, <2>1, <2>3, <2>4, <2>5, <2>6, LeavesStep
<1>13. CASE EncodeFail(t)
  <2>1. /\ NextStrip(t) /\ UNCHANGED <<call, pc, n, team, copied, out, ret>> /\ k = 1
        /\ heap' = heap \ {Buffer(s, 1)} /\ bufs' = [bufs EXCEPT ![s] = Null]
    BY <1>13 DEF EncodeFail
  <2>2. heap' = (heap \ {Buffer(s, k)}) \cup BlockOf(s, Null)
    BY <1>5, <2>1 DEF BlockOf
  <2> QED
    BY <1>2, <1>5, <2>1, <2>2, LeavesStep
<1>14. CASE EncodeFailGrown(t)
  <2>1. /\ thr[t].at = "encode" /\ k = 2 /\ heap' = heap
        /\ UNCHANGED <<call, n, team, copied, out, ret>>
    BY <1>14 DEF EncodeFailGrown
  <2>2. CASE bufs' = [bufs EXCEPT ![s] = Lost] /\ NextStrip(t) /\ UNCHANGED pc
    <3>1. heap' = (heap \ {Buffer(s, k)}) \cup BlockOf(s, Lost)
      BY <1>5, <1>6, <2>1 DEF BlockOf
    <3> QED
      BY <1>2, <1>5, <2>1, <2>2, <3>1, LeavesStep
  <2>3. CASE pc' = "undefined" /\ UNCHANGED <<bufs, thr>>
    BY <1>2, <2>1, <2>3, UndefinedStep
  <2> QED
    BY <1>14, <2>2, <2>3 DEF EncodeFailGrown
<1> QED
  BY <1>8, <1>9, <1>10, <1>11, <1>12, <1>13, <1>14 DEF Worker

\* What the master knows once there is a plan.
LEMMA MasterFacts ==
  ASSUME IInv, pc \notin {"alloc", "bounds", "returned"}
  PROVE  /\ call \in Calls /\ n = StripCount(Total, call.threads) /\ n \in Nat \ {0}
         /\ ret = "none" /\ copied \in 0..n
         /\ out \in [height : 0..(HEIGHT_FIELD - 1), scan : Seq(Tokens)]
         /\ pc \notin {"parallel", "undefined"} => \A t \in DOMAIN thr : thr[t].todo = {}
         /\ StripBlocks \cap (ArrayBlocks \cup SpliceBlocks \cup Output) = {}
<1>1. Typed /\ Planned /\ Divided /\ Spliced
  BY DEF IInv
<1>2. n # 0
  BY <1>1 DEF Planned
<1>3. call \in Calls /\ n = StripCount(Total, call.threads) /\ n \in Nat \ {0}
  <2>1. call \in Calls /\ n = StripCount(Total, call.threads)
    BY <1>1, <1>2 DEF Typed, Planned
  <2> QED
    BY <2>1, PlanFacts
<1>4. /\ ret = "none" /\ copied \in 0..n
      /\ out \in [height : 0..(HEIGHT_FIELD - 1), scan : Seq(Tokens)]
      /\ pc \notin {"parallel", "undefined"} => \A t \in DOMAIN thr : thr[t].todo = {}
  BY <1>1 DEF Typed, Spliced, Divided
<1>5. StripBlocks \cap (ArrayBlocks \cup SpliceBlocks \cup Output) = {}
  BY BlocksDiffer DEF StripBlocks
<1> QED
  BY <1>3, <1>4, <1>5

\* The plan and the division of the strips when the team starts.
LEMMA ForkStep ==
  ASSUME IInv, Fork
  PROVE  IInv'
<1>1. /\ pc = "bounds" /\ pc' = "parallel" /\ n' = StripCount(Total, call.threads)
      /\ bufs' = [s \in 0..(n' - 1) |-> Null]
      /\ UNCHANGED <<call, copied, out, heap, ret>>
  BY DEF Fork
<1>2. PICK size \in 1..Threads :
        /\ team' = size
        /\ thr' = [t \in 0..(size - 1) |->
                     [todo |-> Chunk(t, size, n'), at |-> "idle", row |-> 0]]
  BY DEF Fork
<1>3. Typed /\ Planned /\ Allocated /\ Spliced
  BY DEF IInv
<1>4. call \in Calls /\ n = 0 /\ copied = 0 /\ heap = ArrayBlocks
  <2>1. call \in Calls /\ n = 0
    BY <1>1, <1>3 DEF Typed, Planned
  <2> QED
    BY <1>1, <1>3, <2>1 DEF Typed, Allocated
<1>5. /\ n' \in Nat \ {0} /\ n' <= MAX_TEAM /\ MAX_TEAM \in Nat
      /\ size \in Nat \ {0} /\ size <= MAX_TEAM
  <2>1. Total \in Nat /\ call.threads \in Int /\ Threads <= MAX_TEAM /\ MAX_TEAM \in Nat
        /\ Threads \in Nat
    BY <1>4, CallFacts
  <2>2. n' \in Nat \ {0} /\ n' <= Threads
    BY <1>1, <2>1, PlanFits DEF Threads
  <2> QED
    BY <2>1, <2>2
<1>6. /\ \A t \in 0..(size - 1) :
           /\ Chunk(t, size, n') \subseteq 0..(n' - 1)
           /\ \E lo, hi \in Int : Chunk(t, size, n') = lo..hi
      /\ \A t, u \in 0..(size - 1) : t # u => Chunk(t, size, n') \cap Chunk(u, size, n') = {}
  BY <1>5, ChunksDivide
<1>7. /\ DOMAIN thr' = 0..(size - 1)
      /\ \A t \in 0..(size - 1) : thr'[t] = [todo |-> Chunk(t, size, n'), at |-> "idle", row |-> 0]
  BY <1>2
<1> HIDE DEF Chunk
<1>8. Typed'
  <2>1. Null \in Buffers
    BY CallAssumption DEF Null, Buffers
  <2>2. bufs' \in [0..(n' - 1) -> Buffers]
    BY <1>1, <2>1
  <2>3. thr' \in [0..(team' - 1) -> [todo : SUBSET (0..(n' - 1)),
                                     at : {"idle", "encode"}, row : Nat]]
    BY <1>2, <1>6
  <2>4. team' \in 0..MAX_TEAM /\ n' \in 0..MAX_TEAM /\ copied' \in 0..n'
    BY <1>1, <1>2, <1>4, <1>5
  <2> QED
    BY <1>1, <1>3, <2>2, <2>3, <2>4 DEF Typed, Positions
<1>9. Planned'
  <2>1. Total' = Total
    BY <1>1 DEF Total
  <2> QED
    BY <1>1, <1>5, <2>1 DEF Planned
<1>10. Divided'
  <2>1. \A t \in 0..(size - 1) : thr'[t].todo = Chunk(t, size, n')
    BY <1>7
  <2>2. \A t \in DOMAIN thr' : \E lo, hi \in Int : thr'[t].todo = lo..hi
    <3> SUFFICES ASSUME NEW t \in 0..(size - 1) PROVE \E lo, hi \in Int : thr'[t].todo = lo..hi
      BY <1>7
    <3>1. PICK lo \in Int, hi \in Int : Chunk(t, size, n') = lo..hi
      BY <1>6
    <3> QED
      BY <2>1, <3>1
  <2>3. \A t, u \in DOMAIN thr' : t # u => thr'[t].todo \cap thr'[u].todo = {}
    BY <1>6, <1>7, <2>1
  <2> QED
    BY <1>1, <2>2, <2>3 DEF Divided
<1>11. Working'
  <2>1. \A t \in DOMAIN thr' :
        thr'[t].at = "idle" /\ thr'[t].row = 0 /\ thr'[t].todo \subseteq 0..(n' - 1)
    BY <1>6, <1>7
  <2>2. \A s \in 0..(n' - 1) : bufs'[s] = Null
    BY <1>1
  <2> QED
    BY <2>1, <2>2 DEF Working, Failed
<1>12. Allocated'
  <2>1. StripBlocks' = {}
    <3>1. \A s \in 0..(n' - 1) : bufs'[s].block = 0
      BY <1>1 DEF Null
    <3> QED
      BY <3>1 DEF StripBlocks
  <2>2. ArrayBlocks' = ArrayBlocks
    BY DEF ArrayBlocks
  <2> QED
    BY <1>1, <1>4, <2>1, <2>2 DEF Allocated
<1>13. Spliced'
  BY <1>1, <1>3 DEF Spliced
<1> QED
  BY <1>8, <1>9, <1>10, <1>11, <1>12, <1>13 DEF IInv

\* A reference scan is a scan.
LEMMA ReferenceTyped ==
  ASSUME call \in Calls, NEW scan \in Seq(Tokens), HasRows(scan, Total), Total > 0
  PROVE  ReferenceScan(call.height, Height) \in Seq(Tokens)
<1>1. Total \in Nat /\ Total = McuRows(call.height, Height)
  BY CallFacts
<1>2. /\ Len(scan) = 2 * Total - 1
      /\ \A j \in 1..Len(scan) : j % 2 = 1 => scan[j] = McuRow(0, call.height, Height, j \div 2)
  BY <1>1 DEF HasRows
<1>3. \A j \in 1..Len(scan) : scan[j] \in Tokens
  BY ElementOfSeq
<1> DEFINE El(j) == IF j % 2 = 1 THEN McuRow(0, call.height, Height, j \div 2)
                    ELSE Rst((j \div 2 - 1) % RST_CYCLE)
<1>4. ASSUME NEW j \in 1..(2 * Total - 1)
      PROVE  El(j) \in Tokens
  <2>1. CASE j % 2 = 1
    BY <1>1, <1>2, <1>3, <2>1
  <2>2. CASE j % 2 # 1
    <3>1. j \div 2 - 1 \in Nat
      BY <1>1, <2>2
    <3> QED
      BY <2>2, <3>1, MarkerToken
  <2> QED
    BY <2>1, <2>2
<1>5. ReferenceScan(call.height, Height) = [j \in 1..(2 * Total - 1) |-> El(j)]
  BY <1>1 DEF ReferenceScan
<1>6. 2 * Total - 1 \in Nat
  BY <1>1
<1> HIDE DEF El
<1> QED
  BY <1>4, <1>5, <1>6

\* The barrier lets the master pass only when every strip failed or is whole.
LEMMA JoinStep ==
  ASSUME IInv, Join
  PROVE  IInv'
<1>1. /\ pc = "parallel" /\ \A t \in DOMAIN thr : thr[t].todo = {}
      /\ pc' = IF AllOk THEN "splice" ELSE "cleanup"
      /\ UNCHANGED <<call, n, bufs, team, thr, copied, out, heap, ret>>
  BY DEF Join, Joined
<1>2. /\ call \in Calls /\ n = StripCount(Total, call.threads) /\ n \in Nat \ {0}
      /\ ret = "none" /\ copied \in 0..n
      /\ out \in [height : 0..(HEIGHT_FIELD - 1), scan : Seq(Tokens)]
      /\ StripBlocks \cap (ArrayBlocks \cup SpliceBlocks \cup Output) = {}
  BY <1>1, MasterFacts
<1>3. pc' \in {"splice", "cleanup"} /\ pc' \in Positions
  BY <1>1 DEF Positions
<1>4. Typed' /\ Divided' /\ Working' /\ StripBlocks' = StripBlocks /\ ArrayBlocks' = ArrayBlocks
  BY <1>1, <1>2, <1>3, QuietStep
<1>5. Planned'
  BY <1>1, <1>2, <1>3, PlanStays DEF Planned
<1>6. heap = ArrayBlocks \cup StripBlocks
  BY <1>1 DEF IInv, Allocated
<1>7. Allocated'
  BY <1>1, <1>3, <1>4, <1>6 DEF Allocated
<1>8. ASSUME pc' = "splice", NEW s \in 0..(n - 1)
      PROVE  Whole(s, bufs[s])
  <2>1. ~Failed(bufs[s])
    BY <1>1, <1>8 DEF AllOk, Null, Lost, Failed
  <2>2. \A t \in DOMAIN thr : thr[t].at \in {"idle", "encode"}
    BY DEF IInv, Typed
  <2>3. \A t \in DOMAIN thr : thr[t].at # "encode"
    BY <1>1, <2>2 DEF IInv, Working
  <2> QED
    BY <2>1, <2>3 DEF IInv, Working
<1>9. <<"out_buf">> \notin heap
  BY <1>2, <1>6, BlocksDiffer DEF Output
<1>10. Spliced'
  BY <1>1, <1>2, <1>3, <1>8, <1>9, PlanStays DEF Spliced
<1> QED
  BY <1>4, <1>5, <1>7, <1>10 DEF IInv

\* The output starts empty, with the height of the whole image.
LEMMA HeaderStep ==
  ASSUME IInv, Header
  PROVE  IInv'
<1>1. /\ pc = "output" /\ UNCHANGED <<call, n, bufs, team, thr, ret>>
      /\ \/ /\ out' = [height |-> call.height % HEIGHT_FIELD, scan |-> <<>>]
            /\ heap' = heap \cup Output /\ pc' = "copy" /\ copied' = 0
         \/ /\ heap' = heap \ SpliceBlocks /\ pc' = "cleanup" /\ UNCHANGED <<out, copied>>
  BY DEF Header, Output, SpliceBlocks
<1>2. /\ call \in Calls /\ n = StripCount(Total, call.threads) /\ n \in Nat \ {0}
      /\ ret = "none" /\ copied \in 0..n
      /\ out \in [height : 0..(HEIGHT_FIELD - 1), scan : Seq(Tokens)]
      /\ \A t \in DOMAIN thr : thr[t].todo = {}
      /\ StripBlocks \cap (ArrayBlocks \cup SpliceBlocks \cup Output) = {}
  BY <1>1, MasterFacts
<1>3. call.height % HEIGHT_FIELD = call.height /\ call.height \in 0..(HEIGHT_FIELD - 1)
  <2>1. call.height \in Nat /\ call.height < HEIGHT_FIELD /\ HEIGHT_FIELD \in Nat
    BY <1>2, CallFacts
  <2> QED
    BY <2>1
<1>4. /\ pc' \in {"copy", "cleanup"} /\ pc' \in Positions /\ copied' \in 0..n
      /\ out' \in [height : 0..(HEIGHT_FIELD - 1), scan : Seq(Tokens)]
  <2>1. <<>> \in Seq(Tokens)
    OBVIOUS
  <2>2. pc' \in {"copy", "cleanup"} /\ copied' \in 0..n
    BY <1>1, <1>2
  <2>3. out' \in [height : 0..(HEIGHT_FIELD - 1), scan : Seq(Tokens)]
    <3> DEFINE Scans == Seq(Tokens)
               empty == <<>>
    <3>1. empty \in Scans /\ out \in [height : 0..(HEIGHT_FIELD - 1), scan : Scans]
      BY <1>2, <2>1
    <3>2. out' = [height |-> call.height % HEIGHT_FIELD, scan |-> empty] \/ out' = out
      BY <1>1
    <3> HIDE DEF Scans, empty
    <3>3. out' \in [height : 0..(HEIGHT_FIELD - 1), scan : Scans]
      BY <1>3, <3>1, <3>2
    <3> QED
      BY <3>3 DEF Scans
  <2> QED
    BY <2>2, <2>3 DEF Positions
<1>5. /\ Typed' /\ Divided' /\ Working' /\ StripBlocks' = StripBlocks /\ ArrayBlocks' = ArrayBlocks
      /\ SpliceBlocks' = SpliceBlocks /\ Output' = Output
  BY <1>1, <1>2, <1>4, QuietStep
<1>6. Planned'
  BY <1>1, <1>2, <1>4, PlanStays DEF Planned
<1>7. heap = ArrayBlocks \cup StripBlocks \cup SpliceBlocks
  BY <1>1 DEF IInv, Allocated
<1>8. \/ pc' = "copy" /\ heap' = ArrayBlocks \cup StripBlocks \cup SpliceBlocks \cup Output
      \/ pc' = "cleanup" /\ heap' = ArrayBlocks \cup StripBlocks
  BY <1>1, <1>2, <1>7, BlocksDiffer
<1>9. Allocated'
  BY <1>5, <1>8 DEF Allocated
<1>10. \A s \in 0..(n - 1) : Whole(s, bufs[s])
  BY <1>1 DEF IInv, Spliced
<1>11. RowsIn(0) = 0
  <2>1. 0 \in 0..(n - 1) /\ Per \in Nat
    BY <1>2, PlanFacts
  <2> QED
    BY <1>2, <2>1 DEF RowsIn
<1>12. HasRows(<<>>, RowsIn(0))
  BY <1>11 DEF HasRows
<1>13. <<"out_buf">> \notin ArrayBlocks \cup StripBlocks
  BY <1>2, BlocksDiffer DEF Output
<1>14. ASSUME pc' = "copy" PROVE Spliced'
  <2>1. out'.height = call.height /\ out'.scan = <<>> /\ copied' = 0
    BY <1>1, <1>3, <1>14
  <2>2. HasRows(out'.scan, RowsIn(copied'))
    BY <1>12, <2>1
  <2> QED
    BY <1>1, <1>2, <1>10, <1>14, <2>1, <2>2, PlanStays DEF Spliced
<1>15. ASSUME pc' = "cleanup" PROVE Spliced'
  BY <1>1, <1>2, <1>8, <1>13, <1>15 DEF Spliced
<1>16. Spliced'
  BY <1>4, <1>14, <1>15
<1> QED
  BY <1>5, <1>6, <1>9, <1>16 DEF IInv

\* A strip's scan goes behind those of the strips above it.
LEMMA CopyStep ==
  ASSUME IInv, CopyStrip
  PROVE  IInv'
<1> DEFINE longer == out.scan \o (IF copied = 0 THEN <<>> ELSE <<Rst(0)>>)
                       \o StripScan(copied, StripRows(copied))
<1>1. /\ pc = "copy" /\ copied < n /\ UNCHANGED <<call, pc, n, bufs, team, thr, heap, ret>>
      /\ copied' = copied + 1
      /\ out' = [out EXCEPT !.scan =
                   @ \o (IF copied = 0 THEN <<>> ELSE <<Rst(0)>>) \o Trim(bufs[copied].scan)]
  BY DEF CopyStrip
<1>2. /\ call \in Calls /\ n = StripCount(Total, call.threads) /\ n \in Nat \ {0}
      /\ ret = "none" /\ copied \in 0..n
      /\ out \in [height : 0..(HEIGHT_FIELD - 1), scan : Seq(Tokens)]
      /\ \A t \in DOMAIN thr : thr[t].todo = {}
  BY <1>1, MasterFacts
<1>3. copied \in 0..(n - 1) /\ copied' \in 0..n
  BY <1>1, <1>2
<1>4. /\ \A s \in 0..(n - 1) : Whole(s, bufs[s])
      /\ out.height = call.height /\ HasRows(out.scan, RowsIn(copied))
  BY <1>1 DEF IInv, Spliced
<1>5. bufs[copied].scan = StripScan(copied, StripRows(copied)) /\ NumRows(copied) > 0
  <2>1. Whole(copied, bufs[copied])
    BY <1>3, <1>4
  <2>2. \A k : WholeStrip(copied, k).scan = StripScan(copied, StripRows(copied))
    BY DEF WholeStrip
  <2> QED
    BY <2>1, <2>2 DEF Whole
<1>6. Trim(bufs[copied].scan) = StripScan(copied, StripRows(copied))
  BY <1>2, <1>3, <1>5, NothingTrimmed
<1>7. StripRows(copied) > 0
  <2>1. NumRows(copied) \in Nat
    BY <1>2, <1>3, StripShape
  <2>2. Height \in Nat \ {0}
    BY <1>2, CallFacts
  <2> QED
    BY <1>5, <2>1, <2>2, McuRowsBounds DEF StripRows
<1>8. longer \in Seq(Tokens) /\ HasRows(longer, RowsIn(copied + 1))
  <2>1. out.scan \in Seq(Tokens)
    BY <1>2
  <2> QED
    BY <1>2, <1>3, <1>4, <1>7, <2>1, CopyGrows
<1>9. out' = [out EXCEPT !.scan = longer]
  BY <1>1, <1>6
<1> HIDE DEF longer
<1>10. out' = [height |-> call.height, scan |-> longer]
  BY <1>2, <1>4, <1>9
<1>11. out' \in [height : 0..(HEIGHT_FIELD - 1), scan : Seq(Tokens)]
  <2> DEFINE Scans == Seq(Tokens)
  <2>1. longer \in Scans /\ out \in [height : 0..(HEIGHT_FIELD - 1), scan : Scans]
    BY <1>2, <1>8
  <2> HIDE DEF Scans
  <2>2. out' \in [height : 0..(HEIGHT_FIELD - 1), scan : Scans]
    BY <1>9, <2>1
  <2> QED
    BY <2>2 DEF Scans
<1>12. /\ Typed' /\ Divided' /\ Working' /\ StripBlocks' = StripBlocks /\ ArrayBlocks' = ArrayBlocks
       /\ SpliceBlocks' = SpliceBlocks /\ Output' = Output
  <2>1. pc' \in Positions /\ ret' \in {"none", "TRUE", "FALSE"}
    BY <1>1, <1>2 DEF Positions
  <2> QED
    BY <1>1, <1>2, <1>3, <1>11, <2>1, QuietStep
<1>13. Planned'
  BY <1>1, <1>2, PlanStays DEF Planned
<1>14. Allocated'
  BY <1>1, <1>12 DEF IInv, Allocated
<1>15. Spliced'
  <2>1. out'.height = call.height /\ HasRows(out'.scan, RowsIn(copied'))
    <3>1. out'.height = call.height /\ out'.scan = longer
      BY <1>10
    <3> QED
      BY <1>1, <1>8, <3>1
  <2> QED
    BY <1>1, <1>2, <1>4, <2>1, PlanStays DEF Spliced
<1> QED
  BY <1>12, <1>13, <1>14, <1>15 DEF IInv

\* Renumbered, the output is the scan of one thread.
LEMMA RenumberStep ==
  ASSUME IInv, Renumber
  PROVE  IInv'
<1>1. /\ pc = "copy" /\ copied = n /\ pc' = "cleanup"
      /\ UNCHANGED <<call, n, bufs, team, thr, copied, ret>>
      /\ out' = [out EXCEPT !.scan = Renumbered(@)]
      /\ heap' = heap \ SpliceBlocks
  BY DEF Renumber, SpliceBlocks
<1>2. /\ call \in Calls /\ n = StripCount(Total, call.threads) /\ n \in Nat \ {0}
      /\ ret = "none" /\ copied \in 0..n
      /\ out \in [height : 0..(HEIGHT_FIELD - 1), scan : Seq(Tokens)]
      /\ \A t \in DOMAIN thr : thr[t].todo = {}
      /\ StripBlocks \cap (ArrayBlocks \cup SpliceBlocks \cup Output) = {}
  BY <1>1, MasterFacts
<1>3. /\ \A s \in 0..(n - 1) : Whole(s, bufs[s])
      /\ out.height = call.height /\ HasRows(out.scan, Total)
  BY <1>1 DEF IInv, Spliced, RowsIn
<1>4. Total > 0
  <2>1. 0 \in 0..(n - 1)
    BY <1>2
  <2>2. NumRows(0) > 0 /\ NumRows(0) \in Nat /\ StartRow(0) \in Nat
        /\ StartRow(0) + NumRows(0) <= call.height
    BY <1>2, <1>3, <2>1, StripShape DEF Whole
  <2>3. call.height \in Nat /\ Height \in Nat \ {0} /\ Total = McuRows(call.height, Height)
    BY <1>2, CallFacts
  <2>4. call.height > 0
    BY <2>2, <2>3
  <2> QED
    BY <2>3, <2>4, McuRowsBounds
<1>5. /\ Renumbered(out.scan) = ReferenceScan(call.height, Height)
      /\ ReferenceScan(call.height, Height) \in Seq(Tokens)
  <2>1. out.scan \in Seq(Tokens)
    BY <1>2
  <2> QED
    BY <1>2, <1>3, <1>4, <2>1, RenumberedIsReference, ReferenceTyped
<1>6. out' = Reference /\ out' \in [height : 0..(HEIGHT_FIELD - 1), scan : Seq(Tokens)]
  <2> DEFINE scan == ReferenceScan(call.height, Height)
             Scans == Seq(Tokens)
  <2>1. out' = [out EXCEPT !.scan = scan] /\ scan \in Scans
        /\ out \in [height : 0..(HEIGHT_FIELD - 1), scan : Scans]
    BY <1>1, <1>2, <1>5
  <2>2. Reference = [height |-> call.height, scan |-> scan]
    BY DEF Reference
  <2> HIDE DEF scan, Scans
  <2>3. out' = Reference /\ out' \in [height : 0..(HEIGHT_FIELD - 1), scan : Scans]
    BY <1>3, <2>1, <2>2
  <2> QED
    BY <2>3 DEF Scans
<1>7. /\ Typed' /\ Divided' /\ Working' /\ StripBlocks' = StripBlocks /\ ArrayBlocks' = ArrayBlocks
      /\ Output' = Output
  <2>1. pc' \in Positions /\ ret' \in {"none", "TRUE", "FALSE"} /\ copied' \in 0..n
    BY <1>1, <1>2 DEF Positions
  <2> QED
    BY <1>1, <1>2, <1>6, <2>1, QuietStep
<1>8. Planned'
  BY <1>1, <1>2, PlanStays DEF Planned
<1>9. heap = ArrayBlocks \cup StripBlocks \cup SpliceBlocks \cup Output
  BY <1>1 DEF IInv, Allocated
<1>10. heap' = ArrayBlocks \cup StripBlocks \cup Output
  BY <1>1, <1>2, <1>9, BlocksDiffer DEF Output
<1>11. Allocated'
  BY <1>1, <1>7, <1>10 DEF Allocated
<1>12. Reference' = Reference
  BY <1>1, PlanStays
<1>13. Spliced'
  <2>1. NoneLost'
    BY <1>1, <1>3 DEF NoneLost, Whole, WholeStrip, Lost, Null
  <2> QED
    BY <1>1, <1>2, <1>6, <1>12, <2>1 DEF Spliced
<1> QED
  BY <1>7, <1>8, <1>11, <1>13 DEF IInv

\* The clean-up leaves the output alone, if there is one.
LEMMA CleanupStep ==
  ASSUME IInv, Cleanup
  PROVE  /\ IInv'
         /\ ret = "none" /\ UNCHANGED call
         /\ ret' = "FALSE" \/ (ret' = "TRUE" /\ out' = Reference)
<1>1. /\ pc = "cleanup" /\ pc' = "returned" /\ UNCHANGED <<call, n, bufs, team, thr, copied, out>>
      /\ heap' = heap \ ({Buffer(s, bufs[s].block) : s \in Named} \cup ArrayBlocks)
      /\ ret' = IF <<"out_buf">> \in heap THEN "TRUE" ELSE "FALSE"
  BY DEF Cleanup, ArrayBlocks
<1>2. /\ call \in Calls /\ n = StripCount(Total, call.threads) /\ n \in Nat \ {0}
      /\ ret = "none" /\ copied \in 0..n
      /\ out \in [height : 0..(HEIGHT_FIELD - 1), scan : Seq(Tokens)]
      /\ \A t \in DOMAIN thr : thr[t].todo = {}
      /\ StripBlocks \cap (ArrayBlocks \cup SpliceBlocks \cup Output) = {}
  BY <1>1, MasterFacts
<1>3. <<"out_buf">> \in heap => out = Reference /\ NoneLost
  BY <1>1 DEF IInv, Spliced
<1>4. /\ Typed' /\ Divided' /\ Working' /\ Output' = Output /\ LostBlocks' = LostBlocks
  <2>1. pc' \in Positions /\ ret' \in {"none", "TRUE", "FALSE"} /\ copied' \in 0..n
    BY <1>1, <1>2 DEF Positions
  <2> QED
    BY <1>1, <1>2, <2>1, QuietStep
<1>5. Planned'
  BY <1>1, <1>2, PlanStays DEF Planned
<1>6. heap = ArrayBlocks \cup StripBlocks \/ heap = ArrayBlocks \cup StripBlocks \cup Output
  BY <1>1 DEF IInv, Allocated
<1>7. <<"out_buf">> \notin ArrayBlocks \cup StripBlocks
  BY <1>2, BlocksDiffer DEF Output
<1> DEFINE Freed == {Buffer(s, bufs[s].block) : s \in Named}
<1>8. /\ StripBlocks \ Freed = LostBlocks
      /\ (Output \cup LostBlocks) \cap (Freed \cup ArrayBlocks) = {}
  <2>1. ASSUME NEW s \in 0..(n - 1)
        PROVE  /\ s \in Named => bufs[s] # Lost /\ bufs[s].block # 0
               /\ s \notin Named => bufs[s] = Lost \/ bufs[s].block = 0
    <3>1. \A t \in DOMAIN thr : thr[t].at \in {"idle", "encode"}
      BY DEF IInv, Typed
    <3>2. \A t \in DOMAIN thr : thr[t].at # "encode"
      BY <1>2, <3>1 DEF IInv, Working
    <3>3. Failed(bufs[s]) \/ Whole(s, bufs[s])
      BY <3>2 DEF IInv, Working
    <3>4. CASE Failed(bufs[s])
      BY <3>4 DEF Failed, Null, Lost, Named
    <3>5. CASE Whole(s, bufs[s])
      BY <3>5 DEF Whole, WholeStrip, Null, Lost, Named
    <3> QED
      BY <3>3, <3>4, <3>5
  <2>2. ASSUME NEW s \in 0..(n - 1), NEW k
        PROVE  /\ Buffer(s, k) \in Freed <=> s \in Named /\ bufs[s].block = k
               /\ Buffer(s, k) \in LostBlocks <=> bufs[s] = Lost /\ k = 2
    BY BlocksDiffer DEF LostBlocks, Named
  <2>3. \A s \in 0..(n - 1) : bufs[s] = Lost => bufs[s].block = 2
    BY DEF Lost, Null
  <2>4. StripBlocks \ Freed = LostBlocks
    <3>1. \A x \in StripBlocks : \E s \in 0..(n - 1) :
            bufs[s].block # 0 /\ x = Buffer(s, bufs[s].block)
      BY DEF StripBlocks
    <3>2. \A x \in LostBlocks : \E s \in 0..(n - 1) : bufs[s] = Lost /\ x = Buffer(s, 2)
      BY DEF LostBlocks
    <3>3. StripBlocks \ Freed \subseteq LostBlocks
      BY <2>1, <2>2, <2>3, <3>1
    <3>4. LostBlocks \subseteq StripBlocks \ Freed
      BY <2>1, <2>2, <2>3, <3>2, OneBlock
    <3> QED
      BY <3>3, <3>4
  <2>5. LostBlocks \cap Freed = {}
    BY <2>4
  <2>6. /\ \A x \in LostBlocks \cup Freed : \E s, k : x = Buffer(s, k)
        /\ Output \cap ArrayBlocks = {}
    BY BlocksDiffer DEF LostBlocks, Output
  <2> QED
    BY <2>4, <2>5, <2>6, BlocksDiffer
<1> HIDE DEF Freed
<1>9. heap' = IF ret' = "TRUE" THEN Output ELSE LostBlocks
  <2>1. CASE heap = ArrayBlocks \cup StripBlocks
    <3>1. ret' = "FALSE"
      BY <1>1, <1>7, <2>1
    <3>2. heap' = LostBlocks
      BY <1>1, <1>2, <1>8, <2>1 DEF Freed
    <3> QED
      BY <3>1, <3>2
  <2>2. CASE heap = ArrayBlocks \cup StripBlocks \cup Output
    <3>1. ret' = "TRUE" /\ LostBlocks = {}
      BY <1>1, <1>3, <2>2 DEF Output, NoneLost, LostBlocks
    <3>2. heap' = Output
      BY <1>1, <1>2, <1>8, <2>2, <3>1 DEF Freed
    <3> QED
      BY <3>1, <3>2
  <2> QED
    BY <1>6, <2>1, <2>2
<1>10. Allocated'
  BY <1>1, <1>4, <1>9 DEF Allocated
<1>11. Reference' = Reference
  BY <1>1, PlanStays
<1>12. Spliced'
  BY <1>1, <1>3, <1>11 DEF Spliced, NoneLost
<1> QED
  BY <1>1, <1>2, <1>3, <1>4, <1>5, <1>10, <1>12 DEF IInv

\* The mallocs of the master.
LEMMA AllocStep ==
  ASSUME IInv, Alloc \/ AllocFail \/ SpliceAlloc
  PROVE  IInv'
<1>1. UNCHANGED <<call, n, bufs, team, thr, copied, out>>
  BY DEF Alloc, AllocFail, SpliceAlloc
<1>2. Typed /\ Planned /\ Divided /\ Allocated /\ Spliced
  BY DEF IInv
<1>3. /\ pc \in {"alloc", "splice"} /\ \A t \in DOMAIN thr : thr[t].todo = {}
      /\ pc' \in Positions /\ ret' \in {"none", "TRUE", "FALSE"}
  BY <1>2 DEF Alloc, AllocFail, SpliceAlloc, Divided, Typed, Positions
<1>4. /\ Typed' /\ Divided' /\ Working' /\ StripBlocks' = StripBlocks /\ ArrayBlocks' = ArrayBlocks
      /\ SpliceBlocks' = SpliceBlocks
  <2>1. /\ copied' \in 0..n
        /\ out' \in [height : 0..(HEIGHT_FIELD - 1), scan : Seq(Tokens)]
    BY <1>1, <1>2 DEF Typed
  <2> QED
    BY <1>1, <1>3, <2>1, QuietStep
<1>5. CASE Alloc
  <2>1. /\ pc = "alloc" /\ pc' = "bounds" /\ heap' = heap \cup ArrayBlocks /\ ret' = ret
    BY <1>5 DEF Alloc, ArrayBlocks
  <2>2. n = 0 /\ team = 0 /\ ret = "none" /\ heap = {}
    BY <1>2, <2>1 DEF Planned, Spliced, Allocated
  <2>3. Planned'
    BY <1>1, <2>1, <2>2 DEF Planned
  <2>4. Allocated'
    BY <1>4, <2>1, <2>2 DEF Allocated
  <2>5. Spliced'
    BY <2>1, <2>2 DEF Spliced
  <2> QED
    BY <1>4, <2>3, <2>4, <2>5 DEF IInv
<1>6. CASE AllocFail
  <2>1. /\ pc = "alloc" /\ pc' = "returned" /\ heap' = heap /\ ret' = "FALSE"
    BY <1>6 DEF AllocFail
  <2>2. n = 0 /\ team = 0 /\ heap = {}
    BY <1>2, <2>1 DEF Planned, Allocated
  <2>3. Planned'
    BY <1>1, <2>1, <2>2 DEF Planned
  <2>4. Allocated'
    <3>1. LostBlocks' = {}
      BY <1>1, <2>2 DEF LostBlocks
    <3> QED
      BY <2>1, <2>2, <3>1 DEF Allocated
  <2>5. Spliced'
    BY <2>1 DEF Spliced
  <2> QED
    BY <1>4, <2>3, <2>4, <2>5 DEF IInv
<1>7. CASE SpliceAlloc
  <2>1. /\ pc = "splice" /\ ret' = ret
        /\ \/ pc' = "output" /\ heap' = heap \cup SpliceBlocks
           \/ pc' = "cleanup" /\ heap' = heap
    BY <1>7 DEF SpliceAlloc, SpliceBlocks
  <2>2. /\ call \in Calls /\ n = StripCount(Total, call.threads) /\ n \in Nat \ {0}
        /\ ret = "none" /\ StripBlocks \cap (ArrayBlocks \cup SpliceBlocks \cup Output) = {}
    BY <2>1, MasterFacts
  <2>3. Planned'
    BY <1>1, <2>1, <2>2, PlanStays DEF Planned
  <2>4. heap = ArrayBlocks \cup StripBlocks
    BY <1>2, <2>1 DEF Allocated
  <2>5. Allocated'
    BY <1>4, <2>1, <2>4 DEF Allocated
  <2>6. <<"out_buf">> \notin heap
    BY <2>2, <2>4, BlocksDiffer DEF Output
  <2>7. \A s \in 0..(n - 1) : Whole(s, bufs[s])
    BY <1>2, <2>1 DEF Spliced
  <2>8. Spliced'
    BY <1>1, <2>1, <2>2, <2>6, <2>7, PlanStays DEF Spliced
  <2> QED
    BY <1>4, <2>3, <2>5, <2>8 DEF IInv
<1> QED
  BY <1>5, <1>6, <1>7

LEMMA StutterInvariant ==
  ASSUME IInv, UNCHANGED vars
  PROVE  IInv'
<1>1. \A t : Current(t)' = Current(t)
  BY DEF vars, Current
<1>2. Typed' /\ Planned' /\ Divided'
  <2>1. Typed'
    BY DEF vars, IInv, Typed
  <2>2. Planned' /\ Divided'
    BY DEF vars, IInv, Planned, Divided, Total
  <2> QED
    BY <2>1, <2>2
<1>3. Allocated'
  BY <1>1 DEF vars, IInv, Allocated, StripBlocks, LostBlocks, Buffer, ArrayBlocks,
              SpliceBlocks, Output
<1>4. Working' /\ Spliced'
  BY <1>1, PlanStays DEF vars, IInv, Working, Failed, Spliced, NoneLost
<1> QED
  BY <1>2, <1>3, <1>4 DEF IInv

-----------------------------------------------------------------------------
(* What the caller sees.                                                   *)

\* What the abstract specification sees of a state.
Seen == IF ret = "TRUE" THEN out ELSE NoJpeg

\* Only the clean-up and the first malloc's failure end the call; every step
\* keeps the invariant and is one the abstract specification allows.
LEMMA StepPromised ==
  ASSUME IInv, [Next]_vars
  PROVE  IInv' /\ [Abs!SpecNext]_(Abs!specVars)
<1>1. ret = "none" <=> pc # "returned"
  BY DEF IInv, Spliced
<1>2. ASSUME UNCHANGED <<call, ret>>, ret = "TRUE" => UNCHANGED out
      PROVE  UNCHANGED Abs!specVars
  BY <1>2 DEF Abs!specVars, NoJpeg
<1>3. CASE UNCHANGED vars
  <2>1. IInv'
    BY <1>3, StutterInvariant
  <2>2. UNCHANGED <<call, ret>> /\ UNCHANGED out
    BY <1>3 DEF vars
  <2> QED
    BY <1>2, <2>1, <2>2
<1>4. ASSUME NEW t \in DOMAIN thr, Worker(t)
      PROVE  IInv' /\ [Abs!SpecNext]_(Abs!specVars)
  <2>1. UNCHANGED <<call, ret>> /\ UNCHANGED out
    BY <1>4 DEF Worker, Begin, BeginFail, EncodeRow, Grow, Finish, EncodeFail, EncodeFailGrown
  <2> QED
    BY <1>2, <1>4, <2>1, WorkerStep
<1>5. CASE Alloc \/ Fork \/ Join \/ SpliceAlloc \/ Header \/ CopyStrip \/ Renumber
  <2>1. IInv'
    BY <1>5, AllocStep, ForkStep, JoinStep, HeaderStep, CopyStep, RenumberStep
  <2>2. UNCHANGED <<call, ret>> /\ pc # "returned"
    BY <1>5 DEF Alloc, Fork, Join, SpliceAlloc, Header, CopyStrip, Renumber
  <2>3. ret # "TRUE"
    BY <1>1, <2>2
  <2> QED
    BY <1>2, <2>1, <2>2, <2>3
<1>6. CASE AllocFail
  <2>1. IInv'
    BY <1>6, AllocStep
  <2>2. ret = "none" /\ ret' = "FALSE" /\ UNCHANGED call
    BY <1>1, <1>6 DEF AllocFail
  <2>3. Abs!Fail
    BY <2>2 DEF Abs!Fail, NoJpeg
  <2> QED
    BY <2>1, <2>3 DEF Abs!SpecNext
<1>7. CASE Cleanup
  <2>1. /\ IInv' /\ ret = "none" /\ UNCHANGED call
        /\ ret' = "FALSE" \/ (ret' = "TRUE" /\ out' = Reference)
    BY <1>7, CleanupStep
  <2>2. CASE ret' = "FALSE"
    <3>1. Abs!Fail
      BY <2>1, <2>2 DEF Abs!Fail, NoJpeg
    <3> QED
      BY <2>1, <3>1 DEF Abs!SpecNext
  <2>3. CASE ret' = "TRUE" /\ out' = Reference
    <3>1. Abs!ReferenceScan(call.height, Abs!McuRowHeight(call.v))
            = ReferenceScan(call.height, Height)
      BY DEF Abs!ReferenceScan, ReferenceScan, Abs!McuRowHeight, McuRowHeight, Height, Abs!McuRows,
             McuRows, Abs!McuRow, McuRow, Abs!Row, Row, Abs!Rst, Rst, Abs!AtLeastOne, AtLeastOne
    <3>2. Abs!Succeed
      BY <2>1, <2>3, <3>1 DEF Abs!Succeed, Reference
    <3> QED
      BY <2>1, <3>2 DEF Abs!SpecNext
  <2> QED
    BY <2>1, <2>2, <2>3
<1>8. CASE Stopped
  BY <1>3, <1>8 DEF Stopped
<1> QED
  BY <1>3, <1>4, <1>5, <1>6, <1>7, <1>8 DEF Next, Master

LEMMA InitPromised == Init => IInv /\ Abs!SpecInit
<1>1. Init => Abs!SpecInit
  BY DEF Init, Abs!SpecInit, NoJpeg, Abs!NoJpeg
<1> QED
  BY <1>1, InitInvariant

-----------------------------------------------------------------------------
(* The theorems.                                                           *)

\* For every set of calls the inductive invariant holds of
\* jpar_encode_strips_spliced throughout.
THEOREM Invariant == Spec => []IInv
<1> QED
  BY InitPromised, StepPromised, PTL DEF Spec

\* The variables of jpar_encode_strips_spliced keep their types: every coded row
\* comes of at least one scanline of the image, however it is cut into strips.
THEOREM TypeCorrect == Spec => []TypeOK
<1>1. IInv => TypeOK
  <2> SUFFICES ASSUME IInv PROVE TypeOK
    OBVIOUS
  <2>1. Typed
    BY DEF IInv
  <2>2. /\ DOMAIN bufs = 0..(n - 1) /\ DOMAIN thr = 0..(team - 1)
        /\ \A s \in DOMAIN bufs : bufs[s] \in Buffers
        /\ \A t \in DOMAIN thr :
             thr[t] \in [todo : SUBSET (0..(n - 1)), at : {"idle", "encode"}, row : Nat]
    BY <2>1 DEF Typed
  <2>3. \A s \in DOMAIN bufs :
          /\ bufs[s].state \in {"null", "open", "complete"} /\ bufs[s].block \in 0..2
          /\ bufs[s].height \in 0..JPEG_MAX_DIMENSION
          /\ bufs[s].scan \in Seq(Tokens)
    BY <2>2 DEF Buffers
  <2> QED
    BY <2>1, <2>2, <2>3 DEF Typed, TypeOK, Positions
<1> QED
  BY <1>1, Invariant, PTL

\* No strip is ever in the hands of two threads of the team, and none is once
\* the parallel loop is over: its unlocked accesses to jpeg_bufs and jpeg_sizes
\* do not race, whatever the team's size and schedule.
THEOREM StripsNotShared == Spec => []NoSharing
<1>1. IInv => NoSharing
  <2> SUFFICES ASSUME IInv PROVE NoSharing
    OBVIOUS
  <2>1. Typed /\ Divided /\ Working
    BY DEF IInv
  <2>2. DOMAIN bufs = 0..(n - 1)
    BY <2>1 DEF Typed
  <2>3. ASSUME NEW s \in DOMAIN bufs, bufs[s].state = "open"
        PROVE  \E t \in DOMAIN thr : thr[t].at = "encode" /\ Current(t) = s
    <3>1. ~Failed(bufs[s]) /\ ~Whole(s, bufs[s])
      BY <2>3 DEF Failed, Null, Lost, Whole, WholeStrip
    <3> QED
      BY <2>1, <2>2, <3>1 DEF Working
  <2> QED
    BY <2>1, <2>3 DEF NoSharing, Divided
<1> QED
  BY <1>1, Invariant, PTL

\* jpar_splice_strips reads complete strips only, each of them live on the heap
\* and ending in an MCU row, however the failures of the others fall.
THEOREM CompleteStripsSpliced == Spec => []SplicesCompleteStrips
<1>1. IInv => SplicesCompleteStrips
  <2> SUFFICES ASSUME IInv, pc \in {"splice", "output", "copy"}, NEW s \in DOMAIN bufs
               PROVE  /\ bufs[s].state = "complete"
                      /\ Buffer(s, bufs[s].block) \in heap
                      /\ Len(bufs[s].scan) = 2 * McuRows(bufs[s].height, Height) - 1
    BY DEF SplicesCompleteStrips
  <2>1. /\ call \in Calls /\ n = StripCount(Total, call.threads)
    BY MasterFacts
  <2>2. s \in 0..(n - 1)
    BY DEF IInv, Typed
  <2>3. Whole(s, bufs[s]) /\ NumRows(s) > 0
    BY <2>2 DEF IInv, Spliced, Whole
  <2>4. bufs[s].state = "complete" /\ bufs[s].height = NumRows(s) /\ bufs[s].block # 0
        /\ bufs[s].scan = StripScan(s, StripRows(s))
    BY <2>3 DEF Whole, WholeStrip
  <2>5. Buffer(s, bufs[s].block) \in StripBlocks
    BY <2>2, <2>4 DEF StripBlocks
  <2>6. Buffer(s, bufs[s].block) \in heap
    BY <2>5 DEF IInv, Allocated
  <2>7. StripRows(s) \in Nat /\ StripRows(s) > 0
    <3>1. NumRows(s) \in Nat /\ StripRows(s) \in Nat
      BY <2>1, <2>2, StripShape
    <3>2. Height \in Nat \ {0}
      BY <2>1, CallFacts
    <3> QED
      BY <2>3, <3>1, <3>2, McuRowsBounds DEF StripRows
  <2>8. Len(StripScan(s, StripRows(s))) = 2 * StripRows(s) - 1
    <3> DEFINE rows == StripRows(s)
    <3>1. rows \in Nat /\ rows <= StripRows(s) /\ rows # 0
      BY <2>7
    <3> HIDE DEF rows
    <3>2. Len(StripScan(s, rows)) = 2 * rows - 1
      BY <2>1, <2>2, <3>1, StripScanShape
    <3> QED
      BY <3>2 DEF rows
  <2> QED
    BY <2>4, <2>6, <2>8 DEF StripRows
<1> QED
  BY <1>1, Invariant, PTL

\* However many strips of jpar_encode_strips_spliced fail, and whenever: only a
\* strip that fails after its buffer was replaced frees a block twice, which may
\* stop the process, and loses one, its last buffer.  Every other block is freed
\* by the return, and a call that succeeds leaves its output alone.
THEOREM FailuresLoseOneBlock == Spec => []LossOnlyAfterGrowth
<1>1. IInv => LossOnlyAfterGrowth
  <2> SUFFICES ASSUME IInv PROVE LossOnlyAfterGrowth
    OBVIOUS
  <2>1. Typed /\ Planned /\ Allocated /\ Spliced
    BY DEF IInv
  <2>2. DOMAIN bufs = 0..(n - 1) /\ pc \in Positions
    BY <2>1 DEF Typed
  <2>3. pc = "undefined" =>
          \E t \in DOMAIN thr : thr[t].at = "encode" /\ bufs[Current(t)].block = 2
    BY <2>1 DEF Allocated
  <2>4. ASSUME pc \notin {"returned", "undefined"}, NEW s \in DOMAIN bufs, NEW block \in 1..2
        PROVE  Buffer(s, block) \in heap <=> bufs[s].block = block
    <3>1. n # 0
      BY <2>1, <2>2, <2>4 DEF Typed
    <3>2. pc \in {"parallel", "splice", "output", "copy", "cleanup"}
      BY <2>1, <2>2, <2>4, <3>1 DEF Planned, Positions
    <3>3. Buffer(s, block) \in heap <=> Buffer(s, block) \in StripBlocks
      BY <2>1, <3>2, BlocksDiffer DEF Allocated
    <3>4. Buffer(s, block) \in StripBlocks <=> bufs[s].block = block
      BY <2>2, <2>4, OneBlock
    <3> QED
      BY <3>3, <3>4
  <2>5. LostBlocks = {Buffer(s, 2) : s \in {u \in DOMAIN bufs : bufs[u] = Lost}}
    BY <2>2 DEF LostBlocks
  <2>6. pc = "returned" => /\ ret = "TRUE" => heap = {<<"out_buf">>} /\ LostBlocks = {}
                           /\ ret = "FALSE" => heap = LostBlocks
    BY <2>1 DEF Allocated, Spliced, NoneLost, LostBlocks, Output
  <2> QED
    BY <2>3, <2>4, <2>5, <2>6 DEF LossOnlyAfterGrowth
<1> QED
  BY <1>1, Invariant, PTL

\* For every image, number of threads, team and schedule, and whichever
\* allocations fail, jpar_encode_strips_spliced implements the specification of
\* a single-threaded encode; the double free of a strip whose buffer was replaced
\* may keep it from returning.
THEOREM ParallelEncodeIsSequential == Spec => EncodesLikeOneThread
<1> QED
  BY InitPromised, StepPromised, PTL DEF Spec, EncodesLikeOneThread, Abs!EncodeSafety

=============================================================================
