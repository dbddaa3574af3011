------------------------ MODULE VirtualArrayProofs ------------------------
(***************************************************************************)
(* The windows of virtual arrays keep the promise of AbstractArray for     *)
(* every number of rows, size of the window and size of the chunks.        *)
(***************************************************************************)
EXTENDS VirtualArray, TLAPS

Row == 0..(kind.rows - 1)
Slot == 0..(kind.mem - 1)
Cell == Values \cup {ZERO, JUNK}

Typed ==
  /\ kind \in Kinds
  /\ mem_buffer \in [Slot -> Cell]
  /\ file \in [Row -> Cell]
  /\ cur_start_row \in Row
  /\ first_undef_row \in 0..kind.rows
  /\ dirty \in BOOLEAN
  /\ strip \in [start : 0..kind.rows, end : 0..kind.rows, writable : BOOLEAN]

\* The client's strip lies in the window; one it may write to is defined and
\* the window counts as changed.
StripHeld ==
  /\ strip # NoStrip => InWindow(strip.start, strip.end) /\ strip.start < strip.end
  /\ strip.writable => dirty /\ strip.end <= first_undef_row

\* A window that counts as unchanged agrees with the file on the defined rows.
Clean ==
  ~dirty => \A r \in Row :
              r < first_undef_row /\ InWindow(r, r + 1) => file[r] = mem_buffer[r - cur_start_row]

IInv == Typed /\ StripHeld /\ Clean

-----------------------------------------------------------------------------

LEMMA KindNat ==
  ASSUME kind \in Kinds
  PROVE  /\ kind.rows \in Nat \ {0} /\ kind.mem \in Nat \ {0} /\ kind.chunk \in Nat \ {0}
         /\ kind.maxaccess \in Nat \ {0} /\ kind.pre_zero \in BOOLEAN
         /\ kind.maxaccess <= kind.mem /\ kind.mem <= kind.rows
  BY KindAssumption

LEMMA ChunkOf ==
  ASSUME NEW i \in Nat, NEW k \in Nat \ {0}
  PROVE  /\ i - (i % k) \in Nat
         /\ (i - (i % k)) % k = 0
         /\ i - (i % k) <= i /\ i < i - (i % k) + k
  <1>1. i % k \in 0..(k - 1)
    OBVIOUS
  <1>2. i = k * (i \div k) + (i % k) /\ i \div k \in Nat
    OBVIOUS
  <1>3. ASSUME NEW n \in Nat PROVE (k * n) % k = 0
    OBVIOUS
  <1>4. i - (i % k) = k * (i \div k)
    BY <1>1, <1>2
  <1>5. (k * (i \div k)) % k = 0
    BY <1>2, <1>3
  <1>6. (i - (i % k)) % k = 0
    BY <1>4, <1>5, Zenon
  <1>7. i - (i % k) \in Nat /\ i - (i % k) <= i /\ i < i - (i % k) + k
    <2> DEFINE m == i % k
    <2>1. m \in 0..(k - 1) /\ i - m = k * (i \div k) /\ k * (i \div k) \in Nat
      BY <1>1, <1>2, <1>4
    <2> HIDE DEF m
    <2>2. i - m \in Nat /\ i - m <= i /\ i < i - m + k
      BY <2>1
    <2> QED
      BY <2>2 DEF m
  <1> QED
    BY <1>6, <1>7

\* Only slots of the buffer are moved, and only rows of the array.
LEMMA MovedInRange ==
  ASSUME kind \in Kinds, first_undef_row \in 0..kind.rows,
         NEW start \in Row, NEW i \in Moved(start)
  PROVE  i \in Slot /\ start + i \in Row
  <1>1. PICK c \in ChunkStarts : i \in c..(c + ChunkRows(start, c) - 1)
    BY DEF Moved
  <1>2. c \in Slot
    BY <1>1 DEF ChunkStarts, Slot
  <1> QED
    BY <1>1, <1>2, KindNat DEF ChunkRows, Least, Slot, Row

\* Every defined row of the window is moved: the loop does not stop before it.
LEMMA MovedComplete ==
  ASSUME kind \in Kinds, first_undef_row \in 0..kind.rows,
         NEW start \in Row, NEW i \in Slot, start + i < first_undef_row
  PROVE  i \in Moved(start)
  <1> DEFINE c == i - (i % kind.chunk)
  <1>1. i \in Nat /\ kind.chunk \in Nat \ {0} /\ kind.mem \in Nat /\ kind.rows \in Nat
    BY KindNat DEF Slot
  <1>2. c \in Nat /\ c % kind.chunk = 0 /\ c <= i /\ i < c + kind.chunk
    BY <1>1, ChunkOf
  <1>3. c \in ChunkStarts
    BY <1>1, <1>2 DEF ChunkStarts, Slot
  <1>4. ASSUME NEW d \in ChunkStarts, d <= c
        PROVE  ChunkRows(start, d) > 0
    <2>1. d \in 0..(kind.mem - 1)
      BY DEF ChunkStarts
    <2> HIDE DEF c
    <2> QED
      BY <2>1, <1>1, <1>2, <1>4 DEF ChunkRows, Least, Row, Slot
  <1>5. i \in c..(c + ChunkRows(start, c) - 1)
    <2> HIDE DEF c
    <2> QED
      BY <1>1, <1>2 DEF ChunkRows, Least, Row, Slot
  <1> HIDE DEF c
  <1> QED
    BY <1>3, <1>4, <1>5 DEF Moved

\* What an access that is not refused asks for, and where the window goes.
LEMMA WindowHoldsStrip ==
  ASSUME Typed, NEW start \in 0..kind.rows, NEW end \in 0..kind.rows, NEW writable \in BOOLEAN,
         start < end, ~Refused(start, end, writable)
  PROVE  /\ NewStart(start, end) \in Row
         /\ NewStart(start, end) <= start /\ end <= NewStart(start, end) + kind.mem
  <1>1. /\ kind.rows \in Nat \ {0} /\ kind.mem \in Nat \ {0} /\ kind.maxaccess \in Nat
        /\ kind.maxaccess <= kind.mem
        /\ cur_start_row \in 0..(kind.rows - 1)
    BY KindNat DEF Typed, Row
  <1>2. end - start <= kind.maxaccess
    BY <1>1 DEF Refused
  <1> DEFINE at == NewStart(start, end)
  <1>3. at \in Int
    BY <1>1 DEF NewStart
  <1>4. 0 <= at /\ at < kind.rows
    BY <1>1, <1>2 DEF NewStart, InWindow
  <1>5. at <= start /\ end <= at + kind.mem
    BY <1>1, <1>2 DEF NewStart, InWindow
  <1> HIDE DEF at
  <1>6. at \in Row
    BY <1>1, <1>3, <1>4 DEF Row
  <1> QED
    BY <1>5, <1>6 DEF at

-----------------------------------------------------------------------------
(* The parts of an access.                                                 *)

\* After a change of the window the file holds every defined row.
LEMMA FileComplete ==
  ASSUME IInv, NEW r \in Row, r < first_undef_row
  PROVE  (IF dirty THEN WrittenBack ELSE file)[r] = Contents[r]
  <1>1. kind \in Kinds /\ first_undef_row \in 0..kind.rows /\ cur_start_row \in Row
        /\ DOMAIN file = Row /\ r \in Int /\ cur_start_row \in Int
    BY DEF IInv, Typed, Row
  <1>2. kind.mem \in Nat \ {0} /\ kind.rows \in Nat \ {0}
    BY <1>1, KindNat
  <1>3. Contents[r] = IF InWindow(r, r + 1) THEN mem_buffer[r - cur_start_row] ELSE file[r]
    BY <1>1, <1>2 DEF Contents, Row
  <1>4. InWindow(r, r + 1) <=> r - cur_start_row \in Slot
    BY <1>1, <1>2 DEF InWindow, Slot
  <1>5. CASE dirty
    <2>1. WrittenBack[r] = IF r - cur_start_row \in Moved(cur_start_row)
                           THEN mem_buffer[r - cur_start_row] ELSE file[r]
      BY <1>1 DEF WrittenBack
    <2>2. r - cur_start_row \in Slot => r - cur_start_row \in Moved(cur_start_row)
      <3> SUFFICES ASSUME r - cur_start_row \in Slot
                   PROVE  r - cur_start_row \in Moved(cur_start_row)
        OBVIOUS
      <3>1. cur_start_row + (r - cur_start_row) < first_undef_row
        BY <1>1
      <3> QED
        BY <1>1, <3>1, MovedComplete
    <2>3. r - cur_start_row \in Moved(cur_start_row) => r - cur_start_row \in Slot
      BY <1>1, MovedInRange
    <2> QED
      BY <1>3, <1>4, <1>5, <2>1, <2>2, <2>3
  <1>6. CASE ~dirty
    BY <1>3, <1>6 DEF IInv, Clean
  <1> QED
    BY <1>5, <1>6

LEMMA FileTyped ==
  ASSUME Typed
  PROVE  (IF dirty THEN WrittenBack ELSE file) \in [Row -> Cell]
  <1>1. \A i \in Moved(cur_start_row) : mem_buffer[i] \in Cell
    BY MovedInRange DEF Typed
  <1> QED
    BY <1>1 DEF Typed, WrittenBack

\* A window that is loaded agrees with the file on the defined rows.
LEMMA LoadedTyped ==
  ASSUME Typed, NEW start \in Row, NEW store \in [Row -> Cell]
  PROVE  /\ Loaded(start, store) \in [Slot -> Cell]
         /\ \A i \in Slot : start + i < first_undef_row => Loaded(start, store)[i] = store[start + i]
  <1>1. \A i \in Moved(start) : store[start + i] \in Cell
    BY MovedInRange DEF Typed
  <1>2. Loaded(start, store) \in [Slot -> Cell]
    BY <1>1 DEF Typed, Loaded
  <1>3. ASSUME NEW i \in Slot, start + i < first_undef_row
        PROVE  Loaded(start, store)[i] = store[start + i]
    <2>1. i \in Moved(start)
      BY <1>3, MovedComplete DEF Typed
    <2> QED
      BY <2>1 DEF Loaded, Typed
  <1> QED
    BY <1>2, <1>3

-----------------------------------------------------------------------------
(* An access.                                                              *)

LEMMA AccessTyped ==
  ASSUME IInv, NEW start \in 0..kind.rows, NEW end \in 0..kind.rows, NEW writable \in BOOLEAN,
         start < end, Access(start, end, writable)
  PROVE  /\ Typed' /\ kind' = kind /\ first_undef_row <= first_undef_row'
         /\ cur_start_row' <= start /\ end <= cur_start_row' + kind.mem
         /\ kind.rows \in Nat \ {0} /\ kind.mem \in Nat \ {0}
         /\ first_undef_row \in 0..kind.rows
  <1>1. /\ kind' = kind /\ cur_start_row' = NewStart(start, end)
        /\ strip' = [start |-> start, end |-> end, writable |-> writable]
        /\ first_undef_row' = IF writable /\ first_undef_row < end THEN end ELSE first_undef_row
        /\ ~Refused(start, end, writable)
    BY DEF Access
  <1>2. Typed /\ kind \in Kinds /\ first_undef_row \in 0..kind.rows /\ dirty \in BOOLEAN
    BY DEF IInv, Typed
  <1>3. kind.rows \in Nat \ {0} /\ kind.mem \in Nat \ {0}
    BY <1>2, KindNat
  <1>4. /\ cur_start_row' \in Row
        /\ cur_start_row' <= start /\ end <= cur_start_row' + kind.mem
    BY <1>1, <1>2, WindowHoldsStrip
  <1>5. first_undef_row' \in 0..kind.rows /\ first_undef_row <= first_undef_row'
    BY <1>1, <1>2, <1>3
  <1>6. dirty' \in BOOLEAN
    BY <1>2 DEF Access
  <1>7. file' \in [Row -> Cell]
    <2>1. file \in [Row -> Cell] /\ (dirty => WrittenBack \in [Row -> Cell])
      BY <1>2, FileTyped DEF Typed
    <2>2. file' = file \/ (dirty /\ file' = WrittenBack)
      BY DEF Access
    <2> QED
      BY <2>1, <2>2
  <1>8. mem_buffer' \in [Slot -> Cell]
    <2>1. NewStart(start, end) \in Row
      BY <1>1, <1>4
    <2>2. Loaded(NewStart(start, end), file') \in [Slot -> Cell]
      BY <1>2, <1>7, <2>1, LoadedTyped
    <2>3. mem_buffer \in [Slot -> Cell] /\ ZERO \in Cell
      BY <1>2 DEF Typed, Cell
    <2> QED
      BY <2>2, <2>3 DEF Access
  <1>9. strip' \in [start : 0..kind.rows, end : 0..kind.rows, writable : BOOLEAN]
    BY <1>1
  <1>10. Row' = Row /\ Slot' = Slot /\ Cell' = Cell
    BY <1>1 DEF Row, Slot, Cell
  <1>11. Typed'
    BY <1>1, <1>2, <1>4, <1>5, <1>6, <1>7, <1>8, <1>9, <1>10 DEF Typed
  <1> QED
    BY <1>1, <1>2, <1>3, <1>4, <1>5, <1>11

\* The buffer after an access: the zeroed rows, else what the window shows of
\* the file, else what was there.
LEMMA AccessBuffer ==
  ASSUME IInv, NEW start \in 0..kind.rows, NEW end \in 0..kind.rows, NEW writable \in BOOLEAN,
         start < end, Access(start, end, writable), NEW i \in Slot
  PROVE  /\ cur_start_row' + i \in PreZeroed(start, end) => mem_buffer'[i] = ZERO
         /\ cur_start_row' + i < first_undef_row
              => mem_buffer'[i] = IF InWindow(start, end) THEN mem_buffer[i] ELSE file'[cur_start_row' + i]
  <1>1. Typed /\ Typed' /\ cur_start_row' \in Row /\ i \in Nat /\ Row' = Row /\ kind' = kind
    BY SMTT(30), AccessTyped DEF IInv, Slot, Typed, Row
  <1>2. mem_buffer'[i] = IF cur_start_row' + i \in PreZeroed(start, end) THEN ZERO
                         ELSE IF InWindow(start, end) THEN mem_buffer[i]
                         ELSE Loaded(cur_start_row', file')[i]
    BY <1>1 DEF Access, Typed
  <1>3. cur_start_row' + i < first_undef_row => cur_start_row' + i \notin PreZeroed(start, end)
    <2>1. cur_start_row' + i \in Int /\ first_undef_row \in Int
      BY <1>1 DEF Row, Typed
    <2> QED
      BY <2>1 DEF PreZeroed
  <1>4. cur_start_row' + i < first_undef_row
          => Loaded(cur_start_row', file')[i] = file'[cur_start_row' + i]
    <2>1. file' \in [Row -> Cell]
      BY <1>1 DEF Typed, Cell
    <2> QED
      BY <1>1, <2>1, LoadedTyped
  <1> QED
    BY <1>2, <1>3, <1>4

\* No defined row changes.
LEMMA AccessKeeps ==
  ASSUME IInv, NEW start \in 0..kind.rows, NEW end \in 0..kind.rows, NEW writable \in BOOLEAN,
         start < end, Access(start, end, writable),
         NEW r \in Row, r < first_undef_row
  PROVE  Contents'[r] = Contents[r]
  <1>1. /\ kind' = kind /\ first_undef_row <= first_undef_row'
        /\ kind.rows \in Nat \ {0} /\ kind.mem \in Nat \ {0}
        /\ first_undef_row \in 0..kind.rows /\ Typed' /\ Typed
    BY AccessTyped DEF IInv
  <1>2. first_undef_row' \in Int /\ cur_start_row' \in Int /\ cur_start_row \in Int /\ r \in Int
    BY <1>1 DEF Typed, Row
  <1>3. Contents'[r] = IF r >= cur_start_row' /\ r + 1 <= cur_start_row' + kind.mem
                       THEN mem_buffer'[r - cur_start_row'] ELSE file'[r]
    BY <1>1, <1>2 DEF Contents, InWindow, Row
  <1>4. Contents[r] = IF r >= cur_start_row /\ r + 1 <= cur_start_row + kind.mem
                      THEN mem_buffer[r - cur_start_row] ELSE file[r]
    BY <1>1, <1>2 DEF Contents, InWindow, Row
  <1>5. CASE InWindow(start, end)
    <2>1. cur_start_row' = cur_start_row /\ file' = file
      BY <1>5 DEF Access, NewStart
    <2>2. ASSUME r >= cur_start_row, r + 1 <= cur_start_row + kind.mem
          PROVE  mem_buffer'[r - cur_start_row] = mem_buffer[r - cur_start_row]
      <3>1. r - cur_start_row \in Slot /\ cur_start_row + (r - cur_start_row) < first_undef_row
        BY <1>1, <1>2, <2>2 DEF Slot
      <3> QED
        BY <1>5, <2>1, <3>1, AccessBuffer
    <2> QED
      BY <1>3, <1>4, <2>1, <2>2
  <1>6. CASE ~InWindow(start, end)
    <2>1. file' = IF dirty THEN WrittenBack ELSE file
      BY <1>6 DEF Access
    <2>2. file'[r] = Contents[r]
      BY <2>1, FileComplete
    <2>3. ASSUME r >= cur_start_row', r + 1 <= cur_start_row' + kind.mem
          PROVE  mem_buffer'[r - cur_start_row'] = file'[r]
      <3> DEFINE at == cur_start_row'
      <3> HIDE DEF at
      <3>1. at \in Int /\ r \in Int /\ r >= at /\ r + 1 <= at + kind.mem
        BY <1>2, <2>3 DEF at
      <3>2. r - at \in Slot
        BY <1>1, <3>1 DEF Slot
      <3>3. at + (r - at) = r
        BY <3>1
      <3>4. /\ r - cur_start_row' \in Slot
            /\ cur_start_row' + (r - cur_start_row') = r
        BY <3>2, <3>3 DEF at
      <3>5. cur_start_row' + (r - cur_start_row') < first_undef_row
        BY <3>4
      <3> QED
        BY <1>6, <3>4, <3>5, AccessBuffer
    <2> QED
      BY <1>3, <2>2, <2>3
  <1> QED
    BY <1>5, <1>6

\* The strip is in the window, and the rows asked for are seen as promised:
\* defined rows as they are, rows a reader looks ahead to as zeros.
LEMMA AccessSeen ==
  ASSUME IInv, NEW start \in 0..kind.rows, NEW end \in 0..kind.rows, NEW writable \in BOOLEAN,
         start < end, Access(start, end, writable),
         NEW r \in start..(end - 1)
  PROVE  /\ r \in Row
         /\ mem_buffer'[r - cur_start_row'] = IF r < first_undef_row' THEN Contents'[r] ELSE ZERO
  <1>1. /\ kind' = kind /\ first_undef_row <= first_undef_row'
        /\ cur_start_row' <= start /\ end <= cur_start_row' + kind.mem
        /\ kind.rows \in Nat \ {0} /\ kind.mem \in Nat \ {0}
        /\ first_undef_row \in 0..kind.rows /\ Typed' /\ Typed
    BY AccessTyped DEF IInv
  <1>2. first_undef_row' \in Int /\ cur_start_row' \in Int /\ r \in Int
    BY <1>1 DEF Typed, Row
  <1>3. r \in Row
    BY <1>1, <1>2 DEF Row
  <1>4. Contents'[r] = IF r >= first_undef_row' THEN UNDEF
                       ELSE IF r >= cur_start_row' /\ r + 1 <= cur_start_row' + kind.mem
                       THEN mem_buffer'[r - cur_start_row'] ELSE file'[r]
    BY <1>1, <1>3 DEF Contents, InWindow, Row
  <1>5. r >= cur_start_row' /\ r + 1 <= cur_start_row' + kind.mem
    BY <1>1, <1>2
  <1>6. ASSUME r >= first_undef_row'
        PROVE  mem_buffer'[r - cur_start_row'] = ZERO
    <2>1. ~writable /\ kind.pre_zero /\ first_undef_row' = first_undef_row
      BY <1>1, <1>2, <1>6 DEF Access, Refused
    <2>2. r \in PreZeroed(start, end)
      BY <1>1, <1>2, <1>6, <2>1 DEF PreZeroed
    <2> DEFINE at == cur_start_row'
    <2> HIDE DEF at
    <2>3. at \in Int /\ r >= at /\ r + 1 <= at + kind.mem
      BY <1>2, <1>5 DEF at
    <2>4. r - at \in Slot /\ at + (r - at) = r
      BY <1>1, <1>2, <2>3 DEF Slot
    <2>5. r - cur_start_row' \in Slot /\ cur_start_row' + (r - cur_start_row') \in PreZeroed(start, end)
      BY <2>2, <2>4 DEF at
    <2> QED
      BY <2>5, AccessBuffer
  <1> QED
    BY <1>2, <1>3, <1>4, <1>5, <1>6

\* A row that is accessed for the first time shows what was in memory, or zero.
LEMMA AccessFresh ==
  ASSUME IInv, NEW start \in 0..kind.rows, NEW end \in 0..kind.rows, NEW writable \in BOOLEAN,
         start < end, Access(start, end, writable),
         NEW r \in first_undef_row..(first_undef_row' - 1)
  PROVE  r \in Row /\ Contents'[r] \in IF kind.pre_zero THEN {ZERO} ELSE Cell
  <1>1. /\ kind' = kind
        /\ cur_start_row' <= start /\ end <= cur_start_row' + kind.mem
        /\ kind.rows \in Nat \ {0} /\ kind.mem \in Nat \ {0}
        /\ first_undef_row \in 0..kind.rows /\ Typed' /\ Typed
    BY AccessTyped DEF IInv
  <1>2. first_undef_row' \in Int /\ cur_start_row' \in Int /\ r \in Int
    BY <1>1 DEF Typed, Row
  <1>3. writable /\ first_undef_row' = end /\ start <= first_undef_row
    BY <1>1, <1>2 DEF Access, Refused
  <1>4. r \in start..(end - 1) /\ r \in Row /\ r < first_undef_row'
    BY <1>1, <1>2, <1>3 DEF Row
  <1>5. Contents'[r] = mem_buffer'[r - cur_start_row']
    BY <1>4, AccessSeen
  <1> DEFINE at == cur_start_row'
  <1> HIDE DEF at
  <1>6. at \in Int /\ at <= start /\ end <= at + kind.mem
    BY <1>1, <1>2 DEF at
  <1>7. r - at \in Slot /\ at + (r - at) = r
    BY <1>1, <1>4, <1>6 DEF Slot
  <1>8. CASE kind.pre_zero
    <2>1. r \in PreZeroed(start, end)
      BY <1>1, <1>2, <1>3, <1>8 DEF PreZeroed
    <2>2. mem_buffer'[r - cur_start_row'] = ZERO
      BY <1>7, <2>1, AccessBuffer DEF at
    <2> QED
      BY <1>4, <1>5, <1>8, <2>2
  <1>9. CASE ~kind.pre_zero
    <2>1. mem_buffer' \in [Slot -> Cell]
      BY <1>1 DEF Typed, Slot, Cell
    <2> QED
      BY <1>4, <1>5, <1>7, <1>9, <2>1 DEF at
  <1> QED
    BY <1>8, <1>9

LEMMA AccessInvariant ==
  ASSUME IInv, NEW start \in 0..kind.rows, NEW end \in 0..kind.rows, NEW writable \in BOOLEAN,
         start < end, Access(start, end, writable)
  PROVE  IInv'
  <1>1. /\ kind' = kind /\ Typed' /\ Typed /\ Row' = Row
        /\ cur_start_row' <= start /\ end <= cur_start_row' + kind.mem
        /\ kind.rows \in Nat \ {0} /\ kind.mem \in Nat \ {0}
        /\ first_undef_row \in 0..kind.rows
    BY AccessTyped DEF IInv, Row
  <1>2. StripHeld'
    BY <1>1 DEF Access, StripHeld, InWindow
  <1>3. ASSUME ~dirty', NEW r \in Row, r < first_undef_row', InWindow(r, r + 1)'
        PROVE  file'[r] = mem_buffer'[r - cur_start_row']
    <2>1. first_undef_row' = first_undef_row
      BY <1>3 DEF Access
    <2> DEFINE at == cur_start_row'
    <2> HIDE DEF at
    <2>2. at \in Int /\ r \in Int /\ r >= at /\ r + 1 <= at + kind.mem
      BY <1>1, <1>3 DEF at, InWindow, Typed, Row
    <2>3. r - at \in Slot /\ at + (r - at) = r
      BY <1>1, <2>2 DEF Slot
    <2>4. mem_buffer'[r - at] = IF InWindow(start, end) THEN mem_buffer[r - at] ELSE file'[r]
      <3>1. r - cur_start_row' \in Slot /\ cur_start_row' + (r - cur_start_row') = r
        BY <2>3 DEF at
      <3>2. cur_start_row' + (r - cur_start_row') < first_undef_row
        BY <1>3, <2>1, <3>1
      <3> QED
        BY <3>1, <3>2, AccessBuffer DEF at
    <2>5. CASE InWindow(start, end)
      <3>1. at = cur_start_row /\ file' = file /\ ~dirty
        BY <1>3, <2>5 DEF at, Access, NewStart
      <3>2. file[r] = mem_buffer[r - cur_start_row]
        BY <1>1, <1>3, <2>1, <2>2, <3>1 DEF IInv, Clean, InWindow
      <3> QED
        BY <2>4, <2>5, <3>1, <3>2 DEF at
    <2>6. CASE ~InWindow(start, end)
      BY <2>4, <2>6 DEF at
    <2> QED
      BY <2>5, <2>6
  <1>4. Clean'
    BY <1>1, <1>3 DEF Clean
  <1> QED
    BY <1>1, <1>2, <1>4 DEF IInv

\* An access of the window is an access of the promised array.
LEMMA AccessPromised ==
  ASSUME IInv, NEW start \in 0..kind.rows, NEW end \in 0..kind.rows, NEW writable \in BOOLEAN,
         start < end, Access(start, end, writable)
  PROVE  Promise!Access(start, end, writable)
  <1>1. /\ kind' = kind /\ Typed' /\ Typed /\ first_undef_row <= first_undef_row'
        /\ kind.rows \in Nat \ {0} /\ first_undef_row \in 0..kind.rows
    BY AccessTyped DEF IInv
  <1>2. Promise!Legal(start, end, writable)
    <2>1. ~Refused(start, end, writable) /\ kind.maxaccess \in Nat /\ kind.pre_zero \in BOOLEAN
      BY <1>1, KindNat DEF Access, Typed
    <2>2. end <= kind.rows /\ end - start <= kind.maxaccess
      BY <1>1, <2>1 DEF Refused
    <2>3. IF writable THEN start <= first_undef_row ELSE kind.pre_zero \/ end <= first_undef_row
      BY <1>1, <2>1 DEF Refused
    <2> QED
      BY <2>2, <2>3 DEF Promise!Legal
  <1>3. first_undef_row' = IF writable /\ end > first_undef_row THEN end ELSE first_undef_row
    BY <1>1 DEF Access
  <1>4. strip' = [start |-> start, end |-> end, writable |-> writable]
    BY DEF Access
  <1>5. (IF strip = NoStrip THEN <<>> ELSE Seen)'
          = [r \in start..(end - 1) |-> Promise!Visible(r)]
    <2>1. strip' # NoStrip
      BY <1>4 DEF NoStrip
    <2>2. Seen' = [r \in start..(end - 1) |-> mem_buffer'[r - cur_start_row']]
      BY <1>4 DEF Seen
    <2>3. \A r \in start..(end - 1) : mem_buffer'[r - cur_start_row'] = Promise!Visible(r)
      BY AccessSeen DEF Promise!Visible, Promise!ZERO, ZERO
    <2> QED
      BY <2>1, <2>2, <2>3 DEF NoStrip
  <1>6. \E fresh \in [first_undef_row..(first_undef_row' - 1) ->
                        IF kind.pre_zero THEN {Promise!ZERO}
                        ELSE Values \cup {Promise!ZERO, Promise!JUNK}] :
          Contents' = [r \in DOMAIN Contents |->
                         IF r \in DOMAIN fresh THEN fresh[r] ELSE Contents[r]]
    <2> DEFINE fresh == [r \in first_undef_row..(first_undef_row' - 1) |-> Contents'[r]]
    <2>1. fresh \in [first_undef_row..(first_undef_row' - 1) ->
                       IF kind.pre_zero THEN {Promise!ZERO}
                       ELSE Values \cup {Promise!ZERO, Promise!JUNK}]
      BY AccessFresh DEF Cell, ZERO, JUNK, Promise!ZERO, Promise!JUNK
    <2>2. DOMAIN Contents' = Row /\ DOMAIN Contents = Row
      BY <1>1 DEF Contents, Row
    <2>3. /\ DOMAIN fresh = first_undef_row..(first_undef_row' - 1)
          /\ \A r \in DOMAIN fresh : fresh[r] = Contents'[r]
      OBVIOUS
    <2> HIDE DEF fresh
    <2>4. ASSUME NEW r \in Row
          PROVE  Contents'[r] = IF r \in DOMAIN fresh THEN fresh[r] ELSE Contents[r]
      <3>1. r \in Int /\ first_undef_row' \in Int
        BY <1>1 DEF Row, Typed
      <3>2. /\ r < first_undef_row => r \notin first_undef_row..(first_undef_row' - 1)
            /\ r >= first_undef_row' => r \notin first_undef_row..(first_undef_row' - 1)
            /\ \/ r < first_undef_row \/ r >= first_undef_row'
               \/ r \in first_undef_row..(first_undef_row' - 1)
        <4> DEFINE last == first_undef_row'
        <4> HIDE DEF last
        <4>1. last \in Int /\ r \in Int /\ first_undef_row \in Int /\ first_undef_row <= last
          BY <1>1, <3>1 DEF last
        <4>2. /\ r < first_undef_row => r \notin first_undef_row..(last - 1)
              /\ r >= last => r \notin first_undef_row..(last - 1)
              /\ \/ r < first_undef_row \/ r >= last
                 \/ r \in first_undef_row..(last - 1)
          BY <4>1
        <4> QED
          BY <4>2 DEF last
      <3>3. CASE r < first_undef_row
        <4>1. r \notin DOMAIN fresh
          BY <2>3, <3>2, <3>3
        <4>2. Contents'[r] = Contents[r]
          BY <3>3, AccessKeeps
        <4> QED
          BY <4>1, <4>2
      <3>4. CASE r \in first_undef_row..(first_undef_row' - 1)
        BY <2>3, <3>4
      <3>5. CASE r >= first_undef_row'
        <4>1. r \notin DOMAIN fresh
          BY <2>3, <3>2, <3>5
        <4>2. Contents'[r] = UNDEF
          BY <1>1, <3>5 DEF Contents, Row
        <4>3. r >= first_undef_row
          BY <1>1, <3>1, <3>5
        <4>4. Contents[r] = UNDEF
          BY <4>3 DEF Contents, Row
        <4> QED
          BY <4>1, <4>2, <4>4
      <3> QED
        BY <3>3, <3>4, <3>5, <3>2, Zenon
    <2>5. Contents' = [r \in DOMAIN Contents |->
                         IF r \in DOMAIN fresh THEN fresh[r] ELSE Contents[r]]
      <3>1. Contents' = [r \in DOMAIN Contents' |-> Contents'[r]]
        BY <1>1 DEF Contents
      <3> QED
        BY <2>2, <2>4, <3>1
    <2> QED
      BY <2>1, <2>5
  <1> QED
    BY <1>1, <1>2, <1>3, <1>4, <1>5, <1>6 DEF Promise!Access

-----------------------------------------------------------------------------
(* A row written through the pointer.                                      *)

LEMMA WriteStep ==
  ASSUME IInv, NEW r \in Row, NEW value \in Values, Write(r, value)
  PROVE  IInv' /\ Promise!Write(r, value)
  <1>1. /\ UNCHANGED <<kind, file, cur_start_row, first_undef_row, dirty, strip>>
        /\ strip.writable /\ r \in strip.start..(strip.end - 1)
        /\ mem_buffer' = [mem_buffer EXCEPT ![r - cur_start_row] = value]
    BY DEF Write
  <1>2. /\ Typed /\ dirty /\ strip.end <= first_undef_row /\ strip # NoStrip
        /\ InWindow(strip.start, strip.end)
    BY <1>1 DEF IInv, StripHeld, NoStrip
  <1>3. /\ kind.rows \in Nat \ {0} /\ kind.mem \in Nat \ {0}
        /\ first_undef_row \in 0..kind.rows /\ cur_start_row \in Int /\ r \in Int
        /\ strip.start \in Int /\ strip.end \in Int
        /\ mem_buffer \in [Slot -> Cell]
    BY <1>2, KindNat DEF Typed, Row
  <1>4. r - cur_start_row \in Slot /\ r < first_undef_row /\ InWindow(r, r + 1)
    BY SMTT(30), <1>1, <1>2, <1>3 DEF Slot, InWindow
  <1>5. mem_buffer' \in [Slot -> Cell]
    BY <1>1, <1>3 DEF Cell
  <1>6. IInv'
    <2>1. Typed'
      BY <1>1, <1>2, <1>5 DEF Typed, Row, Slot, Cell
    <2>2. StripHeld' /\ Clean'
      BY <1>1, <1>2 DEF IInv, StripHeld, Clean, InWindow
    <2> QED
      BY <2>1, <2>2 DEF IInv
  <1>7. Contents' = [Contents EXCEPT ![r] = value]
    <2>1. /\ DOMAIN Contents = Row /\ DOMAIN Contents' = Row
          /\ Contents' = [q \in DOMAIN Contents' |-> Contents'[q]]
      BY <1>1 DEF Contents, Row
    <2>2. ASSUME NEW q \in Row
          PROVE  Contents'[q] = IF q = r THEN value ELSE Contents[q]
      <3>1. q \in Int /\ (q - cur_start_row = r - cur_start_row => q = r)
        BY <1>3 DEF Row
      <3>2. Contents[q] = IF q >= first_undef_row THEN UNDEF
                          ELSE IF InWindow(q, q + 1) THEN mem_buffer[q - cur_start_row]
                          ELSE file[q]
        BY DEF Contents, Row
      <3>3. Contents'[q] = IF q >= first_undef_row THEN UNDEF
                           ELSE IF InWindow(q, q + 1) THEN mem_buffer'[q - cur_start_row]
                           ELSE file[q]
        BY <1>1 DEF Contents, Row, InWindow
      <3>4. CASE q = r
        <4>1. Contents'[q] = mem_buffer'[r - cur_start_row]
          BY <1>3, <1>4, <3>3, <3>4
        <4> QED
          BY <1>1, <1>3, <1>4, <3>4, <4>1
      <3>5. CASE q # r
        <4>1. InWindow(q, q + 1) => q - cur_start_row \in Slot
          BY <1>3, <3>1 DEF InWindow, Slot
        <4>2. InWindow(q, q + 1) => mem_buffer'[q - cur_start_row] = mem_buffer[q - cur_start_row]
          BY <1>1, <1>3, <3>1, <3>5, <4>1
        <4> QED
          BY <3>2, <3>3, <3>5, <4>2
      <3> QED
        BY <3>4, <3>5
    <2> QED
      BY <2>1, <2>2
  <1>8. (IF strip = NoStrip THEN <<>> ELSE Seen)'
          = [(IF strip = NoStrip THEN <<>> ELSE Seen) EXCEPT ![r] = value]
    <2>1. Seen' = [Seen EXCEPT ![r] = value]
      <3>1. ASSUME NEW q \in strip.start..(strip.end - 1)
            PROVE  mem_buffer'[q - cur_start_row] = IF q = r THEN value ELSE mem_buffer[q - cur_start_row]
        <4>1. q - cur_start_row \in Slot
          BY SMTT(30), <1>2, <1>3 DEF InWindow, Slot
        <4>2. q - cur_start_row = r - cur_start_row => q = r
          BY SMTT(30), <1>3
        <4> QED
          BY <1>1, <1>3, <4>1, <4>2
      <3> QED
        BY <1>1, <3>1 DEF Seen
    <2> QED
      BY <1>1, <1>2, <2>1 DEF NoStrip
  <1> QED
    BY <1>1, <1>6, <1>7, <1>8 DEF Promise!Write

-----------------------------------------------------------------------------

LEMMA InitInvariant == Init => IInv /\ Promise!Init
  <1> SUFFICES ASSUME Init PROVE IInv /\ Promise!Init
    OBVIOUS
  <1>1. kind \in Kinds /\ kind.rows \in Nat \ {0} /\ kind.mem \in Nat \ {0}
    BY KindNat DEF Init
  <1>2. Typed
    <2>1. mem_buffer \in [Slot -> Cell] /\ file \in [Row -> Cell]
      BY DEF Init, Row, Slot, Cell
    <2>2. 0 \in Row /\ 0 \in 0..kind.rows
      BY <1>1 DEF Row
    <2>3. NoStrip \in [start : 0..kind.rows, end : 0..kind.rows, writable : BOOLEAN]
      BY <2>2 DEF NoStrip
    <2> QED
      BY <1>1, <2>1, <2>2, <2>3 DEF Init, Typed
  <1>3. StripHeld /\ Clean
    BY <1>1 DEF Init, StripHeld, Clean, NoStrip, Row
  <1>4. Contents = [r \in 0..(kind.rows - 1) |-> UNDEF]
    BY <1>1 DEF Init, Contents
  <1>5. Promise!Init
    BY <1>1, <1>4 DEF Init, Promise!Init, Promise!UNDEF, UNDEF, Promise!NoStrip, NoStrip
  <1> QED
    BY <1>2, <1>3, <1>5 DEF IInv

\* Every step keeps the invariant and is a step of the promised array or changes
\* nothing of it.
LEMMA StepPromised == IInv /\ [Next]_vars => IInv' /\ [Promise!Next]_(Promise!absVars)
  <1> SUFFICES ASSUME IInv, [Next]_vars
               PROVE  IInv' /\ [Promise!Next]_(Promise!absVars)
    OBVIOUS
  <1>1. CASE UNCHANGED vars
    <2>1. IInv'
      BY <1>1 DEF vars, IInv, Typed, StripHeld, Clean, InWindow, Row, Slot, Cell
    <2>2. UNCHANGED Promise!absVars
      BY <1>1 DEF vars, Promise!absVars, Contents, Seen, InWindow
    <2> QED
      BY <2>1, <2>2
  <1>2. ASSUME NEW start \in 0..kind.rows, NEW end \in 0..kind.rows, NEW writable \in BOOLEAN,
               start < end, Access(start, end, writable)
        PROVE  IInv' /\ Promise!Next
    <2>1. IInv' /\ Promise!Access(start, end, writable)
      BY <1>2, AccessInvariant, AccessPromised
    <2> QED
      BY <1>2, <2>1 DEF Promise!Next
  <1>3. ASSUME NEW r \in 0..(kind.rows - 1), NEW value \in Values, Write(r, value)
        PROVE  IInv' /\ Promise!Next
    <2>1. IInv' /\ Promise!Write(r, value)
      BY <1>3, WriteStep DEF Row
    <2> QED
      BY <2>1 DEF Promise!Next
  <1> QED
    BY <1>1, <1>2, <1>3 DEF Next

\* The window lies over the strip the client holds, whatever was accessed
\* before (access_virt_barray).
THEOREM WindowCoversStrip == Spec => []TypeOK
  <1>1. IInv => TypeOK
    BY DEF IInv, Typed, StripHeld, TypeOK, Row, Slot
  <1> QED
    BY <1>1, InitInvariant, StepPromised, PTL DEF Spec

\* For arrays, windows and chunks of every size the window over a backing store
\* implements the array the clients are promised (do_barray_io,
\* access_virt_barray).
THEOREM WindowsKeepRows == Spec => KeepsRows
  <1> QED
    BY InitInvariant, StepPromised, PTL DEF Spec, KeepsRows, Promise!Spec

=============================================================================
