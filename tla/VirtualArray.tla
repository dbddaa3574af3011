---------------------------- MODULE VirtualArray ----------------------------
(***************************************************************************)
(* The access to virtual arrays (access_virt_barray, access_virt_sarray    *)
(* and do_barray_io of jmemmgr.c): a window of the array is in memory and  *)
(* the rest in a backing store.  In this repository's build jmemnobs.c     *)
(* refuses a backing store and the window is always the whole array        *)
(* (mem = rows); the smaller windows are those of a jmemsys.h              *)
(* implementation that has one.                                            *)
(***************************************************************************)
EXTENDS Integers

CONSTANTS Kinds,            \* [rows, mem, chunk, maxaccess, pre_zero]
          Values

ASSUME KindAssumption ==
  /\ Kinds \subseteq [rows : Nat \ {0}, mem : Nat \ {0}, chunk : Nat \ {0},
                      maxaccess : Nat \ {0}, pre_zero : BOOLEAN]
  /\ \A k \in Kinds : k.maxaccess <= k.mem /\ k.mem <= k.rows
  /\ Values \subseteq Nat \ {0}

VARIABLES kind,
          mem_buffer, file,
          cur_start_row, first_undef_row, dirty,
          strip             \* the client's last access

vars == <<kind, mem_buffer, file, cur_start_row, first_undef_row, dirty, strip>>

ZERO == 0
JUNK == -1                  \* memory as malloc left it
UNDEF == -2                 \* a row that was never made accessible
NoStrip == [start |-> 0, end |-> 0, writable |-> FALSE]

b_s_open == kind.mem < kind.rows

\* realize_virt_arrays.
Init ==
  /\ kind \in Kinds
  /\ mem_buffer = [i \in 0..(kind.mem - 1) |-> JUNK]
  /\ file = [r \in 0..(kind.rows - 1) |-> JUNK]
  /\ cur_start_row = 0 /\ first_undef_row = 0 /\ dirty = FALSE
  /\ strip = NoStrip

Least(a, b) == IF a <= b THEN a ELSE b

-----------------------------------------------------------------------------
(* do_barray_io: rows are moved chunk by chunk; a chunk that is not full is *)
(* the last.                                                               *)

\* Rows moved of the chunk that begins at row i of the buffer, for a window at
\* `start'.
ChunkRows(start, i) ==
  Least(Least(kind.chunk, kind.mem - i),
        Least(first_undef_row - (start + i), kind.rows - (start + i)))

ChunkStarts == {i \in 0..(kind.mem - 1) : i % kind.chunk = 0}

\* The rows of the buffer that are moved.
Moved(start) ==
  UNION {i..(i + ChunkRows(start, i) - 1) :
           i \in {c \in ChunkStarts :
                    \A d \in ChunkStarts : d <= c => ChunkRows(start, d) > 0}}

\* The file with the buffer written back to it.
WrittenBack ==
  [r \in DOMAIN file |->
     IF r - cur_start_row \in Moved(cur_start_row)
     THEN mem_buffer[r - cur_start_row] ELSE file[r]]

Loaded(start, store) ==
  [i \in DOMAIN mem_buffer |-> IF i \in Moved(start) THEN store[start + i] ELSE mem_buffer[i]]

-----------------------------------------------------------------------------
(* access_virt_barray.                                                     *)

InWindow(start, end) == start >= cur_start_row /\ end <= cur_start_row + kind.mem

\* Mutant: a window moved back ends above the rows asked for.
NewStart_Back(start, end) ==
  IF start > cur_start_row THEN start
  ELSE IF end - kind.mem > 0 THEN end - kind.mem - 1 ELSE 0

\* A window moved forward begins with the rows asked for, one moved back ends
\* with them.
NewStart(start, end) ==
  IF InWindow(start, end) THEN cur_start_row
  ELSE IF start > cur_start_row THEN start
  ELSE IF end - kind.mem > 0 THEN end - kind.mem ELSE 0

\* JERR_BAD_VIRTUAL_ACCESS and JERR_VIRTUAL_BUG.
Refused(start, end, writable) ==
  \/ end > kind.rows \/ end - start > kind.maxaccess
  \/ ~InWindow(start, end) /\ ~b_s_open
  \/ /\ first_undef_row < end
     /\ IF writable THEN first_undef_row < start ELSE ~kind.pre_zero

\* The rows of the array that are zeroed in the buffer.
PreZeroed(start, end) ==
  IF kind.pre_zero
  THEN (IF first_undef_row < start THEN start ELSE first_undef_row)..(end - 1) ELSE {}

\* Mutant: a window that is replaced is not written back.
Access_NoFlush(start, end, writable) ==
  /\ ~Refused(start, end, writable)
  /\ LET at == NewStart(start, end)
         moved == ~InWindow(start, end)
         loaded == IF moved THEN Loaded(at, file) ELSE mem_buffer
     IN  /\ cur_start_row' = at
         /\ mem_buffer' = [i \in DOMAIN mem_buffer |->
                             IF at + i \in PreZeroed(start, end) THEN ZERO ELSE loaded[i]]
         /\ dirty' = (writable \/ (dirty /\ ~moved))
  /\ first_undef_row' = IF writable /\ first_undef_row < end THEN end ELSE first_undef_row
  /\ strip' = [start |-> start, end |-> end, writable |-> writable]
  /\ UNCHANGED <<kind, file>>

\* The rows asked for are brought into the window, after a changed window has
\* been written back, and those accessed for the first time are zeroed.
Access(start, end, writable) ==
  /\ ~Refused(start, end, writable)
  /\ LET at == NewStart(start, end)
         moved == ~InWindow(start, end)
         loaded == IF moved THEN Loaded(at, file') ELSE mem_buffer
     IN  /\ file' = IF moved /\ dirty THEN WrittenBack ELSE file
         /\ cur_start_row' = at
         /\ mem_buffer' = [i \in DOMAIN mem_buffer |->
                             IF at + i \in PreZeroed(start, end) THEN ZERO ELSE loaded[i]]
         /\ dirty' = (writable \/ (dirty /\ ~moved))
  /\ first_undef_row' = IF writable /\ first_undef_row < end THEN end ELSE first_undef_row
  /\ strip' = [start |-> start, end |-> end, writable |-> writable]
  /\ UNCHANGED kind

\* The client writes a row through the pointer it was given.
Write(r, value) ==
  /\ strip.writable /\ r \in strip.start..(strip.end - 1)
  /\ mem_buffer' = [mem_buffer EXCEPT ![r - cur_start_row] = value]
  /\ UNCHANGED <<kind, file, cur_start_row, first_undef_row, dirty, strip>>

Next ==
  \/ \E start, end \in 0..kind.rows, writable \in BOOLEAN :
       start < end /\ Access(start, end, writable)
  \/ \E r \in 0..(kind.rows - 1), value \in Values : Write(r, value)

Spec == Init /\ [][Next]_vars

-----------------------------------------------------------------------------

\* Every variable has its type, and the window lies over the strip the client
\* was given: its pointer stays inside the buffer.
TypeOK ==
  /\ cur_start_row \in 0..(kind.rows - 1)
  /\ first_undef_row \in 0..kind.rows
  /\ dirty \in BOOLEAN
  /\ DOMAIN mem_buffer = 0..(kind.mem - 1)
  /\ strip # NoStrip => InWindow(strip.start, strip.end)

\* The array as the clients are promised it.
Contents ==
  [r \in 0..(kind.rows - 1) |->
     IF r >= first_undef_row THEN UNDEF
     ELSE IF InWindow(r, r + 1) THEN mem_buffer[r - cur_start_row] ELSE file[r]]

Seen == [r \in strip.start..(strip.end - 1) |-> mem_buffer[r - cur_start_row]]

Promise ==
  INSTANCE AbstractArray
    WITH rows <- Contents, defined <- first_undef_row,
         seen <- IF strip = NoStrip THEN <<>> ELSE Seen

\* However the window wanders, forward, backward, over overlapping strips and
\* across chunk borders, the clients see an array that keeps what was written.
KeepsRows == Promise!Spec

=============================================================================
