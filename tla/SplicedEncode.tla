--------------------------- MODULE SplicedEncode ---------------------------
(***************************************************************************)
(* jpar_encode_strips_spliced (jcparallel.c): the master allocates three   *)
(* arrays, computes the strip bounds, encodes the strips in an OpenMP      *)
(* team, joins, splices the strips' scans into one JPEG and frees what it  *)
(* allocated.  Any malloc may fail, and any strip may end in libjpeg's     *)
(* error exit.  A team of one is also the build without OpenMP.            *)
(*                                                                         *)
(* A strip's buffer is abstracted to the tokens of its scan; its bytes are *)
(* the subject of SpliceBytes.  Of its memory (StripBuffer) the model      *)
(* keeps the first buffer and the one that replaced it last: jpeg_bufs[i]  *)
(* names the first until the strip is complete, which decides what a       *)
(* failing strip frees.                                                    *)
(***************************************************************************)
EXTENDS ScanTokens

CONSTANTS Calls,                \* argument records [height, v, threads]
          JPEG_MAX_DIMENSION,   \* the tallest picture libjpeg encodes
          HEIGHT_FIELD,         \* SOF0's height field counts modulo this
          MAX_TEAM              \* no call asks for more threads than this

\* The image loaders refuse a picture taller than JPEG_MAX_DIMENSION, so the
\* height of a whole image fits the header field.
ASSUME CallAssumption ==
  /\ JPEG_MAX_DIMENSION \in Nat /\ HEIGHT_FIELD \in Nat
  /\ JPEG_MAX_DIMENSION < HEIGHT_FIELD
  /\ Calls \subseteq [height : 0..JPEG_MAX_DIMENSION, v : Int, threads : Int]
  /\ MAX_TEAM \in Nat /\ \A c \in Calls : AtLeastOne(c.threads) <= MAX_TEAM

VARIABLES call,     \* the arguments
          pc,       \* the master's position
          n,        \* number of strips, *num_strips_out at the return
          bufs,     \* jpeg_bufs[]
          team,     \* number of OpenMP threads the runtime granted
          thr,      \* the threads of the team
          copied,   \* number of strips whose scan has been copied to the output
          out,      \* the output JPEG
          heap,     \* live allocations
          ret       \* the return value

vars == <<call, pc, n, bufs, team, thr, copied, out, heap, ret>>

-----------------------------------------------------------------------------

Threads == AtLeastOne(call.threads)
Height == McuRowHeight(call.v)
Total == TotalMcuRows(call.height, call.v)
Stride == McuRowsPerStrip(Total, n) * Height

\* The strips in closed form (theorem BoundsInductive of AdaptiveProofs).
StartRow(s) == s * Stride
NumRows(s) == IF s = n - 1 THEN call.height - StartRow(s) ELSE Stride

\* No JPEG, and a record of which buffer is live: 0 none, 1 the first, 2 a later.
Null == [state |-> "null", block |-> 0, height |-> 0, scan |-> <<>>]

\* NULL in jpeg_bufs[], but the strip's last buffer is still allocated.
Lost == [Null EXCEPT !.block = 2]

NoJpeg == [height |-> 0, scan |-> <<>>]

Arrays == {"strips", "jpeg_bufs", "jpeg_sizes"}
SpliceArrays == {"entropy_starts", "entropy_ends"}
Buffer(s, block) == <<"strip", s, block>>

Init ==
  /\ call \in Calls
  /\ pc = "alloc"
  /\ n = 0 /\ bufs = <<>> /\ team = 0 /\ thr = <<>>
  /\ copied = 0 /\ out = NoJpeg /\ heap = {} /\ ret = "none"

-----------------------------------------------------------------------------
(* The master, up to the parallel loop.                                    *)

Alloc ==
  /\ pc = "alloc"
  /\ pc' = "bounds"
  /\ heap' = heap \cup {<<a>> : a \in Arrays}
  /\ UNCHANGED <<call, n, bufs, team, thr, copied, out, ret>>

\* One of the three mallocs returned NULL: the others are freed.
AllocFail ==
  /\ pc = "alloc"
  /\ pc' = "returned" /\ ret' = "FALSE"
  /\ UNCHANGED <<call, n, bufs, team, thr, copied, out, heap>>

\* Mutant: every block is rounded up, so blocks overlap.
Chunk_Overlap(t, size, count) ==
  LET q == count \div size
      from == IF t * q < count THEN t * q ELSE count
      to == from + q
  IN  from..(IF to < count THEN to ELSE count - 1)

\* OpenMP's static schedule: consecutive blocks, the first ones larger by one.
Chunk(t, size, count) ==
  LET q == count \div size
      r == count % size
      from == IF t < r THEN t * (q + 1) ELSE t * q + r
      len == IF t < r THEN q + 1 ELSE q
  IN  from..(from + len - 1)

\* Compute the bounds, clear the pointers and enter the parallel region with
\* the team the runtime grants.
Fork ==
  /\ pc = "bounds"
  /\ pc' = "parallel"
  /\ n' = StripCount(Total, call.threads)
  /\ bufs' = [s \in 0..(n' - 1) |-> Null]
  /\ \E size \in 1..Threads :
       /\ team' = size
       /\ thr' = [t \in 0..(size - 1) |->
                    [todo |-> Chunk(t, size, n'), at |-> "idle", row |-> 0]]
  /\ UNCHANGED <<call, copied, out, heap, ret>>

-----------------------------------------------------------------------------
(* jpar_encode_strip, run by thread t on the first strip of its chunk.     *)

Current(t) == CHOOSE s \in thr[t].todo : \A u \in thr[t].todo : s <= u

Busy(t) == pc = "parallel" /\ thr[t].todo # {}

\* Mutant: the loop variable is not advanced.
NextStrip_Again(t) ==
  thr' = [thr EXCEPT ![t].at = "idle", ![t].row = 0]

\* The strip is left and the thread takes the next of its chunk.
NextStrip(t) ==
  thr' = [thr EXCEPT ![t] = [todo |-> @.todo \ {Current(t)}, at |-> "idle", row |-> 0]]

\* libjpeg refuses an empty or a too tall picture.
Encodable(s) == NumRows(s) \in 1..JPEG_MAX_DIMENSION

\* jpeg_create_compress and jpeg_mem_dest: the buffer pointer is set.
Begin(t) ==
  /\ Busy(t) /\ thr[t].at = "idle"
  /\ thr' = [thr EXCEPT ![t].at = "encode"]
  /\ bufs' = [bufs EXCEPT ![Current(t)] =
                [state |-> "open", block |-> 1, height |-> NumRows(Current(t)), scan |-> <<>>]]
  /\ heap' = heap \cup {Buffer(Current(t), 1)}
  /\ UNCHANGED <<call, pc, n, team, copied, out, ret>>

\* The first malloc of the strip fails: the pointer stays NULL.
BeginFail(t) ==
  /\ Busy(t) /\ thr[t].at = "idle"
  /\ NextStrip(t)
  /\ bufs' = [bufs EXCEPT ![Current(t)] = Null]
  /\ UNCHANGED <<call, pc, n, team, copied, out, heap, ret>>

\* One MCU row, preceded by a restart marker unless it is the strip's first.
EncodeRow(t) ==
  LET s == Current(t)
      r == thr[t].row
  IN  /\ Busy(t) /\ thr[t].at = "encode"
      /\ Encodable(s) /\ r < McuRows(NumRows(s), Height)
      /\ bufs' = [bufs EXCEPT ![s].scan =
           @ \o (IF r = 0 THEN <<>> ELSE <<Rst((r - 1) % RST_CYCLE)>>)
             \o <<McuRow(StartRow(s), NumRows(s), Height, r)>>]
      /\ thr' = [thr EXCEPT ![t].row = r + 1]
      /\ UNCHANGED <<call, pc, n, team, copied, out, heap, ret>>

\* empty_mem_output_buffer while a row is coded: a larger buffer replaces the
\* first, which is freed.  Replacing that one again changes nothing seen here.
Grow(t) ==
  LET s == Current(t)
  IN  /\ Busy(t) /\ thr[t].at = "encode"
      /\ Encodable(s) /\ bufs[s].block = 1
      /\ bufs' = [bufs EXCEPT ![s].block = 2]
      /\ heap' = (heap \ {Buffer(s, 1)}) \cup {Buffer(s, 2)}
      /\ UNCHANGED <<call, pc, n, team, thr, copied, out, ret>>

\* jpeg_finish_compress: the buffer is complete, and jpeg_bufs[i] names the last.
Finish(t) ==
  LET s == Current(t)
  IN  /\ Busy(t) /\ thr[t].at = "encode"
      /\ Encodable(s) /\ thr[t].row = McuRows(NumRows(s), Height)
      /\ bufs' = [bufs EXCEPT ![s].state = "complete"]
      /\ NextStrip(t)
      /\ UNCHANGED <<call, pc, n, team, copied, out, heap, ret>>

\* libjpeg's error exit: the handler frees the buffer and clears the pointer.
EncodeFail(t) ==
  LET s == Current(t)
  IN  /\ Busy(t) /\ thr[t].at = "encode" /\ bufs[s].block = 1
      /\ bufs' = [bufs EXCEPT ![s] = Null]
      /\ heap' = heap \ {Buffer(s, 1)}
      /\ NextStrip(t)
      /\ UNCHANGED <<call, pc, n, team, copied, out, ret>>

\* The error exit after Grow: the handler frees the first buffer, which is freed
\* already, and never the one in use.  If the second free goes unnoticed that
\* one is lost; if the allocator notices it, or has given the block to another
\* thread, the process stops or its memory is corrupt: "undefined".
EncodeFailGrown(t) ==
  LET s == Current(t)
  IN  /\ Busy(t) /\ thr[t].at = "encode" /\ bufs[s].block = 2
      /\ \/ /\ bufs' = [bufs EXCEPT ![s] = Lost]
            /\ NextStrip(t)
            /\ UNCHANGED pc
         \/ /\ pc' = "undefined"
            /\ UNCHANGED <<bufs, thr>>
      /\ UNCHANGED <<call, n, team, copied, out, heap, ret>>

Worker(t) ==
  \/ Begin(t) \/ BeginFail(t) \/ EncodeRow(t) \/ Grow(t) \/ Finish(t)
  \/ EncodeFail(t) \/ EncodeFailGrown(t)

-----------------------------------------------------------------------------
(* The master, after the parallel loop.                                    *)

\* Mutant: the loop ends without its barrier ("nowait").
Joined_NoBarrier == thr[0].todo = {}

Joined == \A t \in DOMAIN thr : thr[t].todo = {}

AllOk == \A s \in 0..(n - 1) : bufs[s].state # "null"

\* The barrier ends the loop; splicing copied only if every strip succeeded.
Join ==
  /\ pc = "parallel" /\ Joined
  /\ pc' = IF AllOk THEN "splice" ELSE "cleanup"
  /\ UNCHANGED <<call, n, bufs, team, thr, copied, out, heap, ret>>

\* The two position arrays of jpar_splice_strips, or NULL for one of them.
SpliceAlloc ==
  /\ pc = "splice"
  /\ \/ pc' = "output" /\ heap' = heap \cup {<<a>> : a \in SpliceArrays}
     \/ pc' = "cleanup" /\ UNCHANGED heap
  /\ UNCHANGED <<call, n, bufs, team, thr, copied, out, ret>>

\* A restart marker at the very end of a strip's scan is cut off.
Trim(scan) ==
  IF scan # <<>> /\ IsRst(scan[Len(scan)])
  THEN SubSeq(scan, 1, Len(scan) - 1) ELSE scan

\* The header of strip 0 with the height of the whole image, cut to the field.
Header ==
  /\ pc = "output"
  /\ \/ /\ out' = [height |-> call.height % HEIGHT_FIELD, scan |-> <<>>]
        /\ heap' = heap \cup {<<"out_buf">>}
        /\ pc' = "copy" /\ copied' = 0
     \/ /\ heap' = heap \ {<<a>> : a \in SpliceArrays}
        /\ pc' = "cleanup" /\ UNCHANGED <<out, copied>>
  /\ UNCHANGED <<call, n, bufs, team, thr, ret>>

\* One strip's scan, after a boundary restart marker unless it is the first.
CopyStrip ==
  /\ pc = "copy" /\ copied < n
  /\ out' = [out EXCEPT !.scan =
               @ \o (IF copied = 0 THEN <<>> ELSE <<Rst(0)>>) \o Trim(bufs[copied].scan)]
  /\ copied' = copied + 1
  /\ UNCHANGED <<call, pc, n, bufs, team, thr, heap, ret>>

\* Mutant: the strips keep their own numbering.
Renumbered_Kept(scan) == scan

\* Mutant: the number is not reduced to three bits, so RST8 (which is SOI)
\* follows RST7.
Renumbered_NoWrap(scan) ==
  [j \in 1..Len(scan) |->
     IF IsRst(scan[j])
     THEN Rst(Cardinality({k \in 1..(j - 1) : IsRst(scan[k])}))
     ELSE scan[j]]

\* Every restart marker gets the number of the markers before it.
Renumbered(scan) ==
  [j \in 1..Len(scan) |->
     IF IsRst(scan[j])
     THEN Rst(Cardinality({k \in 1..(j - 1) : IsRst(scan[k])}) % RST_CYCLE)
     ELSE scan[j]]

Renumber ==
  /\ pc = "copy" /\ copied = n
  /\ out' = [out EXCEPT !.scan = Renumbered(@)]
  /\ heap' = heap \ {<<a>> : a \in SpliceArrays}
  /\ pc' = "cleanup"
  /\ UNCHANGED <<call, n, bufs, team, thr, copied, ret>>

\* Mutant: after a failure only the arrays are freed.
Cleanup_ArraysOnly ==
  /\ pc = "cleanup"
  /\ heap' = IF <<"out_buf">> \in heap THEN {<<"out_buf">>}
             ELSE heap \ {<<a>> : a \in Arrays}
  /\ ret' = IF <<"out_buf">> \in heap THEN "TRUE" ELSE "FALSE"
  /\ pc' = "returned"
  /\ UNCHANGED <<call, n, bufs, team, thr, copied, out>>

\* The strips whose buffer jpeg_bufs[] still names.
Named == {s \in 0..(n - 1) : bufs[s].state # "null"}

\* Free the buffers jpeg_bufs[] names and the arrays, and return splice_ok.
Cleanup ==
  /\ pc = "cleanup"
  /\ heap' = heap \ ({Buffer(s, bufs[s].block) : s \in Named} \cup {<<a>> : a \in Arrays})
  /\ ret' = IF <<"out_buf">> \in heap THEN "TRUE" ELSE "FALSE"
  /\ pc' = "returned"
  /\ UNCHANGED <<call, n, bufs, team, thr, copied, out>>

Master == Alloc \/ AllocFail \/ Fork \/ Join \/ SpliceAlloc \/ Header
            \/ CopyStrip \/ Renumber \/ Cleanup

Stopped == pc \in {"returned", "undefined"} /\ UNCHANGED vars

Next == Master \/ (\E t \in DOMAIN thr : Worker(t)) \/ Stopped

\* The operating system runs every thread: the master and each worker of the
\* team go on as long as they can.
Fairness ==
  /\ WF_vars(Master)
  /\ \A t \in 0..(MAX_TEAM - 1) : WF_vars(t \in DOMAIN thr /\ Worker(t))

Spec == Init /\ [][Next]_vars /\ Fairness

-----------------------------------------------------------------------------

Tokens ==
  {Row(f, c) : f \in 0..JPEG_MAX_DIMENSION, c \in 1..JPEG_MAX_DIMENSION}
    \cup {Rst(k) : k \in 0..(RST_CYCLE - 1)}

\* Every variable has its type; in particular a coded row was computed from at
\* least one scanline of the image, and a marker is one of RST0..RST7.
TypeOK ==
  /\ call \in Calls
  /\ pc \in {"alloc", "bounds", "parallel", "splice", "output", "copy", "cleanup",
             "returned", "undefined"}
  /\ n \in 0..MAX_TEAM /\ DOMAIN bufs = 0..(n - 1)
  /\ \A s \in DOMAIN bufs :
       /\ bufs[s].state \in {"null", "open", "complete"} /\ bufs[s].block \in 0..2
       /\ bufs[s].height \in 0..JPEG_MAX_DIMENSION
       /\ bufs[s].scan \in Seq(Tokens)
  /\ team \in 0..MAX_TEAM /\ DOMAIN thr = 0..(team - 1)
  /\ \A t \in DOMAIN thr :
       /\ thr[t].todo \subseteq 0..(n - 1)
       /\ thr[t].at \in {"idle", "encode"} /\ thr[t].row \in Nat
  /\ copied \in 0..n
  /\ out.height \in 0..(HEIGHT_FIELD - 1) /\ out.scan \in Seq(Tokens)
  /\ ret \in {"none", "TRUE", "FALSE"}

\* "no shared mutable state between iterations" (jcparallel.c): a strip is in
\* the hands of one thread at most, and outside the parallel loop of none, so
\* the unlocked accesses to jpeg_bufs[i] and jpeg_sizes[i] never race.
NoSharing ==
  /\ \A t, u \in DOMAIN thr : t # u => thr[t].todo \cap thr[u].todo = {}
  /\ pc \notin {"parallel", "undefined"} => \A t \in DOMAIN thr : thr[t].todo = {}
  /\ \A s \in DOMAIN bufs : bufs[s].state = "open" =>
       \E t \in DOMAIN thr : thr[t].at = "encode" /\ Current(t) = s

\* The splicer only ever reads the buffers of strips whose encoder has
\* finished, each of them live on the heap: one failed strip is enough for the
\* others never to be looked at.
SplicesCompleteStrips ==
  pc \in {"splice", "output", "copy"} =>
    \A s \in DOMAIN bufs :
      /\ bufs[s].state = "complete"
      /\ Buffer(s, bufs[s].block) \in heap
      /\ Len(bufs[s].scan) = 2 * McuRows(bufs[s].height, Height) - 1

\* How far the failure of a strip goes, whichever strips fail and whenever: only
\* one that fails after its buffer was replaced puts the process at risk or loses
\* a block, and then that block alone.  A call that succeeds loses nothing, and
\* every other block is freed by the return.
LossOnlyAfterGrowth ==
  LET lost == {Buffer(s, 2) : s \in {u \in DOMAIN bufs : bufs[u] = Lost}}
  IN  /\ pc = "undefined" =>
           \E t \in DOMAIN thr : thr[t].at = "encode" /\ bufs[Current(t)].block = 2
      /\ pc \notin {"returned", "undefined"} =>
           \A s \in DOMAIN bufs, block \in 1..2 :
             Buffer(s, block) \in heap <=> bufs[s].block = block
      /\ pc = "returned" =>
           /\ ret = "TRUE" => heap = {<<"out_buf">>} /\ lost = {}
           /\ ret = "FALSE" => heap = lost

\* Seen by its caller the parallel encoder is EncodeSpec: whatever the number
\* of threads, the order in which they run and the allocations that fail, it
\* returns nothing or the JPEG of a single-threaded encode.  From "undefined" it
\* does not return, and nothing is promised.
Abs == INSTANCE EncodeSpec
         WITH result <- ret, jpeg <- IF ret = "TRUE" THEN out ELSE NoJpeg

EncodesLikeOneThread == Abs!EncodeSafety

\* Every call returns, unless the double free of EncodeFailGrown stops it: the
\* barrier is reached by every thread of the team even when strips fail.
Returns == <>(pc \in {"returned", "undefined"})

=============================================================================
