---------------------------- MODULE StripBuffer ----------------------------
(***************************************************************************)
(* The memory of one strip's encode: jpar_encode_strip (jcparallel.c) with *)
(* its setjmp error handler, writing through libjpeg's growing memory      *)
(* destination (jpeg_mem_dest, empty_mem_output_buffer and                 *)
(* term_mem_destination of jdatadst.c).  The blocks returned by malloc are *)
(* numbered in the order of their allocation; 0 is NULL.                   *)
(***************************************************************************)
EXTENDS Integers, FiniteSets

CONSTANTS OUTPUT_BUF_SIZE,  \* size of the first buffer, 4096 in the library
          MAX_BYTES         \* bound: no modelled strip needs more bytes

ASSUME SizeAssumption ==
  /\ OUTPUT_BUF_SIZE \in Nat \ {0}
  /\ MAX_BYTES \in Nat

VARIABLES pc,               \* "create", "setup", "scan", "handler", "returned", "aborted"
          jpeg_buf,         \* *jpeg_buf, which the caller sees
          jpeg_size,        \* *jpeg_size
          dest,             \* the destination manager
          live,             \* blocks allocated and not freed
          mallocs,          \* number of blocks allocated so far
          filled,           \* filled[b]: bytes of the stream that block b holds
          written,          \* bytes of the stream produced so far
          ret

bufferVars == <<pc, jpeg_buf, jpeg_size, dest, live, mallocs, filled, written, ret>>

NULL == 0

BufferInit ==
  /\ pc = "create"
  /\ jpeg_buf = NULL /\ jpeg_size = 0
  /\ dest = [newbuffer |-> NULL, buffer |-> NULL, bufsize |-> 0, free |-> 0]
  /\ live = {} /\ mallocs = 0 /\ filled = [b \in {} |-> 0] /\ written = 0
  /\ ret = "none"

\* Mutant: the caller learns of the first buffer only when the stream ends.
MemDest_Hidden ==
  /\ pc = "create"
  /\ mallocs' = mallocs + 1
  /\ live' = live \cup {mallocs'}
  /\ filled' = [b \in 1..mallocs' |-> 0]
  /\ dest' = [newbuffer |-> mallocs', buffer |-> mallocs',
              bufsize |-> OUTPUT_BUF_SIZE, free |-> OUTPUT_BUF_SIZE]
  /\ pc' = "setup"
  /\ UNCHANGED <<jpeg_buf, jpeg_size, written, ret>>

\* jpeg_mem_dest allocates the first buffer and shows it to the caller.
MemDest ==
  /\ pc = "create"
  /\ mallocs' = mallocs + 1
  /\ live' = live \cup {mallocs'}
  /\ filled' = [b \in 1..mallocs' |-> 0]
  /\ jpeg_buf' = mallocs' /\ jpeg_size' = OUTPUT_BUF_SIZE
  /\ dest' = [newbuffer |-> mallocs', buffer |-> mallocs',
              bufsize |-> OUTPUT_BUF_SIZE, free |-> OUTPUT_BUF_SIZE]
  /\ pc' = "setup"
  /\ UNCHANGED <<written, ret>>

\* jpeg_create_compress fails, or malloc gives jpeg_mem_dest no first buffer.
CreateError ==
  /\ pc = "create"
  /\ pc' = "handler"
  /\ UNCHANGED <<jpeg_buf, jpeg_size, dest, live, mallocs, filled, written, ret>>

\* jpeg_start_compress: an empty or too large picture, or no memory for the
\* compressor's own pools, ends in the error exit before a byte is written.
StartError ==
  /\ pc = "setup"
  /\ pc' = "handler"
  /\ UNCHANGED <<jpeg_buf, jpeg_size, dest, live, mallocs, filled, written, ret>>

StartCompress ==
  /\ pc = "setup"
  /\ pc' = "scan"
  /\ UNCHANGED <<jpeg_buf, jpeg_size, dest, live, mallocs, filled, written, ret>>

\* A byte of a header, of the scan or of the trailer goes into the buffer.
EmitByte ==
  /\ pc = "scan" /\ written < MAX_BYTES /\ dest.free > 0
  /\ written' = written + 1
  /\ filled' = [filled EXCEPT ![dest.buffer] = @ + 1]
  /\ dest' = [dest EXCEPT !.free = @ - 1]
  /\ UNCHANGED <<pc, jpeg_buf, jpeg_size, live, mallocs, ret>>

\* Mutant: the new buffer is filled again from its beginning.
Grow_Rewind ==
  /\ pc = "scan" /\ dest.free = 0
  /\ mallocs' = mallocs + 1
  /\ live' = (live \ {dest.newbuffer}) \cup {mallocs'}
  /\ filled' = [b \in 1..mallocs' |-> IF b = mallocs' THEN dest.bufsize ELSE filled[b]]
  /\ dest' = [newbuffer |-> mallocs', buffer |-> mallocs',
              bufsize |-> 2 * dest.bufsize, free |-> 2 * dest.bufsize]
  /\ UNCHANGED <<pc, jpeg_buf, jpeg_size, written, ret>>

\* Mutant: the old buffer is not freed.
Grow_Leak ==
  /\ pc = "scan" /\ dest.free = 0
  /\ mallocs' = mallocs + 1
  /\ live' = live \cup {mallocs'}
  /\ filled' = [b \in 1..mallocs' |-> IF b = mallocs' THEN dest.bufsize ELSE filled[b]]
  /\ dest' = [newbuffer |-> mallocs', buffer |-> mallocs',
              bufsize |-> 2 * dest.bufsize, free |-> dest.bufsize]
  /\ UNCHANGED <<pc, jpeg_buf, jpeg_size, written, ret>>

\* Mutant: the manager does not note which buffer it allocated.
Grow_ForgetsNew ==
  /\ pc = "scan" /\ dest.free = 0
  /\ mallocs' = mallocs + 1
  /\ live' = (live \ {dest.newbuffer}) \cup {mallocs'}
  /\ filled' = [b \in 1..mallocs' |-> IF b = mallocs' THEN dest.bufsize ELSE filled[b]]
  /\ dest' = [dest EXCEPT !.buffer = mallocs', !.bufsize = 2 * @, !.free = dest.bufsize]
  /\ UNCHANGED <<pc, jpeg_buf, jpeg_size, written, ret>>

\* empty_mem_output_buffer: the full buffer is copied into one of twice its
\* size and freed; *jpeg_buf still points to the first buffer.
Grow ==
  /\ pc = "scan" /\ dest.free = 0
  /\ mallocs' = mallocs + 1
  /\ live' = (live \ {dest.newbuffer}) \cup {mallocs'}
  /\ filled' = [b \in 1..mallocs' |-> IF b = mallocs' THEN dest.bufsize ELSE filled[b]]
  /\ dest' = [newbuffer |-> mallocs', buffer |-> mallocs',
              bufsize |-> 2 * dest.bufsize, free |-> dest.bufsize]
  /\ UNCHANGED <<pc, jpeg_buf, jpeg_size, written, ret>>

\* empty_mem_output_buffer gets NULL from malloc: the error exit.
GrowError ==
  /\ pc = "scan" /\ dest.free = 0
  /\ pc' = "handler"
  /\ UNCHANGED <<jpeg_buf, jpeg_size, dest, live, mallocs, filled, written, ret>>

\* jpeg_finish_compress: term_mem_destination hands the last buffer over.
Finish ==
  /\ pc = "scan" /\ written > 0 /\ dest.free > 0
  /\ jpeg_buf' = dest.buffer
  /\ jpeg_size' = dest.bufsize - dest.free
  /\ ret' = "TRUE" /\ pc' = "returned"
  /\ UNCHANGED <<dest, live, mallocs, filled, written>>

\* The setjmp branch: free(*jpeg_buf), clear it, return FALSE.
Handler ==
  /\ pc = "handler" /\ (jpeg_buf = NULL \/ jpeg_buf \in live)
  /\ live' = live \ {jpeg_buf}
  /\ jpeg_buf' = NULL /\ jpeg_size' = 0
  /\ ret' = "FALSE" /\ pc' = "returned"
  /\ UNCHANGED <<dest, mallocs, filled, written>>

\* The same branch when *jpeg_buf is a block that Grow has already freed, which C
\* leaves undefined: the allocator notices the second free and stops the process,
\* or it does not.  The current buffer is not freed in either case.
HandlerDoubleFree ==
  /\ pc = "handler" /\ jpeg_buf # NULL /\ jpeg_buf \notin live
  /\ \/ /\ pc' = "aborted"
        /\ UNCHANGED <<jpeg_buf, jpeg_size, ret>>
     \/ /\ jpeg_buf' = NULL /\ jpeg_size' = 0
        /\ ret' = "FALSE" /\ pc' = "returned"
  /\ UNCHANGED <<dest, live, mallocs, filled, written>>

Stopped == pc \in {"returned", "aborted"} /\ UNCHANGED bufferVars

BufferNext ==
  \/ MemDest \/ CreateError \/ StartError \/ StartCompress
  \/ EmitByte \/ Grow \/ GrowError \/ Finish
  \/ Handler \/ HandlerDoubleFree \/ Stopped

BufferSpec == BufferInit /\ [][BufferNext]_bufferVars

-----------------------------------------------------------------------------

\* Every variable has its type, and the destination never counts more free
\* bytes than its buffer has.
BufferTypeOK ==
  /\ pc \in {"create", "setup", "scan", "handler", "returned", "aborted"}
  /\ mallocs \in Nat /\ live \subseteq 1..mallocs
  /\ jpeg_buf \in 0..mallocs /\ jpeg_size \in Nat
  /\ dest.buffer \in 0..mallocs /\ dest.newbuffer = dest.buffer
  /\ dest.bufsize \in Nat /\ dest.free \in 0..dest.bufsize
  /\ filled \in [1..mallocs -> Nat] /\ written \in 0..MAX_BYTES
  /\ ret \in {"none", "TRUE", "FALSE"}

\* However often the buffer was replaced, the current one is live and holds
\* every byte written since the start, and nothing is written past its end.
NothingLost ==
  pc = "scan" =>
    /\ dest.buffer \in live
    /\ filled[dest.buffer] = written
    /\ written = dest.bufsize - dest.free

\* "On success, returns TRUE and sets *jpeg_buf/*jpeg_size": the caller owns
\* the only block left, with the whole stream in it.
SuccessHandsOver ==
  ret = "TRUE" =>
    /\ live = {jpeg_buf}
    /\ jpeg_size = written /\ filled[jpeg_buf] = written

\* How far a failure goes, wherever it strikes: until the buffer has been
\* replaced, everything is freed once; after that the buffer last in use is lost
\* and the double free is possible, and nothing else.
LossOnlyAfterGrowth ==
  /\ pc = "aborted" => mallocs > 1
  /\ ret = "FALSE" => live = IF mallocs > 1 THEN {dest.buffer} ELSE {}

\* "so a failure in one strip's encode can't take down the whole process": the
\* error handler never frees a block twice.
FailureIsContained == pc # "aborted"

=============================================================================
