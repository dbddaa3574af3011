------------------------------ MODULE TJBuffer ------------------------------
(***************************************************************************)
(* Who owns the JPEG buffer of the TurboJPEG API: the destination manager  *)
(* of jdatadst-tj.c, which may replace the application's buffer while it   *)
(* writes, and tj3Compress and tj3Transform, which must tell the           *)
(* application also when they fail.  The application has several buffers   *)
(* and instances, frees and allocates between the calls, and passes any of *)
(* its buffers to any of its instances.                                    *)
(***************************************************************************)
EXTENDS Integers, Sequences, FiniteSets

CONSTANTS Handles,          \* TurboJPEG instances
          Slots,            \* the application's pairs of jpegBuf and jpegSize
          Calls,            \* sequences of slots: the destinations of one call
          AllocSizes,       \* sizes the application pre-allocates
          OUTPUT_BUF_SIZE,
          HEADER,           \* bytes written before the instance is marked started
          MAX_JPEG,         \* bound: bytes of a JPEG image
          MAX_ADDRESS,      \* bound: addresses malloc gives
          SmallBuffers      \* may a buffer be passed that the header fills?

ASSUME BufferAssumption ==
  /\ Calls \subseteq Seq(Slots) \ {<<>>}
  /\ AllocSizes \subseteq Nat \ {0} /\ HEADER \in Nat \ {0}
  /\ OUTPUT_BUF_SIZE \in Nat /\ OUTPUT_BUF_SIZE > HEADER
  /\ MAX_JPEG \in Nat /\ MAX_ADDRESS \in Nat /\ SmallBuffers \in BOOLEAN

VARIABLES heap,             \* sizes of the live blocks, by address
          jpegBuf, jpegSize,
          dest,             \* by handle: buffer, newbuffer, bufsize, alloc
          outdated,         \* history: handles whose last buffer was freed since
          call,             \* the call in progress
          result            \* of the last call: "none", "ok" or "error"

vars == <<heap, jpegBuf, jpegSize, dest, outdated, call, result>>

NULL == 0
STATIC == -1                \* the one-byte buffer of _tjInitCompress
NoCall == [handle |-> NULL]

Init ==
  /\ heap = <<>> /\ outdated = {}
  /\ jpegBuf = [s \in Slots |-> NULL] /\ jpegSize = [s \in Slots |-> 0]
  /\ dest = [h \in Handles |-> [buffer |-> STATIC, newbuffer |-> STATIC,
                                bufsize |-> 1, alloc |-> FALSE]]
  /\ call = NoCall /\ result = "none"

Idle == call = NoCall

-----------------------------------------------------------------------------
(* The heap.                                                               *)

FreeAddresses == 1..MAX_ADDRESS \ DOMAIN heap

\* The instances that take the block at address a for the one they wrote last.
Remembering(a) == {h \in Handles : dest[h].buffer = a}

\* malloc may give the address of a block that was freed.  Of the addresses that
\* no destination remembers, which are alike, it gives the first.
Given ==
  LET other == {a \in FreeAddresses : Remembering(a) = {}}
  IN  (FreeAddresses \ other) \cup {a \in other : \A b \in other : a <= b}

With(h, a, size) == [x \in DOMAIN h \cup {a} |-> IF x = a THEN size ELSE h[x]]

Without(h, a) == [x \in DOMAIN h \ {a} |-> h[x]]

-----------------------------------------------------------------------------
(* The application between calls.                                          *)

\* tj3Alloc; jpegSize is set to the size of the buffer.
Prealloc ==
  /\ Idle
  /\ \E s \in Slots, size \in AllocSizes, a \in Given :
       /\ jpegBuf[s] = NULL
       /\ heap' = With(heap, a, size)
       /\ jpegBuf' = [jpegBuf EXCEPT ![s] = a]
       /\ jpegSize' = [jpegSize EXCEPT ![s] = size]
  /\ result' = "none"
  /\ UNCHANGED <<dest, outdated, call>>

\* tj3Free; the size is not looked at again.
Release ==
  /\ Idle
  /\ \E s \in Slots :
       /\ jpegBuf[s] # NULL
       /\ heap' = Without(heap, jpegBuf[s])
       /\ jpegBuf' = [jpegBuf EXCEPT ![s] = NULL]
       /\ jpegSize' = [jpegSize EXCEPT ![s] = 0]
       /\ outdated' = outdated \cup Remembering(jpegBuf[s])
  /\ result' = "none"
  /\ UNCHANGED <<dest, call>>

\* tj3Compress (one destination) or tj3Transform (several).
CallCompress ==
  /\ Idle
  /\ \E h \in Handles, slots \in Calls, noRealloc \in BOOLEAN :
       /\ \A i \in DOMAIN slots :
            jpegBuf[slots[i]] # NULL => SmallBuffers \/ jpegSize[slots[i]] > HEADER
       /\ call' = [handle |-> h, slots |-> slots, noRealloc |-> noRealloc,
                   pc |-> "mem_dest", started |-> FALSE,
                   free |-> 0, written |-> 0]
  /\ result' = "none"
  /\ UNCHANGED <<heap, jpegBuf, jpegSize, dest, outdated>>

-----------------------------------------------------------------------------
(* jpeg_mem_dest_tj.                                                       *)

At(pc) == ~Idle /\ call.pc = pc

H == call.handle
S == Head(call.slots)
D == dest[H]

\* Mutant: an instance that wrote to a buffer before takes any for that one.
Reused_Any(alloc) == D.buffer # STATIC /\ jpegBuf[S] # NULL /\ alloc

\* The buffer this instance wrote to last: its size is known, *jpegSize is not.
Reused(alloc) == D.buffer = jpegBuf[S] /\ jpegBuf[S] # NULL /\ alloc

NeedsBuffer(alloc) == jpegBuf[S] = NULL \/ (jpegSize[S] = 0 /\ ~Reused(alloc))

Fail == call' = [call EXCEPT !.pc = "error"]

\* The destination takes the application's buffer.
TakeBuffer ==
  LET alloc == ~call.noRealloc
      size == IF Reused(alloc) THEN D.bufsize ELSE jpegSize[S]
  IN  /\ At("mem_dest") /\ ~NeedsBuffer(alloc)
      /\ dest' = [dest EXCEPT ![H] = [buffer |-> jpegBuf[S], newbuffer |-> jpegBuf[S],
                                      bufsize |-> size, alloc |-> alloc]]
      /\ call' = [call EXCEPT !.pc = "start", !.free = size, !.written = 0]
      /\ outdated' = IF Reused(alloc) THEN outdated ELSE outdated \ {H}
      /\ UNCHANGED <<heap, jpegBuf, jpegSize, result>>

\* The destination makes a buffer and tells the application at once.
MakeBuffer ==
  /\ At("mem_dest") /\ NeedsBuffer(TRUE) /\ ~call.noRealloc
  /\ \E a \in Given :
       /\ heap' = With(heap, a, OUTPUT_BUF_SIZE)
       /\ jpegBuf' = [jpegBuf EXCEPT ![S] = a]
       /\ jpegSize' = [jpegSize EXCEPT ![S] = OUTPUT_BUF_SIZE]
       /\ dest' = [dest EXCEPT ![H] = [buffer |-> a, newbuffer |-> a,
                                       bufsize |-> OUTPUT_BUF_SIZE, alloc |-> TRUE]]
  /\ call' = [call EXCEPT !.pc = "start", !.free = OUTPUT_BUF_SIZE, !.written = 0]
  /\ outdated' = outdated \ {H}
  /\ UNCHANGED result

\* malloc fails: the pointers are NULL already when the error exit is taken.
MakeBufferFails ==
  /\ At("mem_dest") /\ NeedsBuffer(TRUE) /\ ~call.noRealloc
  /\ jpegBuf' = [jpegBuf EXCEPT ![S] = NULL]
  /\ dest' = [dest EXCEPT ![H].newbuffer = NULL, ![H].alloc = TRUE]
  /\ Fail
  /\ UNCHANGED <<heap, jpegSize, outdated, result>>

\* JERR_BUFFER_SIZE.
NoBuffer ==
  /\ At("mem_dest") /\ NeedsBuffer(FALSE) /\ call.noRealloc
  /\ dest' = [dest EXCEPT ![H].alloc = FALSE]
  /\ Fail
  /\ UNCHANGED <<heap, jpegBuf, jpegSize, outdated, result>>

-----------------------------------------------------------------------------
(* Compression.                                                            *)

Writing == IF call.started THEN "write" ELSE "start"

\* There is a byte to write: of the file header, or of the image.
More(pc) == At(pc) /\ call.written < IF pc = "start" THEN HEADER ELSE MAX_JPEG

\* A byte goes to the buffer; a buffer just filled is emptied at once.
Write(pc) ==
  /\ More(pc) /\ call.written < heap[D.buffer]
  /\ call' = [call EXCEPT !.written = @ + 1, !.free = @ - 1,
                          !.pc = IF call.free = 1 THEN "empty" ELSE pc]
  /\ UNCHANGED <<heap, jpegBuf, jpegSize, dest, outdated, result>>

\* jpeg_start_compress and jpeg_write_coefficients write the file header, then
\* set global_state.
WriteHeader == Write("start")

Started ==
  /\ At("start") /\ call.written = HEADER
  /\ call' = [call EXCEPT !.pc = "write", !.started = TRUE]
  /\ UNCHANGED <<heap, jpegBuf, jpegSize, dest, outdated, result>>

WriteByte == Write("write")

\* The byte goes beyond the end of a block that is smaller than the destination
\* takes it for: what the program does from here on is undefined.
Overrun ==
  /\ More("start") \/ More("write")
  /\ call.written >= heap[D.buffer]
  /\ call' = [call EXCEPT !.pc = "overrun"]
  /\ UNCHANGED <<heap, jpegBuf, jpegSize, dest, outdated, result>>

\* Mutant: a buffer that may not be replaced is replaced.
Empty_Always ==
  /\ At("empty")
  /\ \E a \in Given :
       /\ heap' = With(Without(heap, D.newbuffer), a, 2 * D.bufsize)
       /\ dest' = [dest EXCEPT ![H].buffer = a, ![H].newbuffer = a,
                               ![H].bufsize = 2 * @]
  /\ outdated' = (outdated \cup Remembering(D.newbuffer)) \ {H}
  /\ call' = [call EXCEPT !.pc = Writing, !.free = D.bufsize]
  /\ UNCHANGED <<jpegBuf, jpegSize, result>>

\* empty_mem_output_buffer: twice the size, the old block is freed.
Empty ==
  /\ At("empty") /\ D.alloc
  /\ \E a \in Given :
       /\ heap' = With(Without(heap, D.newbuffer), a, 2 * D.bufsize)
       /\ dest' = [dest EXCEPT ![H].buffer = a, ![H].newbuffer = a,
                               ![H].bufsize = 2 * @]
  /\ outdated' = (outdated \cup Remembering(D.newbuffer)) \ {H}
  /\ call' = [call EXCEPT !.pc = Writing, !.free = D.bufsize]
  /\ UNCHANGED <<jpegBuf, jpegSize, result>>

\* JERR_BUFFER_SIZE, or malloc failed.
EmptyFails ==
  /\ At("empty")
  /\ Fail
  /\ UNCHANGED <<heap, jpegBuf, jpegSize, dest, outdated, result>>

\* Any other libjpeg error, a cancelled transform, a warning to stop on.
OtherError ==
  /\ At("start") \/ At("write")
  /\ Fail
  /\ UNCHANGED <<heap, jpegBuf, jpegSize, dest, outdated, result>>

-----------------------------------------------------------------------------
(* term_mem_destination, and the ends of the calls.                        *)

\* Mutant: a fixed buffer has its size left to the application.
TermDestination_AllocOnly ==
  /\ jpegBuf' = IF D.alloc THEN [jpegBuf EXCEPT ![S] = D.buffer] ELSE jpegBuf
  /\ jpegSize' = IF D.alloc THEN [jpegSize EXCEPT ![S] = D.bufsize - call.free] ELSE jpegSize

TermDestination ==
  /\ jpegBuf' = IF D.alloc THEN [jpegBuf EXCEPT ![S] = D.buffer] ELSE jpegBuf
  /\ jpegSize' = [jpegSize EXCEPT ![S] = D.bufsize - call.free]

\* jpeg_finish_compress, and the next destination of a transformation.
Finish ==
  /\ At("write")
  /\ TermDestination
  /\ IF Len(call.slots) = 1
     THEN call' = NoCall /\ result' = "ok"
     ELSE /\ call' = [call EXCEPT !.slots = Tail(@), !.pc = "mem_dest", !.started = FALSE]
          /\ UNCHANGED result
  /\ UNCHANGED <<heap, dest, outdated>>

\* Mutant: bailout leaves the destination alone.
Bailout_NoTerm ==
  /\ At("error")
  /\ call' = NoCall /\ result' = "error"
  /\ UNCHANGED <<heap, jpegBuf, jpegSize, dest, outdated>>

\* bailout, when compression had started: global_state tells.  The local alloc
\* was set after setjmp, so that longjmp may have brought back its first value.
Bailout ==
  /\ At("error")
  /\ \/ call.started /\ TermDestination
     \/ (~call.started \/ call.noRealloc) /\ UNCHANGED <<jpegBuf, jpegSize>>
  /\ call' = NoCall /\ result' = "error"
  /\ UNCHANGED <<heap, dest, outdated>>

-----------------------------------------------------------------------------

App == Prealloc \/ Release \/ CallCompress

Lib ==
  TakeBuffer \/ MakeBuffer \/ MakeBufferFails \/ NoBuffer \/ WriteHeader \/ Started
    \/ WriteByte \/ Overrun \/ Empty \/ EmptyFails \/ OtherError \/ Finish \/ Bailout

Next == App \/ Lib

Spec == Init /\ [][Next]_vars

-----------------------------------------------------------------------------

\* Every variable has its type.
TypeOK ==
  /\ DOMAIN heap \subseteq 1..MAX_ADDRESS
  /\ jpegBuf \in [Slots -> 0..MAX_ADDRESS] /\ jpegSize \in [Slots -> Nat]
  /\ ~Idle => call.free \in Nat /\ call.slots # <<>>
  /\ outdated \subseteq Handles /\ result \in {"none", "ok", "error"}

\* "You should always check *jpegBuf upon return from this function, as it may
\* have changed": whatever a call did, and wherever it failed, every buffer is
\* in the application's hands afterwards and nothing it holds has been freed.
AppOwnsBuffers ==
  Idle =>
    /\ DOMAIN heap = {jpegBuf[s] : s \in Slots} \ {NULL}
    /\ \A s, t \in Slots : s # t /\ jpegBuf[s] # NULL => jpegBuf[s] # jpegBuf[t]

\* While an instance writes, its buffer is a live block, and so is the one it
\* frees when it grows.
BufferLive ==
  At("write") \/ At("empty") => D.buffer \in DOMAIN heap /\ D.newbuffer = D.buffer

\* "*jpegSize should be set to the size of the buffer": the destination takes a
\* buffer for larger than it is, and writes beyond its end, only by an instance
\* whose last buffer was freed since, by the application or by another instance,
\* and is met again at the same address (jpeg_mem_dest_tj).
SizeIsReal ==
  /\ At("start") \/ At("write") \/ At("empty") =>
       D.bufsize <= heap[D.buffer] \/ H \in outdated
  /\ At("overrun") => H \in outdated

\* "Upon return, *jpegSize will contain the size of the JPEG image": the bytes
\* written, and *jpegBuf is the live block that they were written to.
JpegIsWhole ==
  [][result' = "ok" /\ ~Idle =>
       /\ jpegSize'[S] = call.written
       /\ jpegBuf'[S] = D.buffer /\ D.buffer \in DOMAIN heap']_vars

\* "Setting TJPARAM_NOREALLOC guarantees that it won't be" re-allocated.
FixedStays ==
  [][~Idle /\ call.noRealloc =>
       UNCHANGED jpegBuf /\ DOMAIN heap' = DOMAIN heap]_vars

=============================================================================
