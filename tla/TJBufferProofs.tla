--------------------------- MODULE TJBufferProofs ---------------------------
(***************************************************************************)
(* Who owns the JPEG buffers, for any number of instances, buffers and     *)
(* destinations of a call, any sizes, and failures anywhere, with a malloc *)
(* that may give the address of any block that was freed: under the        *)
(* condition that no buffer is passed that the file header alone fills and *)
(* none twice to one call.                                                 *)
(***************************************************************************)
EXTENDS TJBuffer, SequenceTheorems, TLAPS

\* No buffer is passed twice to one call.
DistinctSlots == \A slots \in Calls : \A i, j \in DOMAIN slots : slots[i] = slots[j] => i = j

Address == 1..MAX_ADDRESS

CallRecord ==
  [handle : Handles, slots : Seq(Slots), noRealloc : BOOLEAN,
   pc : {"mem_dest", "start", "write", "empty", "error", "overrun"},
   started : BOOLEAN, free : Int, written : Nat]

Typed ==
  /\ DOMAIN heap \subseteq Address /\ \A a \in DOMAIN heap : heap[a] \in Nat
  /\ jpegBuf \in [Slots -> Address \cup {NULL}] /\ jpegSize \in [Slots -> Nat]
  /\ dest \in [Handles -> [buffer : Address \cup {STATIC}, newbuffer : Address \cup {STATIC, NULL},
                           bufsize : Nat, alloc : BOOLEAN]]
  /\ call = NoCall \/ (call \in CallRecord /\ call.slots # <<>>)

\* The block that the application will find in a slot when the call has ended.
Held == ~Idle /\ call.started
Own(s) == IF Held /\ s = S /\ D.alloc THEN D.buffer ELSE jpegBuf[s]

Owned ==
  /\ DOMAIN heap = {Own(s) : s \in Slots} \ {NULL}
  /\ \A s, t \in Slots : s # t /\ Own(s) # NULL => Own(s) # Own(t)

Busy == At("start") \/ At("write") \/ At("empty")

\* Where the destination stands in the course of a call.
Course ==
  /\ Busy => D.buffer = D.newbuffer /\ D.buffer \in DOMAIN heap
  /\ Busy \/ Held => D.alloc = ~call.noRealloc /\ (D.alloc \/ D.buffer = jpegBuf[S])
  /\ Held => D.buffer # STATIC
  /\ At("start") => D.buffer = jpegBuf[S] /\ call.written <= HEADER
  /\ At("start") \/ At("mem_dest") => ~call.started
  /\ At("write") \/ At("empty") => call.started

\* The bytes written and the bytes left.
Counted ==
  /\ Busy \/ Held => call.free = D.bufsize - call.written /\ call.free >= 0
  /\ At("start") \/ At("write") => call.free > 0
  /\ At("empty") => call.free = 0
  /\ \A h \in Handles : dest[h].buffer # STATIC => dest[h].bufsize > HEADER

\* A buffer still to be passed to the destination is larger than the header.
Roomy ==
  ~Idle =>
    /\ \A i, j \in DOMAIN call.slots : call.slots[i] = call.slots[j] => i = j
    /\ \A i \in DOMAIN call.slots :
         (i > 1 \/ At("mem_dest")) /\ jpegBuf[call.slots[i]] # NULL
            => jpegSize[call.slots[i]] > HEADER

IInv == Typed /\ Owned /\ Course /\ Counted /\ Roomy

-----------------------------------------------------------------------------

LEMMA Sizes ==
  /\ HEADER \in Nat \ {0} /\ OUTPUT_BUF_SIZE \in Nat /\ OUTPUT_BUF_SIZE > HEADER
  /\ MAX_ADDRESS \in Nat /\ AllocSizes \subseteq Nat
  BY BufferAssumption

LEMMA CallIsRecord ==
  ASSUME NEW c \in CallRecord
  PROVE  c # NoCall
  <1>1. "pc" \in DOMAIN c
    BY DEF CallRecord
  <1>2. DOMAIN NoCall = {"handle"}
    BY DEF NoCall
  <1> QED
    BY <1>1, <1>2

LEMMA HeadSlot ==
  ASSUME Typed, ~Idle
  PROVE  /\ call \in CallRecord /\ H \in Handles /\ S \in Slots /\ D = dest[H]
         /\ call.slots \in Seq(Slots) /\ call.slots # <<>> /\ S = call.slots[1]
         /\ 1 \in DOMAIN call.slots
         /\ D \in [buffer : Address \cup {STATIC}, newbuffer : Address \cup {STATIC, NULL},
                   bufsize : Nat, alloc : BOOLEAN]
  <1>1. call \in CallRecord /\ call.slots # <<>>
    BY DEF Typed, Idle
  <1>2. call.slots \in Seq(Slots) /\ call.handle \in Handles
    BY <1>1 DEF CallRecord
  <1>3. Head(call.slots) \in Slots /\ Head(call.slots) = call.slots[1] /\ 1 \in DOMAIN call.slots
    BY <1>1, <1>2
  <1> QED
    BY <1>1, <1>2, <1>3 DEF H, S, D, Typed

LEMMA GivenIsNew ==
  ASSUME NEW a \in Given
  PROVE  a \in Address /\ a \notin DOMAIN heap
  BY DEF Given, FreeAddresses, Address

-----------------------------------------------------------------------------
(* The application between calls.                                          *)

LEMMA PreallocKeeps == IInv /\ Prealloc => IInv'
  <1> SUFFICES ASSUME IInv, Prealloc PROVE IInv'
    OBVIOUS
  <1>1. PICK s \in Slots, size \in AllocSizes, a \in Given :
          /\ jpegBuf[s] = NULL
          /\ heap' = With(heap, a, size)
          /\ jpegBuf' = [jpegBuf EXCEPT ![s] = a]
          /\ jpegSize' = [jpegSize EXCEPT ![s] = size]
    BY DEF Prealloc
  <1>2. Idle /\ call = NoCall /\ call' = NoCall /\ dest' = dest
    BY DEF Prealloc, Idle
  <1>3. Typed /\ a \in Address /\ a \notin DOMAIN heap /\ size \in Nat /\ a # NULL
    BY GivenIsNew, Sizes DEF IInv, Address, NULL
  <1>4. DOMAIN heap' = DOMAIN heap \cup {a} /\ \A x \in DOMAIN heap' : heap'[x] \in Nat
    BY <1>1, <1>3 DEF With, Typed
  <1>5. Typed'
    BY <1>1, <1>2, <1>3, <1>4 DEF Typed
  <1>6. Owned'
    <2>1. \A t \in Slots : Own(t) = jpegBuf[t] /\ Own(t)' = jpegBuf'[t]
      BY <1>2 DEF Own, Held, Idle
    <2>2. \A t \in Slots : jpegBuf'[t] = IF t = s THEN a ELSE jpegBuf[t]
      BY <1>1, <1>3 DEF Typed
    <2>3. DOMAIN heap = {Own(t) : t \in Slots} \ {NULL}
      BY DEF IInv, Owned
    <2>4. DOMAIN heap' = {Own(t)' : t \in Slots} \ {NULL}
      BY <1>1, <1>3, <1>4, <2>1, <2>2, <2>3
    <2>5. \A t, u \in Slots : t # u /\ jpegBuf'[t] # NULL => jpegBuf'[t] # jpegBuf'[u]
      <3>1. \A t \in Slots : jpegBuf[t] # a
        BY <1>3, <2>1, <2>3
      <3> QED
        BY <1>1, <2>1, <2>2, <3>1 DEF IInv, Owned
    <2> QED
      BY <2>1, <2>4, <2>5 DEF Owned
  <1>7. Course' /\ Counted' /\ Roomy'
    BY <1>2 DEF IInv, Course, Counted, Roomy, Busy, Held, At, Idle
  <1> QED
    BY <1>5, <1>6, <1>7 DEF IInv

LEMMA ReleaseKeeps == IInv /\ Release => IInv'
  <1> SUFFICES ASSUME IInv, Release PROVE IInv'
    OBVIOUS
  <1>1. PICK s \in Slots :
          /\ jpegBuf[s] # NULL
          /\ heap' = Without(heap, jpegBuf[s])
          /\ jpegBuf' = [jpegBuf EXCEPT ![s] = NULL]
          /\ jpegSize' = [jpegSize EXCEPT ![s] = 0]
    BY DEF Release
  <1>2. Idle /\ call = NoCall /\ call' = NoCall /\ dest' = dest
    BY DEF Release, Idle
  <1>3. Typed
    BY DEF IInv
  <1>4. DOMAIN heap' = DOMAIN heap \ {jpegBuf[s]} /\ \A x \in DOMAIN heap' : heap'[x] \in Nat
    BY <1>1, <1>3 DEF Without, Typed
  <1>5. Typed'
    BY <1>1, <1>2, <1>3, <1>4 DEF Typed
  <1>6. Owned'
    <2>1. \A t \in Slots : Own(t) = jpegBuf[t] /\ Own(t)' = jpegBuf'[t]
      BY <1>2 DEF Own, Held, Idle
    <2>2. \A t \in Slots : jpegBuf'[t] = IF t = s THEN NULL ELSE jpegBuf[t]
      BY <1>1, <1>3 DEF Typed
    <2>3. /\ DOMAIN heap = {jpegBuf[t] : t \in Slots} \ {NULL}
          /\ \A t, u \in Slots : t # u /\ jpegBuf[t] # NULL => jpegBuf[t] # jpegBuf[u]
      BY <2>1 DEF IInv, Owned
    <2>4. DOMAIN heap' = {jpegBuf'[t] : t \in Slots} \ {NULL}
      BY <1>1, <1>4, <2>2, <2>3
    <2> QED
      BY <2>1, <2>2, <2>3, <2>4 DEF Owned
  <1>7. Course' /\ Counted' /\ Roomy'
    BY <1>2 DEF IInv, Course, Counted, Roomy, Busy, Held, At, Idle
  <1> QED
    BY <1>5, <1>6, <1>7 DEF IInv

LEMMA CallCompressKeeps ==
  ASSUME ~SmallBuffers, DistinctSlots, IInv, CallCompress
  PROVE  IInv'
  <1>1. PICK h \in Handles, slots \in Calls, noRealloc \in BOOLEAN :
          /\ \A i \in DOMAIN slots :
               jpegBuf[slots[i]] # NULL => SmallBuffers \/ jpegSize[slots[i]] > HEADER
          /\ call' = [handle |-> h, slots |-> slots, noRealloc |-> noRealloc,
                      pc |-> "mem_dest", started |-> FALSE,
                      free |-> 0, written |-> 0]
    BY DEF CallCompress
  <1>2. /\ call = NoCall /\ UNCHANGED <<heap, jpegBuf, jpegSize, dest>>
        /\ slots \in Seq(Slots) /\ slots # <<>>
    BY BufferAssumption DEF CallCompress, Idle
  <1>3. call' \in CallRecord
    BY <1>1, <1>2 DEF CallRecord
  <1>4. call' # NoCall
    BY <1>3, CallIsRecord
  <1>5. Typed'
    BY <1>1, <1>2, <1>3 DEF IInv, Typed
  <1>6. Owned'
    <2>1. \A t \in Slots : Own(t) = jpegBuf[t] /\ Own(t)' = jpegBuf'[t]
      BY <1>1, <1>2 DEF Own, Held, Idle
    <2> QED
      BY <1>2, <2>1 DEF IInv, Owned
  <1>7. Course' /\ Counted'
    BY <1>1, <1>2, <1>4 DEF IInv, Course, Counted, Busy, Held, At, Idle
  <1>8. Roomy'
    BY <1>1, <1>2, <1>4 DEF Roomy, DistinctSlots
  <1> QED
    BY <1>5, <1>6, <1>7, <1>8 DEF IInv

-----------------------------------------------------------------------------
(* The destination manager.                                                *)

\* A step within a call, which is for the same instance and destinations.
LEMMA SameCall ==
  ASSUME Typed, ~Idle, call' \in CallRecord, call'.handle = call.handle, call'.slots = call.slots
  PROVE  ~Idle' /\ H' = H /\ S' = S /\ D' = dest'[H]
         /\ call.slots \in Seq(Slots) /\ call.slots # <<>>
  BY CallIsRecord, HeadSlot DEF Idle, H, S, D

LEMMA CallFields ==
  ASSUME NEW c \in CallRecord
  PROVE  /\ c.handle \in Handles /\ c.slots \in Seq(Slots) /\ c.noRealloc \in BOOLEAN
         /\ c.pc \in {"mem_dest", "start", "write", "empty", "error", "overrun"}
         /\ c.started \in BOOLEAN /\ c.free \in Int /\ c.written \in Nat
  BY DEF CallRecord

LEMMA TakeBufferKeeps == IInv /\ TakeBuffer => IInv'
  <1> SUFFICES ASSUME IInv, TakeBuffer PROVE IInv'
    OBVIOUS
  <1> DEFINE alloc == ~call.noRealloc
             size == IF Reused(alloc) THEN D.bufsize ELSE jpegSize[S]
             new == [buffer |-> jpegBuf[S], newbuffer |-> jpegBuf[S],
                     bufsize |-> size, alloc |-> alloc]
  <1>1. /\ ~Idle /\ call.pc = "mem_dest" /\ ~NeedsBuffer(alloc) /\ Typed
        /\ dest' = [dest EXCEPT ![H] = new]
        /\ call' = [call EXCEPT !.pc = "start", !.free = size, !.written = 0]
        /\ UNCHANGED <<heap, jpegBuf, jpegSize>>
    BY DEF TakeBuffer, At, IInv
  <1>2. /\ call \in CallRecord /\ H \in Handles /\ S \in Slots /\ D = dest[H]
        /\ S = call.slots[1] /\ 1 \in DOMAIN call.slots
        /\ D \in [buffer : Address \cup {STATIC}, newbuffer : Address \cup {STATIC, NULL},
                  bufsize : Nat, alloc : BOOLEAN]
    BY <1>1, HeadSlot
  <1>3. jpegBuf[S] \in Address /\ jpegBuf[S] # NULL /\ jpegBuf[S] # STATIC /\ alloc \in BOOLEAN
    BY <1>1, <1>2 DEF NeedsBuffer, Typed, CallRecord, Address, STATIC, NULL
  <1>4. size \in Nat /\ size > HEADER /\ size > 0
    <2>1. CASE Reused(alloc)
      <3>1. size = D.bufsize /\ D.buffer # STATIC
        BY <1>3, <2>1 DEF Reused
      <3> QED
        BY <1>2, <3>1, Sizes DEF IInv, Counted
    <2>2. CASE ~Reused(alloc)
      <3>1. size = jpegSize[S] /\ jpegSize[S] \in Nat
        BY <1>1, <1>2, <2>2 DEF Typed
      <3>2. jpegSize[S] > HEADER
        BY <1>1, <1>2, <1>3 DEF IInv, Roomy, At
      <3> QED
        BY <3>1, <3>2, Sizes
    <2> QED
      BY <2>1, <2>2
  <1> HIDE DEF size, alloc
  <1>5. /\ call' \in CallRecord /\ call'.handle = call.handle /\ call'.slots = call.slots
        /\ call'.pc = "start" /\ call'.free = size /\ call'.written = 0
        /\ call'.started = call.started /\ call'.noRealloc = call.noRealloc
    <2>1. call' = [handle |-> call.handle, slots |-> call.slots, noRealloc |-> call.noRealloc,
                   pc |-> "start", started |-> call.started, free |-> size, written |-> 0]
      BY <1>1, <1>2, <1>4 DEF CallRecord
    <2>2. size \in Int
      BY <1>1, <1>2, <1>4, Sizes
    <2>3. call' \in CallRecord
      BY <1>2, <1>3, <2>1, <2>2, CallFields DEF CallRecord
    <2> QED
      BY <2>1, <2>3
  <1>6. ~Idle' /\ H' = H /\ S' = S /\ D' = new /\ call.slots # <<>>
    BY <1>1, <1>2, <1>5, SameCall DEF Typed
  <1>7. ~call.started /\ Owned
    BY <1>1 DEF IInv, Course, At
  <1>8. jpegBuf[S] \in DOMAIN heap
    <2>1. Own(S) = jpegBuf[S]
      BY <1>7 DEF Own, Held
    <2> QED
      BY <1>2, <1>3, <1>7, <2>1 DEF Owned
  <1>9. Typed'
    BY <1>1, <1>2, <1>3, <1>4, <1>5, <1>6 DEF Typed
  <1>10. Owned'
    <2>1. \A t \in Slots : Own(t) = jpegBuf[t] /\ Own(t)' = jpegBuf[t]
      BY <1>1, <1>5, <1>7 DEF Own, Held
    <2> QED
      BY <1>1, <1>7, <2>1 DEF Owned
  <1>11. Course'
    BY <1>1, <1>5, <1>6, <1>7, <1>8, Sizes DEF Course, Busy, At, Held, alloc
  <1>12. Counted'
    BY <1>1, <1>2, <1>4, <1>5, <1>6, <1>7 DEF IInv, Counted, Busy, At, Held
  <1>13. Roomy'
    BY <1>1, <1>5 DEF IInv, Roomy, At
  <1> QED
    BY <1>9, <1>10, <1>11, <1>12, <1>13 DEF IInv

LEMMA MakeBufferKeeps == IInv /\ MakeBuffer => IInv'
  <1> SUFFICES ASSUME IInv, MakeBuffer PROVE IInv'
    OBVIOUS
  <1>1. PICK a \in Given :
          /\ heap' = With(heap, a, OUTPUT_BUF_SIZE)
          /\ jpegBuf' = [jpegBuf EXCEPT ![S] = a]
          /\ jpegSize' = [jpegSize EXCEPT ![S] = OUTPUT_BUF_SIZE]
          /\ dest' = [dest EXCEPT ![H] = [buffer |-> a, newbuffer |-> a,
                                          bufsize |-> OUTPUT_BUF_SIZE, alloc |-> TRUE]]
    BY DEF MakeBuffer
  <1>2. /\ ~Idle /\ call.pc = "mem_dest" /\ NeedsBuffer(TRUE) /\ ~call.noRealloc /\ Typed
        /\ call' = [call EXCEPT !.pc = "start", !.free = OUTPUT_BUF_SIZE, !.written = 0]
    BY DEF MakeBuffer, At, IInv
  <1>3. /\ call \in CallRecord /\ H \in Handles /\ S \in Slots /\ D = dest[H]
        /\ S = call.slots[1] /\ 1 \in DOMAIN call.slots
        /\ call.slots \in Seq(Slots) /\ call.slots # <<>>
    BY <1>2, HeadSlot
  <1>4. a \in Address /\ a \notin DOMAIN heap /\ a # NULL /\ a # STATIC
    BY GivenIsNew DEF Address, NULL, STATIC
  <1>5. /\ call' \in CallRecord /\ call'.handle = call.handle /\ call'.slots = call.slots
        /\ call'.pc = "start" /\ call'.free = OUTPUT_BUF_SIZE /\ call'.written = 0
        /\ call'.started = call.started /\ call'.noRealloc = call.noRealloc
    <2>1. call' = [handle |-> call.handle, slots |-> call.slots, noRealloc |-> call.noRealloc,
                   pc |-> "start", started |-> call.started, free |-> OUTPUT_BUF_SIZE, written |-> 0]
      BY <1>2, <1>3 DEF CallRecord
    <2>2. OUTPUT_BUF_SIZE \in Int
      BY <1>2, <1>3, Sizes
    <2>3. call' \in CallRecord
      BY <1>2, <1>3, <2>1, <2>2, CallFields DEF CallRecord
    <2> QED
      BY <2>1, <2>3
  <1>6. /\ ~Idle' /\ H' = H /\ S' = S
        /\ D' = [buffer |-> a, newbuffer |-> a, bufsize |-> OUTPUT_BUF_SIZE, alloc |-> TRUE]
    BY <1>1, <1>2, <1>3, <1>5, SameCall DEF Typed
  <1>7. ~call.started /\ Owned
    BY <1>2 DEF IInv, Course, At
  \* The application gave no buffer: an empty one would not have been passed.
  <1>8. jpegBuf[S] = NULL
    <2>1. jpegBuf[S] # NULL => jpegSize[S] > HEADER
      BY <1>2, <1>3 DEF IInv, Roomy, At
    <2>2. jpegSize[S] \in Nat /\ jpegSize[S] > HEADER => jpegSize[S] # 0
      BY Sizes
    <2>3. jpegSize[S] \in Nat
      BY <1>2, <1>3 DEF Typed
    <2> QED
      BY <1>2, <2>1, <2>2, <2>3 DEF NeedsBuffer
  <1>9. DOMAIN heap' = DOMAIN heap \cup {a} /\ \A x \in DOMAIN heap' : heap'[x] \in Nat
    BY <1>1, <1>2, <1>4, Sizes DEF With, Typed
  <1>10. Typed'
    BY <1>1, <1>2, <1>3, <1>4, <1>5, <1>9, Sizes DEF Typed
  <1>11. \A t \in Slots : /\ Own(t) = jpegBuf[t] /\ Own(t)' = jpegBuf'[t]
                          /\ jpegBuf'[t] = IF t = S THEN a ELSE jpegBuf[t]
    BY <1>1, <1>2, <1>3, <1>5, <1>7 DEF Own, Held, Typed
  <1>12. Owned'
    <2>1. /\ DOMAIN heap = {jpegBuf[t] : t \in Slots} \ {NULL}
          /\ \A t, u \in Slots : t # u /\ jpegBuf[t] # NULL => jpegBuf[t] # jpegBuf[u]
      BY <1>7, <1>11 DEF Owned
    <2>2. DOMAIN heap' = {jpegBuf'[t] : t \in Slots} \ {NULL}
      BY <1>3, <1>4, <1>8, <1>9, <1>11, <2>1
    <2>3. \A t \in Slots : jpegBuf[t] # a
      BY <1>4, <2>1
    <2>4. \A t, u \in Slots : t # u /\ jpegBuf'[t] # NULL => jpegBuf'[t] # jpegBuf'[u]
      BY <1>3, <1>11, <2>1, <2>3
    <2> QED
      BY <1>11, <2>2, <2>4 DEF Owned
  <1>13. Course'
    <2>1. jpegBuf'[S] = a
      BY <1>3, <1>11
    <2> QED
      <3>1. At("start")' /\ ~At("write")' /\ ~At("empty")' /\ ~At("mem_dest")' /\ ~Held'
        BY <1>5, <1>6, <1>7 DEF At, Held
      <3>2. D'.buffer = a /\ D'.newbuffer = a /\ D'.alloc = TRUE
        BY <1>6
      <3>3. D'.alloc = ~call'.noRealloc
        BY <1>2, <1>5, <3>2
      <3>4. a \in DOMAIN heap' /\ D'.buffer = jpegBuf'[S']
        BY <1>6, <1>9, <2>1, <3>2
      <3>5. ~call'.started /\ call'.written <= HEADER
        BY <1>5, <1>7, Sizes
      <3> QED
        BY <3>1, <3>2, <3>3, <3>4, <3>5 DEF Course, Busy
  <1>14. Counted'
    BY <1>1, <1>2, <1>3, <1>5, <1>6, <1>7, Sizes DEF IInv, Counted, Busy, At, Held
  <1>15. Roomy'
    <2>1. \A i \in DOMAIN call.slots : i > 1 => call.slots[i] # S /\ call.slots[i] \in Slots
      BY <1>2, <1>3 DEF IInv, Roomy
    <2>2. \A t \in Slots : t # S => jpegBuf'[t] = jpegBuf[t] /\ jpegSize'[t] = jpegSize[t]
      BY <1>1, <1>2, <1>3 DEF Typed
    <2> QED
      BY <1>2, <1>5, <2>1, <2>2 DEF IInv, Roomy, At
  <1> QED
    BY <1>10, <1>12, <1>13, <1>14, <1>15 DEF IInv

LEMMA NoBufferGiven ==
  ASSUME IInv, At("mem_dest"), NEW alloc \in BOOLEAN, NeedsBuffer(alloc)
  PROVE  jpegBuf[S] = NULL
  <1>1. ~Idle /\ Typed
    BY DEF At, IInv
  <1>2. S \in Slots /\ S = call.slots[1] /\ 1 \in DOMAIN call.slots
    BY <1>1, HeadSlot
  <1>3. jpegBuf[S] # NULL => jpegSize[S] > HEADER
    BY <1>1, <1>2 DEF IInv, Roomy
  <1>4. jpegSize[S] \in Nat /\ jpegSize[S] > HEADER => jpegSize[S] # 0
    BY Sizes
  <1>5. jpegSize[S] \in Nat
    BY <1>1, <1>2 DEF Typed
  <1> QED
    BY <1>3, <1>4, <1>5 DEF NeedsBuffer

\* The call is given up, or goes on to write beyond its block; the destination of
\* a compression that had started stays.
LEMMA FailKeeps ==
  ASSUME IInv, ~Idle, NEW pc \in {"error", "overrun"}, call' = [call EXCEPT !.pc = pc],
         UNCHANGED <<heap, jpegBuf, jpegSize>>,
         dest' \in [Handles -> [buffer : Address \cup {STATIC}, newbuffer : Address \cup {STATIC, NULL},
                                bufsize : Nat, alloc : BOOLEAN]],
         Held => dest' = dest,
         \A h \in Handles : dest'[h].buffer = dest[h].buffer /\ dest'[h].bufsize = dest[h].bufsize
  PROVE  IInv'
  <1>1. Typed /\ call \in CallRecord /\ H \in Handles /\ S \in Slots /\ D = dest[H]
    BY HeadSlot DEF IInv
  <1>2. /\ call' = [handle |-> call.handle, slots |-> call.slots, noRealloc |-> call.noRealloc,
                    pc |-> pc, started |-> call.started, free |-> call.free,
                    written |-> call.written]
    BY <1>1 DEF CallRecord
  <1>3. call' \in CallRecord
    BY <1>1, <1>2, CallFields DEF CallRecord
  <1>4. ~Idle' /\ H' = H /\ S' = S /\ D' = dest'[H] /\ call.slots # <<>>
    BY <1>1, <1>2, <1>3, SameCall
  <1>5. Held' = Held /\ ~Busy' /\ ~At("mem_dest")' /\ (Held => D' = D)
    BY <1>1, <1>2, <1>4 DEF Held, Busy, At
  <1>6. Typed'
    BY <1>1, <1>2, <1>3, <1>4 DEF Typed
  <1>7. Owned'
    <2>1. \A t \in Slots : Own(t)' = Own(t)
      BY <1>4, <1>5 DEF Own
    <2> QED
      BY <2>1 DEF IInv, Owned
  <1>8. Course'
    BY <1>2, <1>4, <1>5 DEF IInv, Course, Busy
  <1>9. Counted'
    BY <1>2, <1>4, <1>5 DEF IInv, Counted, Busy
  <1>10. Roomy'
    BY <1>2, <1>5 DEF IInv, Roomy
  <1> QED
    BY <1>6, <1>7, <1>8, <1>9, <1>10 DEF IInv

LEMMA MakeBufferFailsKeeps == IInv /\ MakeBufferFails => IInv'
  <1> SUFFICES ASSUME IInv, MakeBufferFails PROVE IInv'
    OBVIOUS
  <1>1. /\ ~Idle /\ At("mem_dest") /\ NeedsBuffer(TRUE) /\ Typed /\ Fail
        /\ jpegBuf' = [jpegBuf EXCEPT ![S] = NULL]
        /\ dest' = [dest EXCEPT ![H].newbuffer = NULL, ![H].alloc = TRUE]
        /\ UNCHANGED <<heap, jpegSize>>
    BY DEF MakeBufferFails, At, IInv
  <1>2. H \in Handles /\ S \in Slots
    BY <1>1, HeadSlot
  <1>3. jpegBuf' = jpegBuf
    <2>1. jpegBuf[S] = NULL
      BY <1>1, NoBufferGiven
    <2> QED
      BY <1>1, <1>2, <2>1 DEF Typed
  <1>4. ~Held
    BY <1>1 DEF IInv, Course, Held
  <1>5. dest' \in [Handles -> [buffer : Address \cup {STATIC}, newbuffer : Address \cup {STATIC, NULL},
                               bufsize : Nat, alloc : BOOLEAN]]
    BY ZenonT(30), <1>1, <1>2 DEF Typed
  <1>6. \A h \in Handles : dest'[h].buffer = dest[h].buffer /\ dest'[h].bufsize = dest[h].bufsize
    BY <1>1, <1>2 DEF Typed
  <1> QED
    BY <1>1, <1>3, <1>4, <1>5, <1>6, FailKeeps DEF Fail

LEMMA NoBufferKeeps == IInv /\ NoBuffer => IInv'
  <1> SUFFICES ASSUME IInv, NoBuffer PROVE IInv'
    OBVIOUS
  <1>1. /\ ~Idle /\ At("mem_dest") /\ Typed /\ Fail
        /\ dest' = [dest EXCEPT ![H].alloc = FALSE]
        /\ UNCHANGED <<heap, jpegBuf, jpegSize>>
    BY DEF NoBuffer, At, IInv
  <1>2. H \in Handles
    BY <1>1, HeadSlot
  <1>3. ~Held
    BY <1>1 DEF IInv, Course, Held
  <1>4. dest' \in [Handles -> [buffer : Address \cup {STATIC}, newbuffer : Address \cup {STATIC, NULL},
                               bufsize : Nat, alloc : BOOLEAN]]
    BY <1>1, <1>2 DEF Typed
  <1>5. \A h \in Handles : dest'[h].buffer = dest[h].buffer /\ dest'[h].bufsize = dest[h].bufsize
    BY <1>1, <1>2 DEF Typed
  <1> QED
    BY <1>1, <1>3, <1>4, <1>5, FailKeeps DEF Fail

LEMMA FailuresKeep == IInv /\ (EmptyFails \/ OtherError \/ Overrun) => IInv'
  <1> SUFFICES ASSUME IInv, EmptyFails \/ OtherError \/ Overrun PROVE IInv'
    OBVIOUS
  <1>1. /\ ~Idle /\ Typed /\ UNCHANGED <<heap, jpegBuf, jpegSize, dest>>
        /\ \E pc \in {"error", "overrun"} : call' = [call EXCEPT !.pc = pc]
    BY DEF EmptyFails, OtherError, Overrun, More, Fail, At, IInv
  <1>2. dest' \in [Handles -> [buffer : Address \cup {STATIC}, newbuffer : Address \cup {STATIC, NULL},
                               bufsize : Nat, alloc : BOOLEAN]]
    BY <1>1 DEF Typed
  <1> QED
    BY <1>1, <1>2, FailKeeps

-----------------------------------------------------------------------------
(* Compression.                                                            *)

\* The buffer is filled only after compression has started.
LEMMA WriteKeeps ==
  ASSUME IInv, NEW pc \in {"start", "write"}, Write(pc)
  PROVE  IInv'
  <1>1. /\ ~Idle /\ At(pc) /\ call.pc = pc /\ Busy /\ Typed
        /\ call.written < IF pc = "start" THEN HEADER ELSE MAX_JPEG
        /\ UNCHANGED <<heap, jpegBuf, jpegSize, dest>>
    BY DEF Write, More, At, IInv, Busy
  <1>2. /\ call \in CallRecord /\ H \in Handles /\ S \in Slots /\ D = dest[H]
        /\ D \in [buffer : Address \cup {STATIC}, newbuffer : Address \cup {STATIC, NULL},
                  bufsize : Nat, alloc : BOOLEAN]
        /\ call.free \in Int /\ call.written \in Nat
    BY <1>1, HeadSlot, CallFields
  <1>3. call' = [handle |-> call.handle, slots |-> call.slots, noRealloc |-> call.noRealloc,
                 pc |-> IF call.free = 1 THEN "empty" ELSE pc, started |-> call.started,
                 free |-> call.free - 1, written |-> call.written + 1]
    BY <1>2 DEF Write, CallRecord
  <1>4. call' \in CallRecord
    <2>1. call.free - 1 \in Int /\ call.written + 1 \in Nat
      BY <1>2
    <2> QED
      BY <1>2, <1>3, <2>1, CallFields DEF CallRecord
  <1>5. ~Idle' /\ H' = H /\ S' = S /\ D' = D /\ call.slots # <<>>
    BY <1>1, <1>2, <1>3, <1>4, SameCall
  <1>6. /\ call.free = D.bufsize - call.written /\ call.free > 0
        /\ D.buffer \in DOMAIN heap /\ D.buffer # STATIC /\ D.bufsize > HEADER
    <2>1. D.buffer \in DOMAIN heap /\ D.buffer # STATIC
      BY <1>1 DEF IInv, Course, Typed, Address, STATIC
    <2> QED
      BY <1>1, <1>2, <2>1 DEF IInv, Counted, At
  <1>7. pc = "start" => call.free # 1 /\ call.written + 1 <= HEADER
    BY <1>1, <1>2, <1>6, Sizes
  <1>8. Typed'
    BY <1>1, <1>3, <1>4, <1>5 DEF Typed
  <1>9. Held' = Held /\ Busy'
    BY <1>1, <1>3, <1>5 DEF Held, Busy, At
  <1>10. Owned'
    <2>1. \A t \in Slots : Own(t)' = Own(t)
      BY <1>1, <1>5, <1>9 DEF Own
    <2> QED
      BY <1>1, <2>1 DEF IInv, Owned
  <1>11. Course'
    <2>1. /\ At("start")' => pc = "start"
          /\ ~At("mem_dest")'
          /\ At("write")' \/ At("empty")' => pc = "write"
      BY <1>1, <1>3, <1>7 DEF At
    <2>2. (pc = "start" => ~call'.started) /\ (pc = "write" => call'.started)
      BY <1>1, <1>3 DEF IInv, Course
    <2>3. D.buffer = D.newbuffer /\ D.alloc = ~call.noRealloc /\ (D.alloc \/ D.buffer = jpegBuf[S])
          /\ (pc = "start" => D.buffer = jpegBuf[S])
      BY <1>1 DEF IInv, Course
    <2> QED
      BY <1>1, <1>3, <1>5, <1>6, <1>7, <2>1, <2>2, <2>3 DEF Course
  <1>12. Counted'
    <2>1. call'.free = D.bufsize - call'.written /\ call'.free >= 0
      BY <1>2, <1>3, <1>6
    <2>2. At("start")' \/ At("write")' => call'.free > 0
      BY <1>1, <1>2, <1>3, <1>6, <1>7 DEF At
    <2>3. At("empty")' => call'.free = 0
      BY <1>1, <1>2, <1>3 DEF At
    <2> QED
      BY <1>1, <1>5, <2>1, <2>2, <2>3 DEF IInv, Counted
  <1>13. Roomy'
    BY <1>1, <1>3, <1>5 DEF IInv, Roomy, At
  <1> QED
    BY <1>8, <1>10, <1>11, <1>12, <1>13 DEF IInv

LEMMA StartedKeeps == IInv /\ Started => IInv'
  <1> SUFFICES ASSUME IInv, Started PROVE IInv'
    OBVIOUS
  <1>1. /\ ~Idle /\ At("start") /\ call.pc = "start" /\ Busy /\ Typed
        /\ UNCHANGED <<heap, jpegBuf, jpegSize, dest>>
    BY DEF Started, At, IInv, Busy
  <1>2. call \in CallRecord /\ H \in Handles /\ S \in Slots /\ D = dest[H]
    BY <1>1, HeadSlot
  <1>3. call' = [handle |-> call.handle, slots |-> call.slots, noRealloc |-> call.noRealloc,
                 pc |-> "write", started |-> TRUE, free |-> call.free, written |-> call.written]
    BY <1>2 DEF Started, CallRecord
  <1>4. call' \in CallRecord
    BY <1>2, <1>3, CallFields DEF CallRecord
  <1>5. ~Idle' /\ H' = H /\ S' = S /\ D' = D /\ call.slots # <<>>
    BY <1>1, <1>2, <1>3, <1>4, SameCall
  <1>6. /\ D.buffer = jpegBuf[S] /\ D.buffer = D.newbuffer /\ D.buffer \in DOMAIN heap
        /\ D.alloc = ~call.noRealloc /\ ~call.started /\ D.buffer # STATIC
    BY <1>1 DEF IInv, Course, Typed, Address, STATIC
  <1>7. Typed'
    BY <1>1, <1>3, <1>4, <1>5 DEF Typed
  <1>8. Owned'
    <2>1. \A t \in Slots : Own(t)' = Own(t)
      BY <1>1, <1>5, <1>6 DEF Own, Held
    <2> QED
      BY <1>1, <2>1 DEF IInv, Owned
  <1>9. Course'
    BY <1>1, <1>3, <1>5, <1>6 DEF Course, Busy, Held, At
  <1>10. Counted'
    BY <1>1, <1>3, <1>5 DEF IInv, Counted, Busy, Held, At
  <1>11. Roomy'
    BY <1>1, <1>3, <1>5 DEF IInv, Roomy, At
  <1> QED
    BY <1>7, <1>8, <1>9, <1>10, <1>11 DEF IInv

\* The block that is outgrown is the one the call answers for, and so is the new
\* one.
LEMMA EmptyKeeps == IInv /\ Empty => IInv'
  <1> SUFFICES ASSUME IInv, Empty PROVE IInv'
    OBVIOUS
  <1>1. PICK a \in Given :
          /\ heap' = With(Without(heap, D.newbuffer), a, 2 * D.bufsize)
          /\ dest' = [dest EXCEPT ![H].buffer = a, ![H].newbuffer = a,
                                  ![H].bufsize = 2 * @]
    BY DEF Empty
  <1>2. /\ ~Idle /\ At("empty") /\ call.pc = "empty" /\ Busy /\ Typed /\ D.alloc
        /\ call' = [call EXCEPT !.pc = Writing, !.free = D.bufsize]
        /\ UNCHANGED <<jpegBuf, jpegSize>>
    BY DEF Empty, At, IInv, Busy
  <1>3. /\ call \in CallRecord /\ H \in Handles /\ S \in Slots /\ D = dest[H]
        /\ D \in [buffer : Address \cup {STATIC}, newbuffer : Address \cup {STATIC, NULL},
                  bufsize : Nat, alloc : BOOLEAN]
        /\ call.free \in Int /\ call.written \in Nat
    BY <1>2, HeadSlot, CallFields
  <1>4. a \in Address /\ a \notin DOMAIN heap /\ a # NULL /\ a # STATIC
    BY GivenIsNew DEF Address, NULL, STATIC
  <1>5. /\ call.started /\ D.buffer = D.newbuffer /\ D.buffer \in DOMAIN heap
        /\ D.alloc = ~call.noRealloc /\ D.buffer # STATIC /\ D.buffer # NULL
    <2>1. /\ call.started /\ D.buffer = D.newbuffer /\ D.buffer \in DOMAIN heap
          /\ D.alloc = ~call.noRealloc
      BY <1>2 DEF IInv, Course
    <2>2. D.buffer \in Address
      BY <1>2, <2>1 DEF Typed
    <2> QED
      BY <2>1, <2>2 DEF Address, STATIC, NULL
  <1>6. /\ call.free = D.bufsize - call.written /\ call.free >= 0
        /\ D.bufsize > HEADER /\ D.bufsize \in Nat /\ 2 * D.bufsize \in Nat
    BY <1>2, <1>3, <1>5 DEF IInv, Counted
  <1>7. call' = [handle |-> call.handle, slots |-> call.slots, noRealloc |-> call.noRealloc,
                 pc |-> "write", started |-> call.started, free |-> D.bufsize,
                 written |-> call.written]
    BY <1>2, <1>3, <1>5 DEF Writing, CallRecord
  <1>8. call' \in CallRecord
    <2>1. D.bufsize \in Int
      BY <1>6
    <2> QED
      BY <1>3, <1>7, <2>1, CallFields DEF CallRecord
  <1>17. /\ dest'[H] = [buffer |-> a, newbuffer |-> a, bufsize |-> 2 * D.bufsize, alloc |-> D.alloc]
         /\ \A h \in Handles : h # H => dest'[h] = dest[h]
         /\ dest' \in [Handles -> [buffer : Address \cup {STATIC}, newbuffer : Address \cup {STATIC, NULL},
                                  bufsize : Nat, alloc : BOOLEAN]]
    <2>1. dest'[H] = [buffer |-> a, newbuffer |-> a, bufsize |-> 2 * D.bufsize, alloc |-> D.alloc]
      BY <1>1, <1>2, <1>3 DEF Typed
    <2>2. \A h \in Handles : h # H => dest'[h] = dest[h]
      BY <1>1, <1>2 DEF Typed
    <2>3. dest' \in [Handles -> [buffer : Address \cup {STATIC}, newbuffer : Address \cup {STATIC, NULL},
                                 bufsize : Nat, alloc : BOOLEAN]]
      BY <1>1, <1>2, <1>3, <1>4, <1>6 DEF Typed
    <2> QED
      BY <2>1, <2>2, <2>3
  <1>9. /\ ~Idle' /\ H' = H /\ S' = S /\ call.slots # <<>>
        /\ D' = [buffer |-> a, newbuffer |-> a, bufsize |-> 2 * D.bufsize, alloc |-> D.alloc]
    <2>1. ~Idle' /\ H' = H /\ S' = S /\ call.slots # <<>> /\ D' = dest'[H]
      BY <1>2, <1>3, <1>7, <1>8, SameCall
    <2> QED
      BY <1>3, <1>17, <2>1
  <1>10. /\ DOMAIN heap' = (DOMAIN heap \ {D.buffer}) \cup {a}
         /\ \A x \in DOMAIN heap' : heap'[x] \in Nat
    BY <1>1, <1>2, <1>4, <1>5, <1>6 DEF With, Without, Typed
  <1>11. Typed'
    BY <1>2, <1>4, <1>7, <1>8, <1>9, <1>10, <1>17 DEF Typed
  <1>12. /\ \A t \in Slots : Own(t) = IF t = S THEN D.buffer ELSE jpegBuf[t]
         /\ \A t \in Slots : Own(t)' = IF t = S THEN a ELSE jpegBuf[t]
    BY <1>2, <1>5, <1>7, <1>9 DEF Own, Held
  <1>13. Owned'
    <2>1. \A t \in Slots : Own(t)' = IF t = S THEN a ELSE Own(t)
      BY <1>12
    <2>2. /\ DOMAIN heap = {Own(t) : t \in Slots} \ {NULL}
          /\ \A t, u \in Slots : t # u /\ Own(t) # NULL => Own(t) # Own(u)
          /\ Own(S) = D.buffer
      BY <1>3, <1>12 DEF IInv, Owned
    <2>3. DOMAIN heap' = {Own(t)' : t \in Slots} \ {NULL}
      BY <1>3, <1>4, <1>5, <1>10, <2>1, <2>2
    <2>4. \A t \in Slots : Own(t) # a
      BY <1>4, <2>2
    <2>5. \A t, u \in Slots : t # u /\ Own(t)' # NULL => Own(t)' # Own(u)'
      BY <1>3, <2>1, <2>2, <2>4
    <2> QED
      BY <2>3, <2>5 DEF Owned
  <1>14. Course'
    <2>1. ~At("start")' /\ ~At("mem_dest")' /\ call'.started /\ call'.noRealloc = call.noRealloc
      BY <1>5, <1>7 DEF At
    <2>2. /\ D'.buffer = D'.newbuffer /\ D'.buffer \in DOMAIN heap' /\ D'.buffer # STATIC
          /\ D'.alloc = ~call'.noRealloc /\ D'.alloc
      BY <1>2, <1>4, <1>5, <1>9, <1>10, <2>1
    <2> QED
      BY <2>1, <2>2 DEF Course
  <1>15. Counted'
    <2>1. call'.free = D'.bufsize - call'.written /\ call'.free > 0
      <3>1. call.free = 0
        BY <1>2 DEF IInv, Counted
      <3> QED
        BY <1>3, <1>6, <1>7, <1>9, <3>1, Sizes
    <2>2. \A h \in Handles : dest'[h].buffer # STATIC => dest'[h].bufsize > HEADER
      <3>1. 2 * D.bufsize > HEADER
        BY <1>6, Sizes
      <3> QED
        BY <1>17, <3>1 DEF IInv, Counted
    <2>3. call'.free >= 0
      BY <1>6, <1>7
    <2>4. ~At("empty")'
      BY <1>7 DEF At
    <2> QED
      BY <2>1, <2>2, <2>3, <2>4 DEF Counted
  <1>16. Roomy'
    <2>1. call'.slots = call.slots /\ ~At("mem_dest")'
      BY <1>7 DEF At
    <2>2. jpegBuf' = jpegBuf /\ jpegSize' = jpegSize
      BY <1>2
    <2>3. ~Idle
      BY <1>2
    <2> QED
      BY <2>1, <2>2, <2>3 DEF IInv, Roomy
  <1> QED
    BY <1>11, <1>13, <1>14, <1>15, <1>16 DEF IInv

-----------------------------------------------------------------------------
(* The ends of the calls.                                                  *)

\* What the application is told is what the call answers for.
LEMMA TermDestinationTells ==
  ASSUME IInv, ~Idle, call.started, TermDestination
  PROVE  /\ \A t \in Slots : jpegBuf'[t] = Own(t)
         /\ jpegBuf' \in [Slots -> Address \cup {NULL}] /\ jpegSize' \in [Slots -> Nat]
         /\ \A t \in Slots : t # S => jpegBuf'[t] = jpegBuf[t] /\ jpegSize'[t] = jpegSize[t]
         /\ jpegSize'[S] = call.written
         /\ jpegBuf'[S] = D.buffer
         /\ ~D.alloc => jpegBuf' = jpegBuf
  <1>1. /\ Typed /\ Held
        /\ call \in CallRecord /\ H \in Handles /\ S \in Slots /\ D = dest[H]
        /\ D \in [buffer : Address \cup {STATIC}, newbuffer : Address \cup {STATIC, NULL},
                  bufsize : Nat, alloc : BOOLEAN]
        /\ call.free \in Int /\ call.written \in Nat
    BY HeadSlot, CallFields DEF IInv, Held
  <1>2. D.bufsize - call.free = call.written
    <2>1. call.free = D.bufsize - call.written /\ D.bufsize \in Int
      BY <1>1 DEF IInv, Counted
    <2> QED
      BY <1>1, <2>1
  <1>3. jpegSize' = [jpegSize EXCEPT ![S] = call.written]
    BY <1>2 DEF TermDestination
  <1>4. CASE D.alloc
    <2>1. jpegBuf' = [jpegBuf EXCEPT ![S] = D.buffer]
      BY <1>4 DEF TermDestination
    <2>2. Own(S) = D.buffer /\ D.buffer # STATIC
      BY <1>1, <1>4 DEF Own, IInv, Course
    <2> QED
      BY <1>1, <1>3, <1>4, <2>1, <2>2 DEF Typed, Own
  <1>5. CASE ~D.alloc
    <2>1. jpegBuf' = jpegBuf
      BY <1>5 DEF TermDestination
    <2>2. \A t \in Slots : Own(t) = jpegBuf[t]
      BY <1>5 DEF Own
    <2>3. D.buffer = jpegBuf[S]
      BY <1>1, <1>5 DEF IInv, Course
    <2> QED
      BY <1>1, <1>3, <1>5, <2>1, <2>2, <2>3 DEF Typed
  <1> QED
    BY <1>4, <1>5

\* The call ends: everything is in the application's hands.
LEMMA CallEnds ==
  ASSUME IInv, call' = NoCall, UNCHANGED <<heap, dest>>,
         \A t \in Slots : jpegBuf'[t] = Own(t),
         jpegBuf' \in [Slots -> Address \cup {NULL}], jpegSize' \in [Slots -> Nat]
  PROVE  IInv'
  <1>1. Typed'
    BY DEF IInv, Typed
  <1>2. Owned'
    <2>1. \A t \in Slots : Own(t)' = Own(t)
      BY DEF Own, Held, Idle
    <2> QED
      BY <2>1 DEF IInv, Owned
  <1>3. Course' /\ Counted' /\ Roomy'
    BY DEF IInv, Course, Counted, Roomy, Busy, Held, At, Idle
  <1> QED
    BY <1>1, <1>2, <1>3 DEF IInv

LEMMA BailoutKeeps == IInv /\ Bailout => IInv'
  <1> SUFFICES ASSUME IInv, Bailout PROVE IInv'
    OBVIOUS
  <1>1. ~Idle /\ call' = NoCall /\ UNCHANGED <<heap, dest>>
    BY DEF Bailout, At
  <1>2. CASE call.started /\ TermDestination
    BY <1>1, <1>2, TermDestinationTells, CallEnds
  <1>3. CASE (~call.started \/ call.noRealloc) /\ UNCHANGED <<jpegBuf, jpegSize>>
    <2>1. \A t \in Slots : jpegBuf'[t] = Own(t)
      <3>1. CASE ~call.started
        BY <1>3, <3>1 DEF Own, Held
      <3>2. CASE call.started /\ call.noRealloc
        <4>1. ~D.alloc
          BY <1>1, <3>2 DEF IInv, Course, Held
        <4> QED
          BY <1>3, <4>1 DEF Own
      <3> QED
        BY <1>3, <3>1, <3>2
    <2> QED
      BY <1>1, <1>3, <2>1, CallEnds DEF IInv, Typed
  <1> QED
    BY <1>2, <1>3 DEF Bailout

LEMMA FinishKeeps == IInv /\ Finish => IInv'
  <1> SUFFICES ASSUME IInv, Finish PROVE IInv'
    OBVIOUS
  <1>1. /\ ~Idle /\ call.started /\ Typed /\ TermDestination /\ UNCHANGED <<heap, dest>>
    BY DEF Finish, At, IInv, Course
  <1>2. /\ \A t \in Slots : jpegBuf'[t] = Own(t)
        /\ jpegBuf' \in [Slots -> Address \cup {NULL}] /\ jpegSize' \in [Slots -> Nat]
        /\ \A t \in Slots : t # S => jpegBuf'[t] = jpegBuf[t] /\ jpegSize'[t] = jpegSize[t]
    BY <1>1, TermDestinationTells
  <1>3. CASE call' = NoCall
    BY <1>1, <1>2, <1>3, CallEnds
  <1>4. CASE /\ Len(call.slots) # 1
             /\ call' = [call EXCEPT !.slots = Tail(@), !.pc = "mem_dest", !.started = FALSE]
    <2>1. /\ call \in CallRecord /\ S = call.slots[1] /\ S \in Slots
          /\ call.slots \in Seq(Slots) /\ call.slots # <<>>
      BY <1>1, HeadSlot
    <2> DEFINE rest == Tail(call.slots)
    <2>2. /\ Len(call.slots) \in Nat /\ Len(call.slots) > 1
          /\ DOMAIN call.slots = 1..Len(call.slots)
          /\ rest \in Seq(Slots) /\ Len(rest) = Len(call.slots) - 1
          /\ DOMAIN rest = 1..Len(rest)
      <3>1. Len(call.slots) \in Nat /\ DOMAIN call.slots = 1..Len(call.slots)
        BY <2>1, LenProperties
      <3>2. Len(call.slots) # 0
        BY <2>1, EmptySeq
      <3>3. Len(call.slots) > 1
        <4> DEFINE n == Len(call.slots)
        <4>1. n # 1
          BY <1>4, Zenon
        <4>2. n \in Nat /\ n # 0
          BY <3>1, <3>2
        <4> HIDE DEF n
        <4>3. n > 1
          BY <4>1, <4>2
        <4> QED
          BY <4>3 DEF n
      <3>4. rest \in Seq(Slots) /\ Len(rest) = Len(call.slots) - 1
        BY <2>1, HeadTailProperties
      <3>5. DOMAIN rest = 1..Len(rest)
        BY <3>4, LenProperties
      <3> QED
        BY <3>1, <3>3, <3>4, <3>5
    <2>3. \A i \in DOMAIN rest : /\ rest[i] = call.slots[i + 1] /\ rest[i] \in Slots
                                 /\ i + 1 \in DOMAIN call.slots /\ i + 1 > 1
      BY <2>1, <2>2
    <2>4. rest # <<>>
      <3>1. Len(rest) = Len(call.slots) - 1 /\ Len(call.slots) > 1 /\ Len(call.slots) \in Nat
        BY <2>2
      <3> HIDE DEF rest
      <3> DEFINE n == Len(call.slots)
                 m == Len(rest)
      <3>2. m = n - 1 /\ n > 1 /\ n \in Nat
        BY <3>1
      <3> HIDE DEF n, m
      <3>3. m # 0
        BY <3>2
      <3> QED
        BY <3>3, EmptySeq DEF m
    <2>5. call' = [handle |-> call.handle, slots |-> rest, noRealloc |-> call.noRealloc,
                   pc |-> "mem_dest", started |-> FALSE, free |-> call.free,
                   written |-> call.written]
      BY <1>4, <2>1 DEF CallRecord
    <2> HIDE DEF rest
    <2>6. call' \in CallRecord
      BY <2>1, <2>2, <2>5, CallFields DEF CallRecord
    <2>7. ~Idle' /\ ~Held' /\ ~Busy' /\ At("mem_dest")' /\ ~At("start")'
          /\ ~At("write")' /\ ~At("empty")' /\ call'.slots = rest /\ ~call'.started
      BY <2>5, <2>6, CallIsRecord DEF Idle, Held, Busy, At
    <2>8. Typed'
      BY <1>1, <1>2, <2>4, <2>5, <2>6 DEF Typed
    <2>9. Owned'
      <3>1. \A t \in Slots : Own(t)' = Own(t)
        BY <1>2, <2>7 DEF Own
      <3> QED
        BY <1>1, <3>1 DEF IInv, Owned
    <2>10. Course' /\ Counted'
      BY <1>1, <2>7 DEF IInv, Course, Counted
    <2>11. Roomy'
      <3>1. \A i, j \in DOMAIN rest : rest[i] = rest[j] => i = j
        <4> SUFFICES ASSUME NEW i \in DOMAIN rest, NEW j \in DOMAIN rest, rest[i] = rest[j]
                     PROVE  i = j
          OBVIOUS
        <4>1. call.slots[i + 1] = call.slots[j + 1]
          BY <2>3
        <4>2. i + 1 = j + 1
          BY <1>1, <2>3, <4>1 DEF IInv, Roomy
        <4>3. i \in Int /\ j \in Int
          BY <2>2
        <4> QED
          BY <4>2, <4>3
      <3>2. ASSUME NEW i \in DOMAIN rest, jpegBuf'[rest[i]] # NULL
            PROVE  jpegSize'[rest[i]] > HEADER
        <4>1. rest[i] # S
          <5>1. 1 \in DOMAIN call.slots /\ i + 1 # 1
            BY <2>2, <2>3
          <5> QED
            BY <1>1, <2>1, <2>3, <5>1 DEF IInv, Roomy
        <4>2. jpegBuf'[rest[i]] = jpegBuf[rest[i]] /\ jpegSize'[rest[i]] = jpegSize[rest[i]]
          BY <1>2, <2>3, <4>1
        <4> QED
          BY <1>1, <2>3, <3>2, <4>2 DEF IInv, Roomy
      <3> QED
        BY <2>7, <3>1, <3>2 DEF Roomy
    <2> QED
      BY <2>8, <2>9, <2>10, <2>11 DEF IInv
  <1> QED
    BY <1>3, <1>4 DEF Finish

-----------------------------------------------------------------------------

LEMMA InitOwns == Init => IInv
  <1> SUFFICES ASSUME Init PROVE IInv
    OBVIOUS
  <1>1. Typed
    <2>1. DOMAIN heap = {}
      BY DEF Init
    <2>2. dest \in [Handles -> [buffer : Address \cup {STATIC}, newbuffer : Address \cup {STATIC, NULL},
                                bufsize : Nat, alloc : BOOLEAN]]
      BY DEF Init
    <2> QED
      BY <2>1, <2>2 DEF Init, Typed
  <1>2. Owned
    BY DEF Init, Owned, Own, Held, Idle
  <1>3. Course /\ Counted /\ Roomy
    BY DEF Init, Course, Counted, Roomy, Busy, Held, At, Idle
  <1> QED
    BY <1>1, <1>2, <1>3 DEF IInv

LEMMA StepOwns ==
  ASSUME ~SmallBuffers, DistinctSlots, IInv, [Next]_vars
  PROVE  IInv'
  <1>1. CASE UNCHANGED vars
    <2>1. heap' = heap /\ jpegBuf' = jpegBuf /\ jpegSize' = jpegSize /\ dest' = dest /\ call' = call
      BY <1>1 DEF vars
    <2>2. /\ Idle' = Idle /\ H' = H /\ S' = S /\ D' = D
          /\ Held' = Held /\ \A pc : At(pc)' = At(pc)
      BY <2>1 DEF Idle, H, S, D, Held, At
    <2>3. Busy' = Busy /\ \A s : Own(s)' = Own(s)
      BY <2>1, <2>2 DEF Busy, Own
    <2>4. Typed'
      BY <2>1 DEF IInv, Typed
    <2>5. Owned'
      BY <2>1, <2>3 DEF IInv, Owned
    <2>6. Course'
      BY <2>1, <2>2, <2>3 DEF IInv, Course
    <2>7. Counted'
      BY <2>1, <2>2, <2>3 DEF IInv, Counted
    <2>8. Roomy'
      BY <2>1, <2>2, <2>3 DEF IInv, Roomy
    <2> QED
      BY <2>4, <2>5, <2>6, <2>7, <2>8 DEF IInv
  <1>2. CASE App
    BY <1>2, PreallocKeeps, ReleaseKeeps, CallCompressKeeps DEF App
  <1>3. CASE Lib
    BY <1>3, TakeBufferKeeps, MakeBufferKeeps, MakeBufferFailsKeeps, NoBufferKeeps, WriteKeeps,
       StartedKeeps, EmptyKeeps, FailuresKeep, FinishKeeps, BailoutKeeps
       DEF Lib, WriteHeader, WriteByte
  <1> QED
    BY <1>1, <1>2, <1>3 DEF Next

\* Every buffer is the application's after a call, whatever failed in it
\* (tj3Compress, tj3Transform).
THEOREM BuffersReturned ==
  ASSUME ~SmallBuffers, DistinctSlots
  PROVE  Spec => []AppOwnsBuffers
  <1>1. IInv => AppOwnsBuffers
    BY DEF IInv, Owned, Own, Held, AppOwnsBuffers
  <1>2. IInv /\ [Next]_vars => IInv'
    BY StepOwns
  <1> QED
    BY <1>1, <1>2, InitOwns, PTL DEF Spec

\* The block that is written to, and freed when it is too small, is a live one
\* (empty_mem_output_buffer).
THEOREM WritesToLiveBlock ==
  ASSUME ~SmallBuffers, DistinctSlots
  PROVE  Spec => []BufferLive
  <1>1. IInv => BufferLive
    BY DEF IInv, Course, Busy, BufferLive
  <1>2. IInv /\ [Next]_vars => IInv'
    BY StepOwns
  <1> QED
    BY <1>1, <1>2, InitOwns, PTL DEF Spec

\* With TJPARAM_NOREALLOC no step of a call touches the application's blocks.
THEOREM FixedBuffersStay ==
  ASSUME ~SmallBuffers, DistinctSlots
  PROVE  Spec => FixedStays
  <1>1. ASSUME IInv, [Next]_vars, ~Idle, call.noRealloc
        PROVE  UNCHANGED jpegBuf /\ DOMAIN heap' = DOMAIN heap
    <2>1. CASE TakeBuffer \/ NoBuffer \/ WriteHeader \/ Started \/ WriteByte \/ EmptyFails
               \/ OtherError \/ Overrun \/ UNCHANGED vars
      BY <2>1 DEF TakeBuffer, NoBuffer, WriteHeader, Started, WriteByte, Write, EmptyFails,
         OtherError, Overrun, vars
    <2>2. ~MakeBuffer /\ ~MakeBufferFails /\ ~App
      BY <1>1 DEF MakeBuffer, MakeBufferFails, App, Prealloc, Release, CallCompress
    <2>3. ~Empty
      BY <1>1 DEF Empty, IInv, Course, Busy
    <2>4. call.started => ~D.alloc
      BY <1>1 DEF IInv, Course, Held
    <2>5. CASE Finish
      <3>1. call.started /\ TermDestination /\ heap' = heap
        BY <1>1, <2>5 DEF Finish, IInv, Course
      <3> QED
        BY <1>1, <2>4, <3>1, TermDestinationTells
    <2>6. CASE Bailout
      BY <1>1, <2>4, <2>6, TermDestinationTells DEF Bailout
    <2> QED
      BY <1>1, <2>1, <2>2, <2>3, <2>5, <2>6 DEF Next, Lib
  <1>2. IInv /\ [Next]_vars => IInv'
    BY StepOwns
  <1>3. IInv /\ [Next]_vars =>
          [~Idle /\ call.noRealloc => UNCHANGED jpegBuf /\ DOMAIN heap' = DOMAIN heap]_vars
    BY <1>1
  <1> QED
    BY <1>2, <1>3, InitOwns, PTL DEF Spec, FixedStays

-----------------------------------------------------------------------------
(* Sizes.                                                                  *)

\* The block that a slot of the application names outside a started call.
Named(s) == ~(Held /\ s = S /\ D.alloc) /\ jpegBuf[s] # NULL

\* An instance that is not outdated knows the size of a live block.
DestReal ==
  \A h \in Handles : h \notin outdated /\ dest[h].buffer # STATIC =>
    dest[h].buffer \in DOMAIN heap /\ dest[h].bufsize <= heap[dest[h].buffer]

\* The application knows no more of a block than there is of it.
AppReal == \A s \in Slots : Named(s) => jpegSize[s] <= heap[jpegBuf[s]]

\* What has been written fits.
Fitted == Busy \/ Held => call.written <= heap[D.buffer]

OverrunKnown == At("overrun") => H \in outdated

Real == DestReal /\ AppReal /\ Fitted /\ OverrunKnown

\* A slot that names a block names a live one, and no other slot names it.
LEMMA NamedLive ==
  ASSUME IInv, NEW s \in Slots, Named(s)
  PROVE  jpegBuf[s] = Own(s) /\ jpegBuf[s] \in DOMAIN heap
  BY DEF IInv, Owned, Own, Named

\* So does the call under way.
LEMMA CallLive ==
  ASSUME IInv, Busy \/ Held
  PROVE  /\ ~Idle /\ H \in Handles /\ S \in Slots /\ D = dest[H]
         /\ D.buffer \in DOMAIN heap /\ D.buffer # STATIC
         /\ heap[D.buffer] \in Nat /\ D.bufsize \in Nat /\ D.buffer \in Address
         /\ call \in CallRecord /\ call.free \in Int /\ call.written \in Nat
  <1>1. ~Idle /\ Typed
    BY DEF Busy, Held, At, IInv
  <1>2. /\ H \in Handles /\ S \in Slots /\ D = dest[H] /\ call \in CallRecord
        /\ D.buffer \in Address \cup {STATIC} /\ D.bufsize \in Nat
    BY <1>1, HeadSlot
  <1>3. D.buffer \in DOMAIN heap
    <2>1. CASE Busy
      BY <2>1 DEF IInv, Course
    <2>2. CASE Held
      <3>1. D.buffer = Own(S)
        BY <2>2 DEF Own, IInv, Course
      <3>2. D.buffer # STATIC /\ D.buffer # NULL
        BY <1>2, <2>2 DEF IInv, Course, Address, NULL
      <3> QED
        BY <1>2, <3>1, <3>2 DEF IInv, Owned
    <2> QED
      BY <2>1, <2>2
  <1>4. D.buffer \in Address /\ D.buffer # STATIC /\ heap[D.buffer] \in Nat
    BY <1>1, <1>3 DEF Typed, Address, STATIC
  <1> QED
    BY <1>1, <1>2, <1>3, <1>4, CallFields

LEMMA PreallocReal ==
  ASSUME IInv, Real, Prealloc
  PROVE  Real'
  <1>1. PICK s \in Slots, size \in AllocSizes, a \in Given :
          /\ jpegBuf[s] = NULL
          /\ heap' = With(heap, a, size)
          /\ jpegBuf' = [jpegBuf EXCEPT ![s] = a]
          /\ jpegSize' = [jpegSize EXCEPT ![s] = size]
    BY DEF Prealloc
  <1>2. /\ Typed /\ call = NoCall /\ call' = NoCall /\ dest' = dest /\ outdated' = outdated
        /\ ~Busy' /\ ~Held' /\ ~At("overrun")' /\ ~Held
    BY DEF Prealloc, Idle, IInv, Busy, Held, At
  <1>3. a \in Address /\ a \notin DOMAIN heap /\ size \in Nat
    BY GivenIsNew, Sizes
  <1>4. /\ DOMAIN heap' = DOMAIN heap \cup {a} /\ heap'[a] = size
        /\ \A x \in DOMAIN heap : heap'[x] = heap[x]
    BY <1>1, <1>3 DEF With
  <1>5. DestReal'
    BY <1>2, <1>4 DEF Real, DestReal
  <1>6. ASSUME NEW t \in Slots, Named(t)'
        PROVE  jpegSize'[t] <= heap'[jpegBuf'[t]]
    <2>1. CASE t = s
      BY <1>1, <1>2, <1>3, <1>4, <2>1 DEF Typed
    <2>2. CASE t # s
      <3>1. jpegBuf'[t] = jpegBuf[t] /\ jpegSize'[t] = jpegSize[t]
        BY <1>1, <1>2, <2>2 DEF Typed
      <3>2. Named(t)
        BY <1>2, <1>6, <3>1 DEF Named
      <3> QED
        BY <1>4, <3>1, <3>2, NamedLive DEF Real, AppReal
    <2> QED
      BY <2>1, <2>2
  <1> QED
    BY <1>2, <1>5, <1>6 DEF Real, AppReal, Fitted, OverrunKnown

LEMMA ReleaseReal ==
  ASSUME IInv, Real, Release
  PROVE  Real'
  <1>1. PICK s \in Slots :
          /\ heap' = Without(heap, jpegBuf[s])
          /\ jpegBuf' = [jpegBuf EXCEPT ![s] = NULL]
          /\ jpegSize' = [jpegSize EXCEPT ![s] = 0]
          /\ outdated' = outdated \cup Remembering(jpegBuf[s])
    BY DEF Release
  <1>2. /\ Typed /\ call = NoCall /\ call' = NoCall /\ dest' = dest
        /\ ~Busy' /\ ~Held' /\ ~At("overrun")' /\ ~Held
    BY DEF Release, Idle, IInv, Busy, Held, At
  <1>3. /\ DOMAIN heap' = DOMAIN heap \ {jpegBuf[s]}
        /\ \A x \in DOMAIN heap' : heap'[x] = heap[x]
    BY <1>1 DEF Without
  <1>4. DestReal'
    BY <1>1, <1>2, <1>3 DEF Real, DestReal, Remembering
  <1>5. ASSUME NEW t \in Slots, Named(t)'
        PROVE  jpegSize'[t] <= heap'[jpegBuf'[t]]
    <2>1. t # s /\ jpegBuf'[t] = jpegBuf[t] /\ jpegSize'[t] = jpegSize[t]
      BY <1>1, <1>2, <1>5 DEF Named, Typed
    <2>2. Named(t)
      BY <1>2, <1>5, <2>1 DEF Named
    <2>3. jpegBuf[t] # jpegBuf[s]
      <3>1. Own(s) = jpegBuf[s] /\ Own(t) = jpegBuf[t] /\ jpegBuf[t] # NULL
        BY <1>2, <2>2 DEF Own, Named
      <3> QED
        BY <2>1, <3>1 DEF IInv, Owned
    <2>4. jpegBuf[t] \in DOMAIN heap'
      BY <1>3, <2>2, <2>3, NamedLive
    <2> QED
      BY <1>3, <2>1, <2>2, <2>4 DEF Real, AppReal
  <1> QED
    BY <1>2, <1>4, <1>5 DEF Real, AppReal, Fitted, OverrunKnown

\* Steps that leave the heap, the destinations and the application's pointers.
LEMMA QuietReal ==
  ASSUME IInv, Real, UNCHANGED <<heap, jpegBuf, jpegSize, outdated>>,
         \A h \in Handles : dest'[h].buffer = dest[h].buffer /\ dest'[h].bufsize = dest[h].bufsize,
         \A s \in Slots : Named(s)' => Named(s),
         Fitted', OverrunKnown'
  PROVE  Real'
  <1>1. DestReal'
    BY DEF Real, DestReal
  <1>2. AppReal'
    BY DEF Real, AppReal
  <1> QED
    BY <1>1, <1>2 DEF Real

LEMMA CallCompressReal ==
  ASSUME IInv, Real, CallCompress
  PROVE  Real'
  <1>1. /\ UNCHANGED <<heap, jpegBuf, jpegSize, dest, outdated>> /\ Idle
        /\ call'.pc = "mem_dest" /\ ~call'.started
    BY DEF CallCompress
  <1>2. ~Held /\ ~Held' /\ ~Busy' /\ ~At("overrun")'
    BY <1>1 DEF Held, Busy, At
  <1>3. \A s \in Slots : Named(s)' => Named(s)
    BY <1>1, <1>2 DEF Named
  <1> QED
    BY <1>1, <1>2, <1>3, QuietReal DEF Fitted, OverrunKnown

LEMMA TakeBufferReal ==
  ASSUME IInv, Real, TakeBuffer
  PROVE  Real'
  <1> DEFINE alloc == ~call.noRealloc
             size == IF Reused(alloc) THEN D.bufsize ELSE jpegSize[S]
             new == [buffer |-> jpegBuf[S], newbuffer |-> jpegBuf[S],
                     bufsize |-> size, alloc |-> alloc]
  <1>1. /\ ~Idle /\ Typed /\ At("mem_dest") /\ UNCHANGED <<heap, jpegBuf, jpegSize>>
        /\ dest' = [dest EXCEPT ![H] = new] /\ ~NeedsBuffer(alloc)
        /\ outdated' = IF Reused(alloc) THEN outdated ELSE outdated \ {H}
        /\ call' = [call EXCEPT !.pc = "start", !.free = size, !.written = 0]
    BY DEF TakeBuffer, At, IInv
  <1>2. H \in Handles /\ S \in Slots /\ D = dest[H] /\ call \in CallRecord
    BY <1>1, HeadSlot
  <1>3. ~call.started /\ ~Held /\ jpegBuf[S] # NULL /\ Named(S)
    BY <1>1 DEF IInv, Course, Held, NeedsBuffer, Named
  <1>4. jpegBuf[S] \in DOMAIN heap /\ jpegSize[S] <= heap[jpegBuf[S]] /\ heap[jpegBuf[S]] \in Nat
    BY <1>1, <1>2, <1>3, NamedLive DEF Real, AppReal, Typed
  <1>5. jpegBuf[S] # STATIC
    BY <1>1, <1>4 DEF Typed, Address, STATIC
  <1>6. H \notin outdated' => size <= heap[jpegBuf[S]]
    <2>1. CASE Reused(alloc)
      BY <1>1, <1>2, <1>5, <2>1 DEF Reused, Real, DestReal
    <2>2. CASE ~Reused(alloc)
      BY <1>4, <2>2
    <2> QED
      BY <2>1, <2>2
  <1> HIDE DEF size, alloc
  <1>7. \A h \in Handles : dest'[h] = IF h = H THEN new ELSE dest[h]
    BY <1>1, <1>2 DEF Typed
  <1>8. DestReal'
    <2>1. \A h \in Handles : h # H /\ h \notin outdated' => h \notin outdated
      BY <1>1
    <2> QED
      BY <1>1, <1>4, <1>6, <1>7, <2>1 DEF Real, DestReal
  <1>9. call'.pc = "start" /\ call'.started = call.started /\ call'.written = 0
        /\ call'.handle = call.handle
    BY <1>1, <1>2 DEF CallRecord
  <1>10. ~Held' /\ ~At("overrun")'
    BY <1>3, <1>9 DEF Held, At
  <1>11. AppReal'
    BY <1>1, <1>3, <1>10 DEF Real, AppReal, Named
  <1>12. Fitted'
    <2>1. D'.buffer = jpegBuf[S]
      BY <1>2, <1>7, <1>9 DEF D, H
    <2> QED
      BY <1>1, <1>4, <1>9, <2>1 DEF Fitted
  <1> QED
    BY <1>8, <1>10, <1>11, <1>12 DEF Real, OverrunKnown

LEMMA MakeBufferReal ==
  ASSUME IInv, Real, MakeBuffer
  PROVE  Real'
  <1>1. PICK a \in Given :
          /\ heap' = With(heap, a, OUTPUT_BUF_SIZE)
          /\ jpegBuf' = [jpegBuf EXCEPT ![S] = a]
          /\ jpegSize' = [jpegSize EXCEPT ![S] = OUTPUT_BUF_SIZE]
          /\ dest' = [dest EXCEPT ![H] = [buffer |-> a, newbuffer |-> a,
                                          bufsize |-> OUTPUT_BUF_SIZE, alloc |-> TRUE]]
    BY DEF MakeBuffer
  <1>2. /\ ~Idle /\ Typed /\ At("mem_dest") /\ outdated' = outdated \ {H}
        /\ call' = [call EXCEPT !.pc = "start", !.free = OUTPUT_BUF_SIZE, !.written = 0]
    BY DEF MakeBuffer, At, IInv
  <1>3. H \in Handles /\ S \in Slots /\ D = dest[H] /\ call \in CallRecord
    BY <1>2, HeadSlot
  <1>4. ~call.started /\ ~Held
    BY <1>2 DEF IInv, Course, Held
  <1>5. a \in Address /\ a \notin DOMAIN heap
    BY GivenIsNew
  <1>6. /\ DOMAIN heap' = DOMAIN heap \cup {a} /\ heap'[a] = OUTPUT_BUF_SIZE
        /\ \A x \in DOMAIN heap : heap'[x] = heap[x]
    BY <1>1, <1>5 DEF With
  <1>7. /\ dest'[H].buffer = a /\ dest'[H].bufsize = OUTPUT_BUF_SIZE
        /\ \A h \in Handles : h # H => dest'[h] = dest[h]
    BY <1>1, <1>2, <1>3 DEF Typed
  <1>8. OUTPUT_BUF_SIZE \in Nat
    BY Sizes
  <1>9. DestReal'
    <2>1. ASSUME NEW h \in Handles, h \notin outdated', dest'[h].buffer # STATIC
          PROVE  dest'[h].buffer \in DOMAIN heap' /\ dest'[h].bufsize <= heap'[dest'[h].buffer]
      <3>1. CASE h = H
        BY <1>6, <1>7, <1>8, <3>1
      <3>2. CASE h # H
        BY <1>2, <1>6, <1>7, <2>1, <3>2 DEF Real, DestReal
      <3> QED
        BY <3>1, <3>2
    <2> QED
      BY <2>1 DEF DestReal
  <1>10. call'.pc = "start" /\ call'.started = call.started /\ call'.written = 0
         /\ call'.handle = call.handle
    BY <1>2, <1>3 DEF CallRecord
  <1>11. ~Held' /\ ~At("overrun")'
    BY <1>4, <1>10 DEF Held, At
  <1>12. AppReal'
    <2>1. ASSUME NEW t \in Slots, Named(t)'
          PROVE  jpegSize'[t] <= heap'[jpegBuf'[t]]
      <3>1. CASE t = S
        BY <1>1, <1>2, <1>6, <1>8, <3>1 DEF Typed
      <3>2. CASE t # S
        <4>1. jpegBuf'[t] = jpegBuf[t] /\ jpegSize'[t] = jpegSize[t]
          BY <1>1, <1>2, <3>2 DEF Typed
        <4>2. Named(t)
          BY <1>4, <2>1, <4>1 DEF Named
        <4> QED
          BY <1>6, <4>1, <4>2, NamedLive DEF Real, AppReal
      <3> QED
        BY <3>1, <3>2
    <2> QED
      BY <2>1 DEF AppReal
  <1>13. Fitted'
    <2>1. D'.buffer = a
      BY <1>3, <1>7, <1>10 DEF D, H
    <2> QED
      BY <1>6, <1>8, <1>10, <2>1 DEF Fitted
  <1> QED
    BY <1>9, <1>11, <1>12, <1>13 DEF Real, OverrunKnown

\* Steps that end in the error exit.
LEMMA FailReal ==
  ASSUME IInv, Real, ~Idle, Fail, UNCHANGED <<heap, jpegSize, outdated>>, jpegBuf' = jpegBuf,
         \A h \in Handles : dest'[h].buffer = dest[h].buffer /\ dest'[h].bufsize = dest[h].bufsize,
         Held => dest' = dest
  PROVE  Real'
  <1>1. Typed /\ call \in CallRecord /\ H \in Handles /\ D = dest[H]
    BY HeadSlot DEF IInv
  <1>2. /\ call'.pc = "error" /\ call'.started = call.started /\ call'.written = call.written
        /\ call'.handle = call.handle /\ call'.slots = call.slots
    BY <1>1 DEF Fail, CallRecord
  <1>3. ~Busy' /\ ~At("overrun")' /\ (Held' => Held) /\ H' = H /\ S' = S
    BY <1>2 DEF Busy, At, Held, H, S
  <1>4. call' \in CallRecord
    BY <1>1, CallFields DEF Fail, CallRecord
  <1>5. Held => Held' /\ D' = D
    BY <1>1, <1>2, <1>3, <1>4, CallIsRecord DEF Held, Idle, D
  <1>6. \A s \in Slots : Named(s)' => Named(s)
    BY <1>3, <1>5 DEF Named
  <1>7. Fitted'
    BY <1>2, <1>3, <1>5 DEF Real, Fitted
  <1> QED
    BY <1>3, <1>6, <1>7, QuietReal DEF OverrunKnown

LEMMA FailuresReal ==
  ASSUME IInv, Real, MakeBufferFails \/ NoBuffer \/ EmptyFails \/ OtherError
  PROVE  Real'
  <1>1. Typed
    BY DEF IInv
  <1>2. CASE EmptyFails \/ OtherError
    BY <1>2, FailReal DEF EmptyFails, OtherError, At
  <1>3. CASE NoBuffer
    <2>1. /\ ~Idle /\ At("mem_dest") /\ Fail /\ UNCHANGED <<heap, jpegBuf, jpegSize, outdated>>
          /\ dest' = [dest EXCEPT ![H].alloc = FALSE]
      BY <1>3 DEF NoBuffer, At
    <2>2. ~Held
      BY <2>1 DEF IInv, Course, Held
    <2>3. \A h \in Handles : dest'[h].buffer = dest[h].buffer /\ dest'[h].bufsize = dest[h].bufsize
      BY <1>1, <2>1 DEF Typed
    <2> QED
      BY <2>1, <2>2, <2>3, FailReal
  <1>4. CASE MakeBufferFails
    <2>1. /\ ~Idle /\ At("mem_dest") /\ NeedsBuffer(TRUE) /\ Fail
          /\ UNCHANGED <<heap, jpegSize, outdated>>
          /\ jpegBuf' = [jpegBuf EXCEPT ![S] = NULL]
          /\ dest' = [dest EXCEPT ![H].newbuffer = NULL, ![H].alloc = TRUE]
      BY <1>4 DEF MakeBufferFails, At
    <2>2. ~Held
      BY <2>1 DEF IInv, Course, Held
    <2>3. \A h \in Handles : dest'[h].buffer = dest[h].buffer /\ dest'[h].bufsize = dest[h].bufsize
      BY <1>1, <2>1 DEF Typed
    <2>4. jpegBuf' = jpegBuf
      <3>1. jpegBuf[S] = NULL /\ S \in Slots
        BY <1>1, <2>1, NoBufferGiven, HeadSlot
      <3> QED
        BY <1>1, <2>1, <3>1 DEF Typed
    <2> QED
      BY <2>1, <2>2, <2>3, <2>4, FailReal
  <1> QED
    BY <1>2, <1>3, <1>4

LEMMA WriteReal ==
  ASSUME IInv, Real, NEW pc \in {"start", "write"}, Write(pc)
  PROVE  Real'
  <1>1. /\ ~Idle /\ Typed /\ Busy /\ call.written < heap[D.buffer]
        /\ UNCHANGED <<heap, jpegBuf, jpegSize, dest, outdated>>
        /\ call' = [call EXCEPT !.written = @ + 1, !.free = @ - 1,
                                !.pc = IF call.free = 1 THEN "empty" ELSE pc]
    BY DEF Write, More, At, IInv, Busy
  <1>2. /\ H \in Handles /\ D = dest[H] /\ call \in CallRecord
        /\ heap[D.buffer] \in Nat /\ call.written \in Nat /\ call.free \in Int
    BY <1>1, CallLive
  <1>3. /\ call'.pc \in {"start", "write", "empty"} /\ call'.started = call.started
        /\ call'.written = call.written + 1
        /\ call'.handle = call.handle /\ call'.slots = call.slots
    BY <1>1, <1>2 DEF CallRecord
  <1>4. H' = H /\ S' = S /\ D' = D /\ ~At("overrun")' /\ (Held' => Held)
    BY <1>1, <1>3 DEF H, S, D, At, Held
  <1>5. Held => Held'
    <2>1. call' = [handle |-> call.handle, slots |-> call.slots, noRealloc |-> call.noRealloc,
                   pc |-> IF call.free = 1 THEN "empty" ELSE pc, started |-> call.started,
                   free |-> call.free - 1, written |-> call.written + 1]
      BY <1>1, <1>2 DEF CallRecord
    <2>2. call.free - 1 \in Int /\ call.written + 1 \in Nat
      BY <1>2
    <2>3. call' \in CallRecord
      BY <1>2, <2>1, <2>2, CallFields DEF CallRecord
    <2> QED
      BY <1>3, <2>3, CallIsRecord DEF Held, Idle
  <1>6. \A s \in Slots : Named(s)' => Named(s)
    BY <1>1, <1>4, <1>5 DEF Named
  <1>7. Fitted'
    BY <1>1, <1>2, <1>3, <1>4 DEF Fitted
  <1> QED
    BY <1>1, <1>4, <1>6, <1>7, QuietReal DEF OverrunKnown

LEMMA StartedReal ==
  ASSUME IInv, Real, Started
  PROVE  Real'
  <1>1. /\ ~Idle /\ Busy /\ UNCHANGED <<heap, jpegBuf, jpegSize, dest, outdated>>
        /\ call' = [call EXCEPT !.pc = "write", !.started = TRUE] /\ At("start")
    BY DEF Started, At, Busy
  <1>2. call \in CallRecord /\ ~call.started
    BY <1>1, CallLive DEF IInv, Course
  <1>3. /\ call'.pc = "write" /\ call'.written = call.written
        /\ call'.handle = call.handle /\ call'.slots = call.slots
    BY <1>1, <1>2 DEF CallRecord
  <1>4. H' = H /\ S' = S /\ D' = D /\ ~At("overrun")' /\ ~Held
    BY <1>1, <1>2, <1>3 DEF H, S, D, At, Held
  <1>5. \A s \in Slots : Named(s)' => Named(s)
    BY <1>1, <1>4 DEF Named
  <1>6. Fitted'
    BY <1>1, <1>3, <1>4 DEF Real, Fitted
  <1> QED
    BY <1>1, <1>4, <1>5, <1>6, QuietReal DEF OverrunKnown

\* A byte beyond the block: the destination took it for larger than it is.
LEMMA OverrunReal ==
  ASSUME IInv, Real, Overrun
  PROVE  Real'
  <1>1. /\ ~Idle /\ Busy /\ (At("start") \/ At("write")) /\ call.written >= heap[D.buffer]
        /\ UNCHANGED <<heap, jpegBuf, jpegSize, dest, outdated>>
        /\ call' = [call EXCEPT !.pc = "overrun"]
    BY DEF Overrun, More, At, Busy
  <1>2. /\ H \in Handles /\ D = dest[H] /\ call \in CallRecord /\ D.buffer # STATIC
        /\ heap[D.buffer] \in Nat /\ D.bufsize \in Nat
        /\ call.written \in Nat /\ call.free \in Int
    BY <1>1, CallLive
  <1>3. call.free = D.bufsize - call.written /\ call.free > 0
    BY <1>1 DEF IInv, Counted
  <1>4. ~(D.bufsize <= heap[D.buffer])
    BY <1>1, <1>2, <1>3
  <1>5. H \in outdated
    BY <1>2, <1>4 DEF Real, DestReal
  <1>6. /\ call'.pc = "overrun" /\ call'.started = call.started /\ call'.written = call.written
        /\ call'.handle = call.handle /\ call'.slots = call.slots
    BY <1>1, <1>2 DEF CallRecord
  <1>7. H' = H /\ S' = S /\ D' = D /\ ~Busy' /\ (Held' => Held)
    BY <1>1, <1>6 DEF H, S, D, At, Held, Busy
  <1>8. Held => Held'
    <2>1. call' \in CallRecord
      BY <1>1, <1>2, CallFields DEF CallRecord
    <2> QED
      BY <1>6, <2>1, CallIsRecord DEF Held, Idle
  <1>9. \A s \in Slots : Named(s)' => Named(s)
    BY <1>1, <1>7, <1>8 DEF Named
  <1>10. Fitted'
    BY <1>1, <1>6, <1>7 DEF Real, Fitted
  <1>11. OverrunKnown'
    BY <1>1, <1>5, <1>7 DEF OverrunKnown
  <1> QED
    BY <1>1, <1>9, <1>10, <1>11, QuietReal

LEMMA EmptyReal ==
  ASSUME IInv, Real, Empty
  PROVE  Real'
  <1>1. PICK a \in Given :
          /\ heap' = With(Without(heap, D.newbuffer), a, 2 * D.bufsize)
          /\ dest' = [dest EXCEPT ![H].buffer = a, ![H].newbuffer = a,
                                  ![H].bufsize = 2 * @]
    BY DEF Empty
  <1>2. /\ ~Idle /\ Typed /\ Busy /\ At("empty") /\ D.alloc /\ UNCHANGED <<jpegBuf, jpegSize>>
        /\ outdated' = (outdated \cup Remembering(D.newbuffer)) \ {H}
        /\ call' = [call EXCEPT !.pc = Writing, !.free = D.bufsize]
    BY DEF Empty, At, IInv, Busy
  <1>3. /\ H \in Handles /\ S \in Slots /\ D = dest[H] /\ call \in CallRecord
        /\ D.buffer \in DOMAIN heap /\ D.bufsize \in Nat /\ D.buffer \in Address
        /\ call.written \in Nat /\ call.free \in Int
    BY <1>2, CallLive
  <1>4. call.started /\ D.buffer = D.newbuffer /\ Held
    BY <1>2 DEF IInv, Course, Held
  <1>5. a \in Address /\ a \notin DOMAIN heap
    BY GivenIsNew
  <1>6. /\ DOMAIN heap' = (DOMAIN heap \ {D.buffer}) \cup {a} /\ heap'[a] = 2 * D.bufsize
        /\ \A x \in DOMAIN heap \ {D.buffer} : heap'[x] = heap[x]
    BY <1>1, <1>4, <1>5 DEF With, Without
  <1>7. /\ dest'[H].buffer = a /\ dest'[H].bufsize = 2 * D.bufsize
        /\ dest'[H].alloc = D.alloc
        /\ \A h \in Handles : h # H => dest'[h] = dest[h]
    BY <1>1, <1>2, <1>3 DEF Typed
  <1>8. 2 * D.bufsize <= 2 * D.bufsize
    BY <1>3
  <1>9. DestReal'
    <2>1. ASSUME NEW h \in Handles, h \notin outdated', dest'[h].buffer # STATIC
          PROVE  dest'[h].buffer \in DOMAIN heap' /\ dest'[h].bufsize <= heap'[dest'[h].buffer]
      <3>1. CASE h = H
        BY <1>6, <1>7, <1>8, <3>1
      <3>2. CASE h # H
        <4>1. h \notin outdated /\ dest[h].buffer # D.buffer /\ dest'[h] = dest[h]
          BY <1>2, <1>4, <1>7, <2>1, <3>2 DEF Remembering
        <4>2. dest[h].buffer \in DOMAIN heap /\ dest[h].bufsize <= heap[dest[h].buffer]
          BY <2>1, <4>1 DEF Real, DestReal
        <4> QED
          BY <1>6, <4>1, <4>2
      <3> QED
        BY <3>1, <3>2
    <2> QED
      BY <2>1 DEF DestReal
  <1>10. /\ call'.pc = "write" /\ call'.started = call.started /\ call'.written = call.written
         /\ call'.handle = call.handle /\ call'.slots = call.slots
    BY <1>2, <1>3, <1>4 DEF CallRecord, Writing
  <1>11. Held' /\ H' = H /\ S' = S /\ D'.buffer = a /\ D'.alloc /\ ~At("overrun")'
    <2>1. call' \in CallRecord
      <3>1. D.bufsize \in Int
        BY <1>3
      <3> QED
        BY <1>2, <1>3, <3>1, CallFields DEF CallRecord, Writing
    <2>2. Held' /\ H' = H /\ S' = S /\ ~At("overrun")'
      BY <1>4, <1>10, <2>1, CallIsRecord DEF Held, Idle, H, S, At
    <2> QED
      BY <1>2, <1>7, <2>2 DEF D
  <1>12. AppReal'
    <2>1. ASSUME NEW t \in Slots, Named(t)'
          PROVE  jpegSize'[t] <= heap'[jpegBuf'[t]]
      <3>1. t # S /\ Named(t)
        BY <1>2, <1>11, <2>1 DEF Named
      <3>2. jpegBuf[t] \in DOMAIN heap /\ jpegBuf[t] = Own(t) /\ jpegBuf[t] # NULL
        BY <3>1, NamedLive DEF Named
      <3>3. Own(S) = D.buffer
        BY <1>2, <1>4 DEF Own
      <3>4. jpegBuf[t] # D.buffer
        BY <1>3, <3>1, <3>2, <3>3 DEF IInv, Owned
      <3> QED
        BY <1>2, <1>6, <3>1, <3>2, <3>4 DEF Real, AppReal
    <2> QED
      BY <2>1 DEF AppReal
  <1>13. Fitted'
    <2>1. call.free = D.bufsize - call.written /\ call.free >= 0
      BY <1>2 DEF IInv, Counted
    <2>2. call.written <= 2 * D.bufsize
      BY <1>3, <2>1
    <2> QED
      BY <1>6, <1>10, <1>11, <2>2 DEF Fitted
  <1> QED
    BY <1>9, <1>11, <1>12, <1>13 DEF Real, OverrunKnown

\* The application is told of what was written, in the block it was written to.
LEMMA TellReal ==
  ASSUME IInv, Real, ~Idle, call.started, TermDestination,
         UNCHANGED <<heap, dest, outdated>>, ~Held', ~Busy', ~At("overrun")'
  PROVE  Real'
  <1>1. /\ \A t \in Slots : jpegBuf'[t] = Own(t)
        /\ \A t \in Slots : t # S => jpegSize'[t] = jpegSize[t]
        /\ jpegSize'[S] = call.written /\ jpegBuf'[S] = D.buffer
    BY TermDestinationTells
  <1>2. Held
    BY DEF Held
  <1>3. DestReal'
    BY DEF Real, DestReal
  <1>4. ASSUME NEW t \in Slots, Named(t)'
        PROVE  jpegSize'[t] <= heap'[jpegBuf'[t]]
    <2>1. CASE t = S
      BY <1>1, <1>2, <2>1 DEF Real, Fitted
    <2>2. CASE t # S
      <3>1. jpegBuf'[t] = jpegBuf[t] /\ jpegSize'[t] = jpegSize[t]
        BY <1>1, <2>2 DEF Own
      <3>2. Named(t)
        BY <1>4, <2>2, <3>1 DEF Named
      <3> QED
        BY <3>1, <3>2 DEF Real, AppReal
    <2> QED
      BY <2>1, <2>2
  <1> QED
    BY <1>3, <1>4 DEF Real, AppReal, Fitted, OverrunKnown

LEMMA EndReal ==
  ASSUME IInv, Real, Finish \/ Bailout
  PROVE  Real'
  <1>1. CASE Finish
    <2>1. /\ ~Idle /\ call.started /\ TermDestination /\ UNCHANGED <<heap, dest, outdated>>
          /\ call \in CallRecord
      <3>1. ~Idle /\ call.started /\ TermDestination /\ UNCHANGED <<heap, dest, outdated>>
        BY <1>1 DEF Finish, At, IInv, Course
      <3> QED
        BY <3>1, HeadSlot DEF IInv
    <2>2. CASE call' = NoCall
      BY <2>1, <2>2, TellReal DEF Held, Busy, At, Idle
    <2>3. CASE call' = [call EXCEPT !.slots = Tail(@), !.pc = "mem_dest", !.started = FALSE]
      <3>1. call'.pc = "mem_dest" /\ ~call'.started
        BY <2>1, <2>3 DEF CallRecord
      <3> QED
        BY <2>1, <3>1, TellReal DEF Held, Busy, At
    <2> QED
      BY <1>1, <2>2, <2>3 DEF Finish
  <1>2. CASE Bailout
    <2>1. /\ ~Idle /\ call' = NoCall /\ UNCHANGED <<heap, dest, outdated>>
          /\ ~Held' /\ ~Busy' /\ ~At("overrun")'
      BY <1>2 DEF Bailout, At, Held, Busy, Idle
    <2>2. CASE call.started /\ TermDestination
      BY <2>1, <2>2, TellReal
    <2>3. CASE (~call.started \/ call.noRealloc) /\ UNCHANGED <<jpegBuf, jpegSize>>
      <3>1. Held => ~D.alloc
        BY <2>3 DEF IInv, Course, Held
      <3>2. \A s \in Slots : Named(s)' => Named(s)
        BY <2>3, <3>1 DEF Named
      <3>3. \A h \in Handles : dest'[h].buffer = dest[h].buffer /\ dest'[h].bufsize = dest[h].bufsize
        BY <2>1
      <3> QED
        BY <2>1, <2>3, <3>2, <3>3, QuietReal DEF Fitted, OverrunKnown
    <2> QED
      BY <1>2, <2>2, <2>3 DEF Bailout
  <1> QED
    BY <1>1, <1>2

LEMMA StepReal ==
  ASSUME IInv, Real, [Next]_vars
  PROVE  Real'
  <1>1. CASE UNCHANGED vars
    <2>1. /\ heap' = heap /\ jpegBuf' = jpegBuf /\ jpegSize' = jpegSize /\ dest' = dest
          /\ call' = call /\ outdated' = outdated
      BY <1>1 DEF vars
    <2>2. Idle' = Idle /\ H' = H /\ S' = S /\ D' = D /\ Held' = Held /\ \A pc : At(pc)' = At(pc)
      BY <2>1 DEF Idle, H, S, D, Held, At
    <2>3. \A s \in Slots : Named(s)' => Named(s)
      BY <2>1, <2>2 DEF Named
    <2>4. Fitted' /\ OverrunKnown'
      BY <2>1, <2>2 DEF Real, Fitted, OverrunKnown, Busy
    <2>5. \A h \in Handles : dest'[h].buffer = dest[h].buffer /\ dest'[h].bufsize = dest[h].bufsize
      BY <2>1
    <2> QED
      BY <2>1, <2>3, <2>4, <2>5, QuietReal
  <1>2. CASE App
    BY <1>2, PreallocReal, ReleaseReal, CallCompressReal DEF App
  <1>3. CASE Lib
    BY <1>3, TakeBufferReal, MakeBufferReal, FailuresReal, WriteReal, StartedReal, OverrunReal,
       EmptyReal, EndReal DEF Lib, WriteHeader, WriteByte
  <1> QED
    BY <1>1, <1>2, <1>3 DEF Next

LEMMA InitReal == Init => Real
  BY DEF Init, Real, DestReal, AppReal, Named, Fitted, OverrunKnown, Busy, Held, At, Idle

\* The destination takes a buffer for larger than it is, and writes beyond its end,
\* only if the block it remembers was freed since and is met again at its address
\* (jpeg_mem_dest_tj, empty_mem_output_buffer).
THEOREM SizesAreReal ==
  ASSUME ~SmallBuffers, DistinctSlots
  PROVE  Spec => []SizeIsReal
  <1>1. IInv /\ [Next]_vars => IInv'
    BY StepOwns
  <1>2. IInv /\ Real /\ [Next]_vars => Real'
    BY StepReal
  <1>3. IInv /\ Real => SizeIsReal
    <2> SUFFICES ASSUME IInv, Real PROVE SizeIsReal
      OBVIOUS
    <2>1. Busy => D.bufsize <= heap[D.buffer] \/ H \in outdated
      BY CallLive DEF Real, DestReal
    <2> QED
      BY <2>1 DEF SizeIsReal, Busy, Real, OverrunKnown
  <1> QED
    BY <1>1, <1>2, <1>3, InitOwns, InitReal, PTL DEF Spec

-----------------------------------------------------------------------------

\* What the application is told of a finished image is the bytes written, in the
\* live block they were written to (term_mem_destination).
THEOREM ImagesAreWhole ==
  ASSUME ~SmallBuffers, DistinctSlots
  PROVE  Spec => JpegIsWhole
  <1> DEFINE Quiet == ~Idle => result = "none"
  <1>1. ASSUME IInv, Quiet, [Next]_vars, result' = "ok", ~Idle
        PROVE  /\ jpegSize'[S] = call.written
               /\ jpegBuf'[S] = D.buffer /\ D.buffer \in DOMAIN heap'
    <2>1. Finish
      BY <1>1 DEF Next, App, Prealloc, Release, CallCompress, Lib, TakeBuffer, MakeBuffer,
         MakeBufferFails, NoBuffer, WriteHeader, WriteByte, Write, Started, Overrun, Empty,
         EmptyFails, OtherError, Bailout, vars
    <2>2. call.started /\ TermDestination /\ Held /\ heap' = heap
      BY <1>1, <2>1 DEF Finish, IInv, Course, Held
    <2> QED
      BY <1>1, <2>2, TermDestinationTells, CallLive
  <1>2. Init => Quiet
    BY DEF Init, Idle
  <1>3. IInv /\ [Next]_vars => IInv'
    BY StepOwns
  <1>4. Quiet /\ [Next]_vars => Quiet'
    <2> SUFFICES ASSUME Quiet, [Next]_vars PROVE Quiet'
      OBVIOUS
    <2>1. CASE App
      BY <2>1 DEF App, Prealloc, Release, CallCompress
    <2>2. CASE UNCHANGED vars
      BY <2>2 DEF vars, Idle
    <2>3. CASE Finish \/ Bailout
      BY <2>3 DEF Finish, Bailout, At, Idle
    <2>4. CASE Lib /\ ~Finish /\ ~Bailout
      BY <2>4 DEF Lib, TakeBuffer, MakeBuffer, MakeBufferFails, NoBuffer, WriteHeader,
         WriteByte, Write, More, Started, Overrun, Empty, EmptyFails, OtherError, At
    <2> QED
      BY <2>1, <2>2, <2>3, <2>4 DEF Next
  <1>5. IInv /\ Quiet /\ [Next]_vars =>
          [result' = "ok" /\ ~Idle =>
             /\ jpegSize'[S] = call.written
             /\ jpegBuf'[S] = D.buffer /\ D.buffer \in DOMAIN heap']_vars
    BY <1>1
  <1> HIDE DEF Quiet
  <1> QED
    BY <1>2, <1>3, <1>4, <1>5, InitOwns, PTL DEF Spec, JpegIsWhole

=============================================================================
