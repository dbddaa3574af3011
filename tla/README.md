# Adaptive-core JPEG: specifications and proofs

This directory holds TLA+ specifications of the adaptive-core JPEG encoder and
of the parts of libjpeg-turbo it drives, the TLC configurations that check them
on small instances, and theorems about them that TLAPS proves for every value
of the constants. Paths such as `jcparallel.c` are files of `src/src/` in the
repository; the definitions, runs, hazards and theorems are indexed with their
source lines in `PROJECT.json`.

    tlc -workers 2 -config SplicedEncode.cfg MCSplicedEncode.tla
    tlapm AdaptiveProofs.tla

## 1. The system

The repository is a fork of libjpeg-turbo. What the fork adds is a program that
decides, from features of an image and a decision-tree classifier, whether to
encode the image with two threads or with four. It then cuts the image into
horizontal strips, compresses each strip as a JPEG of its own with a restart
marker after every MCU row, and splices the strips' scans into a single
baseline JPEG.

    jcadaptive / jcadaptivebench          jcparallelbench
        |          \                           |
    jcimageload   jcfeatures + complexity_model|
        |                        \             |
    jdapi*, rdbmp/rdpng/rdppm     jcparallel ---
                                   | strip bounds, OpenMP team, splicer
                                   v
       one compression object per strip: jcapimin, jcapistd, jcmaster,
       jcmarker, jcprepct, jcmainct, jccoefct, jchuff, jdatadst

Components call each other directly. Callbacks exist in two places: libjpeg's
method pointers (error exit, destination manager) and `setjmp`/`longjmp`, by
which every library call of the loader and of the strip encoder may return to
its caller's handler. State is shared only between the threads of the parallel
loop: `jpeg_bufs[]`, `jpeg_sizes[]` and the strips, without locks.

| Component | State it keeps | Operations | What is hard | What makes it correct |
|---|---|---|---|---|
| Strip bounds (`jpar_compute_strip_bounds`) | `strips[]`, loop counters | one call | rounding, more threads than rows, partial last row | strips partition the image, are aligned, not empty |
| Parallel strip encoder (`jpar_encode_strips_spliced`, `_parallel`) | buffers and sizes per strip, three arrays, the output | allocate, fork, encode a strip, join, splice, clean up | interleaving, a team smaller than asked for, one of several strips or mallocs failing | result equals a single-threaded encode or nothing; a failing strip does harm only after its buffer was replaced; it returns |
| Splicer (`jpar_splice_strips`, `jpar_find_*`) | read and write positions, output buffer | walk segments, find EOI, copy, renumber | bytes that look like markers, exact capacity, truncated strips | output is byte for byte the whole JPEG |
| Strip output buffer (`jpar_encode_strip`, `jdatadst.c`) | first, current and caller-visible buffer | start, emit, grow, finish, error exit | growth in mid-marker, failure after a growth | no byte lost, one owner, how far a failure goes |
| Image loader (`jcimageload.c`) | FILE, libjpeg object, reader, pixel arrays | open, header, allocate, rows, finish, error | an exit at every call, each with other resources held | everything but a PNG context released; only complete images succeed |
| Adaptive encoder (`jcadaptive.c`) | image, thread count, JPEG buffer, output file | load, features, classify, encode, write | every early exit, and calls that stop the process | what a return leaves behind, and what a stop leaves open |
| Energy and timing benchmarks (`jcadaptivebench.c`, `jcparallelbench.c`) | counters, sums, results | per image: phases and repeats | unreadable files, phases failing in a late repeat | fair rotation, statistics of the successful repeats; not modelled, section 7 |
| Features and classifier | a cosine table | one extraction, one inference | channel order depends on the reader | channel features describe their channel |
| Compression API, master, markers (`jcapimin`, `jcapistd`, `jcmaster`, `jcmarker`, `jctrans`) | `global_state`, pass and scan counters, tables with `sent_table`, last DRI | any order of API calls over several datastreams | sticky tables, passes counted beforehand and skipped, aborts | well-formed, decodable datastreams |
| Compression data path (`jcprepct`, `jcmainct`, `jccoefct`, `jchuff`) | row buffers and counters, restart counters | scanlines in, MCUs out | suspension at any MCU, context rows, bottom padding | the scan does not depend on how the rows arrive |
| Restart handling of the decoder (`jdmarker.c`, `jdhuff.c`) | unread marker, next restart number, MCUs to go, out-of-data flag | decode an MCU, find a restart marker, resynchronise | markers lost, repeated, garbled or made up; suspension in the middle | damage stays where it is; the scan is never overrun; every MCU is delivered |
| Virtual arrays (`jmemmgr.c`) | window, file, first undefined row, dirty flag | access a strip, move the window | windows that move either way, chunks that do not divide them | the window shows the array |
| TurboJPEG buffers (`jdatadst-tj.c`, `turbojpeg*.c`) | the application's pointer and size, the destination's | allocate, compress or transform into several buffers, fail | the buffer is replaced, the call fails afterwards, the address comes back for a smaller block | the application holds every buffer; when the size taken for a buffer can be wrong |
| Lossless differences (`jclossls.c`, `jclhuff.c`, `jdlossls.c`, `jdlhuff.c`) | the row and the one above | predict, code, decode | differences wider than 16 bits | every sample comes back |
| The rest of the decoder, transcoder and TurboJPEG API; `cjpeg`/`djpeg`, SIMD, libspng/zlib, Java, fuzzers, scripts | | | | not modelled, section 7 |

## 2. Modules

| Module | Models |
|---|---|
| `StripGeometry` | the arithmetic of MCU rows and strip counts that several modules share |
| `StripBounds` | `jpar_compute_strip_bounds`: `Setup` is the prologue, `Fill` one loop iteration |
| `ScanTokens` | tokens of a scan (coded MCU row, restart marker) and the scan of a single-threaded encode |
| `EncodeSpec` | the promise of `jcparallel.h`: the call returns once, with the reference JPEG or with nothing |
| `SplicedEncode` | `jpar_encode_strips_spliced` with its team of threads; implements `EncodeSpec` |
| `SpliceBytes` | `jpar_splice_strips`, `jpar_find_header_end`, `jpar_find_entropy_end` on bytes |
| `StripBuffer` | `jpar_encode_strip` and its memory destination: blocks, owners, `longjmp` |
| `CompressData` | the data path of a single-pass compression with suspension |
| `CompressMaster` | the compression object's API state machine, pass schedule, tables and markers |
| `ImageLoad` | both loaders of `jcimageload.c` |
| `AdaptiveEncode` | `main` of `jcadaptive.c`; extends `ImageLoad` |
| `RestartSync` | the Huffman decoder at restart markers: `next_marker`, `read_restart_marker`, `jpeg_resync_to_restart`, `process_restart`, over damaged scans |
| `AbstractArray` | the promise of a virtual array: an array of rows, read and written strip by strip |
| `VirtualArray` | `access_virt_barray` and `do_barray_io`: the window over a backing store; implements `AbstractArray` |
| `TJBuffer` | the destination manager of `jdatadst-tj.c` with `tj3Compress` and `tj3Transform`: who owns the JPEG buffer |
| `LosslessCode` | the arithmetic of one lossless difference: magnitude, bits, and back |
| `LosslessDiff` | prediction, difference and category of the samples of an image, and back; extends `LosslessCode` |
| `ArithmeticProofs` | lemmas on division shared by the modules below; theorems about `LosslessCode` |
| `AdaptiveProofs` | theorems about `StripBounds`, `StripBuffer` and `AdaptiveEncode` with its loader |
| `SplicedEncodeProofs`, `CompressDataProofs`, `CompressMasterProofs`, `RestartSyncProofs`, `VirtualArrayProofs`, `TJBufferProofs` | theorems about the modules of those names |
| `MC*` | values of the constants for TLC |

### How they fit together

`SplicedEncode` is the centre. Four modules look at one of its abstractions in
more detail or from outside:

* It takes the strips in closed form (`StartRow`, `NumRows`). Theorem
  `BoundsInductive` of `AdaptiveProofs` shows that the loop in the code writes
  exactly these strips.
* It splices tokens. `SpliceBytes` runs the same algorithm on bytes, where a
  data byte may be taken for a marker. The tokens of a scan correspond to its
  rows and restart markers.
* Its strip buffers are `open`, `complete` or `null`. `StripBuffer` shows what
  stands behind these: several blocks, one of them visible to the caller. Of the blocks
  `SplicedEncode` keeps the first and the last, since a failing strip frees the first.
* Its caller sees `EncodeSpec`, through the refinement mapping
  `Abs == INSTANCE EncodeSpec WITH result <- ret, jpeg <- ...`.
  `AdaptiveEncode` uses the encoder through that promise only: success or
  failure.

The scan one strip's encoder writes (rows with RST0, RST1, ... between them) is
itself an abstraction of `CompressData`, which shows that the restart numbers
and the rows come out so however the scanlines are handed over. `CompressData`
covers what happens inside one pass; `CompressMaster` covers which passes are
made, and which tables and markers surround them. `RestartSync` is the other end:
the decoder's way through a scan with a restart marker after every MCU row, which
is what `SplicedEncode` writes, when the scan has been damaged.

`VirtualArray`, `TJBuffer` and `LosslessDiff` stand beside this: parts of the library
the adaptive programs link but use little, chosen because their contracts
are hard to keep and hard to test.

### State and actions against the code

*`SplicedEncode`.* `pc` is the master's position, `thr[t]` the position of
thread `t` of the team and the strips of its chunk it still has to encode,
`bufs[s]` is `jpeg_bufs[s]`, `heap` the live allocations. `Alloc`, `Fork`,
`Join`, `SpliceAlloc`, `Header`, `CopyStrip`, `Renumber` and `Cleanup` are the
master's statements in their order. `Begin`, `EncodeRow`, `Grow`, `Finish`, `BeginFail`,
`EncodeFail` and `EncodeFailGrown` are `jpar_encode_strip` as run by a thread. `block` is 1
while the strip writes to its first buffer and 2 once `Grow` has freed that one. A strip that
fails then (`EncodeFailGrown`) frees the first buffer again and loses the last one: either nobody notices, and
the strip is `Lost`, or the allocator stops the process or has given the block to another thread, and
`pc` is `"undefined"`, from where there is no way on. The team may have any
size from one to `num_threads`, because the OpenMP runtime may grant fewer
threads than asked for; a team of one is also the build without OpenMP. The
schedule is the static one the pragma asks for (consecutive blocks); every
interleaving of the blocks is explored.

*`StripBuffer`.* Blocks are numbered in the order `malloc` returns them. `dest`
is `my_mem_destination_mgr`; `free` is `free_in_buffer`. `Grow` frees the old
block but leaves `*jpeg_buf` alone, as `empty_mem_output_buffer` does;
`Finish` is `term_mem_destination`. `Handler` is the `setjmp` branch;
`HandlerDoubleFree` is the same branch when `*jpeg_buf` is a block that `Grow` freed, with the two
outcomes a second free has: the process is stopped (`"aborted"`), or the call returns `FALSE` and
the block in use is lost.

*`SpliceBytes`.* One action per iteration of the three loops, plus `Copy` for
the `memcpy`s, with zero-based positions as in the code. `Reject` is every
`return FALSE` of the parsing.

*`CompressData`.* `WriteScanlines` is the application's call;
`PreProcessData`, `PreProcessContext` and `PadContext` are iterations of
`pre_process_data` and `pre_process_context`; `EncodeMcu` and `Suspend` are the
two results of `encode_mcu`; `ImcuRowDone` and `NeedMoreData` are the rest of
`process_data_simple_main`. The records `prep`, `main`, `coef` and `entropy` hold the
controllers' private fields under their own names.

*`CompressMaster`.* `StartCompress`, `WriteCoefficients`, `WriteMarker`,
`WriteRows`, `FinishCompress`, `WriteTables`, `SuppressTables`, `SetDefaults`,
`SetQuality` and the abort are API calls, allowed in any order: each has a
disjunct for the state it is made for and one for `JERR_BAD_STATE`. `FinishPass`,
`PrepareGather` and `PrepareOutput` are `finish_pass_master` and the cases of
`prepare_for_pass` in the loop of `jpeg_finish_compress`.

*`ImageLoad`, `AdaptiveEncode`.* `held` is the set of resources the process
owns. `LoadError` is the `setjmp` branch, possible wherever libjpeg is called.
`LoadCrash` is the division by zero described in section 5. The process can also be stopped inside two calls of
`main`, while it holds the image: `SampFactorExits` is `exit()` in `jcil_get_max_v_samp_factor`, whose
error manager is the plain `jpeg_std_error`, and `EncodeAborts` is the double free of `StripBuffer`. The PNG
context (`"spng"`) that the loader's error paths do not release stays in `held`. The blocks a
failed strip loses are the encoder's and are counted in `SplicedEncode` and `StripBuffer`.

*`RestartSync`.* `Token(pos)` is what the source delivers at a position: the token of an
intact scan there (each segment's MCUs with the restart marker behind them), moved and replaced as
the one fault says, and an endless EOI behind the last, as `fill_input_buffer` fakes one.
`WholeSegmentsLost` and `Recoverable` are the faults the properties tell apart.
`DecodeMcu`, `HitMarker` and `LeaveGray` are `decode_mcu` with data, at a marker, and after
it. The MCU in which a marker is hit is decoded from zero bits put in for the missing ones (`STUFFED`:
whatever the Huffman tables take zero bits for); the MCUs behind it are not decoded and stay zero (`GRAY`). `ProcessRestart` to `Resync` are the restart; `Suspend` is the source
that has no byte for `next_marker`.

*`VirtualArray`.* The variables carry the names of the control block's fields.
`Moved` is the set of rows that one call of `do_barray_io` moves, chunk
by chunk. `strip` remembers what the client holds. In the repository's own build
`jmemnobs.c` refuses a backing store, so the window is the whole array (`mem = rows`);
the other windows are those of a `jmemsys.h` implementation that has one.

*`TJBuffer`.* `dest[h]` is the destination manager of instance `h`, which survives from
call to call; `call` is the call in progress with the slots (pairs of `jpegBuf` and
`jpegSize`) it still has to write. The application allocates and frees between the calls, and
`malloc` (`Given`) may give the address of any block that was freed. The history variable `outdated`
holds the instances whose last buffer was freed since, by the application or by another
instance: what `dest[h].bufsize` says of a block at that address is not to be relied on. `Overrun` is the byte
written behind the end of a block smaller than its destination takes it for; what follows is
undefined, so the model stops there.

*`LosslessDiff`.* `Encode` codes the four samples of an image as differences,
`DecodeSample` gives back the next one from the samples already decoded.

## 3. Runs

| Run | Question | States (about) |
|---|---|---|
| `strip_bounds` | Do the strips of every small image partition it, aligned and not empty, also for arguments below one? | 3 300 |
| `spliced_encode` | In every interleaving, and with any allocation or strip failing: is the result that of one thread, what does a failing strip leave behind, does the call return? | 46 600 |
| `strip_buffer` | Does the growing buffer keep every byte and hand over exactly one block, and what does a failure free and lose? | 150 |
| `strip_buffer_failure` | Is a failure of one strip contained? **No**, see section 5. | |
| `splice_bytes` | Is the spliced file byte for byte the whole JPEG, and is a truncated strip refused, wherever it was cut? | 6 600 |
| `adaptive_encode` | What is held wherever `main` returns or is stopped, and is only a complete image encoded? | 2 600 |
| `compress_data` | Is the scan the reference scan for every split of the scanlines over the calls and every suspension, and does it complete? | 8 800 |
| `compress_master` | Are all datastreams of an object well-formed and decodable, for every order of API calls, script, suppressed tables and abort? | 301 000 |
| `virtual_array` | Does the window show its client the array, for strips in any order and windows of any size? | 99 900 |
| `tj_buffer` | Does the application hold every JPEG buffer after every call of every instance, failed ones included, and when is a buffer taken for larger than it is? | 6 321 000 |
| `restart_sync` | How far does one fault reach, and does the decoder stay inside the scan and deliver every MCU, wherever it is suspended? | 91 300 |
| `lossless_diff` | Do the samples of every small image come back, with every predictor and point transform? | 516 000 |

Every property of a passing run is paired in `PROJECT.json` with a mutant of a
modelled operation (a dropped guard, a missing reset, a wrong order) under which
the same run finds the property violated. The mutated operators stand in the modules before
the ones they mutate, marked `Mutant:`.

### Bounds and why they are enough

* *Block size.* `DCTSIZE` is 2 or 3 instead of 8. The code uses it to group rows
  and to round heights up, so full, partial and empty last rows occur with
  any size from 2 on.
* *Restart cycle.* `RST_CYCLE` is the real 8, and `spliced_encode`,
  `splice_bytes` and `compress_data` each have images with more than eight
  markers, so the numbers wrap, across strips too.
* *Strips and threads.* Up to four threads (`MAX_TEAM`, the number the complex
  label asks for), heights from 0 to 10 MCU rows, thread counts below 1 and above
  the number of rows. `strip_bounds` alone goes to 26 scanlines, and its proofs
  have no bound.
* *Heights.* `JPEG_MAX_DIMENSION` 20 and `HEIGHT_FIELD` 21 stand for 65500
  and 65536: only the first being smaller than the second matters.
* *Output buffer.* `OUTPUT_BUF_SIZE` 2 and `MAX_BYTES` 63 give up to
  five growths, each possibly failing.
* *Splicer bytes.* The data bytes are those that could be taken for the second
  byte of a marker (0xD0, 0xD9, and stuffed 0xFF) and one other; the header has
  a payload that contains an SOS code. The strip that is cut loses every number
  of bytes from none to all.
* *Data path.* Heights from 1 to 19 with one to three block rows per iMCU row,
  with and without interleaving, context rows and restarts;
  `MAX_LINES` 3 lets a call straddle a row group.
* *Master.* `HEIGHT` 2 gives a first and a later scanline; `MAX_STREAMS` 2
  gives one datastream after another, which is where sticky tables matter;
  scripts with one scan, two scans, a progressive script with a DC refinement scan in the
  middle, and an arithmetic one. The proofs have no bound on
  the script.
* *Virtual arrays.* Four rows, windows of two, three and four, chunks that divide the window and
  chunks that do not, strips of one and two rows, two values. Each kind of
  move of a window (forward, backward, past either end, within) occurs. The
  proofs have no bound.
* *TurboJPEG buffers.* Two instances, two buffers, calls with one destination and with two, JPEG
  images of up to three bytes with an output buffer of two, so that buffers are replaced
  and taken for larger than they are; three addresses, so that a buffer is often met again at an address some
  instance remembers. Of the addresses no destination remembers `malloc` gives the first,
  since nothing tells them apart. `SmallBuffers` is off, the assumption the theorems name, see section 4.
* *Restart scans.* Eleven segments of one MCU and eight of two: the marker numbers wrap, and
  a fault may hit before, at and behind the wrap. Every single fault at every position: a token
  lost or repeated, one or two segments lost with their markers, the stream cut off, any restart
  marker or one of three other marker codes in the place of a token or between two, and garbage in the place of a token. The proofs have no bound on the scan.
* *Lossless.* Samples as wide as the differences (three bits), so that sums and differences leave
  the modulus in both directions; four samples have every neighbour a predictor looks at.

### Fairness

* `SplicedEncode`: weak fairness for the master and for each worker of the
  team. These are operating-system threads that never wait for one another except at the
  barrier, so each runs on.
* `CompressData`: weak fairness for the application's calls and for the
  library's own steps, since the application loops until `next_scanline`
  reaches the height. Strong fairness for `EncodeMcu`: the destination makes room
  again and again. That is an assumption about the application's destination
  manager, which `doc/libjpeg.txt` states under "Compression suspension": the application
  must make more room and call again, with a buffer that holds at least one MCU.

* `RestartSync`: weak fairness for decoding and restarting, which are plain calls, and strong
  fairness for `FindRestart` and `ScanForward`: the application calls again after a
  suspension and the source delivers the next byte if it is asked again and again.

No other module claims liveness. Deadlock is checked except in `tj_buffer`, where the
addresses are used up in the end, and `lossless_diff`, which ends with the last sample; the final
states of the others have explicit stuttering actions.

## 4. Theorems

TLAPS proves each for every value of the constants that satisfies the named
assumptions. Liveness under fairness, `ENABLED` and inductions over data are left
to TLC.

**`AdaptiveProofs`** is about the program from the outside in. *The main program* (`AdaptiveEncode`
with `ImageLoad`; no assumption). `held` is a set, and which members it may have depends on the
statement reached, the format of the file and the calls that succeeded. The invariant says for each position what the
loader owns (`Loader`), what `main` owns besides (`Program`), and that the rows counted are the rows
read. `ReturnReleases` and `EncodeAfterLoad` follow: wherever `main` returns, it holds nothing but, at most, the
context of a PNG that failed to load; where a call of `main` stops the process, no file is open or half written.

*Strip bounds* (assumptions `InputAssumption`, `DctsizeAssumption`: heights
are naturals, other arguments any integers, the block size is positive). The
properties say nothing while the loop runs about iterations to come, so the
invariant adds the plan that the prologue fixed (the number of strips and
the rows in each, with the arithmetic facts that make them fit) and the closed
form of the loop: strip `k` starts at `k` times the stride, and `rows_done` is
where the last written strip ends. Facts about division that the SMT solver
does not find stand as lemmas of their own. `Partition`, `Aligned`,
`StripsNonEmpty` and `McuRowsAddUp` follow from it, each as a theorem of `Spec`.

*Strip buffer* (assumption `SizeAssumption`). The invariant says, for
each position of the code, which blocks are live and who knows them: before the
scan the caller's block is the only one; from then on the
destination's current block is the only live block, and holds all bytes written.
`NoByteLost` and `CallerOwnsStream` follow. The handler knows the first block only (`InHandler`): from
this `FailureAfterGrowth` follows, that a strip which fails before its buffer was replaced frees all it had, and
one that fails later frees a block twice and loses the one in use.

**`CompressMasterProofs`** (assumption `MasterAssumption`: any non-empty scan
script). The property `LastPassIsLastScan` compares a boolean computed from pass
counters with a scan counter. The invariant `Schedule` gives the missing
relation: `PassOfScan`, the pass number as a function of the scan number and
the pass type, with two passes for each scan under optimisation, whether the first is made or
skipped. That no scan past the end of a script is ever selected (part of `TypeOK`) and
that the loop of `jpeg_finish_compress` ends after exactly the last scan follow,
for scripts of any length.

`DatastreamsDecodable` and `ComputedTablesAreWritten` are about the bookkeeping of
`sent_table` over any number of datastreams. `Decodable` looks only at scan data that
is already written, so the second invariant `RInv` says what holds before it is:
`Remembered`, a table marked as sent is the one a reader would use now; `IntervalRead`, the
same for the restart interval; `Whole`, between datastreams nothing is half
written, so that the reader of the next one has learned the tables of the last; and
`Coded`, by the place in the schedule, which tables the entropy encoder holds and whether
the headers for them are written. `ComputedUnsent`, the tables of a statistics pass wait
unsent for their output pass, is what makes computed tables independent of
`jpeg_suppress_tables`. One lemma for each call and pass (`...Read`) keeps `RInv`; they share
`Writes`, what a marker writer writes by the marks of the tables, `Stays`, that scans
written before are read as before, and `DataWritten`. `LastOf` chooses the greatest index
of a token, whose existence would need an induction; the relation `LastIs` says the same of an index
that is there, and `ReadsLast` leads from it to `LastOf`.

`WellFormed` is about the order of a datastream's parts: SOI, the application's markers, the frame, then the scans of the
script in their order, each behind its header, EOI. `Part` gives each token the place it
has to have relative to the one before (`Follows`), so that the property speaks of neighbours. The invariant `WInv` says
which part the datastream has come to by where the library is: `Begun` before the first pass,
`ScansWritten` between passes, `HeaderWritten` within one that writes, with the number of
the scan from the schedule. `DatastreamsWellFormed` follows from `WInv`, `IInv` and
`RInv`, for scripts of any length.

**`SplicedEncodeProofs`** (assumptions `CallAssumption`, `CycleAssumption`). The
inductive invariant `IInv` has six parts: `Typed`; `Planned`, the number of strips as the bounds
fixed it; `Divided`, the blocks of strips the threads still have to encode, which are
disjoint; `Working`, what each strip's buffer holds by the position of the thread that
has it; `Allocated`, the heap by the position of the master; and `Spliced`, how much of the reference scan the
output holds. From it follow `StripsNotShared`, `CompleteStripsSpliced` and
`FailuresLoseOneBlock` (only a strip that fails after its buffer was replaced loses a block or puts the
process at risk, and that strip's last block alone), and `ParallelEncodeIsSequential`: every step of the parallel encoder
is a step of `EncodeSpec` or none, so that for every image, number of threads,
team, schedule and failure the outcome is that of one thread. The lemmas on division in
`ArithmeticProofs` carry the arithmetic: the restart number of a row counted from its strip's start
is the one counted from the image's start.

**`VirtualArrayProofs`** (assumption `KindAssumption`). `WindowsKeepRows` shows that the
window implements `AbstractArray`. The invariant says that a window that counts
as unchanged agrees with the file, that the client's strip lies in it and that rows never defined
are nowhere mistaken for data.

**`TJBufferProofs`** (assumption `BufferAssumption` and hypotheses in the theorems).
All need that no buffer is passed that the file header alone fills (`~SmallBuffers`) and no buffer
twice to one call; the code checks neither, and with the first TLC finds the ownership violated (section 5).
Nothing is assumed of the addresses `malloc` gives. `BuffersReturned`, `WritesToLiveBlock`, `FixedBuffersStay`
and `ImagesAreWhole` follow from `IInv`: the live blocks are those the slots name, where for the slot being written
the destination's block counts instead of the slot's (`Owned`). `SizesAreReal` needs `Real`: an instance that is not `outdated`
remembers a live block and no more than its size (`DestReal`), the application knows no more of its blocks than there is of
them (`AppReal`), and what has been written fits (`Fitted`). So an overrun means that the block the instance
remembers was freed since.

**`CompressDataProofs`** (assumption `ImageAssumption`: any height, sampling factor, number of
columns and restart interval). `RowsAccounted` and `DoneMeansWritten` speak of the moments between two
calls; the invariant `IInv` says what holds within one. `Counted` is the same account while a call runs.
`Returnable` justifies the suspension hack of `process_data_simple_main`: when an iMCU row is suspended for
the first time the call has taken a row it can give back, a call that comes back to a
suspended row has taken none, and it has room to count the row again when the iMCU row is complete at last
(`jcmainct.c:113` decrements and `jcmainct.c:122` increments the unsigned counter without looking). `Simple`, without context rows, gives the
closed form of the rows taken in iMCU rows, row groups and rows, from which the last
scanline completes the last iMCU row, so that no call ends there with an iMCU row half filled. `Ring`, with context rows,
keeps the three row groups of `color_buf` in turn. `TypeCorrect` says that no counter wraps below zero;
that property is not among the runs because the theorem contains it.

`ScanIsTheReference` is about what is in the buffers and in the scan. Its invariant `CInv`, beside `IInv`,
follows the data from the scanlines to the tokens. `GroupHeld`, without context rows, and `RingHeld`, with them, say
which scanline each row of `color_buf` that is in use was converted from; the ring holds the row group to be
downsampled, the one behind it as far as it has come (`Ahead` counts both) and the row above, wherever in the three row groups
the turn of the pointers has put them (`RingPlaces`, `RingTurns`). Above the
image that row is the padding that the first iteration stores in the last group, and the first iteration is the only one that
finds nothing stored. `Sampled` says that the row groups downsampled are those of the reference. `InStep` says that the
coefficient controller is on the main controller's iMCU row and begins it only when it is
full, so that a suspension can resume at the MCU it left. `Scanned` says that the scan so far is the beginning
of the reference and that its length alone determines `restarts_to_go` and
`next_restart_num`. `TokensGoOn` and `McuIsReference` then show that the next MCU, with a marker before it when
one is due, is the reference's next. A count of markers (`MarkersOfScan`) shows at the end that the length is right as well.

**`ArithmeticProofs`** holds, beside the lemmas, `SamplesComeBack` and `SpecialCategoriesComeBack` (no
assumption): for every modulus, prediction and sample, undoing the coded difference gives the sample. The run
`lossless_diff` shows the same of whole images; that a scan is the repetition of one sample is not proved.

**`RestartSyncProofs`** (assumptions `ScanAssumption`, any number of segments of any length, and
`FaultAssumption`, one fault at any position). `TypeInv` types the decoder; `CountInv` says
that segments are delivered whole and that the marker due is the number of segments
delivered, mod 8; `OverrunInv`, that the end of the scan, once seen, is never passed, whatever
the fault, and `EndIsKept` is the action property that says so. `LossInv` is about whole segments that are lost: by the segment the decoder is in, where in the
stream it stands, from before the loss, through the gap (the marker held is the one due, or one of the two behind it, the first MCU there is made of
stuffed bits and the rest is left zero) to
after it. `IntactDecoded` and
`LossIsBlank` follow. `DamageInv` is about any recoverable fault. `Place` says that the
decoder is in step with the stream, with the shift the fault gave it; `Off` and `Ended`, that it is not but holds
a marker, at a segment at most three behind the fault. In step up to the fault, and in step again
within four segments of it, is what `DamageIsContained` needs. The faults are split into those
that keep the stream's length and those that move what is behind them (`Shift`).

Model-checked only:

* `SpliceBytes`: what the splicer has copied is a concatenation of the strips' rows, each of a
  length of its own, so the place of a byte is a sum over the rows before it: an induction over data. `Reject`,
  besides, is the absence of any other step (`ENABLED`).
* `Lossless` of `LosslessDiff`: its categories are powers of two, found by counting bits. What the
  code does to a single difference is proved in `ArithmeticProofs`.
* The liveness properties `Returns`, `Completes` and `AllDelivered`.

## 5. Where code and documentation disagree

1. **Double free after a failed growth** (`strip_buffer_failure`,
   `jcparallel.c:113`). `empty_mem_output_buffer` frees the first buffer when it
   grows it (`jdatadst.c:150`), but tells the caller of the new one only in
   `term_mem_destination`. If a later `malloc` fails, the handler of
   `jpar_encode_strip` frees the first buffer again and leaks the current one,
   although the handler exists "so a failure in one strip's encode can't take
   down the whole process" (`jcparallel.c:75`).

What follows was met while modelling and is not among the runs; the modules hold the
definitions.

2. *BMP channels* (`AdaptiveEncode.RedIsRed`, `jcfeatures.c:36`). The features take
   sample 0 for red; the BMP reader, left to choose, delivers blue first.
3. *Palette PNG* (`AdaptiveEncode.LoaderReturns`, `rdpng.c:590`). With the colour space
   left open the reader chooses none for a palette that is not gray, and the
   allocation of its rows divides by zero. The outcome is undefined in C, so the model
   allows a crash and the ordinary error exit.
4. *Remembered buffer size* (`TJBuffer.Overrun`, `jdatadst-tj.c:192`). A buffer is
   recognised by its address, and the size remembered for it is used, although the application or another
   instance may have freed it and the application got the address again for a smaller one. The image is then
   written beyond the end of the block. `SizeIsReal` says that this is the only way to it.
5. *Buffers as small as the header* (`TJBuffer` with `SmallBuffers`, `turbojpeg-mp.c:140`). When
   such a buffer is replaced while the header is written and the call then
   fails, `*jpegBuf` names the freed block: the instance is marked as started only
   after the header.
6. *Exit while the image is held* (`AdaptiveEncode.SampFactorExits`, `jcimageload.c:245`). Everywhere else
   a libjpeg error comes back to the caller; here, without memory for the object, the process ends.
7. *PNG context* (`AdaptiveEncode.ReturnsWithPngContextAtMost`, `rdpng.c:685`). The reader's context is released by
   its `finish_input`, which the loader's error paths do not call; the property allows for this one
   leak and for no other.

## 6. Abstractions to be aware of

* After a second free that nobody notices, `SplicedEncode` and `StripBuffer` go on as if the heap were
  sound. Where it is noticed, or the block belongs to another thread by then, `SplicedEncode` is
  `"undefined"` and promises nothing further; so is `TJBuffer` after `Overrun`.
* The height of a call is at most `JPEG_MAX_DIMENSION` (`CallAssumption`), as
  the loaders guarantee; the code cuts it to 16 bits without a check.
* The result of `fclose` is ignored by the code and so by the model.
* The classifier is a free choice between its labels.
* In `CompressData` one component with the largest sampling factors stands for all,
  `encode_mcu` writes an MCU entirely or not at all (it works on a copy of
  the bit buffer and restores it on suspension), and the scan starts after the headers.
* In `CompressMaster` nothing suspends; there is one quantisation table and one DC and
  AC table each; parameters that fail validation are represented by the error
  exit alone; lossless mode is left out; a reader learns from complete datastreams only. The
  history variable `caveat` records that the application marked tables as sent
  itself or abandoned a datastream; `Decodable` makes no claim until it asks for
  `write_all_tables`, which is the advice of the library's own comments.
* The contents of coefficients, samples and segments are left out except where
  `SpliceBytes` needs bytes.
* `RestartSync` knows an MCU by its number; a restart marker two counts ahead of the one due, made up
  in the midst of a segment, is excluded from `Recoverable`: the decoder takes it for one whose
  predecessors were lost and stays out of step.
* `LosslessDiff` codes two rows of two samples with sampling factors of 1.
* `TJBuffer` leaves out the parameters of a call; an image is a number of bytes.

## 7. What is not modelled

* *Signal processing* (colour conversion, downsampling arithmetic, DCT,
  quantisation, SIMD) and the *classifier and feature statistics*: computations on
  samples and doubles.
* *Progressive and arithmetic entropy coding*, the bits of Huffman coding, the
  *full-image coefficient buffer*: not used by the strip encoder;
  `CompressMaster` schedules their passes.
* *The decoder beyond restart markers*, *pools of the memory manager*, *transcoding and transforms*,
  *parameters and YUV functions of TurboJPEG*, `cjpeg`/`djpeg`, *colour quantisation*, *image writers*, *ICC profiles*,
  *stdio destination and sources*: upstream code the adaptive programs reach little of or not at all.
* *The benchmark programs*: they measure and print, and change nothing the encoder uses.
* *libspng, zlib*: vendored. *Java, fuzzers, scripts*: bindings and tooling. The
  parsing inside the image readers is left out as well; the loader sees its outcomes.

## 8. Plan

1. Done: strip bounds, parallel encoder with its abstract specification,
   splicer, strip buffer, loader, adaptive encoder, compression data path, compression
   master, restart handling, virtual arrays, TurboJPEG buffers, lossless differences; the
   theorems of section 4.
2. Open: the proofs listed as model-checked only in section 4, and the parts in section 7.
