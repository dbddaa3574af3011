--------------------------- MODULE CompressMaster ---------------------------
(***************************************************************************)
(* The compression object over its lifetime (jcapimin.c, jcapistd.c,       *)
(* jcmaster.c, jcmarker.c, jctrans.c): the state machine of its API, the   *)
(* passes the master control schedules for a scan script, and the markers  *)
(* they write.  One object writes several datastreams; its tables live as  *)
(* long as it does and are written only when not marked as sent.           *)
(*                                                                         *)
(* A table is known by its content: STD for the defaults, a number of its  *)
(* own for every Huffman table computed and every quality.  Sample data is *)
(* not modelled; a scan's data is one token that says with which tables    *)
(* and which restart interval it was coded.  Nothing suspends here: that   *)
(* is the subject of CompressData.                                         *)
(***************************************************************************)
EXTENDS Naturals, SequencesExt

CONSTANTS Params,           \* what an application may ask for
          HEIGHT,           \* calls of jpeg_write_scanlines that fill an image
          MAX_STREAMS,      \* bound: datastreams started
          MAX_MARKERS       \* bound: special markers in one datastream

\* huffman: the Huffman tables a scan needs, none for DC refinement and in
\* arithmetic coding.  interval: restart_interval after per_scan_setup.
ASSUME MasterAssumption ==
  /\ \A p \in Params :
       /\ p.arith \in BOOLEAN /\ p.progressive \in BOOLEAN
       /\ p.optimize \in BOOLEAN /\ p.raw \in BOOLEAN
       /\ p.scans \in Seq([huffman : SUBSET {"dc", "ac"}, dc_refine : BOOLEAN,
                           interval : Nat])
       /\ p.scans # <<>>
       /\ \A n \in DOMAIN p.scans : p.scans[n].dc_refine => p.scans[n].huffman = {}
  /\ HEIGHT \in Nat \ {0} /\ MAX_STREAMS \in Nat /\ MAX_MARKERS \in Nat

VARIABLES pc,               \* where the library is: in the application, in the
                            \* loop of jpeg_finish_compress, left by longjmp
          global_state, params, next_scanline,
          pass_type, pass_number, scan_number, total_passes, is_last_pass,
          call_pass_startup,
          gather,           \* the entropy encoder collects statistics
          tables,           \* the object's tables: content and sent_table
          coding,           \* the content of the tables in use by the pass
          restart_interval, last_restart_interval,
          out,              \* the current datastream
          known,            \* tables a reader of the earlier datastreams has
          caveat,           \* the reader may lack tables marked as sent
          computed, streams \* counters

apiVars == <<pc, global_state, params, next_scanline>>
passVars == <<pass_type, pass_number, scan_number, total_passes, is_last_pass,
              call_pass_startup, gather>>
streamVars == <<tables, coding, restart_interval, last_restart_interval, out>>
readerVars == <<known, caveat, computed, streams>>
vars == <<apiVars, passVars, streamVars, readerVars>>

Slots == {"quant", "dc", "ac"}
STD == 0
NONE == -1                  \* a table the reader never got

\* jinit_c_master_control on optimize_coding.
OptimizeCoding(p) == ~p.arith /\ (p.progressive \/ p.optimize)
TotalPasses(p) == IF OptimizeCoding(p) THEN Len(p.scans) * 2 ELSE Len(p.scans)

\* An object after jpeg_create_compress and jpeg_set_defaults.
Init ==
  /\ pc = "app" /\ global_state = "START" /\ next_scanline = 0
  /\ params \in Params
  /\ pass_type = "main_pass" /\ pass_number = 0 /\ scan_number = 0
  /\ total_passes = TotalPasses(params) /\ is_last_pass = FALSE
  /\ call_pass_startup = FALSE /\ gather = FALSE
  /\ tables = [s \in Slots |-> [content |-> STD, sent |-> FALSE]]
  /\ coding = [s \in Slots |-> STD]
  /\ restart_interval = 0 /\ last_restart_interval = 0
  /\ out = <<>>
  /\ known = [s \in Slots |-> NONE] /\ caveat = FALSE
  /\ computed = 0 /\ streams = 0

-----------------------------------------------------------------------------
(* Markers.                                                                *)

Token(kind) == [kind |-> kind]
TableToken(s) == [kind |-> "table", slot |-> s, content |-> tables[s].content]

\* emit_dqt and emit_dht suppress tables marked as sent.
Table(s) == IF tables[s].sent THEN <<>> ELSE <<TableToken(s)>>

Sent(slots) == [s \in Slots |-> IF s \in slots THEN [tables[s] EXCEPT !.sent = TRUE]
                                ELSE tables[s]]

Marked(sent) == [s \in Slots |-> [tables[s] EXCEPT !.sent = sent]]

FrameHeader == Table("quant") \o <<Token("SOF")>>

HuffmanTables(slots) ==
  (IF "dc" \in slots THEN Table("dc") ELSE <<>>)
    \o (IF "ac" \in slots THEN Table("ac") ELSE <<>>)

\* The DRI is written when the interval differs from the last one written.
ScanHeader(n, scan, interval) ==
  HuffmanTables(scan.huffman)
    \o (IF interval # last_restart_interval
        THEN <<[kind |-> "DRI", interval |-> interval]>> ELSE <<>>)
    \o <<[kind |-> "SOS", scan |-> n]>>

Data(n) == [kind |-> "data", scan |-> n, tables |-> coding,
            interval |-> restart_interval]

-----------------------------------------------------------------------------
(* The application between the library's datastreams.                      *)

Calling == pc = "app"
Idle == Calling /\ global_state = "START"

Complete == out # <<>> /\ Last(out) = Token("EOI")

\* A call in a state it is not made for: JERR_BAD_STATE, raised before
\* anything is changed.
BadState ==
  /\ pc' = "error"
  /\ UNCHANGED <<global_state, params, next_scanline, passVars, streamVars, readerVars>>

\* jpeg_set_defaults restores the tables; they count as not written.
SetDefaults ==
  \/ /\ Idle
     /\ tables' = [s \in Slots |-> [content |-> STD, sent |-> FALSE]]
     /\ UNCHANGED <<apiVars, passVars, coding, restart_interval,
                    last_restart_interval, out, readerVars>>
  \/ Calling /\ ~Idle /\ BadState

\* Mutant: no check of the state in jpeg_add_quant_table.
SetQuality_AnyTime ==
  /\ Calling
  /\ tables' = [tables EXCEPT !["quant"] = [content |-> 1 - @.content, sent |-> FALSE]]
  /\ UNCHANGED <<apiVars, passVars, coding, restart_interval,
                 last_restart_interval, out, readerVars>>

\* jpeg_set_quality, with one other quality.
SetQuality ==
  \/ /\ Idle
     /\ tables' = [tables EXCEPT !["quant"] = [content |-> 1 - @.content, sent |-> FALSE]]
     /\ UNCHANGED <<apiVars, passVars, coding, restart_interval,
                    last_restart_interval, out, readerVars>>
  \/ Calling /\ ~Idle /\ BadState

\* jpeg_suppress_tables by the application, in any state.
SuppressTables(suppress) ==
  /\ Calling
  /\ tables' = Marked(suppress)
  /\ caveat' = (caveat \/ suppress)
  /\ UNCHANGED <<apiVars, passVars, coding, restart_interval,
                 last_restart_interval, out, known, computed, streams>>

\* What the reader has once it has read the last datastream, if complete.
LastOf(stream, slot, default) ==
  LET at == {k \in DOMAIN stream :
               stream[k].kind = "table" /\ stream[k].slot = slot}
  IN  IF at = {} THEN default
      ELSE stream[CHOOSE k \in at : \A j \in at : j <= k].content

Learned ==
  [s \in Slots |-> IF Complete THEN LastOf(out, s, known[s]) ELSE known[s]]

\* jpeg_write_tables: a datastream of the tables not yet sent.
WriteTables ==
  \/ /\ Idle /\ streams < MAX_STREAMS
     /\ known' = Learned
     /\ LET huffman == IF params.arith THEN {} ELSE {"dc", "ac"}
        IN  /\ out' = <<Token("SOI")>> \o Table("quant") \o HuffmanTables(huffman)
                        \o <<Token("EOI")>>
            /\ tables' = Sent({"quant"} \cup huffman)
     /\ last_restart_interval' = 0
     /\ streams' = streams + 1
     /\ UNCHANGED <<apiVars, passVars, coding, restart_interval, caveat, computed>>
  \/ Calling /\ ~Idle /\ BadState

-----------------------------------------------------------------------------
(* The master control.                                                     *)

Scan(n) == params.scans[n + 1]

\* prepare_for_pass for the first pass, from jpeg_start_compress.  The frame
\* and scan headers of a single pass wait for the first scanline.
PrepareMainPass(p) ==
  /\ pass_type' = "main_pass" /\ pass_number' = 0 /\ scan_number' = 0
  /\ total_passes' = TotalPasses(p)
  /\ is_last_pass' = (TotalPasses(p) = 1)
  /\ gather' = OptimizeCoding(p)
  /\ call_pass_startup' = ~OptimizeCoding(p)
  /\ restart_interval' = p.scans[1].interval

\* jpeg_start_compress.  An application that wrote a datastream no reader saw,
\* or marked tables as sent itself, is asked for write_all_tables afterwards.
StartCompress ==
  \/ /\ Idle /\ streams < MAX_STREAMS
     /\ \E p \in Params, write_all_tables \in BOOLEAN :
          /\ params' = p
          /\ tables' = IF write_all_tables THEN Marked(FALSE) ELSE tables
          /\ caveat' = (caveat /\ ~write_all_tables)
          /\ PrepareMainPass(p)
          /\ global_state' = IF p.raw THEN "RAW_OK" ELSE "SCANNING"
     /\ coding' = [s \in Slots |-> tables[s].content]
     /\ known' = Learned
     /\ out' = <<Token("SOI")>> /\ last_restart_interval' = 0
     /\ next_scanline' = 0
     /\ streams' = streams + 1
     /\ UNCHANGED <<pc, computed>>
  \/ Calling /\ ~Idle /\ BadState

\* jpeg_write_coefficients: no main pass; the passes are those of
\* jpeg_finish_compress.
WriteCoefficients ==
  \/ /\ Idle /\ streams < MAX_STREAMS
     /\ \E p \in Params :
          /\ params' = p
          /\ pass_type' = IF OptimizeCoding(p) THEN "huff_opt_pass" ELSE "output_pass"
          /\ total_passes' = TotalPasses(p)
     /\ pass_number' = 0 /\ scan_number' = 0 /\ is_last_pass' = FALSE
     /\ tables' = Marked(FALSE) /\ caveat' = FALSE
     /\ coding' = [s \in Slots |-> tables[s].content]
     /\ known' = Learned
     /\ out' = <<Token("SOI")>> /\ last_restart_interval' = 0
     /\ next_scanline' = 0 /\ global_state' = "WRCOEFS"
     /\ streams' = streams + 1
     /\ UNCHANGED <<pc, computed, gather, call_pass_startup, restart_interval>>
  \/ Calling /\ ~Idle /\ BadState

Compressing == global_state \in {"SCANNING", "RAW_OK", "WRCOEFS"}

\* Mutant: markers are accepted as long as the object is compressing.
WriteMarker_Late ==
  \/ /\ Calling /\ Compressing
     /\ Len(SelectSeq(out, LAMBDA t : t.kind = "COM")) < MAX_MARKERS
     /\ out' = Append(out, Token("COM"))
     /\ UNCHANGED <<apiVars, passVars, tables, coding, restart_interval,
                    last_restart_interval, readerVars>>
  \/ Calling /\ ~Compressing /\ BadState

\* jpeg_write_marker, before the first scanline only.
WriteMarker ==
  \/ /\ Calling /\ Compressing /\ next_scanline = 0
     /\ Len(SelectSeq(out, LAMBDA t : t.kind = "COM")) < MAX_MARKERS
     /\ out' = Append(out, Token("COM"))
     /\ UNCHANGED <<apiVars, passVars, tables, coding, restart_interval,
                    last_restart_interval, readerVars>>
  \/ Calling /\ ~(Compressing /\ next_scanline = 0) /\ BadState

\* jpeg_write_scanlines or jpeg_write_raw_data: the first call writes the
\* headers of a single pass (pass_startup).
WriteRows ==
  \/ /\ Calling /\ global_state \in {"SCANNING", "RAW_OK"} /\ next_scanline < HEIGHT
     /\ next_scanline' = next_scanline + 1
     /\ call_pass_startup' = FALSE
     /\ IF call_pass_startup
        THEN /\ out' = out \o FrameHeader \o ScanHeader(0, Scan(0), restart_interval)
             /\ tables' = Sent({"quant"} \cup Scan(0).huffman)
             /\ last_restart_interval' = restart_interval
        ELSE UNCHANGED <<out, tables, last_restart_interval>>
     /\ UNCHANGED <<pc, global_state, params, pass_type, pass_number, scan_number,
                    total_passes, is_last_pass, gather, coding, restart_interval,
                    readerVars>>
  \/ Calling /\ global_state \notin {"SCANNING", "RAW_OK"} /\ BadState

-----------------------------------------------------------------------------
(* jpeg_finish_compress.                                                   *)

\* Mutant: finish_pass_gather leaves the new tables marked as sent.
Gathered_KeepsSent ==
  [s \in Slots |-> IF s \in Scan(scan_number).huffman
                   THEN [tables[s] EXCEPT !.content = computed + 1] ELSE tables[s]]

\* The tables after a statistics pass: new, and to be written.
Gathered ==
  [s \in Slots |-> IF s \in Scan(scan_number).huffman
                   THEN [content |-> computed + 1, sent |-> FALSE] ELSE tables[s]]

\* finish_pass_master, after the entropy encoder's finish_pass.
FinishPass ==
  /\ IF gather
     THEN tables' = Gathered /\ computed' = computed + 1 /\ UNCHANGED out
     ELSE out' = Append(out, Data(scan_number)) /\ UNCHANGED <<tables, computed>>
  /\ pass_type' = IF pass_type = "output_pass" /\ OptimizeCoding(params)
                  THEN "huff_opt_pass" ELSE "output_pass"
  /\ scan_number' =
       IF pass_type = "output_pass" \/ (pass_type = "main_pass" /\ ~OptimizeCoding(params))
       THEN scan_number + 1 ELSE scan_number
  /\ pass_number' = pass_number + 1
  /\ pc' = "passes"
  /\ UNCHANGED <<global_state, params, next_scanline, total_passes, is_last_pass,
                 call_pass_startup, gather, coding, restart_interval,
                 last_restart_interval, known, caveat, streams>>

AllRows == global_state \in {"SCANNING", "RAW_OK"} /\ next_scanline >= HEIGHT

\* The call ends the main pass; coefficients had none.
FinishCompress ==
  \/ Calling /\ AllRows /\ FinishPass
  \/ /\ Calling /\ global_state = "WRCOEFS"
     /\ pc' = "passes"
     /\ UNCHANGED <<global_state, params, next_scanline, passVars, streamVars, readerVars>>

\* JERR_TOO_LITTLE_DATA or JERR_BAD_STATE.
FinishRefused ==
  Calling /\ ~AllRows /\ global_state # "WRCOEFS" /\ BadState

\* A scan whose statistics pass is skipped.
SkipsGather(n) == Scan(n).dc_refine

\* prepare_for_pass: a statistics pass.
PrepareGather ==
  /\ pc = "passes" /\ ~is_last_pass
  /\ pass_type = "huff_opt_pass" /\ ~SkipsGather(scan_number)
  /\ restart_interval' = Scan(scan_number).interval
  /\ gather' = TRUE /\ call_pass_startup' = FALSE
  /\ is_last_pass' = (pass_number = total_passes - 1)
  /\ pc' = "pass"
  /\ UNCHANGED <<global_state, params, next_scanline, pass_type, pass_number,
                 scan_number, total_passes, tables, coding, last_restart_interval,
                 out, readerVars>>

\* Mutant: the skipped statistics pass is not counted.
OutputPassNumber_NotCounted == pass_number

\* Mutant: a pass is counted as skipped where there was none.
OutputPassNumber_Always == pass_number + 1

\* The statistics pass that is skipped counts as made.
OutputPassNumber ==
  IF pass_type = "huff_opt_pass" THEN pass_number + 1 ELSE pass_number

\* prepare_for_pass: an output pass, after a statistics pass that is skipped
\* for DC refinement.
PrepareOutput ==
  /\ pc = "passes" /\ ~is_last_pass
  /\ pass_type = "huff_opt_pass" => SkipsGather(scan_number)
  /\ pass_type' = "output_pass"
  /\ pass_number' = OutputPassNumber
  /\ LET scan == Scan(scan_number)
         interval == scan.interval
         frame == IF scan_number = 0 THEN FrameHeader ELSE <<>>
     IN  /\ restart_interval' = interval /\ last_restart_interval' = interval
         /\ out' = out \o frame \o ScanHeader(scan_number, scan, interval)
         /\ tables' = Sent(scan.huffman \cup (IF scan_number = 0 THEN {"quant"} ELSE {}))
  /\ coding' = [coding EXCEPT !["dc"] = tables["dc"].content, !["ac"] = tables["ac"].content]
  /\ gather' = FALSE /\ call_pass_startup' = FALSE
  /\ is_last_pass' = (pass_number' = total_passes - 1)
  /\ pc' = "pass"
  /\ UNCHANGED <<global_state, params, next_scanline, scan_number, total_passes,
                 readerVars>>

\* The coefficient controller runs over the image, then finish_pass.
RunPass == pc = "pass" /\ FinishPass

\* write_file_trailer, term_destination and jpeg_abort.
WriteTrailer ==
  /\ pc = "passes" /\ is_last_pass
  /\ out' = Append(out, Token("EOI"))
  /\ global_state' = "START" /\ pc' = "app"
  /\ UNCHANGED <<params, next_scanline, passVars, tables, coding, restart_interval,
                 last_restart_interval, readerVars>>

\* The destination or the memory manager fails in a pass.
PassError ==
  /\ pc \in {"passes", "pass"}
  /\ pc' = "error"
  /\ UNCHANGED <<global_state, params, next_scanline, passVars, streamVars, readerVars>>

\* jpeg_abort: the datastream is given up, and no reader sees it; the tables
\* keep their marks.
Abort ==
  /\ pc = "error" \/ (Calling /\ ~Idle)
  /\ pc' = "app" /\ global_state' = "START"
  /\ out' = IF Complete THEN out ELSE <<>>
  /\ caveat' = (caveat \/ (out # <<>> /\ ~Complete))
  /\ UNCHANGED <<params, next_scanline, passVars, tables, coding, restart_interval,
                 last_restart_interval, known, computed, streams>>

Next ==
  \/ SetDefaults \/ SetQuality \/ \E suppress \in BOOLEAN : SuppressTables(suppress)
  \/ WriteTables \/ StartCompress \/ WriteCoefficients \/ WriteMarker \/ WriteRows
  \/ FinishCompress \/ FinishRefused \/ PrepareGather \/ PrepareOutput \/ RunPass
  \/ WriteTrailer \/ PassError \/ Abort

Spec == Init /\ [][Next]_vars

-----------------------------------------------------------------------------

\* Every variable has its type; no scan past the end of the script is selected.
TypeOK ==
  /\ pc \in {"app", "passes", "pass", "error"}
  /\ global_state \in {"START", "SCANNING", "RAW_OK", "WRCOEFS"}
  /\ params \in Params /\ next_scanline \in 0..HEIGHT
  /\ pass_type \in {"main_pass", "huff_opt_pass", "output_pass"}
  /\ total_passes = TotalPasses(params)
  /\ pass_number \in 0..total_passes /\ scan_number \in 0..Len(params.scans)
  /\ pc = "pass" \/ (pc = "passes" /\ ~is_last_pass) => scan_number < Len(params.scans)
  /\ is_last_pass \in BOOLEAN /\ call_pass_startup \in BOOLEAN /\ gather \in BOOLEAN
  /\ DOMAIN tables = Slots /\ DOMAIN coding = Slots /\ DOMAIN known = Slots
  /\ restart_interval \in Nat /\ last_restart_interval \in Nat
  /\ caveat \in BOOLEAN /\ computed \in Nat /\ streams \in 0..MAX_STREAMS

\* jpeg_finish_compress leaves its loop exactly when the last scan has been
\* written: the passes counted beforehand are the passes made, with the
\* statistics pass of DC refinement scans skipped.
LastPassIsLastScan ==
  pc = "passes" => (is_last_pass <=> scan_number = Len(params.scans))

\* The parts of a datastream; tables, intervals and the application's markers
\* stand between them.
Part(t) == t.kind \notin {"table", "DRI", "COM"}

\* What comes after what in a datastream with n scans, or with tables only.
Follows(n, a, b) ==
  \/ a.kind = "SOI" /\ b.kind \in {"SOF", "EOI"}
  \/ a.kind = "SOF" /\ b.kind = "SOS" /\ b.scan = 0
  \/ a.kind = "SOS" /\ b.kind = "data" /\ b.scan = a.scan
  \/ a.kind = "data" /\ a.scan + 1 < n /\ b.kind = "SOS" /\ b.scan = a.scan + 1
  \/ a.kind = "data" /\ a.scan + 1 = n /\ b.kind = "EOI"

InOrder(n, stream) ==
  \A k \in DOMAIN stream :
    /\ k = 1 => stream[k].kind = "SOI"
    /\ k # 1 /\ Part(stream[k]) => \E j \in 1..(k - 1) :
         /\ Part(stream[j]) /\ Follows(n, stream[j], stream[k])
         /\ \A i \in (j + 1)..(k - 1) : ~Part(stream[i])

MarkersFirst(stream) ==
  \A j, k \in DOMAIN stream :
    stream[j].kind = "COM" /\ stream[k].kind = "SOF" => j < k

\* A datastream is SOI, the application's markers, one frame header, then every
\* scan of the script once, in order and followed by its data, and EOI.
WellFormed == InOrder(Len(params.scans), out) /\ MarkersFirst(out)

Before(k) == SubSeq(out, 1, k - 1)

\* The restart interval a decoder goes by after it has read so much.
LastInterval(stream) ==
  LET at == {k \in DOMAIN stream : stream[k].kind = "DRI"}
  IN  IF at = {} THEN 0
      ELSE stream[CHOOSE k \in at : \A j \in at : j <= k].interval

UsedBy(n) == {"quant"} \cup Scan(n).huffman

\* Tables-only and abbreviated datastreams: "once the decoder has read a table,
\* it will remember that table" (doc/libjpeg.txt).  A reader of all datastreams
\* of the object has, at every scan, the tables and the restart interval the
\* scan was coded with, unless the application marked tables as sent itself or
\* gave up a datastream and did not ask for all tables since.
Decodable ==
  \A k \in DOMAIN out : out[k].kind = "data" =>
    /\ out[k].interval = LastInterval(Before(k))
    /\ ~caveat => \A s \in UsedBy(out[k].scan) :
         LastOf(Before(k), s, known[s]) = out[k].tables[s]

\* "You cannot suppress output of the computed Huffman tables when Huffman
\* optimization is selected" (doc/libjpeg.txt): whatever the application marks
\* as sent and whenever it does, they stand in the datastream they were
\* computed for.
ComputedTablesWritten ==
  \A k \in DOMAIN out : out[k].kind = "data" /\ OptimizeCoding(params) =>
    \A s \in Scan(out[k].scan).huffman :
      LastOf(Before(k), s, NONE) = out[k].tables[s]

=============================================================================
