------------------------ MODULE CompressMasterProofs ------------------------
(***************************************************************************)
(* For every scan script, with or without Huffman optimisation, and every  *)
(* order of API calls:                                                     *)
(*  - the passes counted by jinit_c_master_control are the passes          *)
(*    jpeg_finish_compress makes, and its loop ends with the last scan of  *)
(*    the script (IInv);                                                   *)
(*  - a reader of the object's datastreams can decode every scan, and      *)
(*    computed Huffman tables are written (RInv, which uses IInv);         *)
(*  - the parts of a datastream stand in order, each scan once and with    *)
(*    its data (WInv, which uses both).                                    *)
(* LastOf and LastInterval choose the greatest index of a token; the       *)
(* relation LastIs says the same without a choice, so that concatenation   *)
(* can be reasoned about, and ReadsLast and ReadsInterval lead back.       *)
(***************************************************************************)
EXTENDS CompressMaster, SequenceTheorems, TLAPS

Opt == OptimizeCoding(params)
Scans == Len(params.scans)

\* The pass that a scan has reached: with optimisation each scan has two.
PassOfScan ==
  IF ~Opt THEN scan_number
  ELSE IF pass_type = "output_pass" THEN 2 * scan_number + 1 ELSE 2 * scan_number

InMainPass ==
  /\ pass_type = "main_pass" /\ pass_number = 0 /\ scan_number = 0
  /\ is_last_pass <=> total_passes = 1

AwaitsFinish ==
  /\ pass_type = IF Opt THEN "huff_opt_pass" ELSE "output_pass"
  /\ pass_number = 0 /\ scan_number = 0 /\ ~is_last_pass

BetweenPasses ==
  /\ pass_type # "main_pass" /\ (~Opt => pass_type = "output_pass")
  /\ pass_number = PassOfScan
  /\ Opt /\ pass_type = "output_pass" => scan_number < Scans
  /\ is_last_pass <=> scan_number = Scans

InPass ==
  /\ pass_type # "main_pass" /\ (~Opt => pass_type = "output_pass")
  /\ pass_number = PassOfScan
  /\ scan_number < Scans
  /\ is_last_pass <=> pass_number = total_passes - 1

\* Where the schedule stands, by where the library is.
Schedule ==
  /\ pc = "app" /\ global_state \in {"SCANNING", "RAW_OK"} => InMainPass
  /\ pc = "app" /\ global_state = "WRCOEFS" => AwaitsFinish
  /\ pc = "passes" => BetweenPasses
  /\ pc = "pass" => InPass

IInv == TypeOK /\ Schedule

-----------------------------------------------------------------------------

\* A script has at least one scan, and every scan a restart interval.
LEMMA ScriptFacts ==
  ASSUME NEW p \in Params
  PROVE  /\ Len(p.scans) \in Nat \ {0}
         /\ \A n \in 0..(Len(p.scans) - 1) : p.scans[n + 1].interval \in Nat
         /\ OptimizeCoding(p) \in BOOLEAN
         /\ TotalPasses(p) \in Nat
         /\ OptimizeCoding(p) => TotalPasses(p) = 2 * Len(p.scans)
         /\ ~OptimizeCoding(p) => TotalPasses(p) = Len(p.scans)
<1> DEFINE ScanSet == [huffman : SUBSET {"dc", "ac"}, dc_refine : BOOLEAN,
                       interval : Nat]
<1>1. p.scans \in Seq(ScanSet) /\ p.scans # <<>>
  BY MasterAssumption
<1>2. \A scan \in ScanSet : scan.interval \in Nat
  OBVIOUS
<1> HIDE DEF ScanSet
<1>3. Len(p.scans) \in Nat \ {0}
  BY <1>1
<1>4. \A n \in 0..(Len(p.scans) - 1) : p.scans[n + 1] \in ScanSet
  BY <1>1, <1>3
<1>5. OptimizeCoding(p) \in BOOLEAN
  BY DEF OptimizeCoding
<1> QED
  BY <1>2, <1>3, <1>4, <1>5 DEF TotalPasses

LEMMA Bounds == HEIGHT \in Nat \ {0} /\ MAX_STREAMS \in Nat
BY MasterAssumption

LEMMA InitInv == Init => IInv
<1> SUFFICES ASSUME Init PROVE IInv
  OBVIOUS
<1>1. params \in Params
  BY DEF Init
<1>2. TotalPasses(params) \in Nat /\ Len(params.scans) \in Nat
  BY <1>1, ScriptFacts
<1>3. TypeOK
  <2>1. DOMAIN tables = Slots /\ DOMAIN coding = Slots /\ DOMAIN known = Slots
    BY DEF Init
  <2>2. pc = "app" /\ total_passes = TotalPasses(params)
    BY DEF Init
  <2>3. /\ pass_number \in 0..total_passes /\ scan_number \in 0..Len(params.scans)
        /\ next_scanline \in 0..HEIGHT /\ streams \in 0..MAX_STREAMS
    BY <1>2, Bounds DEF Init
  <2> QED
    BY <1>1, <2>1, <2>2, <2>3 DEF Init, TypeOK
<1>4. Schedule
  BY DEF Init, Schedule
<1> QED
  BY <1>3, <1>4 DEF IInv

-----------------------------------------------------------------------------
(* The steps.                                                              *)

\* A step that leaves the passes and the state of the API alone.
LEMMA Quiet ==
  ASSUME IInv, UNCHANGED <<apiVars, passVars, restart_interval>>,
         DOMAIN tables' = Slots, DOMAIN coding' = Slots, DOMAIN known' = Slots,
         last_restart_interval' \in Nat, caveat' \in BOOLEAN,
         computed' \in Nat, streams' \in 0..MAX_STREAMS
  PROVE  IInv'
<1>1. TypeOK'
  BY DEF IInv, TypeOK, apiVars, passVars
<1>2. Schedule'
  BY DEF IInv, Schedule, InMainPass, AwaitsFinish, BetweenPasses, InPass, PassOfScan,
         Opt, Scans, apiVars, passVars
<1> QED
  BY <1>1, <1>2 DEF IInv

\* A step that raises an error: the schedule is given up.
LEMMA Raised ==
  ASSUME IInv, pc' = "error",
         UNCHANGED <<global_state, params, next_scanline, passVars, streamVars, readerVars>>
  PROVE  IInv'
<1>1. TypeOK'
  BY DEF IInv, TypeOK, passVars, streamVars, readerVars
<1>2. Schedule'
  BY DEF Schedule
<1> QED
  BY <1>1, <1>2 DEF IInv

LEMMA RefusedCall == ASSUME IInv, BadState PROVE IInv'
BY Raised DEF BadState

LEMMA TableCalls ==
  ASSUME IInv, SetDefaults \/ SetQuality \/ \E b \in BOOLEAN : SuppressTables(b)
  PROVE  IInv'
<1>0. /\ DOMAIN tables = Slots /\ DOMAIN coding = Slots /\ DOMAIN known = Slots
      /\ last_restart_interval \in Nat /\ caveat \in BOOLEAN
      /\ computed \in Nat /\ streams \in 0..MAX_STREAMS
  BY DEF IInv, TypeOK
<1>1. CASE SetDefaults
  BY <1>0, <1>1, Quiet, RefusedCall DEF SetDefaults, readerVars
<1>2. CASE SetQuality
  BY <1>0, <1>2, Quiet, RefusedCall DEF SetQuality, readerVars
<1>3. ASSUME NEW b \in BOOLEAN, SuppressTables(b) PROVE IInv'
  BY <1>0, <1>3, Quiet DEF SuppressTables, Marked
<1> QED
  BY <1>1, <1>2, <1>3

LEMMA MarkerCalls ==
  ASSUME IInv, WriteTables \/ WriteMarker
  PROVE  IInv'
<1>0. /\ DOMAIN tables = Slots /\ DOMAIN coding = Slots /\ DOMAIN known = Slots
      /\ last_restart_interval \in Nat /\ caveat \in BOOLEAN
      /\ computed \in Nat /\ streams \in 0..MAX_STREAMS
  BY DEF IInv, TypeOK
<1>1. CASE WriteTables
  <2>1. CASE BadState
    BY <2>1, RefusedCall
  <2>2. CASE ~BadState
    <3>1. DOMAIN tables' = Slots /\ DOMAIN known' = Slots
      BY <1>1, <2>2 DEF WriteTables, Sent, Learned
    <3>2. streams' \in 0..MAX_STREAMS /\ last_restart_interval' \in Nat
      BY <1>0, <1>1, <2>2, Bounds DEF WriteTables
    <3> QED
      BY <1>0, <1>1, <2>2, <3>1, <3>2, Quiet DEF WriteTables
  <2> QED
    BY <2>1, <2>2
<1>2. CASE WriteMarker
  BY <1>0, <1>2, Quiet, RefusedCall DEF WriteMarker, readerVars
<1> QED
  BY <1>1, <1>2

LEMMA StartCalls ==
  ASSUME IInv, StartCompress \/ WriteCoefficients
  PROVE  IInv'
<1>0. /\ DOMAIN tables = Slots /\ pc = pc /\ caveat \in BOOLEAN
      /\ computed \in Nat /\ streams \in 0..MAX_STREAMS
      /\ restart_interval \in Nat /\ gather \in BOOLEAN /\ call_pass_startup \in BOOLEAN
  BY DEF IInv, TypeOK
<1>1. CASE StartCompress
  <2>1. CASE BadState
    BY <2>1, RefusedCall
  <2>2. CASE ~BadState
    <3>1. PICK p \in Params, write_all_tables \in BOOLEAN :
            /\ params' = p
            /\ tables' = IF write_all_tables THEN Marked(FALSE) ELSE tables
            /\ caveat' = (caveat /\ ~write_all_tables)
            /\ PrepareMainPass(p)
            /\ global_state' = IF p.raw THEN "RAW_OK" ELSE "SCANNING"
      BY <1>1, <2>2 DEF StartCompress
    <3>2. /\ Idle /\ streams < MAX_STREAMS /\ streams' = streams + 1
          /\ coding' = [s \in Slots |-> tables[s].content]
          /\ known' = Learned /\ last_restart_interval' = 0
          /\ next_scanline' = 0 /\ UNCHANGED <<pc, computed>>
      BY <1>1, <2>2 DEF StartCompress
    <3>3. /\ Len(p.scans) \in Nat \ {0} /\ p.scans[1].interval \in Nat
          /\ TotalPasses(p) \in Nat /\ OptimizeCoding(p) \in BOOLEAN
      <4>1. Len(p.scans) \in Nat \ {0} /\ TotalPasses(p) \in Nat
        BY ScriptFacts
      <4>2. p.scans[0 + 1].interval \in Nat
        BY <4>1, ScriptFacts
      <4> QED
        BY <4>1, <4>2, ScriptFacts
    <3>4. DOMAIN tables' = Slots /\ DOMAIN coding' = Slots /\ DOMAIN known' = Slots
      BY <1>0, <3>1, <3>2 DEF Marked, Learned
    <3>5. TypeOK'
      <4>1. gather' \in BOOLEAN /\ call_pass_startup' \in BOOLEAN
        BY <3>1, <3>3 DEF PrepareMainPass
      <4>2. caveat' \in BOOLEAN /\ is_last_pass' \in BOOLEAN
        BY <1>0, <3>1 DEF PrepareMainPass
      <4>3. /\ params' \in Params /\ pc' = "app"
            /\ global_state' \in {"START", "SCANNING", "RAW_OK", "WRCOEFS"}
            /\ pass_type' = "main_pass" /\ total_passes' = TotalPasses(params')
            /\ restart_interval' \in Nat
        BY <3>1, <3>2, <3>3 DEF PrepareMainPass, Idle, Calling
      <4>4. /\ pass_number' \in 0..total_passes' /\ scan_number' \in 0..Len(params'.scans)
            /\ next_scanline' \in 0..HEIGHT /\ streams' \in 0..MAX_STREAMS
        BY <1>0, <3>1, <3>2, <3>3, Bounds DEF PrepareMainPass
      <4> QED
        BY <1>0, <3>2, <3>4, <4>1, <4>2, <4>3, <4>4 DEF TypeOK
    <3>6. Schedule'
      BY <3>1, <3>2 DEF PrepareMainPass, Schedule, InMainPass, Idle, Calling
    <3> QED
      BY <3>5, <3>6 DEF IInv
  <2> QED
    BY <2>1, <2>2
<1>2. CASE WriteCoefficients
  <2>1. CASE BadState
    BY <2>1, RefusedCall
  <2>2. CASE ~BadState
    <3>1. PICK p \in Params :
            /\ params' = p
            /\ pass_type' = IF OptimizeCoding(p) THEN "huff_opt_pass" ELSE "output_pass"
            /\ total_passes' = TotalPasses(p)
      BY <1>2, <2>2 DEF WriteCoefficients
    <3>2. /\ Idle /\ streams < MAX_STREAMS /\ streams' = streams + 1
          /\ pass_number' = 0 /\ scan_number' = 0 /\ is_last_pass' = FALSE
          /\ tables' = Marked(FALSE) /\ caveat' = FALSE
          /\ coding' = [s \in Slots |-> tables[s].content]
          /\ known' = Learned /\ last_restart_interval' = 0
          /\ next_scanline' = 0 /\ global_state' = "WRCOEFS"
          /\ UNCHANGED <<pc, computed, gather, call_pass_startup, restart_interval>>
      BY <1>2, <2>2 DEF WriteCoefficients
    <3>3. Len(p.scans) \in Nat \ {0} /\ TotalPasses(p) \in Nat
      BY ScriptFacts
    <3>4. DOMAIN tables' = Slots /\ DOMAIN coding' = Slots /\ DOMAIN known' = Slots
      BY <3>2 DEF Marked, Learned
    <3>5. TypeOK'
      <4>1. /\ pass_number' \in 0..total_passes' /\ scan_number' \in 0..Len(params'.scans)
            /\ next_scanline' \in 0..HEIGHT /\ streams' \in 0..MAX_STREAMS
        BY <1>0, <3>1, <3>2, <3>3, Bounds
      <4>2. /\ params' \in Params /\ pc' = "app" /\ total_passes' = TotalPasses(params')
            /\ pass_type' \in {"main_pass", "huff_opt_pass", "output_pass"}
            /\ UNCHANGED <<computed, gather, call_pass_startup, restart_interval>>
        BY <3>1, <3>2 DEF Idle, Calling
      <4> QED
        BY <1>0, <3>2, <3>4, <4>1, <4>2 DEF TypeOK
    <3>6. Schedule'
      BY <3>1, <3>2 DEF Schedule, AwaitsFinish, Idle, Calling, Opt
    <3> QED
      BY <3>5, <3>6 DEF IInv
  <2> QED
    BY <2>1, <2>2
<1> QED
  BY <1>1, <1>2

LEMMA RowCalls == ASSUME IInv, WriteRows PROVE IInv'
<1>0. TypeOK /\ Schedule /\ HEIGHT \in Nat
  BY Bounds DEF IInv
<1>1. CASE BadState
  BY <1>1, RefusedCall
<1>2. CASE ~BadState
  <2>1. DOMAIN tables' = Slots /\ last_restart_interval' \in Nat
    BY <1>0, <1>2 DEF WriteRows, Sent, TypeOK
  <2>2. next_scanline' \in 0..HEIGHT
    BY <1>0, <1>2 DEF WriteRows, TypeOK
  <2>3. /\ UNCHANGED <<pc, global_state, params, pass_type, pass_number, scan_number,
                       total_passes, is_last_pass, gather, coding, restart_interval>>
        /\ UNCHANGED readerVars /\ call_pass_startup' = FALSE
    BY <1>2 DEF WriteRows
  <2>4. TypeOK'
    BY <1>0, <2>1, <2>2, <2>3 DEF TypeOK, readerVars
  <2>5. Schedule'
    BY <1>0, <2>3 DEF Schedule, InMainPass, AwaitsFinish, BetweenPasses, InPass,
                      PassOfScan, Opt, Scans
  <2> QED
    BY <2>4, <2>5 DEF IInv
<1> QED
  BY <1>1, <1>2

\* What the entropy encoder's finish_pass leaves, whatever pass it ends.
LEMMA FinishPassTypes ==
  ASSUME TypeOK, FinishPass
  PROVE  DOMAIN tables' = Slots /\ computed' \in Nat
BY DEF TypeOK, FinishPass, Gathered

\* A pass that ends leaves the schedule between passes.
LEMMA EndOfPass ==
  ASSUME IInv, FinishPass, InMainPass \/ InPass
  PROVE  IInv'
<1> DEFINE n == Len(params.scans)
<1>0. TypeOK /\ params \in Params
  BY DEF IInv, TypeOK
<1>1. /\ n \in Nat \ {0} /\ Opt \in BOOLEAN
      /\ Opt => total_passes = 2 * n
      /\ ~Opt => total_passes = n
  BY <1>0, ScriptFacts DEF Opt, TypeOK
<1>2. /\ pass_number \in Nat /\ scan_number \in Nat /\ is_last_pass \in BOOLEAN
      /\ pass_type \in {"main_pass", "huff_opt_pass", "output_pass"}
  BY <1>0, <1>1, ScriptFacts DEF TypeOK
<1>3. /\ pass_type' = IF pass_type = "output_pass" /\ Opt THEN "huff_opt_pass"
                      ELSE "output_pass"
      /\ scan_number' = IF pass_type = "output_pass" \/ (pass_type = "main_pass" /\ ~Opt)
                        THEN scan_number + 1 ELSE scan_number
      /\ pass_number' = pass_number + 1 /\ pc' = "passes"
  BY DEF FinishPass, Opt
<1>4. /\ UNCHANGED <<global_state, params, next_scanline, total_passes, is_last_pass,
                     call_pass_startup, gather, coding, restart_interval,
                     last_restart_interval, known, caveat, streams>>
      /\ Opt' = Opt /\ Scans' = n
  BY DEF FinishPass, Opt, Scans
<1>5. BetweenPasses' /\ pass_number' \in 0..total_passes /\ scan_number' \in 0..n
  <2>1. CASE InMainPass
    BY <1>1, <1>2, <1>3, <1>4, <2>1 DEF InMainPass, BetweenPasses, PassOfScan
  <2>2. CASE InPass
    BY <1>1, <1>2, <1>3, <1>4, <2>2 DEF InPass, BetweenPasses, PassOfScan, Scans
  <2> QED
    BY <2>1, <2>2
<1>6. TypeOK'
  BY <1>0, <1>1, <1>3, <1>4, <1>5, FinishPassTypes DEF TypeOK, BetweenPasses, Scans
<1>7. Schedule'
  BY <1>3, <1>5 DEF Schedule
<1> QED
  BY <1>6, <1>7 DEF IInv

\* The call itself: it ends the main pass, or there was none.
LEMMA FinishCalls ==
  ASSUME IInv, FinishCompress \/ FinishRefused
  PROVE  IInv'
<1>1. CASE Calling /\ AllRows /\ FinishPass
  <2>1. InMainPass
    BY <1>1 DEF IInv, Schedule, Calling, AllRows
  <2> QED
    BY <1>1, <2>1, EndOfPass
<1>2. CASE /\ Calling /\ global_state = "WRCOEFS" /\ pc' = "passes"
           /\ UNCHANGED <<global_state, params, next_scanline, passVars, streamVars,
                          readerVars>>
  <2>1. /\ AwaitsFinish /\ params \in Params /\ pass_number = 0 /\ scan_number = 0
        /\ UNCHANGED <<params, pass_type, pass_number, scan_number, total_passes,
                       is_last_pass>>
    BY <1>2 DEF IInv, Schedule, Calling, TypeOK, AwaitsFinish, passVars
  <2>2. Len(params.scans) \in Nat \ {0}
    BY <2>1, ScriptFacts
  <2>3. BetweenPasses'
    BY <2>1, <2>2 DEF AwaitsFinish, BetweenPasses, PassOfScan, Opt, Scans
  <2>4. TypeOK'
    BY <1>2, <2>1, <2>2 DEF IInv, TypeOK, passVars, streamVars, readerVars
  <2>5. Schedule'
    BY <1>2, <2>3 DEF Schedule
  <2> QED
    BY <2>4, <2>5 DEF IInv
<1>3. CASE FinishRefused
  BY <1>3, RefusedCall DEF FinishRefused
<1> QED
  BY <1>1, <1>2, <1>3 DEF FinishCompress

\* prepare_for_pass keeps the count of passes at the scan's own pass.
LEMMA Preparing ==
  ASSUME IInv, PrepareGather \/ PrepareOutput
  PROVE  IInv'
<1> DEFINE n == Len(params.scans)
<1>0. /\ TypeOK /\ params \in Params /\ BetweenPasses /\ ~is_last_pass
  BY DEF IInv, TypeOK, Schedule, PrepareGather, PrepareOutput
<1>1. /\ n \in Nat \ {0} /\ Opt \in BOOLEAN
      /\ Opt => total_passes = 2 * n
      /\ ~Opt => total_passes = n
      /\ \A k \in 0..(n - 1) : params.scans[k + 1].interval \in Nat
  BY <1>0, ScriptFacts DEF Opt, TypeOK
<1>2. /\ pass_number \in Nat /\ scan_number \in 0..n
      /\ pass_type \in {"main_pass", "huff_opt_pass", "output_pass"}
  BY <1>0, <1>1, ScriptFacts DEF TypeOK
<1>3. scan_number \in 0..(n - 1) /\ Scan(scan_number).interval \in Nat
  BY <1>0, <1>1, <1>2 DEF BetweenPasses, Scan, Scans
<1>4. /\ UNCHANGED <<params, scan_number, total_passes, global_state, next_scanline>>
      /\ UNCHANGED readerVars /\ pc' = "pass"
      /\ call_pass_startup' \in BOOLEAN /\ gather' \in BOOLEAN
      /\ is_last_pass' = (pass_number' = total_passes - 1)
      /\ Opt' = Opt /\ Scans' = n
  BY DEF PrepareGather, PrepareOutput, Opt, Scans
<1>5. /\ pass_number' = PassOfScan' /\ pass_type' # "main_pass"
      /\ pass_type' \in {"huff_opt_pass", "output_pass"}
      /\ ~Opt => pass_type' = "output_pass"
  <2>1. CASE PrepareGather
    BY <1>0, <1>2, <1>4, <2>1 DEF PrepareGather, BetweenPasses, PassOfScan
  <2>2. CASE PrepareOutput
    <3>1. pass_type' = "output_pass" /\ pass_number' = OutputPassNumber
      BY <2>2 DEF PrepareOutput
    <3> QED
      BY <1>0, <1>2, <1>3, <1>4, <3>1
         DEF BetweenPasses, PassOfScan, OutputPassNumber
  <2> QED
    BY <2>1, <2>2
<1>6. pass_number' \in 0..total_passes
  BY <1>1, <1>3, <1>4, <1>5 DEF PassOfScan
<1>7. InPass'
  <2>1. scan_number' < Scans'
    BY <1>1, <1>3, <1>4
  <2>2. is_last_pass' <=> pass_number' = total_passes' - 1
    BY <1>4
  <2>3. ~Opt' => pass_type' = "output_pass"
    BY <1>4, <1>5
  <2> QED
    BY <1>5, <2>1, <2>2, <2>3 DEF InPass
<1>8. /\ DOMAIN tables' = Slots /\ DOMAIN coding' = Slots
      /\ restart_interval' \in Nat /\ last_restart_interval' \in Nat
  <2>1. CASE PrepareGather
    BY <1>0, <1>3, <2>1 DEF PrepareGather, TypeOK
  <2>2. CASE PrepareOutput
    <3>1. /\ restart_interval' = Scan(scan_number).interval
          /\ last_restart_interval' = Scan(scan_number).interval
      BY <2>2 DEF PrepareOutput
    <3>2. DOMAIN tables' = Slots
      BY <2>2 DEF PrepareOutput, Sent
    <3>3. DOMAIN coding' = Slots
      BY <1>0, <2>2 DEF PrepareOutput, TypeOK
    <3> QED
      BY <1>3, <3>1, <3>2, <3>3
  <2> QED
    BY <2>1, <2>2
<1>9. TypeOK'
  <2>1. total_passes' = TotalPasses(params') /\ is_last_pass' \in BOOLEAN
    BY <1>0, <1>4 DEF TypeOK
  <2>2. scan_number' < Len(params'.scans) /\ scan_number' \in 0..Len(params'.scans)
    BY <1>1, <1>3, <1>4
  <2>3. pass_number' \in 0..total_passes'
    BY <1>4, <1>6
  <2>4. /\ DOMAIN known' = Slots /\ caveat' \in BOOLEAN /\ computed' \in Nat
        /\ streams' \in 0..MAX_STREAMS /\ next_scanline' \in 0..HEIGHT
        /\ global_state' \in {"START", "SCANNING", "RAW_OK", "WRCOEFS"}
        /\ params' \in Params
    BY <1>0, <1>4 DEF TypeOK, readerVars
  <2> QED
    BY <1>4, <1>5, <1>8, <2>1, <2>2, <2>3, <2>4 DEF TypeOK
<1>10. Schedule'
  BY <1>4, <1>7 DEF Schedule
<1> QED
  BY <1>9, <1>10 DEF IInv

LEMMA Ending ==
  ASSUME IInv, RunPass \/ WriteTrailer \/ PassError \/ Abort
  PROVE  IInv'
<1>1. CASE RunPass
  <2>1. InPass /\ FinishPass
    BY <1>1 DEF IInv, Schedule, RunPass
  <2> QED
    BY <2>1, EndOfPass
<1>2. CASE WriteTrailer
  <2>1. TypeOK'
    BY <1>2 DEF IInv, TypeOK, WriteTrailer, passVars, readerVars
  <2>2. Schedule'
    BY <1>2 DEF WriteTrailer, Schedule
  <2> QED
    BY <2>1, <2>2 DEF IInv
<1>3. CASE PassError
  BY <1>3, Raised DEF PassError
<1>4. CASE Abort
  <2>1. TypeOK'
    <3>1. caveat' \in BOOLEAN
      BY <1>4 DEF IInv, TypeOK, Abort
    <3>2. /\ UNCHANGED <<params, next_scanline, passVars, tables, coding,
                         restart_interval, last_restart_interval, known, computed, streams>>
          /\ pc' = "app" /\ global_state' = "START"
      BY <1>4 DEF Abort
    <3> QED
      BY <3>1, <3>2 DEF IInv, TypeOK, passVars
  <2>2. Schedule'
    BY <1>4 DEF Abort, Schedule
  <2> QED
    BY <2>1, <2>2 DEF IInv
<1> QED
  BY <1>1, <1>2, <1>3, <1>4

LEMMA NextInv == IInv /\ [Next]_vars => IInv'
<1> SUFFICES ASSUME IInv, [Next]_vars PROVE IInv'
  OBVIOUS
<1>1. CASE UNCHANGED vars
  <2>1. TypeOK'
    BY <1>1 DEF IInv, TypeOK, vars, apiVars, passVars, streamVars, readerVars
  <2>2. Schedule'
    BY <1>1 DEF IInv, Schedule, InMainPass, AwaitsFinish, BetweenPasses, InPass,
                PassOfScan, Opt, Scans, vars, apiVars, passVars
  <2> QED
    BY <2>1, <2>2 DEF IInv
<1>2. CASE Next
  BY <1>2, TableCalls, MarkerCalls, StartCalls, RowCalls, FinishCalls, Preparing, Ending
     DEF Next
<1> QED
  BY <1>1, <1>2

\* The schedule of the passes holds in every state of every execution.
THEOREM Inductive == Spec => []IInv
<1> QED
  BY InitInv, NextInv, PTL DEF Spec

\* jinit_c_master_control, prepare_for_pass and finish_pass_master keep every
\* counter in its range: no scan past the end of a script is selected.
THEOREM TypeCorrect == Spec => []TypeOK
<1>1. IInv => TypeOK
  BY DEF IInv
<1> QED
  BY <1>1, Inductive, PTL

\* For every scan script, jpeg_finish_compress leaves its loop exactly when the
\* last scan of the script has been written.
THEOREM FinishWritesAllScans == Spec => []LastPassIsLastScan
<1>1. IInv => LastPassIsLastScan
  BY DEF IInv, Schedule, BetweenPasses, LastPassIsLastScan, Scans
<1> QED
  BY <1>1, Inductive, PTL

-----------------------------------------------------------------------------
(* What a reader takes from a datastream.                                  *)

\* A token of interest: the table of a slot, a restart interval, scan data.
Is(t, key) == IF key \in Slots THEN t.kind = "table" /\ t.slot = key ELSE t.kind = key
Value(t, key) == IF key \in Slots THEN t.content ELSE t.interval

Untouched(stream, key) == \A k \in DOMAIN stream : ~Is(stream[k], key)

Sets(stream, key, value) ==
  \E k \in DOMAIN stream :
    /\ Is(stream[k], key) /\ Value(stream[k], key) = value
    /\ \A j \in DOMAIN stream : Is(stream[j], key) => j <= k

\* LastOf and LastInterval as a relation, which needs no greatest element.
LastIs(stream, key, default, value) ==
  Sets(stream, key, value) \/ (Untouched(stream, key) /\ value = default)

Tokens ==
  [kind : {"SOI", "SOF", "EOI", "COM"}]
    \cup [kind : {"table"}, slot : Slots, content : Int]
    \cup [kind : {"DRI"}, interval : Nat] \cup [kind : {"SOS"}, scan : Nat]
    \cup [kind : {"data"}, scan : Nat, tables : [Slots -> Int], interval : Nat]

LEMMA Concat ==
  ASSUME NEW T, NEW a \in Seq(T), NEW b \in Seq(T), NEW key
  PROVE  /\ a \o b \in Seq(T)
         /\ Untouched(a, key) /\ Untouched(b, key) => Untouched(a \o b, key)
         /\ \A v : Sets(b, key, v) => Sets(a \o b, key, v)
         /\ \A v : Sets(a, key, v) /\ Untouched(b, key) => Sets(a \o b, key, v)
<1> DEFINE c == a \o b
<1>1. /\ c \in Seq(T) /\ Len(c) = Len(a) + Len(b)
      /\ DOMAIN a = 1..Len(a) /\ DOMAIN b = 1..Len(b) /\ DOMAIN c = 1..Len(c)
      /\ Len(a) \in Nat /\ Len(b) \in Nat
      /\ \A k \in 1..Len(c) : c[k] = IF k <= Len(a) THEN a[k] ELSE b[k - Len(a)]
  OBVIOUS
<1> HIDE DEF c
<1>2. Untouched(a, key) /\ Untouched(b, key) => Untouched(c, key)
  BY <1>1 DEF Untouched
<1>3. ASSUME NEW v, Sets(b, key, v) PROVE Sets(c, key, v)
  <2>1. PICK k \in DOMAIN b : /\ Is(b[k], key) /\ Value(b[k], key) = v
                              /\ \A j \in DOMAIN b : Is(b[j], key) => j <= k
    BY <1>3 DEF Sets
  <2>2. k + Len(a) \in DOMAIN c /\ c[k + Len(a)] = b[k]
    BY <1>1
  <2>3. ASSUME NEW j \in DOMAIN c, Is(c[j], key) PROVE j <= k + Len(a)
    <3>1. CASE j <= Len(a)
      BY <1>1, <3>1
    <3>2. CASE j > Len(a)
      <4>1. /\ j - Len(a) \in DOMAIN b /\ c[j] = b[j - Len(a)]
            /\ j \in Int /\ k \in Int
        BY <1>1, <2>1, <3>2
      <4>2. j - Len(a) <= k
        BY <2>1, <2>3, <4>1
      <4> QED
        BY <1>1, <4>1, <4>2
    <3> QED
      BY <1>1, <3>1, <3>2
  <2> QED
    BY <2>1, <2>2, <2>3 DEF Sets
<1>4. ASSUME NEW v, Sets(a, key, v), Untouched(b, key) PROVE Sets(c, key, v)
  <2>1. PICK k \in DOMAIN a : /\ Is(a[k], key) /\ Value(a[k], key) = v
                              /\ \A j \in DOMAIN a : Is(a[j], key) => j <= k
    BY <1>4 DEF Sets
  <2>2. k \in DOMAIN c /\ c[k] = a[k]
    BY <1>1
  <2>3. ASSUME NEW j \in DOMAIN c, Is(c[j], key) PROVE j <= k
    <3>1. CASE j <= Len(a)
      BY <1>1, <2>1, <2>3, <3>1
    <3>2. CASE j > Len(a)
      <4>1. j - Len(a) \in DOMAIN b /\ c[j] = b[j - Len(a)]
        BY <1>1, <3>2
      <4> QED
        BY <1>4, <2>3, <4>1 DEF Untouched
    <3> QED
      BY <1>1, <3>1, <3>2
  <2> QED
    BY <2>1, <2>2, <2>3 DEF Sets
<1> QED
  BY <1>1, <1>2, <1>3, <1>4 DEF c

LEMMA Single ==
  ASSUME NEW t, NEW key
  PROVE  /\ Is(t, key) => Sets(<<t>>, key, Value(t, key))
         /\ ~Is(t, key) => Untouched(<<t>>, key)
         /\ Untouched(<<>>, key)
BY DEF Sets, Untouched

LEMMA ReadsLast ==
  ASSUME NEW s \in Slots, NEW T, NEW stream \in Seq(T), NEW d, NEW c,
         LastIs(stream, s, d, c)
  PROVE  LastOf(stream, s, d) = c
<1> DEFINE at == {k \in DOMAIN stream : stream[k].kind = "table" /\ stream[k].slot = s}
           top(k) == k \in at /\ \A j \in at : j <= k
<1>1. DOMAIN stream \subseteq Nat
  OBVIOUS
<1>2. CASE Sets(stream, s, c)
  <2>1. PICK k \in DOMAIN stream : /\ Is(stream[k], s) /\ Value(stream[k], s) = c
                              /\ \A j \in DOMAIN stream : Is(stream[j], s) => j <= k
    BY <1>2 DEF Sets
  <2>2. top(k) /\ at # {} /\ stream[k].content = c
    BY <2>1 DEF Is, Value
  <2>3. \A j \in at : top(j) => j = k
    BY <1>1, <2>2
  <2>4. (CHOOSE j \in at : \A i \in at : i <= j) = k
    BY <2>2, <2>3
  <2> QED
    BY <2>2, <2>4 DEF LastOf
<1>3. CASE Untouched(stream, s) /\ c = d
  BY <1>3 DEF Untouched, Is, LastOf
<1> QED
  BY <1>2, <1>3 DEF LastIs

LEMMA ReadsInterval ==
  ASSUME NEW T, NEW stream \in Seq(T), NEW c, LastIs(stream, "DRI", 0, c)
  PROVE  LastInterval(stream) = c
<1> DEFINE at == {k \in DOMAIN stream : stream[k].kind = "DRI"}
           top(k) == k \in at /\ \A j \in at : j <= k
<1>1. DOMAIN stream \subseteq Nat /\ "DRI" \notin Slots
  BY DEF Slots
<1>2. CASE Sets(stream, "DRI", c)
  <2>1. PICK k \in DOMAIN stream :
          /\ Is(stream[k], "DRI") /\ Value(stream[k], "DRI") = c
          /\ \A j \in DOMAIN stream : Is(stream[j], "DRI") => j <= k
    BY <1>2 DEF Sets
  <2>2. top(k) /\ at # {} /\ stream[k].interval = c
    BY <1>1, <2>1 DEF Is, Value
  <2>3. \A j \in at : top(j) => j = k
    BY <1>1, <2>2
  <2>4. (CHOOSE j \in at : \A i \in at : i <= j) = k
    BY <2>2, <2>3
  <2> QED
    BY <2>2, <2>4 DEF LastInterval
<1>3. CASE Untouched(stream, "DRI") /\ c = 0
  BY <1>1, <1>3 DEF Untouched, Is, LastInterval
<1> QED
  BY <1>2, <1>3 DEF LastIs

-----------------------------------------------------------------------------
(* What the library has written, and what a reader knows of it.            *)

Typed ==
  /\ out \in Seq(Tokens) /\ coding \in [Slots -> Int]
  /\ tables \in [Slots -> [content : Int, sent : BOOLEAN]]

\* A table marked as sent is the one the reader would use now.
Remembered ==
  ~caveat => \A s \in Slots :
    tables[s].sent => LastIs(out, s, known[s], tables[s].content)

\* The restart interval written last is the one the reader goes by.
IntervalRead ==
  pc # "error" /\ ~Idle => LastIs(out, "DRI", 0, last_restart_interval)

\* Between datastreams nothing is half written.
Whole == Idle => out = <<>> \/ Complete

\* The headers before the scan's data say how it is coded.
HeaderRead ==
  /\ restart_interval = last_restart_interval
  /\ ~caveat => \A s \in UsedBy(scan_number) : LastIs(out, s, known[s], coding[s])
  /\ Opt => \A s \in Scan(scan_number).huffman : Sets(out, s, coding[s])

MainCoded ==
  pc = "app" /\ global_state \in {"SCANNING", "RAW_OK"} =>
    /\ gather <=> Opt
    /\ coding = [s \in Slots |-> tables[s].content]
    /\ call_pass_startup => next_scanline = 0
    /\ ~gather /\ ~call_pass_startup => HeaderRead

\* The quantisation table does not change between the scans of an image.
QuantCoded ==
  (pc = "app" /\ global_state = "WRCOEFS") \/ pc \in {"passes", "pass"} =>
    /\ coding["quant"] = tables["quant"].content
    /\ scan_number > 0 /\ ~caveat => LastIs(out, "quant", known["quant"], coding["quant"])

\* Tables made by a statistics pass wait for their output pass, unsent.
ComputedUnsent ==
  pc = "passes" /\ Opt /\ pass_type = "output_pass" =>
    \A s \in Scan(scan_number).huffman : ~tables[s].sent

PassCoded ==
  pc = "pass" =>
    /\ gather <=> pass_type = "huff_opt_pass"
    /\ ~gather => HeaderRead

Coded == MainCoded /\ QuantCoded /\ ComputedUnsent /\ PassCoded

Promises == Decodable /\ ComputedTablesWritten

RInv == Typed /\ Remembered /\ IntervalRead /\ Whole /\ Coded /\ Promises

-----------------------------------------------------------------------------
(* What the marker writers write.                                          *)

\* The tables of these slots are written unless they are marked as sent, and
\* nothing else that a reader keeps.
Writes(h, slots) ==
  /\ h \in Seq(Tokens) /\ Untouched(h, "data")
  /\ \A s \in Slots : IF s \in slots /\ ~tables[s].sent
                      THEN Sets(h, s, tables[s].content) ELSE Untouched(h, s)

LEMMA Tok ==
  ASSUME NEW T, NEW t \in T
  PROVE  <<t>> \in Seq(T) /\ <<>> \in Seq(T)
OBVIOUS

LEMMA WritesNothing == ASSUME NEW slots, slots \cap Slots = {} PROVE Writes(<<>>, slots)
BY Single, EmptySeq DEF Writes

LEMMA WritesBoth ==
  ASSUME NEW a, NEW b, NEW A, NEW B, Writes(a, A), Writes(b, B), A \cap B = {}
  PROVE  Writes(a \o b, A \cup B)
<1>1. a \in Seq(Tokens) /\ b \in Seq(Tokens) /\ a \o b \in Seq(Tokens)
  BY Concat DEF Writes
<1>2. Untouched(a \o b, "data")
  BY <1>1, Concat DEF Writes
<1>3. ASSUME NEW s \in Slots
      PROVE  IF s \in A \cup B /\ ~tables[s].sent
             THEN Sets(a \o b, s, tables[s].content) ELSE Untouched(a \o b, s)
  <2>1. /\ Untouched(a, s) /\ Untouched(b, s) => Untouched(a \o b, s)
        /\ Sets(b, s, tables[s].content) => Sets(a \o b, s, tables[s].content)
        /\ Sets(a, s, tables[s].content) /\ Untouched(b, s) => Sets(a \o b, s, tables[s].content)
    BY <1>1, Concat
  <2>2. /\ IF s \in A /\ ~tables[s].sent THEN Sets(a, s, tables[s].content) ELSE Untouched(a, s)
        /\ IF s \in B /\ ~tables[s].sent THEN Sets(b, s, tables[s].content) ELSE Untouched(b, s)
    BY DEF Writes
  <2> QED
    BY <2>1, <2>2
<1> QED
  BY <1>1, <1>2, <1>3 DEF Writes

LEMMA TableWritten == ASSUME Typed, NEW s \in Slots PROVE Writes(Table(s), {s})
<1>1. TableToken(s) \in Tokens
  BY DEF TableToken, Tokens, Typed
<1>2. /\ Is(TableToken(s), s) /\ Value(TableToken(s), s) = tables[s].content
      /\ \A u \in Slots : u # s => ~Is(TableToken(s), u)
      /\ ~Is(TableToken(s), "data")
  BY DEF TableToken, Is, Value, Slots
<1>3. CASE tables[s].sent
  BY <1>3, Single, EmptySeq DEF Table, Writes
<1>4. CASE ~tables[s].sent
  <2>1. Table(s) = <<TableToken(s)>>
    BY <1>4 DEF Table
  <2>2. <<TableToken(s)>> \in Seq(Tokens)
    BY <1>1, Tok
  <2>3. /\ Untouched(<<TableToken(s)>>, "data")
        /\ Sets(<<TableToken(s)>>, s, tables[s].content)
        /\ \A u \in Slots : u # s => Untouched(<<TableToken(s)>>, u)
    <3>1. \A key : ~Is(TableToken(s), key) => Untouched(<<TableToken(s)>>, key)
      BY Single
    <3>2. Sets(<<TableToken(s)>>, s, Value(TableToken(s), s))
      BY <1>2, Single
    <3> QED
      BY <1>2, <3>1, <3>2
  <2> QED
    BY <1>4, <2>1, <2>2, <2>3 DEF Writes
<1> QED
  BY <1>3, <1>4

\* No table, no restart interval.
LEMMA TableNoInterval == ASSUME NEW s \in Slots PROVE Untouched(Table(s), "DRI")
<1>1. ~Is(TableToken(s), "DRI")
  BY DEF TableToken, Is, Slots
<1> QED
  BY <1>1, Single DEF Table

\* A token that is none of those a reader keeps.
LEMMA PlainToken ==
  ASSUME NEW t \in Tokens, t.kind \in {"SOI", "SOF", "EOI", "COM", "SOS"}
  PROVE  Writes(<<t>>, {}) /\ Untouched(<<t>>, "DRI")
<1>1. \A key \in Slots \cup {"data", "DRI"} : ~Is(t, key)
  BY DEF Is, Slots
<1>2. \A key \in Slots \cup {"data", "DRI"} : Untouched(<<t>>, key)
  BY <1>1, Single
<1>3. <<t>> \in Seq(Tokens)
  BY Tok
<1> QED
  BY <1>2, <1>3 DEF Writes

LEMMA TokenKinds ==
  /\ \A k \in {"SOI", "SOF", "EOI", "COM"} : Token(k) \in Tokens /\ Token(k).kind = k
  /\ \A n \in Nat : [kind |-> "SOS", scan |-> n] \in Tokens
  /\ \A i \in Nat : [kind |-> "DRI", interval |-> i] \in Tokens
BY DEF Token, Tokens

LEMMA HuffmanWritten ==
  ASSUME Typed, NEW slots, slots \subseteq {"dc", "ac"}
  PROVE  Writes(HuffmanTables(slots), slots) /\ Untouched(HuffmanTables(slots), "DRI")
<1> DEFINE a == IF "dc" \in slots THEN Table("dc") ELSE <<>>
           b == IF "ac" \in slots THEN Table("ac") ELSE <<>>
<1>1. Writes(a, slots \cap {"dc"}) /\ Untouched(a, "DRI")
  <2>1. CASE "dc" \in slots
    <3>1. slots \cap {"dc"} = {"dc"} /\ a = Table("dc") /\ "dc" \in Slots
      BY <2>1 DEF Slots
    <3> QED
      BY <3>1, TableWritten, TableNoInterval
  <2>2. CASE "dc" \notin slots
    <3>1. slots \cap {"dc"} = {} /\ a = <<>>
      BY <2>2
    <3> QED
      BY <3>1, WritesNothing, Single
  <2> QED
    BY <2>1, <2>2
<1>2. Writes(b, slots \cap {"ac"}) /\ Untouched(b, "DRI")
  <2>1. CASE "ac" \in slots
    <3>1. slots \cap {"ac"} = {"ac"} /\ b = Table("ac") /\ "ac" \in Slots
      BY <2>1 DEF Slots
    <3> QED
      BY <3>1, TableWritten, TableNoInterval
  <2>2. CASE "ac" \notin slots
    <3>1. slots \cap {"ac"} = {} /\ b = <<>>
      BY <2>2
    <3> QED
      BY <3>1, WritesNothing, Single
  <2> QED
    BY <2>1, <2>2
<1> HIDE DEF a, b
<1>3. Writes(a \o b, (slots \cap {"dc"}) \cup (slots \cap {"ac"}))
  BY <1>1, <1>2, WritesBoth
<1>4. (slots \cap {"dc"}) \cup (slots \cap {"ac"}) = slots
  OBVIOUS
<1>5. Untouched(a \o b, "DRI")
  BY <1>1, <1>2, Concat DEF Writes
<1> QED
  BY <1>3, <1>4, <1>5 DEF HuffmanTables, a, b

LEMMA FrameWritten ==
  ASSUME Typed PROVE Writes(FrameHeader, {"quant"}) /\ Untouched(FrameHeader, "DRI")
<1>1. "quant" \in Slots
  BY DEF Slots
<1>2. Writes(Table("quant"), {"quant"}) /\ Untouched(Table("quant"), "DRI")
  BY <1>1, TableWritten, TableNoInterval
<1>3. Writes(<<Token("SOF")>>, {}) /\ Untouched(<<Token("SOF")>>, "DRI")
  BY TokenKinds, PlainToken
<1>4. Writes(FrameHeader, {"quant"} \cup {})
  BY <1>2, <1>3, WritesBoth DEF FrameHeader
<1>5. Untouched(FrameHeader, "DRI")
  BY <1>2, <1>3, Concat DEF FrameHeader, Writes
<1> QED
  BY <1>4, <1>5

LEMMA ScanWritten ==
  ASSUME Typed, NEW n \in Nat, NEW scan, scan.huffman \subseteq {"dc", "ac"},
         NEW i \in Nat
  PROVE  /\ Writes(ScanHeader(n, scan, i), scan.huffman)
         /\ \A stream \in Seq(Tokens) :
              LastIs(stream, "DRI", 0, last_restart_interval)
                => LastIs(stream \o ScanHeader(n, scan, i), "DRI", 0, i)
<1> DEFINE t == [kind |-> "DRI", interval |-> i]
           a == HuffmanTables(scan.huffman)
           b == IF i # last_restart_interval THEN <<t>> ELSE <<>>
           c == <<[kind |-> "SOS", scan |-> n]>>
<1>1. Writes(a, scan.huffman) /\ Untouched(a, "DRI")
  BY HuffmanWritten
<1>2. t \in Tokens /\ Is(t, "DRI") /\ Value(t, "DRI") = i
      /\ \A key \in Slots \cup {"data"} : ~Is(t, key)
  <2>1. t \in Tokens
    BY TokenKinds
  <2> QED
    BY <2>1 DEF Is, Value, Slots
<1>3. Writes(b, {}) /\ (i # last_restart_interval => Sets(b, "DRI", i))
      /\ (i = last_restart_interval => Untouched(b, "DRI"))
  <2>1. CASE i # last_restart_interval
    <3>1. <<t>> \in Seq(Tokens) /\ b = <<t>>
      BY <1>2, <2>1, Tok
    <3>2. Sets(<<t>>, "DRI", Value(t, "DRI"))
      BY <1>2, Single
    <3>3. \A key \in Slots \cup {"data"} : Untouched(<<t>>, key)
      BY <1>2, Single
    <3> HIDE DEF t
    <3> QED
      BY <1>2, <2>1, <3>1, <3>2, <3>3 DEF Writes
  <2>2. CASE i = last_restart_interval
    <3>1. b = <<>>
      BY <2>2
    <3>2. Writes(<<>>, {}) /\ Untouched(<<>>, "DRI")
      <4>1. {} \cap Slots = {}
        OBVIOUS
      <4>2. Writes(<<>>, {})
        BY ONLY <4>1, WritesNothing
      <4>3. Untouched(<<>>, "DRI")
        BY DEF Untouched
      <4> QED
        BY ONLY <4>2, <4>3
    <3> QED
      BY ONLY <2>2, <3>1, <3>2
  <2> QED
    BY <2>1, <2>2
<1>4. Writes(c, {}) /\ Untouched(c, "DRI")
  BY TokenKinds, PlainToken
<1> HIDE DEF a, b, c
<1>5. Writes((a \o b) \o c, scan.huffman)
  <2>1. Writes(a \o b, scan.huffman \cup {})
    BY <1>1, <1>3, WritesBoth
  <2>2. Writes((a \o b) \o c, (scan.huffman \cup {}) \cup {})
    BY <1>4, <2>1, WritesBoth
  <2> QED
    BY <2>2
<1>6. ScanHeader(n, scan, i) = (a \o b) \o c
  BY DEF ScanHeader, a, b, c, t
<1>7. ASSUME NEW stream \in Seq(Tokens), LastIs(stream, "DRI", 0, last_restart_interval)
      PROVE  LastIs(stream \o ((a \o b) \o c), "DRI", 0, i)
  <2>1. /\ a \in Seq(Tokens) /\ b \in Seq(Tokens) /\ c \in Seq(Tokens)
        /\ a \o b \in Seq(Tokens) /\ (a \o b) \o c \in Seq(Tokens)
    BY <1>1, <1>3, <1>4, Concat DEF Writes
  <2>2. CASE i # last_restart_interval
    <3>1. Sets(a \o b, "DRI", i)
      BY <1>3, <2>1, <2>2, Concat
    <3>2. Sets((a \o b) \o c, "DRI", i)
      BY <1>4, <2>1, <3>1, Concat
    <3> QED
      BY <2>1, <3>2, Concat DEF LastIs
  <2>3. CASE i = last_restart_interval
    <3>1. Untouched((a \o b) \o c, "DRI")
      BY <1>1, <1>3, <1>4, <2>1, <2>3, Concat
    <3> QED
      BY <1>7, <2>1, <2>3, <3>1, Concat DEF LastIs
  <2> QED
    BY <2>2, <2>3
<1> QED
  BY <1>5, <1>6, <1>7

-----------------------------------------------------------------------------
(* What a reader knows after the datastream has grown.                     *)

LEMMA ScanFacts ==
  ASSUME NEW p \in Params, NEW n \in 0..(Len(p.scans) - 1)
  PROVE  /\ p.scans[n + 1].huffman \subseteq {"dc", "ac"}
         /\ p.scans[n + 1].interval \in Nat
         /\ p.scans[n + 1].dc_refine => p.scans[n + 1].huffman = {}
<1> DEFINE ScanSet == [huffman : SUBSET {"dc", "ac"}, dc_refine : BOOLEAN,
                       interval : Nat]
<1>1. /\ p.scans \in Seq(ScanSet)
      /\ \A k \in DOMAIN p.scans : p.scans[k].dc_refine => p.scans[k].huffman = {}
  BY MasterAssumption
<1>2. \A scan \in ScanSet : scan.interval \in Nat /\ scan.huffman \subseteq {"dc", "ac"}
  OBVIOUS
<1> HIDE DEF ScanSet
<1>3. Len(p.scans) \in Nat /\ DOMAIN p.scans = 1..Len(p.scans)
  BY <1>1
<1>4. n + 1 \in DOMAIN p.scans /\ p.scans[n + 1] \in ScanSet
  BY <1>1, <1>3
<1> QED
  BY <1>1, <1>2, <1>4

\* The tables marked as sent stay the ones a reader has, and those written now
\* become so.
LEMMA Writing ==
  ASSUME Typed, Remembered, NEW h, NEW slots, Writes(h, slots), slots \subseteq Slots,
         out' = out \o h, tables' = Sent(slots), UNCHANGED <<known, caveat>>
  PROVE  /\ out' \in Seq(Tokens)
         /\ tables' \in [Slots -> [content : Int, sent : BOOLEAN]]
         /\ \A s \in Slots : tables'[s].content = tables[s].content
         /\ Remembered'
         /\ ~caveat => \A s \in slots : LastIs(out', s, known[s], tables[s].content)
<1>1. out' \in Seq(Tokens)
  BY Concat DEF Typed, Writes
<1>2. /\ tables' \in [Slots -> [content : Int, sent : BOOLEAN]]
      /\ \A s \in Slots : /\ tables'[s].content = tables[s].content
                          /\ tables'[s].sent => s \in slots \/ tables[s].sent
  BY DEF Sent, Typed
<1>3. ASSUME ~caveat, NEW s \in Slots, s \in slots \/ tables[s].sent
      PROVE  LastIs(out', s, known[s], tables[s].content)
  <2>1. CASE s \in slots /\ ~tables[s].sent
    <3>1. Sets(h, s, tables[s].content)
      BY <2>1 DEF Writes
    <3>2. Sets(out \o h, s, tables[s].content)
      BY <3>1, Concat DEF Typed, Writes
    <3> QED
      BY <3>2 DEF LastIs
  <2>2. CASE ~(s \in slots /\ ~tables[s].sent)
    <3>1. Untouched(h, s)
      BY <2>2 DEF Writes
    <3>2. LastIs(out, s, known[s], tables[s].content)
      BY <1>3, <2>2 DEF Remembered
    <3> QED
      BY <3>1, <3>2, Concat DEF LastIs, Typed, Writes
  <2> QED
    BY <2>1, <2>2
<1>4. Remembered'
  <2> SUFFICES ASSUME ~caveat, NEW s \in Slots, tables'[s].sent
               PROVE  LastIs(out', s, known[s], tables'[s].content)
    BY DEF Remembered
  <2> QED
    BY <1>2, <1>3
<1> QED
  BY <1>1, <1>2, <1>3, <1>4

LEMMA KeepsLast ==
  ASSUME Typed, NEW h \in Seq(Tokens), NEW key, Untouched(h, key),
         NEW d, NEW c, LastIs(out, key, d, c)
  PROVE  LastIs(out \o h, key, d, c)
BY Concat DEF LastIs, Typed

\* jpeg_finish_compress and jpeg_write_tables end a datastream with EOI.
LEMMA EndsWithEOI ==
  ASSUME NEW a \in Seq(Tokens), out' = a \o <<Token("EOI")>>
  PROVE  Complete'
<1>1. Token("EOI") \in Tokens
  BY TokenKinds
<1> DEFINE e == Token("EOI")
<1> HIDE DEF e
<1>2. out' = a \o <<e>> /\ e \in Tokens
  BY <1>1 DEF e
<1>3. out' \in Seq(Tokens) /\ Len(out') = Len(a) + 1 /\ out'[Len(a) + 1] = e
  BY <1>2
<1>4. out' # <<>> /\ Last(out') = e
  BY <1>3 DEF Last
<1> QED
  BY <1>4 DEF Complete, e

\* Between datastreams, a reader of the last one has every table marked as sent.
LEMMA LearnedIs ==
  ASSUME Typed, Remembered, Whole, Idle, ~caveat, NEW s \in Slots, tables[s].sent
  PROVE  Learned[s] = tables[s].content
<1>1. LastIs(out, s, known[s], tables[s].content)
  BY DEF Remembered
<1>2. CASE Complete
  <2>1. LastOf(out, s, known[s]) = tables[s].content
    BY <1>1, ReadsLast DEF Typed
  <2> QED
    BY <1>2, <2>1 DEF Learned
<1>3. CASE ~Complete
  <2>1. out = <<>>
    BY <1>3 DEF Whole
  <2>2. known[s] = tables[s].content
    BY <1>1, <2>1 DEF LastIs, Sets
  <2> QED
    BY <1>3, <2>2 DEF Learned
<1> QED
  BY <1>2, <1>3

-----------------------------------------------------------------------------
(* The promises to the reader.                                             *)

LEMMA NoData == ASSUME Untouched(out', "data") PROVE Promises'
<1>1. \A k \in DOMAIN out' : out'[k].kind # "data"
  BY DEF Untouched, Is, Slots
<1> QED
  BY <1>1 DEF Promises, Decodable, ComputedTablesWritten

\* What has been read of the scans so far is not changed by what follows.
LEMMA Prefix ==
  ASSUME Typed, NEW h \in Seq(Tokens), out' = out \o h, NEW k \in DOMAIN out
  PROVE  k \in DOMAIN out' /\ out'[k] = out[k] /\ Before(k)' = Before(k)
<1>1. /\ out \in Seq(Tokens) /\ DOMAIN out = 1..Len(out) /\ Len(out) \in Nat
      /\ k \in 1..Len(out)
  BY DEF Typed
<1>2. k \in DOMAIN out' /\ out'[k] = out[k]
  BY <1>1
<1>3. SubSeq(out \o h, 1, k - 1) = SubSeq(out, 1, k - 1)
  <2>1. CASE k = 1
    BY <2>1, SubSeqEmpty
  <2>2. CASE k # 1
    <3>1. 1 \in 1..Len(out) /\ k - 1 \in 1..Len(out)
      BY <1>1, <2>2
    <3> QED
      BY ONLY <1>1, <3>1, SubSeqOfConcat1, h \in Seq(Tokens)
  <2> QED
    BY <2>1, <2>2
<1> QED
  BY <1>2, <1>3 DEF Before

LEMMA Stays ==
  ASSUME Typed, Promises, NEW h \in Seq(Tokens), Untouched(h, "data"), out' = out \o h,
         UNCHANGED <<known, params>>, caveat => caveat'
  PROVE  Promises'
<1>1. /\ out \in Seq(Tokens) /\ Len(out) \in Nat /\ Len(h) \in Nat
      /\ DOMAIN out = 1..Len(out) /\ DOMAIN out' = 1..(Len(out) + Len(h))
      /\ DOMAIN h = 1..Len(h)
  BY DEF Typed
<1>2. ASSUME NEW k \in DOMAIN out', out'[k].kind = "data" PROVE k \in DOMAIN out
  <2>1. SUFFICES ASSUME k > Len(out) PROVE FALSE
    BY <1>1
  <2>2. k - Len(out) \in DOMAIN h /\ out'[k] = h[k - Len(out)]
    BY <1>1, <2>1
  <2> QED
    BY <1>2, <2>2 DEF Untouched, Is, Slots
<1>3. ASSUME NEW k \in DOMAIN out
      PROVE  out'[k] = out[k] /\ Before(k)' = Before(k)
  BY Prefix
<1>4. Decodable'
  <2> SUFFICES ASSUME NEW k \in DOMAIN out', out'[k].kind = "data"
               PROVE  /\ out'[k].interval = LastInterval(Before(k)')
                      /\ ~caveat' =>
                           \A s \in {"quant"} \cup params.scans[out'[k].scan + 1].huffman :
                             LastOf(Before(k)', s, known[s]) = out'[k].tables[s]
    BY DEF Decodable, UsedBy, Scan
  <2>1. k \in DOMAIN out /\ out'[k] = out[k] /\ Before(k)' = Before(k)
    BY <1>2, <1>3
  <2>2. /\ out[k].interval = LastInterval(Before(k))
        /\ ~caveat =>
             \A s \in {"quant"} \cup params.scans[out[k].scan + 1].huffman :
               LastOf(Before(k), s, known[s]) = out[k].tables[s]
    BY <2>1 DEF Promises, Decodable, UsedBy, Scan
  <2> QED
    BY <2>1, <2>2
<1>5. ComputedTablesWritten'
  <2> SUFFICES ASSUME NEW k \in DOMAIN out', out'[k].kind = "data", OptimizeCoding(params),
                      NEW s \in Scan(out'[k].scan).huffman
               PROVE  LastOf(Before(k)', s, NONE) = out'[k].tables[s]
    BY DEF ComputedTablesWritten, Scan, OptimizeCoding
  <2>2. k \in DOMAIN out /\ out'[k] = out[k] /\ Before(k)' = Before(k)
    BY <1>2, <1>3
  <2> QED
    BY <2>2 DEF Promises, ComputedTablesWritten
<1> QED
  BY <1>4, <1>5 DEF Promises

LEMMA StaysPut ==
  ASSUME Typed, Promises, UNCHANGED <<out, known, params>>, caveat => caveat'
  PROVE  Promises'
<1>1. <<>> \in Seq(Tokens) /\ Untouched(<<>>, "data") /\ out \o <<>> = out
  BY ConcatEmptySeq, EmptySeq DEF Typed, Untouched
<1> QED
  BY <1>1, Stays

\* A scan's data after headers that say how it is coded.
LEMMA DataWritten ==
  ASSUME IInv, Typed, Promises, HeaderRead, scan_number < Scans,
         LastIs(out, "DRI", 0, last_restart_interval),
         out' = Append(out, Data(scan_number)), UNCHANGED <<known, params, caveat>>
  PROVE  /\ Promises'
         /\ Data(scan_number) \in Tokens
         /\ out' = out \o <<Data(scan_number)>>
<1> DEFINE d == Data(scan_number)
<1>m. PICK m \in Nat : m = Len(out) + 1
  BY DEF Typed
<1>0. /\ params \in Params /\ scan_number \in 0..(Len(params.scans) - 1)
      /\ restart_interval \in Nat
  <2>1. params \in Params /\ scan_number \in 0..Len(params.scans) /\ restart_interval \in Nat
    BY DEF IInv, TypeOK
  <2>2. Len(params.scans) \in Nat
    BY <2>1, ScriptFacts
  <2> QED
    BY <2>1, <2>2 DEF Scans
<1>1. d \in Tokens
  BY <1>0 DEF Data, Tokens, Typed
<1>2. /\ d.kind = "data" /\ d.scan = scan_number /\ d.tables = coding
      /\ d.interval = restart_interval
  BY DEF Data
<1> HIDE DEF d
<1>3. out' = out \o <<d>> /\ <<d>> \in Seq(Tokens)
  BY <1>1, AppendIsConcat DEF Typed, d
<1>4. /\ out \in Seq(Tokens) /\ Len(out) \in Nat /\ DOMAIN out = 1..Len(out)
      /\ DOMAIN out' = 1..m /\ out'[m] = d
  BY <1>1, <1>3, <1>m DEF Typed
<1>5. Before(m)' = out
  <2>1. SubSeq(out \o <<d>>, 1, Len(out)) = SubSeq(out, 1, Len(out))
    <3>1. CASE Len(out) = 0
      BY <3>1, SubSeqEmpty
    <3>2. CASE Len(out) # 0
      <4>1. 1 \in 1..Len(out) /\ Len(out) \in 1..Len(out)
        BY <1>4, <3>2
      <4> QED
        BY ONLY <1>3, <1>4, <4>1, SubSeqOfConcat1
    <3> QED
      BY <3>1, <3>2
  <2>2. SubSeq(out, 1, Len(out)) = out
    BY <1>4, SubSeqFull
  <2>3. m - 1 = Len(out)
    BY <1>4, <1>m
  <2> QED
    BY <1>3, <2>1, <2>2, <2>3 DEF Before
<1>6. \A k \in DOMAIN out : out'[k] = out[k] /\ Before(k)' = Before(k)
  BY <1>3, Prefix
<1>7. \A k \in DOMAIN out' : k \in DOMAIN out \/ k = m
  BY <1>4, <1>m
<1>8. /\ UsedBy(scan_number) \subseteq Slots /\ Scan(scan_number).huffman \subseteq Slots
  BY <1>0, ScanFacts DEF UsedBy, Scan, Slots
<1>9. Decodable'
  <2> SUFFICES ASSUME NEW k \in DOMAIN out', out'[k].kind = "data"
               PROVE  /\ out'[k].interval = LastInterval(Before(k)')
                      /\ ~caveat =>
                           \A s \in {"quant"} \cup params.scans[out'[k].scan + 1].huffman :
                             LastOf(Before(k)', s, known[s]) = out'[k].tables[s]
    BY DEF Decodable, UsedBy, Scan
  <2>1. CASE k \in DOMAIN out
    <3>1. out'[k] = out[k] /\ Before(k)' = Before(k)
      BY <1>6, <2>1
    <3>2. /\ out[k].interval = LastInterval(Before(k))
          /\ ~caveat =>
               \A s \in {"quant"} \cup params.scans[out[k].scan + 1].huffman :
                 LastOf(Before(k), s, known[s]) = out[k].tables[s]
      BY <2>1, <3>1 DEF Promises, Decodable, UsedBy, Scan
    <3> QED
      BY <3>1, <3>2
  <2>2. CASE k = m
    <3>1. LastInterval(out) = restart_interval
      BY <1>4, ReadsInterval DEF HeaderRead
    <3>2. ASSUME ~caveat, NEW s \in UsedBy(scan_number)
          PROVE  LastOf(out, s, known[s]) = coding[s]
      <4>1. LastIs(out, s, known[s], coding[s]) /\ s \in Slots
        BY <1>8, <3>2 DEF HeaderRead
      <4> QED
        BY <1>4, <4>1, ReadsLast
    <3>3. ~caveat => \A s \in {"quant"} \cup params.scans[scan_number + 1].huffman :
                       LastOf(out, s, known[s]) = coding[s]
      BY <3>2 DEF UsedBy, Scan
    <3> QED
      BY <1>2, <1>4, <1>5, <2>2, <3>1, <3>3
  <2> QED
    BY <1>7, <2>1, <2>2
<1>10. ComputedTablesWritten'
  <2> SUFFICES ASSUME NEW k \in DOMAIN out', out'[k].kind = "data", OptimizeCoding(params),
                      NEW s \in params.scans[out'[k].scan + 1].huffman
               PROVE  LastOf(Before(k)', s, NONE) = out'[k].tables[s]
    BY DEF ComputedTablesWritten, Scan, OptimizeCoding
  <2>1. CASE k \in DOMAIN out
    <3>1. out'[k] = out[k] /\ Before(k)' = Before(k)
      BY <1>6, <2>1
    <3> QED
      BY <2>1, <3>1 DEF Promises, ComputedTablesWritten, Scan
  <2>2. CASE k = m
    <3>1. s \in Scan(scan_number).huffman /\ s \in Slots
      BY <1>2, <1>4, <1>8, <2>2 DEF Scan
    <3>2. LastIs(out, s, NONE, coding[s])
      BY <3>1 DEF HeaderRead, LastIs, Opt
    <3>3. LastOf(out, s, NONE) = coding[s]
      BY <1>4, <3>1, <3>2, ReadsLast
    <3> QED
      BY <1>2, <1>4, <1>5, <2>2, <3>3
  <2> QED
    BY <1>7, <2>1, <2>2
<1> QED
  BY <1>1, <1>3, <1>9, <1>10 DEF Promises, d

-----------------------------------------------------------------------------
(* The steps, for the reader.                                              *)

LEMMA ErrorRead ==
  ASSUME RInv, pc' = "error",
         UNCHANGED <<global_state, params, next_scanline, passVars, streamVars, readerVars>>
  PROVE  RInv'
<1>1. UNCHANGED <<params, out, tables, coding, known, caveat>>
  BY DEF streamVars, readerVars
<1>2. Typed' /\ Remembered'
  BY <1>1 DEF RInv, Typed, Remembered
<1>3. IntervalRead' /\ Whole' /\ Coded'
  BY DEF IntervalRead, Whole, Idle, Calling, Coded, MainCoded, QuantCoded,
         ComputedUnsent, PassCoded
<1>4. Promises'
  BY <1>1, StaysPut DEF RInv
<1> QED
  BY <1>2, <1>3, <1>4 DEF RInv

LEMMA RefusedRead == ASSUME RInv, BadState PROVE RInv'
BY ErrorRead DEF BadState

\* Tables replaced between datastreams count as not written.
LEMMA ReplacedRead ==
  ASSUME RInv, Idle, UNCHANGED <<apiVars, out, coding, known, caveat>>,
         tables' \in [Slots -> [content : Int, sent : BOOLEAN]],
         \A s \in Slots : tables'[s] = tables[s] \/ ~tables'[s].sent
  PROVE  RInv'
<1>1. Idle' /\ UNCHANGED params
  BY DEF Idle, Calling, apiVars
<1>2. Typed' /\ Remembered'
  BY DEF RInv, Typed, Remembered
<1>3. IntervalRead' /\ Coded'
  BY <1>1 DEF IntervalRead, Idle, Calling, Coded, MainCoded, QuantCoded,
         ComputedUnsent, PassCoded
<1>4. Whole'
  BY DEF RInv, Whole, Complete, Idle, Calling, apiVars
<1>5. Promises'
  BY <1>1, StaysPut DEF RInv
<1> QED
  BY <1>2, <1>3, <1>4, <1>5 DEF RInv

LEMMA SetDefaultsRead == ASSUME RInv, SetDefaults PROVE RInv'
<1>1. CASE BadState
  BY <1>1, RefusedRead
<1>2. CASE ~BadState
  <2>1. /\ Idle /\ UNCHANGED <<apiVars, out, coding, known, caveat>>
        /\ tables' = [s \in Slots |-> [content |-> STD, sent |-> FALSE]]
    BY <1>2 DEF SetDefaults, readerVars
  <2>2. /\ tables' \in [Slots -> [content : Int, sent : BOOLEAN]]
        /\ \A s \in Slots : ~tables'[s].sent
    BY <2>1 DEF STD
  <2> QED
    BY <2>1, <2>2, ReplacedRead
<1> QED
  BY <1>1, <1>2

LEMMA SetQualityRead == ASSUME RInv, SetQuality PROVE RInv'
<1>1. CASE BadState
  BY <1>1, RefusedRead
<1>2. CASE ~BadState
  <2>1. /\ Idle /\ UNCHANGED <<apiVars, out, coding, known, caveat>>
        /\ tables' = [tables EXCEPT !["quant"] = [content |-> 1 - @.content, sent |-> FALSE]]
    BY <1>2 DEF SetQuality, readerVars
  <2>2. /\ tables \in [Slots -> [content : Int, sent : BOOLEAN]]
        /\ "quant" \in Slots
    BY DEF RInv, Typed, Slots
  <2>3. /\ \A s \in Slots : s # "quant" => tables'[s] = tables[s]
        /\ tables'["quant"] = [content |-> 1 - tables["quant"].content, sent |-> FALSE]
        /\ tables' \in [Slots -> [content : Int, sent : BOOLEAN]]
    BY <2>1, <2>2
  <2>4. \A s \in Slots : tables'[s] = tables[s] \/ ~tables'[s].sent
    BY <2>3
  <2> QED
    BY <2>1, <2>3, <2>4, ReplacedRead
<1> QED
  BY <1>1, <1>2

\* Headers that say how a scan is coded still do when the datastream grows by
\* what is neither a table nor a restart interval.
LEMMA HeaderStays ==
  ASSUME Typed, HeaderRead, NEW h \in Seq(Tokens), \A s \in Slots : Untouched(h, s),
         UsedBy(scan_number) \subseteq Slots,
         out' = out \o h, caveat => caveat',
         UNCHANGED <<restart_interval, last_restart_interval, scan_number, params,
                     known, coding>>
  PROVE  HeaderRead'
<1>1. UsedBy(scan_number)' = UsedBy(scan_number) /\ Opt' = Opt
      /\ Scan(scan_number)' = Scan(scan_number)
      /\ Scan(scan_number).huffman \subseteq Slots
  BY DEF UsedBy, Scan, Opt, OptimizeCoding
<1>2. ASSUME ~caveat', NEW s \in UsedBy(scan_number)
      PROVE  LastIs(out', s, known[s], coding[s])
  BY <1>2, KeepsLast DEF HeaderRead
<1>3. ASSUME Opt, NEW s \in Scan(scan_number).huffman
      PROVE  Sets(out', s, coding[s])
  <2>1. Sets(out, s, coding[s]) /\ Untouched(h, s)
    BY <1>1, <1>3 DEF HeaderRead
  <2> QED
    BY <2>1, Concat DEF Typed
<1> QED
  BY <1>1, <1>2, <1>3 DEF HeaderRead

LEMMA UsedSlots ==
  ASSUME IInv, scan_number < Scans
  PROVE  /\ UsedBy(scan_number) \subseteq Slots
         /\ Scan(scan_number).huffman \subseteq {"dc", "ac"}
         /\ Scan(scan_number).interval \in Nat /\ scan_number \in Nat
         /\ SkipsGather(scan_number) => Scan(scan_number).huffman = {}
<1>1. params \in Params /\ scan_number \in 0..Len(params.scans)
  BY DEF IInv, TypeOK
<1>2. Len(params.scans) \in Nat
  BY <1>1, ScriptFacts
<1>3. scan_number \in 0..(Len(params.scans) - 1)
  BY <1>1, <1>2 DEF Scans
<1> QED
  BY <1>1, <1>3, ScanFacts DEF UsedBy, Scan, SkipsGather, Slots

\* In the main pass the first scan of the script is the current one.
LEMMA MainSlots ==
  ASSUME IInv, pc = "app", global_state \in {"SCANNING", "RAW_OK"}
  PROVE  scan_number = 0 /\ scan_number < Scans
<1>1. scan_number = 0 /\ params \in Params
  BY DEF IInv, TypeOK, Schedule, InMainPass
<1> QED
  BY <1>1, ScriptFacts DEF Scans

LEMMA SuppressRead ==
  ASSUME IInv, RInv, NEW b \in BOOLEAN, SuppressTables(b)
  PROVE  RInv'
<1>1. /\ Calling /\ UNCHANGED <<apiVars, passVars, coding, restart_interval,
                                last_restart_interval, out, known>>
      /\ tables' = Marked(b) /\ caveat' = (caveat \/ b)
  BY DEF SuppressTables
<1>2. /\ UNCHANGED <<pc, global_state, params, next_scanline, gather, call_pass_startup,
                     scan_number>>
      /\ pc = "app" /\ tables \in [Slots -> [content : Int, sent : BOOLEAN]]
  BY <1>1 DEF apiVars, passVars, Calling, RInv, Typed
<1>3. /\ tables' \in [Slots -> [content : Int, sent : BOOLEAN]]
      /\ \A s \in Slots : tables'[s].content = tables[s].content /\ tables'[s].sent = b
  BY <1>1, <1>2 DEF Marked
<1>4. Typed' /\ Remembered'
  BY <1>1, <1>3 DEF RInv, Typed, Remembered
<1>5. IntervalRead' /\ Whole'
  BY <1>1, <1>2 DEF RInv, IntervalRead, Whole, Complete, Idle, Calling
<1>6. MainCoded'
  <2> SUFFICES ASSUME global_state \in {"SCANNING", "RAW_OK"} PROVE MainCoded'
    BY <1>2 DEF MainCoded
  <2>1. [s \in Slots |-> tables'[s].content] = [s \in Slots |-> tables[s].content]
    BY <1>3
  <2>2. HeaderRead => HeaderRead'
    <3>1. <<>> \in Seq(Tokens) /\ \A s \in Slots : Untouched(<<>>, s)
      BY Single, EmptySeq
    <3>2. out' = out \o <<>>
      BY <1>1, ConcatEmptySeq DEF RInv, Typed
    <3>3. UsedBy(scan_number) \subseteq Slots
      BY <1>2, MainSlots, UsedSlots
    <3> QED
      BY <1>1, <1>2, <3>1, <3>2, <3>3, HeaderStays DEF RInv
  <2>3. Opt' = Opt
    BY <1>2 DEF Opt
  <2> QED
    BY <1>1, <1>2, <2>1, <2>2, <2>3 DEF RInv, Coded, MainCoded
<1>7. QuantCoded'
  BY <1>1, <1>2, <1>3 DEF RInv, Coded, QuantCoded, Slots
<1>8. ComputedUnsent' /\ PassCoded'
  BY <1>2 DEF ComputedUnsent, PassCoded
<1>9. Promises'
  BY <1>1, <1>2, StaysPut DEF RInv
<1> QED
  BY <1>4, <1>5, <1>6, <1>7, <1>8, <1>9 DEF RInv, Coded

\* A datastream begun between two others, with tables that are not sent or that
\* a reader of the last one has.
LEMMA BegunRead ==
  ASSUME RInv, Idle, NEW h, NEW slots, slots \subseteq Slots, Writes(h, slots),
         out' = h, known' = Learned,
         tables' \in [Slots -> [content : Int, sent : BOOLEAN]],
         coding' \in [Slots -> Int],
         ~caveat' => \A s \in Slots : tables'[s].sent =>
           /\ tables'[s].content = tables[s].content
           /\ ~caveat /\ (s \in slots \/ tables[s].sent)
  PROVE  Typed' /\ Remembered' /\ Promises'
<1>1. Typed'
  BY DEF Typed, Writes
<1>2. Remembered'
  <2> SUFFICES ASSUME ~caveat', NEW s \in Slots, tables'[s].sent
               PROVE  LastIs(h, s, Learned[s], tables'[s].content)
    BY DEF Remembered
  <2>1. tables'[s].content = tables[s].content /\ ~caveat
    OBVIOUS
  <2>2. CASE s \in slots /\ ~tables[s].sent
    BY <2>1, <2>2 DEF Writes, LastIs
  <2>3. CASE tables[s].sent
    <3>1. Untouched(h, s)
      BY <2>3 DEF Writes
    <3>2. Learned[s] = tables[s].content
      BY <2>1, <2>3, LearnedIs DEF RInv
    <3> QED
      BY <2>1, <3>1, <3>2 DEF LastIs
  <2> QED
    BY <2>2, <2>3
<1>3. Promises'
  BY NoData DEF Writes
<1> QED
  BY <1>1, <1>2, <1>3

LEMMA SOIWritten ==
  Writes(<<Token("SOI")>>, {}) /\ Untouched(<<Token("SOI")>>, "DRI")
BY TokenKinds, PlainToken

LEMMA ContentsTyped ==
  ASSUME Typed
  PROVE  /\ [s \in Slots |-> tables[s].content] \in [Slots -> Int]
         /\ \A b \in BOOLEAN : /\ Marked(b) \in [Slots -> [content : Int, sent : BOOLEAN]]
                               /\ \A s \in Slots : /\ Marked(b)[s].content = tables[s].content
                                                   /\ Marked(b)[s].sent = b
BY DEF Typed, Marked

LEMMA WriteTablesRead == ASSUME IInv, RInv, WriteTables PROVE RInv'
<1>1. CASE BadState
  BY <1>1, RefusedRead
<1>2. CASE ~BadState
  <2> DEFINE huffman == IF params.arith THEN {} ELSE {"dc", "ac"}
             slots == {"quant"} \cup huffman
             a == (<<Token("SOI")>> \o Table("quant")) \o HuffmanTables(huffman)
  <2>1. /\ Idle /\ known' = Learned /\ out' = a \o <<Token("EOI")>>
        /\ tables' = Sent(slots)
        /\ UNCHANGED <<apiVars, passVars, coding, restart_interval, caveat, computed>>
    BY <1>2 DEF WriteTables
  <2>2. huffman \subseteq {"dc", "ac"} /\ "quant" \in Slots /\ slots \subseteq Slots
    BY DEF Slots
  <2>3. Writes(a, slots) /\ Writes(a \o <<Token("EOI")>>, slots)
    <3> HIDE DEF huffman
    <3>1. Writes(Table("quant"), {"quant"}) /\ Writes(HuffmanTables(huffman), huffman)
      BY <2>2, TableWritten, HuffmanWritten DEF RInv
    <3>2. Writes(<<Token("SOI")>> \o Table("quant"), {} \cup {"quant"})
      BY <3>1, SOIWritten, WritesBoth
    <3>3. Writes(a, ({} \cup {"quant"}) \cup huffman)
      BY <2>2, <3>1, <3>2, WritesBoth
    <3>4. Writes(<<Token("EOI")>>, {})
      BY TokenKinds, PlainToken
    <3>5. Writes(a \o <<Token("EOI")>>, (({} \cup {"quant"}) \cup huffman) \cup {})
      BY <3>3, <3>4, WritesBoth
    <3>6. ({} \cup {"quant"}) \cup huffman = slots /\ slots \cup {} = slots
      OBVIOUS
    <3> QED
      BY <3>3, <3>5, <3>6
  <2> HIDE DEF a, slots, huffman
  <2>4. Complete'
    BY <2>1, <2>3, EndsWithEOI DEF Writes
  <2>5. /\ tables' \in [Slots -> [content : Int, sent : BOOLEAN]]
        /\ \A s \in Slots : /\ tables'[s].content = tables[s].content
                            /\ tables'[s].sent => s \in slots \/ tables[s].sent
    BY <2>1 DEF Sent, RInv, Typed
  <2>6. UNCHANGED coding /\ coding \in [Slots -> Int] /\ UNCHANGED <<caveat, params>>
        /\ Idle'
    BY <2>1 DEF RInv, Typed, Idle, Calling, apiVars
  <2>7. Typed' /\ Remembered' /\ Promises'
    <3>1. ~caveat' => \A s \in Slots : tables'[s].sent =>
            /\ tables'[s].content = tables[s].content
            /\ ~caveat /\ (s \in slots \/ tables[s].sent)
      BY <2>5, <2>6
    <3> QED
      BY <2>1, <2>2, <2>3, <2>5, <2>6, <3>1, BegunRead
  <2>8. IntervalRead' /\ Whole' /\ Coded'
    BY <2>4, <2>6 DEF IntervalRead, Whole, Coded, MainCoded, QuantCoded, ComputedUnsent,
       PassCoded, Idle, Calling
  <2> QED
    BY <2>7, <2>8 DEF RInv
<1> QED
  BY <1>1, <1>2

LEMMA StartRead == ASSUME IInv, RInv, StartCompress PROVE RInv'
<1>1. CASE BadState
  BY <1>1, RefusedRead
<1>2. CASE ~BadState
  <2>1. PICK p \in Params, write_all_tables \in BOOLEAN :
          /\ params' = p
          /\ tables' = IF write_all_tables THEN Marked(FALSE) ELSE tables
          /\ caveat' = (caveat /\ ~write_all_tables)
          /\ PrepareMainPass(p)
          /\ global_state' = IF p.raw THEN "RAW_OK" ELSE "SCANNING"
    BY <1>2 DEF StartCompress
  <2>2. /\ Idle /\ coding' = [s \in Slots |-> tables[s].content]
        /\ known' = Learned /\ out' = <<Token("SOI")>> /\ last_restart_interval' = 0
        /\ next_scanline' = 0 /\ pc' = "app"
    BY <1>2 DEF StartCompress, Idle, Calling
  <2>3. Typed
    BY DEF RInv
  <2>4. /\ tables' \in [Slots -> [content : Int, sent : BOOLEAN]]
        /\ coding' \in [Slots -> Int]
        /\ \A s \in Slots : tables'[s].content = tables[s].content
        /\ \A s \in Slots : tables'[s].sent => ~write_all_tables /\ tables[s].sent
    <3>1. CASE write_all_tables
      BY <2>1, <2>2, <2>3, <3>1, ContentsTyped
    <3>2. CASE ~write_all_tables
      BY <2>1, <2>2, <2>3, <3>2, ContentsTyped DEF Typed
    <3> QED
      BY <3>1, <3>2
  <2>5. Typed' /\ Remembered' /\ Promises'
    <3>1. ~caveat' => \A s \in Slots : tables'[s].sent =>
            /\ tables'[s].content = tables[s].content
            /\ ~caveat /\ (s \in {} \/ tables[s].sent)
      BY <2>1, <2>4
    <3>2. {} \subseteq Slots
      OBVIOUS
    <3> QED
      BY <2>2, <2>4, <3>1, <3>2, SOIWritten, BegunRead
  <2>6. IntervalRead'
    BY <2>2, SOIWritten DEF IntervalRead, LastIs
  <2>7. /\ ~Idle' /\ global_state' \in {"RAW_OK", "SCANNING"}
    BY <2>1 DEF Idle
  <2>8. MainCoded'
    <3>1. coding' = [s \in Slots |-> tables'[s].content]
      BY <2>2, <2>4
    <3>2. /\ gather' <=> Opt'
          /\ ~gather' => call_pass_startup'
      BY <2>1, ScriptFacts DEF PrepareMainPass, Opt
    <3> QED
      BY <2>2, <3>1, <3>2 DEF MainCoded
  <2>9. QuantCoded' /\ ComputedUnsent' /\ PassCoded' /\ Whole'
    BY <2>2, <2>7 DEF QuantCoded, ComputedUnsent, PassCoded, Whole
  <2> QED
    BY <2>5, <2>6, <2>8, <2>9 DEF RInv, Coded
<1> QED
  BY <1>1, <1>2

LEMMA WriteCoefficientsRead == ASSUME IInv, RInv, WriteCoefficients PROVE RInv'
<1>1. CASE BadState
  BY <1>1, RefusedRead
<1>2. CASE ~BadState
  <2>1. /\ Idle /\ scan_number' = 0 /\ tables' = Marked(FALSE) /\ caveat' = FALSE
        /\ coding' = [s \in Slots |-> tables[s].content]
        /\ known' = Learned /\ out' = <<Token("SOI")>> /\ last_restart_interval' = 0
        /\ global_state' = "WRCOEFS" /\ pc' = "app"
    BY <1>2 DEF WriteCoefficients, Idle, Calling
  <2>2. Typed
    BY DEF RInv
  <2>3. /\ tables' \in [Slots -> [content : Int, sent : BOOLEAN]]
        /\ coding' \in [Slots -> Int]
        /\ \A s \in Slots : tables'[s].content = tables[s].content /\ ~tables'[s].sent
    BY <2>1, <2>2, ContentsTyped
  <2>4. Typed' /\ Remembered' /\ Promises'
    <3>1. {} \subseteq Slots
      OBVIOUS
    <3>2. ~caveat' => \A s \in Slots : tables'[s].sent =>
            /\ tables'[s].content = tables[s].content
            /\ ~caveat /\ (s \in {} \/ tables[s].sent)
      BY <2>3
    <3>3. /\ Idle /\ known' = Learned /\ out' = <<Token("SOI")>>
          /\ tables' \in [Slots -> [content : Int, sent : BOOLEAN]]
          /\ coding' \in [Slots -> Int]
      BY <2>1, <2>3
    <3> QED
      BY ONLY RInv, <3>1, <3>2, <3>3, SOIWritten, BegunRead
  <2>5. IntervalRead'
    BY <2>1, SOIWritten DEF IntervalRead, LastIs
  <2>6. QuantCoded'
    <3>1. coding'["quant"] = tables'["quant"].content
      <4>1. "quant" \in Slots
        BY DEF Slots
      <4> QED
        BY <2>1, <2>3, <4>1
    <3>2. ~(scan_number' > 0)
      BY <2>1
    <3> QED
      BY <3>1, <3>2 DEF QuantCoded
  <2>7. Whole' /\ MainCoded' /\ ComputedUnsent' /\ PassCoded'
    BY <2>1 DEF Whole, Idle, MainCoded, ComputedUnsent, PassCoded
  <2> QED
    BY <2>4, <2>5, <2>6, <2>7 DEF RInv, Coded
<1> QED
  BY <1>1, <1>2

LEMMA MarkerRead == ASSUME IInv, RInv, WriteMarker PROVE RInv'
<1>1. CASE BadState
  BY <1>1, RefusedRead
<1>2. CASE ~BadState
  <2> DEFINE h == <<Token("COM")>>
  <2>1. /\ Calling /\ Compressing /\ out' = Append(out, Token("COM"))
        /\ UNCHANGED <<apiVars, passVars, tables, coding, restart_interval,
                       last_restart_interval, readerVars>>
    BY <1>2 DEF WriteMarker
  <2>2. /\ UNCHANGED <<pc, global_state, params, next_scanline, gather,
                       call_pass_startup, scan_number, known, caveat>>
        /\ pc = "app" /\ global_state # "START"
    BY <2>1 DEF apiVars, passVars, readerVars, Calling, Compressing
  <2>3. Writes(h, {}) /\ Untouched(h, "DRI")
    BY TokenKinds, PlainToken
  <2>4. /\ h \in Seq(Tokens) /\ Untouched(h, "data")
        /\ \A s \in Slots : Untouched(h, s)
    BY <2>3 DEF Writes
  <2>5. out' = out \o h
    BY <2>1, TokenKinds, AppendIsConcat DEF RInv, Typed
  <2> HIDE DEF h
  <2>6. /\ out' \in Seq(Tokens) /\ Typed'
        /\ \A s \in Slots \cup {"DRI"} : \A d, c :
             LastIs(out, s, d, c) => LastIs(out', s, d, c)
    <3>1. out' \in Seq(Tokens)
      BY <2>4, <2>5, Concat DEF RInv, Typed
    <3>2. \A s \in Slots \cup {"DRI"} : Untouched(h, s)
      BY <2>3, <2>4
    <3>3. ASSUME NEW s \in Slots \cup {"DRI"}, NEW d, NEW c, LastIs(out, s, d, c)
          PROVE  LastIs(out', s, d, c)
      BY <2>4, <2>5, <3>2, <3>3, KeepsLast DEF RInv
    <3> QED
      BY <2>1, <3>1, <3>3 DEF RInv, Typed
  <2>7. Remembered'
    BY <2>1, <2>2, <2>6 DEF RInv, Remembered
  <2>8. IntervalRead' /\ Whole'
    BY <2>1, <2>2, <2>6 DEF RInv, IntervalRead, Whole, Idle, Calling
  <2>9. MainCoded'
    <3> SUFFICES ASSUME global_state \in {"SCANNING", "RAW_OK"} PROVE MainCoded'
      BY <2>2 DEF MainCoded
    <3>1. HeaderRead => HeaderRead'
      <4>1. UsedBy(scan_number) \subseteq Slots
        BY <2>2, MainSlots, UsedSlots
      <4> QED
        BY <2>1, <2>2, <2>4, <2>5, <4>1, HeaderStays DEF RInv
    <3>2. Opt' = Opt
      BY <2>2 DEF Opt
    <3> QED
      BY <2>1, <2>2, <3>1, <3>2 DEF RInv, Coded, MainCoded
  <2>10. QuantCoded' /\ ComputedUnsent' /\ PassCoded'
    BY <2>1, <2>2, <2>6 DEF RInv, Coded, QuantCoded, ComputedUnsent, PassCoded, Slots
  <2>11. Promises'
    BY <2>2, <2>4, <2>5, Stays DEF RInv
  <2> QED
    BY <2>6, <2>7, <2>8, <2>9, <2>10, <2>11 DEF RInv, Coded
<1> QED
  BY <1>1, <1>2

LEMMA RowsRead == ASSUME IInv, RInv, WriteRows PROVE RInv'
<1>1. CASE BadState
  BY <1>1, RefusedRead
<1>2. CASE ~BadState
  <2>1. /\ pc = "app" /\ global_state \in {"SCANNING", "RAW_OK"}
        /\ call_pass_startup' = FALSE
        /\ UNCHANGED <<pc, global_state, params, scan_number, gather, coding,
                       restart_interval>>
        /\ UNCHANGED <<known, caveat>>
        /\ IF call_pass_startup
           THEN /\ out' = out \o FrameHeader \o ScanHeader(0, Scan(0), restart_interval)
                /\ tables' = Sent({"quant"} \cup Scan(0).huffman)
                /\ last_restart_interval' = restart_interval
           ELSE UNCHANGED <<out, tables, last_restart_interval>>
    BY <1>2 DEF WriteRows, Calling, readerVars
  <2>2. /\ scan_number = 0 /\ scan_number < Scans /\ UsedBy(0) \subseteq Slots
        /\ Scan(0).huffman \subseteq {"dc", "ac"} /\ restart_interval \in Nat
    BY <2>1, MainSlots, UsedSlots DEF IInv, TypeOK
  <2>3. Opt' = Opt /\ Whole' /\ QuantCoded' /\ ComputedUnsent' /\ PassCoded'
    BY <2>1 DEF Opt, Whole, Idle, Calling, QuantCoded, ComputedUnsent, PassCoded
  <2>4. CASE ~call_pass_startup
    <3>1. UNCHANGED <<out, tables, last_restart_interval>>
      BY <2>1, <2>4
    <3>2. Typed' /\ Remembered' /\ IntervalRead'
      BY <2>1, <3>1 DEF RInv, Typed, Remembered, IntervalRead, Idle, Calling
    <3>3. HeaderRead => HeaderRead'
      BY <2>1, <3>1 DEF HeaderRead, UsedBy, Scan, Opt, OptimizeCoding
    <3>4. MainCoded'
      BY <2>1, <2>3, <2>4, <3>1, <3>3 DEF RInv, Coded, MainCoded
    <3>5. Promises'
      BY <2>1, <3>1, StaysPut DEF RInv
    <3> QED
      BY <2>3, <3>2, <3>4, <3>5 DEF RInv, Coded
  <2>5. CASE call_pass_startup
    <3> DEFINE f == FrameHeader
               g == ScanHeader(0, Scan(0), restart_interval)
               slots == {"quant"} \cup Scan(0).huffman
    <3>1. Typed /\ Remembered /\ Promises /\ LastIs(out, "DRI", 0, last_restart_interval)
      BY <2>1 DEF RInv, IntervalRead, Idle
    <3>2. /\ Writes(f, {"quant"}) /\ Untouched(f, "DRI")
          /\ Writes(g, Scan(0).huffman)
          /\ \A stream \in Seq(Tokens) :
               LastIs(stream, "DRI", 0, last_restart_interval)
                 => LastIs(stream \o g, "DRI", 0, restart_interval)
      BY <2>2, <3>1, FrameWritten, ScanWritten
    <3>3. out' = (out \o f) \o g /\ tables' = Sent(slots)
          /\ last_restart_interval' = restart_interval
      BY <2>1, <2>5
    <3> HIDE DEF f, g, slots
    <3>4. Writes(f \o g, slots)
      BY <2>2, <3>2, WritesBoth DEF slots
    <3>5. /\ f \in Seq(Tokens) /\ g \in Seq(Tokens) /\ f \o g \in Seq(Tokens)
          /\ Untouched(f \o g, "data")
      BY <3>2, <3>4 DEF Writes
    <3>6. out' = out \o (f \o g)
      BY SMTT(30), <3>1, <3>3, <3>5, ConcatAssociative DEF Typed
    <3>7. slots \subseteq Slots /\ slots = UsedBy(0)
      BY <2>2 DEF slots, UsedBy
    <3>8. /\ out' \in Seq(Tokens)
          /\ tables' \in [Slots -> [content : Int, sent : BOOLEAN]]
          /\ \A s \in Slots : tables'[s].content = tables[s].content
          /\ Remembered'
          /\ ~caveat => \A s \in slots : LastIs(out', s, known[s], tables[s].content)
      BY <2>1, <3>1, <3>3, <3>4, <3>6, <3>7, Writing
    <3>9. LastIs(out', "DRI", 0, restart_interval)
      <4>1. LastIs(out \o f, "DRI", 0, last_restart_interval) /\ out \o f \in Seq(Tokens)
        BY <3>1, <3>2, <3>5, KeepsLast, Concat DEF Typed
      <4> QED
        BY <3>2, <3>3, <4>1
    <3>10. Typed' /\ IntervalRead'
      BY <2>1, <3>1, <3>3, <3>8, <3>9 DEF Typed, IntervalRead
    <3>11. MainCoded'
      <4>1. coding = [s \in Slots |-> tables[s].content] /\ (gather <=> Opt)
        BY <2>1 DEF RInv, Coded, MainCoded
      <4>2. ~gather => HeaderRead'
        <5> SUFFICES ASSUME ~gather PROVE HeaderRead'
          OBVIOUS
        <5>1. ~Opt /\ UsedBy(scan_number)' = slots
          BY <2>1, <2>2, <3>7, <4>1 DEF UsedBy, Scan
        <5>2. ~caveat => \A s \in slots : LastIs(out', s, known[s], coding[s])
          BY <3>7, <3>8, <4>1
        <5> QED
          BY <2>1, <2>3, <3>3, <5>1, <5>2 DEF HeaderRead
      <4>3. [s \in Slots |-> tables[s].content] = [s \in Slots |-> tables'[s].content]
        BY <3>8
      <4> QED
        BY <2>1, <2>3, <4>1, <4>2, <4>3 DEF MainCoded
    <3>12. Promises'
      BY <2>1, <3>1, <3>5, <3>6, Stays
    <3> QED
      BY <2>3, <3>8, <3>10, <3>11, <3>12 DEF RInv, Coded
  <2> QED
    BY <2>4, <2>5
<1> QED
  BY <1>1, <1>2

\* A pass that ends: a statistics pass leaves new tables unsent, an output pass
\* the data of its scan.
LEMMA PassEnds ==
  ASSUME IInv, RInv, FinishPass, pc # "error", ~Idle, scan_number < Scans,
         gather => Opt /\ pass_type # "output_pass",
         ~gather => HeaderRead /\ (Opt => pass_type = "output_pass"),
         coding["quant"] = tables["quant"].content,
         scan_number > 0 /\ ~caveat => LastIs(out, "quant", known["quant"], coding["quant"])
  PROVE  RInv'
<1>1. /\ UNCHANGED <<params, coding, restart_interval, last_restart_interval, known, caveat>>
      /\ pc' = "passes" /\ Opt' = Opt
      /\ pass_type' = IF pass_type = "output_pass" /\ Opt THEN "huff_opt_pass"
                      ELSE "output_pass"
      /\ scan_number' = IF pass_type = "output_pass" \/ (pass_type = "main_pass" /\ ~Opt)
                        THEN scan_number + 1 ELSE scan_number
      /\ gather \in BOOLEAN /\ Opt \in BOOLEAN
  BY DEF FinishPass, Opt, OptimizeCoding, IInv, TypeOK
<1>2. /\ Typed /\ Remembered /\ Promises /\ LastIs(out, "DRI", 0, last_restart_interval)
      /\ computed \in Nat
  BY DEF RInv, IntervalRead, IInv, TypeOK
<1>3. /\ Scan(scan_number).huffman \subseteq {"dc", "ac"} /\ "quant" \in Slots
      /\ UsedBy(scan_number) \subseteq Slots
  BY UsedSlots DEF Slots
<1>4. Whole' /\ MainCoded' /\ PassCoded'
  BY <1>1 DEF Whole, Idle, Calling, MainCoded, PassCoded
<1>5. CASE gather
  <2>1. tables' = Gathered /\ UNCHANGED out /\ scan_number' = scan_number
    <3>1. pass_type \in {"main_pass", "huff_opt_pass", "output_pass"}
      BY DEF IInv, TypeOK
    <3> QED
      BY <1>1, <1>5, <3>1 DEF FinishPass
  <2>2. /\ tables' \in [Slots -> [content : Int, sent : BOOLEAN]]
        /\ \A s \in Slots : s \in Scan(scan_number).huffman => ~tables'[s].sent
        /\ \A s \in Slots : s \notin Scan(scan_number).huffman => tables'[s] = tables[s]
    BY <1>2, <2>1 DEF Gathered, Typed
  <2>3. Typed' /\ Remembered' /\ IntervalRead'
    BY <1>1, <1>2, <2>1, <2>2 DEF Typed, Remembered, IntervalRead
  <2>4. QuantCoded'
    <3>1. tables'["quant"] = tables["quant"]
      BY <1>3, <2>2
    <3> QED
      BY <1>1, <2>1, <3>1 DEF QuantCoded
  <2>5. ComputedUnsent'
    BY <1>1, <1>3, <2>1, <2>2 DEF ComputedUnsent, Scan, Slots
  <2>6. Promises'
    BY <1>1, <1>2, <2>1, StaysPut
  <2> QED
    BY <1>4, <2>3, <2>4, <2>5, <2>6 DEF RInv, Coded
<1>6. CASE ~gather
  <2> DEFINE h == <<Data(scan_number)>>
  <2>1. out' = Append(out, Data(scan_number)) /\ UNCHANGED tables
    BY <1>6 DEF FinishPass
  <2>2. Promises' /\ Data(scan_number) \in Tokens /\ out' = out \o h
    BY <1>1, <1>2, <1>6, <2>1, DataWritten
  <2>3. h \in Seq(Tokens) /\ \A s \in Slots \cup {"DRI"} : Untouched(h, s)
    <3>1. \A s \in Slots \cup {"DRI"} : ~Is(Data(scan_number), s)
      BY DEF Is, Data, Slots
    <3> QED
      BY <2>2, <3>1, Single, Tok
  <2> HIDE DEF h
  <2>4. /\ out' \in Seq(Tokens)
        /\ \A s \in Slots \cup {"DRI"} : \A d, c :
             LastIs(out, s, d, c) => LastIs(out', s, d, c)
    <3>1. ASSUME NEW s \in Slots \cup {"DRI"}, NEW d, NEW c, LastIs(out, s, d, c)
          PROVE  LastIs(out', s, d, c)
      BY <1>2, <2>2, <2>3, <3>1, KeepsLast
    <3> QED
      BY <1>2, <2>2, <2>3, <3>1, Concat DEF Typed
  <2>5. Typed' /\ Remembered'
    BY <1>1, <1>2, <2>1, <2>4 DEF Typed, Remembered
  <2>6. IntervalRead'
    BY <1>1, <1>2, <2>4 DEF IntervalRead
  <2>7. QuantCoded'
    <3>1. ~caveat => LastIs(out, "quant", known["quant"], coding["quant"])
      BY <1>6 DEF HeaderRead, UsedBy
    <3> QED
      BY <1>1, <1>3, <2>1, <2>4, <3>1 DEF QuantCoded
  <2>8. ComputedUnsent'
    BY <1>1, <1>6 DEF ComputedUnsent
  <2> QED
    BY <1>4, <2>2, <2>5, <2>6, <2>7, <2>8 DEF RInv, Coded
<1> QED
  BY <1>1, <1>5, <1>6

LEMMA FinishRead == ASSUME IInv, RInv, FinishCompress PROVE RInv'
<1>1. CASE Calling /\ AllRows /\ FinishPass
  <2>1. /\ pc = "app" /\ global_state \in {"SCANNING", "RAW_OK"} /\ ~call_pass_startup
        /\ MainCoded /\ InMainPass
    <3>1. pc = "app" /\ global_state \in {"SCANNING", "RAW_OK"} /\ next_scanline >= HEIGHT
      BY <1>1 DEF Calling, AllRows
    <3>2. next_scanline # 0
      BY <3>1, Bounds
    <3> QED
      BY <3>1, <3>2 DEF RInv, Coded, MainCoded, IInv, Schedule
  <2>2. /\ gather <=> Opt
        /\ ~gather => HeaderRead
        /\ coding = [s \in Slots |-> tables[s].content]
    BY <2>1 DEF MainCoded
  <2>3. pass_type = "main_pass" /\ scan_number = 0 /\ scan_number < Scans
    BY <2>1, MainSlots DEF InMainPass
  <2>4. coding["quant"] = tables["quant"].content
    BY <2>2 DEF Slots
  <2> QED
    BY <1>1, <2>1, <2>2, <2>3, <2>4, PassEnds DEF Idle
<1>2. CASE /\ Calling /\ global_state = "WRCOEFS" /\ pc' = "passes"
           /\ UNCHANGED <<global_state, params, next_scanline, passVars, streamVars,
                          readerVars>>
  <2>1. /\ UNCHANGED <<global_state, params, pass_type, scan_number, out, tables, coding,
                       last_restart_interval, known, caveat>>
        /\ pc = "app" /\ global_state = "WRCOEFS" /\ pc' = "passes"
    BY <1>2 DEF Calling, passVars, streamVars, readerVars
  <2>2. Typed' /\ Remembered' /\ IntervalRead'
    BY <2>1 DEF RInv, Typed, Remembered, IntervalRead, Idle
  <2>3. Whole' /\ MainCoded' /\ PassCoded'
    BY <2>1 DEF Whole, Idle, Calling, MainCoded, PassCoded
  <2>4. QuantCoded'
    BY <2>1 DEF RInv, Coded, QuantCoded
  <2>5. ComputedUnsent'
    <3>1. AwaitsFinish
      BY <2>1 DEF IInv, Schedule
    <3> QED
      BY <2>1, <3>1 DEF AwaitsFinish, ComputedUnsent, Opt
  <2>6. Promises'
    BY <2>1, StaysPut DEF RInv
  <2> QED
    BY <2>2, <2>3, <2>4, <2>5, <2>6 DEF RInv, Coded
<1> QED
  BY <1>1, <1>2 DEF FinishCompress

LEMMA GatherRead == ASSUME IInv, RInv, PrepareGather PROVE RInv'
<1>1. /\ UNCHANGED <<global_state, params, pass_type, scan_number, out, tables, coding,
                     last_restart_interval, known, caveat>>
      /\ pc = "passes" /\ pc' = "pass" /\ gather' = TRUE /\ pass_type = "huff_opt_pass"
  BY DEF PrepareGather, readerVars
<1>2. Typed' /\ Remembered' /\ IntervalRead'
  BY <1>1 DEF RInv, Typed, Remembered, IntervalRead, Idle, Calling
<1>3. Whole' /\ MainCoded' /\ PassCoded' /\ ComputedUnsent'
  BY <1>1 DEF Whole, Idle, Calling, MainCoded, PassCoded, ComputedUnsent
<1>4. QuantCoded'
  BY <1>1 DEF RInv, Coded, QuantCoded
<1>5. Promises'
  BY <1>1, StaysPut DEF RInv
<1> QED
  BY <1>2, <1>3, <1>4, <1>5 DEF RInv, Coded

LEMMA RunRead == ASSUME IInv, RInv, RunPass PROVE RInv'
<1>1. pc = "pass" /\ FinishPass /\ InPass /\ PassCoded /\ QuantCoded
  BY DEF RunPass, IInv, Schedule, RInv, Coded
<1>2. /\ scan_number < Scans /\ pass_type # "main_pass" /\ (~Opt => pass_type = "output_pass")
      /\ gather <=> pass_type = "huff_opt_pass"
      /\ ~gather => HeaderRead
  BY <1>1 DEF InPass, PassCoded
<1>3. pass_type \in {"main_pass", "huff_opt_pass", "output_pass"}
  BY DEF IInv, TypeOK
<1> QED
  BY <1>1, <1>2, <1>3, PassEnds DEF QuantCoded, Idle, Calling

LEMMA TrailerRead == ASSUME IInv, RInv, WriteTrailer PROVE RInv'
<1> DEFINE h == <<Token("EOI")>>
<1>1. /\ pc = "passes" /\ out' = Append(out, Token("EOI"))
      /\ UNCHANGED <<params, tables, coding, known, caveat>>
      /\ pc' = "app" /\ global_state' = "START"
  BY DEF WriteTrailer, readerVars
<1>2. Writes(h, {})
  BY TokenKinds, PlainToken
<1>3. /\ h \in Seq(Tokens) /\ Untouched(h, "data")
      /\ \A s \in Slots : Untouched(h, s)
  BY <1>2 DEF Writes
<1>4. out' = out \o h /\ Typed
  BY <1>1, TokenKinds, AppendIsConcat DEF RInv, Typed
<1>5. Complete'
  BY <1>4, EndsWithEOI DEF Typed
<1> HIDE DEF h
<1>6. Typed'
  BY <1>1, <1>3, <1>4, Concat DEF Typed
<1>7. Remembered'
  <2> SUFFICES ASSUME ~caveat, NEW s \in Slots, tables[s].sent
               PROVE  LastIs(out', s, known[s], tables[s].content)
    BY <1>1 DEF Remembered
  <2>1. LastIs(out, s, known[s], tables[s].content)
    BY DEF RInv, Remembered
  <2> QED
    BY <1>3, <1>4, <2>1, KeepsLast
<1>8. IntervalRead' /\ Whole' /\ Coded'
  BY <1>1, <1>5 DEF IntervalRead, Whole, Idle, Calling, Coded, MainCoded, QuantCoded,
     ComputedUnsent, PassCoded
<1>9. Promises'
  BY <1>1, <1>3, <1>4, Stays DEF RInv
<1> QED
  BY <1>6, <1>7, <1>8, <1>9 DEF RInv

LEMMA AbortRead == ASSUME IInv, RInv, Abort PROVE RInv'
<1>1. /\ pc' = "app" /\ global_state' = "START"
      /\ out' = IF Complete THEN out ELSE <<>>
      /\ caveat' = (caveat \/ (out # <<>> /\ ~Complete))
      /\ UNCHANGED <<params, tables, coding, known>>
  BY DEF Abort
<1>2. Typed'
  <2>1. <<>> \in Seq(Tokens)
    BY EmptySeq
  <2> QED
    BY <1>1, <2>1 DEF RInv, Typed
<1>3. Remembered'
  <2> SUFFICES ASSUME ~caveat' PROVE Remembered'
    BY DEF Remembered
  <2>1. ~caveat /\ out' = out
    BY <1>1
  <2> QED
    BY <1>1, <2>1 DEF RInv, Remembered
<1>4. Whole'
  BY <1>1 DEF Whole, Complete
<1>5. IntervalRead' /\ Coded'
  BY <1>1 DEF IntervalRead, Idle, Calling, Coded, MainCoded, QuantCoded,
     ComputedUnsent, PassCoded
<1>6. Promises'
  <2>1. CASE Complete
    BY <1>1, <2>1, StaysPut DEF RInv
  <2>2. CASE ~Complete
    BY <1>1, <2>2, NoData DEF Untouched
  <2> QED
    BY <2>1, <2>2
<1> QED
  BY <1>2, <1>3, <1>4, <1>5, <1>6 DEF RInv

\* prepare_for_pass for an output pass: the headers, with what is not yet sent.
LEMMA OutputRead == ASSUME IInv, RInv, PrepareOutput PROVE RInv'
<1> DEFINE n == scan_number
           scan == Scan(n)
           f == IF n = 0 THEN FrameHeader ELSE <<>>
           F == IF n = 0 THEN {"quant"} ELSE {}
           g == ScanHeader(n, scan, scan.interval)
           slots == scan.huffman \cup F
<1>1. /\ pc = "passes" /\ ~is_last_pass
      /\ pass_type = "huff_opt_pass" => SkipsGather(n)
      /\ pass_type' = "output_pass" /\ pc' = "pass" /\ gather' = FALSE
      /\ restart_interval' = scan.interval /\ last_restart_interval' = scan.interval
      /\ out' = (out \o f) \o g /\ tables' = Sent(slots)
      /\ coding' = [coding EXCEPT !["dc"] = tables["dc"].content,
                                  !["ac"] = tables["ac"].content]
      /\ UNCHANGED <<params, scan_number, known, caveat>>
  BY DEF PrepareOutput, readerVars
<1>2. /\ BetweenPasses /\ n < Scans
      /\ Typed /\ Remembered /\ Promises /\ LastIs(out, "DRI", 0, last_restart_interval)
      /\ QuantCoded /\ ComputedUnsent
      /\ pass_type \in {"main_pass", "huff_opt_pass", "output_pass"}
  <2>1. pc = "passes" /\ ~is_last_pass
    BY <1>1
  <2>2. n < Scans /\ BetweenPasses
    BY <2>1 DEF IInv, TypeOK, Schedule, Scans
  <2> QED
    BY <2>1, <2>2 DEF RInv, Coded, IntervalRead, Idle, Calling, IInv, TypeOK
<1>3. /\ UsedBy(n) \subseteq Slots /\ scan.huffman \subseteq {"dc", "ac"}
      /\ scan.interval \in Nat /\ n \in Nat
      /\ SkipsGather(n) => scan.huffman = {}
  BY <1>2, UsedSlots
<1> HIDE DEF scan, n
<1>4. /\ Writes(f, F) /\ Untouched(f, "DRI")
  <2>1. CASE n = 0
    BY <1>2, <2>1, FrameWritten
  <2>2. CASE n # 0
    <3>1. {} \cap Slots = {}
      OBVIOUS
    <3>2. Writes(<<>>, {}) /\ Untouched(<<>>, "DRI")
      BY <3>1, WritesNothing, Single
    <3> QED
      BY <2>2, <3>2
  <2> QED
    BY <2>1, <2>2
<1>5. /\ Writes(g, scan.huffman)
      /\ \A stream \in Seq(Tokens) :
           LastIs(stream, "DRI", 0, last_restart_interval)
             => LastIs(stream \o g, "DRI", 0, scan.interval)
  BY <1>2, <1>3, ScanWritten
<1>6. F \cap scan.huffman = {} /\ F \cup scan.huffman = slots /\ slots \subseteq Slots
  BY <1>3 DEF Slots
<1> HIDE DEF f, g
<1>7. Writes(f \o g, slots)
  BY <1>4, <1>5, <1>6, WritesBoth
<1>8. /\ f \in Seq(Tokens) /\ g \in Seq(Tokens) /\ f \o g \in Seq(Tokens)
      /\ Untouched(f \o g, "data") /\ out \in Seq(Tokens)
  BY <1>2, <1>4, <1>5, <1>7 DEF Writes, Typed
<1>9. out' = out \o (f \o g)
  BY SMTT(30), <1>1, <1>8, ConcatAssociative
<1>10. /\ out' \in Seq(Tokens)
       /\ tables' \in [Slots -> [content : Int, sent : BOOLEAN]]
       /\ \A s \in Slots : tables'[s].content = tables[s].content
       /\ Remembered'
       /\ ~caveat => \A s \in slots : LastIs(out', s, known[s], tables[s].content)
  <2> HIDE DEF slots
  <2> QED
    BY <1>1, <1>2, <1>6, <1>7, <1>9, Writing
<1>11. /\ coding' \in [Slots -> Int]
       /\ coding'["quant"] = coding["quant"]
       /\ coding'["dc"] = tables["dc"].content /\ coding'["ac"] = tables["ac"].content
  BY <1>1, <1>2 DEF Typed, Slots
<1>12. LastIs(out', "DRI", 0, scan.interval)
  <2>1. LastIs(out \o f, "DRI", 0, last_restart_interval) /\ out \o f \in Seq(Tokens)
    BY <1>2, <1>4, <1>8, KeepsLast, Concat
  <2> QED
    BY <1>1, <1>5, <2>1
<1>13. Typed' /\ IntervalRead'
  BY <1>1, <1>10, <1>11, <1>12 DEF Typed, IntervalRead
<1>14. coding["quant"] = tables["quant"].content
  BY <1>1, <1>2 DEF QuantCoded
<1>15. ~caveat => LastIs(out', "quant", known["quant"], coding'["quant"])
  <2> SUFFICES ASSUME ~caveat PROVE LastIs(out', "quant", known["quant"], coding'["quant"])
    OBVIOUS
  <2>1. CASE n = 0
    BY <1>10, <1>11, <1>14, <2>1
  <2>2. CASE n # 0
    <3>1. LastIs(out, "quant", known["quant"], coding["quant"])
      BY <1>1, <1>2, <1>3, <2>2 DEF QuantCoded, n
    <3>2. Untouched(f \o g, "quant")
      <4>1. "quant" \notin slots /\ "quant" \in Slots
        BY <1>3, <2>2 DEF Slots
      <4> QED
        BY <1>7, <4>1 DEF Writes
    <3> QED
      BY <1>2, <1>8, <1>9, <1>11, <3>1, <3>2, KeepsLast
  <2> QED
    BY <2>1, <2>2
<1>16. QuantCoded'
  BY <1>10, <1>11, <1>14, <1>15, <1>1 DEF QuantCoded, Slots
<1>17. \A s \in scan.huffman : s \in slots /\ s \in Slots /\ coding'[s] = tables[s].content
  BY <1>3, <1>11 DEF Slots
<1>18. HeaderRead'
  <2>1. UsedBy(scan_number)' = {"quant"} \cup scan.huffman
        /\ Scan(scan_number)' = scan /\ Opt' = Opt
    BY <1>1 DEF UsedBy, Scan, Opt, n, scan
  <2>2. ~caveat => \A s \in {"quant"} \cup scan.huffman :
                     LastIs(out', s, known[s], coding'[s])
    BY <1>10, <1>15, <1>17
  <2>3. ASSUME Opt, NEW s \in scan.huffman PROVE Sets(out', s, coding'[s])
    <3>1. ~tables[s].sent
      <4>1. pass_type = "output_pass"
        BY <1>1, <1>2, <1>3, <2>3 DEF BetweenPasses
      <4> QED
        BY <1>1, <1>2, <2>3, <4>1 DEF ComputedUnsent, scan, n
    <3>2. Sets(f \o g, s, tables[s].content)
      BY <1>7, <1>17, <3>1 DEF Writes
    <3> QED
      BY <1>8, <1>9, <1>17, <3>2, Concat
  <2> QED
    BY <1>1, <2>1, <2>2, <2>3 DEF HeaderRead
<1>19. MainCoded' /\ Whole' /\ ComputedUnsent' /\ PassCoded'
  BY <1>1, <1>18 DEF MainCoded, Whole, Idle, Calling, ComputedUnsent, PassCoded
<1>20. Promises'
  BY <1>1, <1>2, <1>8, <1>9, Stays
<1> QED
  BY <1>10, <1>13, <1>16, <1>19, <1>20 DEF RInv, Coded

-----------------------------------------------------------------------------

LEMMA InitReader == Init => RInv
<1> SUFFICES ASSUME Init PROVE RInv
  OBVIOUS
<1>1. Idle /\ out = <<>> /\ \A s \in Slots : ~tables[s].sent
  BY DEF Init, Idle, Calling
<1>2. Typed
  <2>1. <<>> \in Seq(Tokens)
    BY EmptySeq
  <2> QED
    BY <2>1 DEF Init, Typed, STD
<1>3. Remembered /\ IntervalRead /\ Whole
  BY <1>1 DEF Remembered, IntervalRead, Whole
<1>4. Coded
  BY DEF Init, Coded, MainCoded, QuantCoded, ComputedUnsent, PassCoded
<1>5. Promises
  BY <1>1 DEF Promises, Decodable, ComputedTablesWritten
<1> QED
  BY <1>2, <1>3, <1>4, <1>5 DEF RInv

LEMMA NextReader == IInv /\ RInv /\ [Next]_vars => RInv'
<1> SUFFICES ASSUME IInv, RInv, [Next]_vars PROVE RInv'
  OBVIOUS
<1>1. CASE UNCHANGED vars
  <2>1. UNCHANGED <<pc, global_state, params, next_scanline, pass_type, scan_number,
                    call_pass_startup, gather, tables, coding, restart_interval,
                    last_restart_interval, out, known, caveat>>
    BY <1>1 DEF vars, apiVars, passVars, streamVars, readerVars
  <2>2. Typed' /\ Remembered' /\ IntervalRead'
    BY <2>1 DEF RInv, Typed, Remembered, IntervalRead, Idle, Calling
  <2>3. Whole'
    BY <2>1 DEF RInv, Whole, Complete, Idle, Calling
  <2>4. HeaderRead => HeaderRead'
    BY <2>1 DEF HeaderRead, UsedBy, Scan, Opt, OptimizeCoding
  <2>5. Coded'
    BY <2>1, <2>4 DEF RInv, Coded, MainCoded, QuantCoded, ComputedUnsent, PassCoded,
       Opt, OptimizeCoding, Scan
  <2>6. Promises'
    BY <2>1, StaysPut DEF RInv
  <2> QED
    BY <2>2, <2>3, <2>5, <2>6 DEF RInv
<1>2. CASE FinishRefused \/ PassError
  BY <1>2, ErrorRead, RefusedRead DEF FinishRefused, PassError
<1>3. CASE Next
  BY <1>2, <1>3, SetDefaultsRead, SetQualityRead, SuppressRead, WriteTablesRead, StartRead,
     WriteCoefficientsRead, MarkerRead, RowsRead, FinishRead, GatherRead, OutputRead,
     RunRead, TrailerRead, AbortRead DEF Next
<1> QED
  BY <1>1, <1>3

\* What the markers written so far tell a reader, and what is still unsent,
\* holds in every state of every execution.
THEOREM ReaderInductive == Spec => []RInv
<1> QED
  BY Inductive, InitReader, NextReader, PTL DEF Spec

\* Tables-only and abbreviated datastreams, for every scan script and every
\* order of API calls: at every scan a reader of all of the object's datastreams
\* has the tables and the restart interval the scan was coded with, unless the
\* application marked tables as sent or gave up a datastream.
THEOREM DatastreamsDecodable == Spec => []Decodable
<1>1. RInv => Decodable
  BY DEF RInv, Promises
<1> QED
  BY <1>1, ReaderInductive, PTL

\* finish_pass_gather and emit_dht: a Huffman table computed for a scan stands
\* in the datastream before the scan, whatever was marked as sent and whenever.
THEOREM ComputedTablesAreWritten == Spec => []ComputedTablesWritten
<1>1. RInv => ComputedTablesWritten
  BY DEF RInv, Promises
<1> QED
  BY <1>1, ReaderInductive, PTL

-----------------------------------------------------------------------------
(* The order of a datastream's parts.                                      *)

\* What stands between the parts, of the library's own.
Plain(h) == h \in Seq(Tokens) /\ \A k \in DOMAIN h : h[k].kind \in {"table", "DRI"}

\* The last part of a datastream so far.
EndsIn(stream, t) ==
  \E j \in DOMAIN stream :
    /\ stream[j] = t /\ Part(t)
    /\ \A i \in DOMAIN stream : i > j => ~Part(stream[i])

Ordered(n, stream, t) ==
  /\ stream \in Seq(Tokens) /\ EndsIn(stream, t)
  /\ InOrder(n, stream) /\ MarkersFirst(stream)

ScanToken(k) == [kind |-> "SOS", scan |-> k]

\* Every kind of token is a part or stands between parts.
LEMMA PartKinds ==
  /\ \A t : t.kind \in {"SOI", "SOF", "EOI", "SOS", "data"} => Part(t)
  /\ \A t : t.kind \in {"table", "DRI", "COM"} => ~Part(t)
BY DEF Part

\* Two streams, one after the other, entry by entry.
LEMMA Entries ==
  ASSUME NEW a \in Seq(Tokens), NEW b \in Seq(Tokens)
  PROVE  /\ a \o b \in Seq(Tokens)
         /\ Len(a) \in Nat /\ Len(b) \in Nat /\ Len(a \o b) = Len(a) + Len(b)
         /\ DOMAIN a = 1..Len(a) /\ DOMAIN b = 1..Len(b)
         /\ DOMAIN (a \o b) = 1..(Len(a) + Len(b))
         /\ \A k \in 1..(Len(a) + Len(b)) :
              (a \o b)[k] = IF k <= Len(a) THEN a[k] ELSE b[k - Len(a)]
OBVIOUS

\* The stream c is a, followed by b.
Follow(a, b, c) ==
  /\ Len(a) \in Nat /\ Len(b) \in Nat
  /\ DOMAIN a = 1..Len(a) /\ DOMAIN b = 1..Len(b) /\ DOMAIN c = 1..(Len(a) + Len(b))
  /\ \A k \in 1..Len(a) : c[k] = a[k]
  /\ \A k \in 1..Len(b) : c[k + Len(a)] = b[k]

LEMMA Following ==
  ASSUME NEW a \in Seq(Tokens), NEW b \in Seq(Tokens)
  PROVE  a \o b \in Seq(Tokens) /\ Follow(a, b, a \o b)
<1> DEFINE c == a \o b
<1>1. /\ Len(a) \in Nat /\ Len(b) \in Nat
      /\ DOMAIN a = 1..Len(a) /\ DOMAIN b = 1..Len(b) /\ DOMAIN c = 1..(Len(a) + Len(b))
      /\ \A k \in 1..(Len(a) + Len(b)) : c[k] = IF k <= Len(a) THEN a[k] ELSE b[k - Len(a)]
      /\ c \in Seq(Tokens)
  BY Entries
<1> HIDE DEF c
<1>2. \A k \in 1..Len(a) : c[k] = a[k]
  BY <1>1
<1>3. ASSUME NEW k \in 1..Len(b) PROVE c[k + Len(a)] = b[k]
  <2>1. k + Len(a) \in 1..(Len(a) + Len(b)) /\ ~(k + Len(a) <= Len(a))
        /\ (k + Len(a)) - Len(a) = k
    BY <1>1
  <2> QED
    BY <1>1, <2>1
<1> QED
  BY <1>1, <1>2, <1>3 DEF Follow, c

\* What is in order stays so when something follows that is no part or follows
\* the last part.
LEMMA KeepsOrder ==
  ASSUME NEW n, NEW a, NEW b, NEW c, Follow(a, b, c), NEW t, EndsIn(a, t), InOrder(n, a),
         \A k \in 1..Len(b) : Part(b[k]) =>
           /\ Follows(n, t, b[k])
           /\ \A i \in 1..(k - 1) : ~Part(b[i])
  PROVE  InOrder(n, c)
<1>1. /\ Len(a) \in Nat /\ Len(b) \in Nat
      /\ DOMAIN a = 1..Len(a) /\ DOMAIN c = 1..(Len(a) + Len(b))
      /\ \A k \in 1..Len(a) : c[k] = a[k]
      /\ \A k \in 1..Len(b) : c[k + Len(a)] = b[k]
  BY DEF Follow
<1>2. PICK e \in 1..Len(a) :
        a[e] = t /\ Part(t) /\ \A i \in 1..Len(a) : i > e => ~Part(a[i])
  BY <1>1 DEF EndsIn
<1> SUFFICES ASSUME NEW k \in 1..(Len(a) + Len(b))
             PROVE  /\ k = 1 => c[k].kind = "SOI"
                    /\ k # 1 /\ Part(c[k]) => \E j \in 1..(k - 1) :
                         /\ Part(c[j]) /\ Follows(n, c[j], c[k])
                         /\ \A i \in (j + 1)..(k - 1) : ~Part(c[i])
  BY <1>1 DEF InOrder
<1>3. CASE k \in 1..Len(a)
  <2>1. \A i \in 1..k : c[i] = a[i]
    BY <1>1, <1>3
  <2>2. /\ k = 1 => a[k].kind = "SOI"
        /\ k # 1 /\ Part(a[k]) => \E j \in 1..(k - 1) :
             /\ Part(a[j]) /\ Follows(n, a[j], a[k])
             /\ \A i \in (j + 1)..(k - 1) : ~Part(a[i])
    BY <1>1, <1>3 DEF InOrder
  <2>3. \A j \in 1..(k - 1) : /\ c[j] = a[j]
                              /\ \A i \in (j + 1)..(k - 1) : c[i] = a[i]
    BY <2>1
  <2>4. c[k] = a[k]
    BY <1>3, <2>1
  <2> QED
    BY <2>2, <2>3, <2>4
<1>4. CASE k \notin 1..Len(a)
  <2>1. PICK m \in 1..Len(b) : k = m + Len(a)
    <3>1. k - Len(a) \in 1..Len(b) /\ k = (k - Len(a)) + Len(a)
      BY <1>1, <1>4
    <3> QED
      BY <3>1
  <2>2. c[k] = b[m] /\ k # 1 /\ e \in 1..(k - 1) /\ c[e] = t
    BY <1>1, <1>2, <2>1
  <2>3. ASSUME Part(c[k]) PROVE Follows(n, c[e], c[k]) /\ \A i \in (e + 1)..(k - 1) : ~Part(c[i])
    <3>1. Follows(n, t, b[m]) /\ \A i \in 1..(m - 1) : ~Part(b[i])
      BY <2>2, <2>3
    <3>2. ASSUME NEW i \in (e + 1)..(k - 1) PROVE ~Part(c[i])
      <4>1. CASE i <= Len(a)
        <5>1. i \in 1..Len(a) /\ i > e
          BY <1>1, <1>2, <4>1
        <5> QED
          BY <1>1, <1>2, <5>1
      <4>2. CASE i > Len(a)
        <5>1. i - Len(a) \in 1..(m - 1) /\ i - Len(a) \in 1..Len(b)
              /\ i = (i - Len(a)) + Len(a)
          BY <1>1, <2>1, <4>2
        <5>2. c[i] = b[i - Len(a)]
          BY <1>1, <5>1
        <5> QED
          BY <3>1, <5>1, <5>2
      <4> QED
        BY <1>1, <4>1, <4>2
    <3> QED
      BY <2>2, <3>1, <3>2
  <2> QED
    BY <1>2, <2>2, <2>3
<1> QED
  BY <1>3, <1>4

\* The application's markers come first as long as none follows.
LEMMA KeepsMarkersFirst ==
  ASSUME NEW a, NEW b, NEW c, Follow(a, b, c), MarkersFirst(a), Untouched(b, "COM")
  PROVE  MarkersFirst(c)
<1>1. /\ Len(a) \in Nat /\ Len(b) \in Nat
      /\ DOMAIN a = 1..Len(a) /\ DOMAIN c = 1..(Len(a) + Len(b))
      /\ \A k \in 1..Len(a) : c[k] = a[k]
      /\ \A k \in 1..Len(b) : c[k + Len(a)] = b[k]
      /\ \A k \in 1..Len(b) : b[k].kind # "COM"
  BY DEF Follow, Untouched, Is, Slots
<1> SUFFICES ASSUME NEW j \in 1..(Len(a) + Len(b)), NEW k \in 1..(Len(a) + Len(b)),
                    c[j].kind = "COM", c[k].kind = "SOF"
             PROVE  j < k
  BY <1>1 DEF MarkersFirst
<1>2. j \in 1..Len(a)
  <2> SUFFICES ASSUME j \notin 1..Len(a) PROVE FALSE
    OBVIOUS
  <2>1. j - Len(a) \in 1..Len(b) /\ j = (j - Len(a)) + Len(a)
    BY <1>1
  <2>2. c[j] = b[j - Len(a)]
    BY <1>1, <2>1
  <2> QED
    BY <1>1, <2>1, <2>2
<1>3. CASE k \in 1..Len(a)
  <2>1. a[j].kind = "COM" /\ a[k].kind = "SOF"
    BY <1>1, <1>2, <1>3
  <2> QED
    BY <1>1, <1>2, <1>3, <2>1 DEF MarkersFirst
<1>4. CASE k \notin 1..Len(a)
  BY <1>1, <1>2, <1>4
<1> QED
  BY <1>3, <1>4

\* The last part stays the last as long as no other follows.
LEMMA KeepsEnd ==
  ASSUME NEW a, NEW b, NEW c, Follow(a, b, c), NEW t, EndsIn(a, t),
         \A k \in 1..Len(b) : ~Part(b[k])
  PROVE  EndsIn(c, t)
<1>1. /\ Len(a) \in Nat /\ Len(b) \in Nat
      /\ DOMAIN a = 1..Len(a) /\ DOMAIN c = 1..(Len(a) + Len(b))
      /\ \A k \in 1..Len(a) : c[k] = a[k]
      /\ \A k \in 1..Len(b) : c[k + Len(a)] = b[k]
  BY DEF Follow
<1>2. PICK e \in 1..Len(a) :
        a[e] = t /\ Part(t) /\ \A i \in 1..Len(a) : i > e => ~Part(a[i])
  BY <1>1 DEF EndsIn
<1>3. ASSUME NEW i \in 1..(Len(a) + Len(b)), i > e PROVE ~Part(c[i])
  <2>1. CASE i \in 1..Len(a)
    BY <1>1, <1>2, <1>3, <2>1
  <2>2. CASE i \notin 1..Len(a)
    <3>1. i - Len(a) \in 1..Len(b) /\ i = (i - Len(a)) + Len(a)
      BY <1>1, <2>2
    <3>2. c[i] = b[i - Len(a)]
      BY <1>1, <3>1
    <3> QED
      BY <3>1, <3>2
  <2> QED
    BY <2>1, <2>2
<1>4. e \in 1..(Len(a) + Len(b)) /\ c[e] = t
  BY <1>1, <1>2
<1> QED
  BY <1>1, <1>2, <1>3, <1>4 DEF EndsIn

\* Tables and intervals change nothing of the order.
LEMMA PlainFollows ==
  ASSUME NEW n, NEW a, NEW t, Ordered(n, a, t), NEW h, Plain(h)
  PROVE  /\ Ordered(n, a \o h, t)
         /\ Untouched(a, "SOF") => Untouched(a \o h, "SOF")
<1>1. a \in Seq(Tokens) /\ h \in Seq(Tokens) /\ Follow(a, h, a \o h)
      /\ a \o h \in Seq(Tokens)
  BY Following DEF Ordered, Plain
<1>2. /\ \A k \in 1..Len(h) : ~Part(h[k])
      /\ Untouched(h, "COM") /\ Untouched(h, "SOF")
  BY <1>1 DEF Follow, Plain, Part, Untouched, Is, Slots
<1>3. InOrder(n, a \o h) /\ EndsIn(a \o h, t)
  BY <1>1, <1>2, KeepsOrder, KeepsEnd DEF Ordered
<1>4. MarkersFirst(a \o h)
  BY <1>1, <1>2, KeepsMarkersFirst DEF Ordered
<1>5. Untouched(a, "SOF") => Untouched(a \o h, "SOF")
  BY <1>1, <1>2, Concat
<1> QED
  BY <1>1, <1>3, <1>4, <1>5 DEF Ordered

\* A part that may follow the last one.
LEMMA PartFollows ==
  ASSUME NEW n, NEW a, NEW u, Ordered(n, a, u), NEW t \in Tokens, Part(t), Follows(n, u, t)
  PROVE  Ordered(n, a \o <<t>>, t)
<1>1. /\ a \in Seq(Tokens) /\ <<t>> \in Seq(Tokens)
      /\ Len(<<t>>) = 1 /\ <<t>>[1] = t /\ DOMAIN <<t>> = {1}
  BY Tok DEF Ordered
<1> DEFINE b == <<t>>
           c == a \o b
<1>2. Follow(a, b, c) /\ c \in Seq(Tokens)
  BY <1>1, Following
<1>3. b[1] = t /\ Len(b) = 1
  BY <1>1
<1>4. Untouched(b, "COM")
  BY <1>1 DEF Untouched, Is, Slots, Part
<1> HIDE DEF b, c
<1>5. InOrder(n, c)
  BY <1>2, <1>3, KeepsOrder DEF Ordered
<1>6. MarkersFirst(c)
  BY <1>2, <1>4, KeepsMarkersFirst DEF Ordered
<1>7. EndsIn(c, t)
  <2>1. /\ Len(a) \in Nat /\ DOMAIN c = 1..(Len(a) + 1) /\ c[1 + Len(a)] = t
    BY <1>2, <1>3 DEF Follow
  <2> QED
    BY <2>1 DEF EndsIn
<1> QED
  BY <1>2, <1>5, <1>6, <1>7 DEF Ordered, b, c

\* Tables and intervals in a row.
LEMMA PlainConcat == ASSUME NEW a, NEW b, Plain(a), Plain(b) PROVE Plain(a \o b)
<1>1. Follow(a, b, a \o b) /\ a \o b \in Seq(Tokens)
  BY Following DEF Plain
<1> DEFINE c == a \o b
<1> HIDE DEF c
<1>2. /\ Len(a) \in Nat /\ Len(b) \in Nat
      /\ DOMAIN a = 1..Len(a) /\ DOMAIN b = 1..Len(b) /\ DOMAIN c = 1..(Len(a) + Len(b))
      /\ \A k \in 1..Len(a) : c[k] = a[k]
      /\ \A k \in 1..Len(b) : c[k + Len(a)] = b[k]
  BY <1>1 DEF Follow, c
<1>3. ASSUME NEW k \in DOMAIN c PROVE c[k].kind \in {"table", "DRI"}
  <2>1. CASE k \in 1..Len(a)
    BY <1>2, <2>1 DEF Plain
  <2>2. CASE k \notin 1..Len(a)
    <3>1. k - Len(a) \in 1..Len(b) /\ k = (k - Len(a)) + Len(a)
      BY <1>2, <2>2
    <3>2. c[k] = b[k - Len(a)]
      BY <1>2, <3>1
    <3> QED
      BY <1>2, <3>1, <3>2 DEF Plain
  <2> QED
    BY <2>1, <2>2
<1> QED
  BY <1>1, <1>3 DEF Plain, c

LEMMA TokenIsPlain ==
  ASSUME NEW t \in Tokens, t.kind \in {"table", "DRI"}
  PROVE  Plain(<<t>>)
BY Tok DEF Plain

LEMMA PlainEmpty == Plain(<<>>)
BY EmptySeq DEF Plain

\* emit_dqt and emit_dht write a table or nothing.
LEMMA TablePlain == ASSUME Typed, NEW s \in Slots PROVE Plain(Table(s))
<1>1. TableToken(s) \in Tokens /\ TableToken(s).kind = "table"
  BY DEF TableToken, Tokens, Typed
<1>2. Plain(<<TableToken(s)>>)
  BY <1>1, TokenIsPlain
<1> QED
  BY <1>2, PlainEmpty DEF Table

LEMMA HuffmanPlain == ASSUME Typed, NEW slots PROVE Plain(HuffmanTables(slots))
<1>1. Plain(Table("dc")) /\ Plain(Table("ac"))
  BY TablePlain DEF Slots
<1>2. /\ Plain(IF "dc" \in slots THEN Table("dc") ELSE <<>>)
      /\ Plain(IF "ac" \in slots THEN Table("ac") ELSE <<>>)
  BY <1>1, PlainEmpty
<1> QED
  BY <1>2, PlainConcat DEF HuffmanTables

\* write_frame_header after SOI and the application's markers.
LEMMA FrameOrdered ==
  ASSUME Typed, NEW n, NEW a, NEW u, Ordered(n, a, u), u.kind = "SOI"
  PROVE  Ordered(n, a \o FrameHeader, Token("SOF"))
<1> DEFINE t == Token("SOF")
           q == Table("quant")
<1>1. Ordered(n, a \o q, u) /\ Plain(q)
  BY TablePlain, PlainFollows DEF Slots
<1>2. t \in Tokens /\ t.kind = "SOF" /\ <<t>> \in Seq(Tokens)
  BY TokenKinds, Tok
<1>3. Part(t) /\ Follows(n, u, t)
  BY <1>2, PartKinds DEF Follows
<1> HIDE DEF t, q
<1>4. Ordered(n, (a \o q) \o <<t>>, t)
  BY <1>1, <1>2, <1>3, PartFollows
<1>5. (a \o q) \o <<t>> = a \o (q \o <<t>>)
  BY <1>1, <1>2, ConcatAssociative DEF Ordered, Plain
<1> QED
  BY <1>4, <1>5 DEF FrameHeader, t, q

\* write_scan_header where the scan is the next one.
LEMMA ScanOrdered ==
  ASSUME Typed, NEW n, NEW a, NEW u, Ordered(n, a, u), NEW k \in Nat, NEW scan,
         NEW i \in Nat, Follows(n, u, ScanToken(k))
  PROVE  Ordered(n, a \o ScanHeader(k, scan, i), ScanToken(k))
<1> DEFINE d == [kind |-> "DRI", interval |-> i]
           t == ScanToken(k)
           x == HuffmanTables(scan.huffman)
           y == IF i # last_restart_interval THEN <<d>> ELSE <<>>
<1>1. Plain(x)
  BY HuffmanPlain
<1>2. Plain(y)
  <2>1. d \in Tokens /\ d.kind = "DRI"
    BY TokenKinds
  <2>2. Plain(<<d>>)
    BY <2>1, TokenIsPlain
  <2> QED
    BY <2>2, PlainEmpty
<1>3. t \in Tokens /\ t.kind = "SOS" /\ <<t>> \in Seq(Tokens)
  BY TokenKinds, Tok DEF ScanToken
<1>4. Part(t)
  BY <1>3, PartKinds
<1>5. ScanHeader(k, scan, i) = (x \o y) \o <<t>>
  BY DEF ScanHeader, ScanToken
<1> HIDE DEF x, y, t
<1>6. Plain(x \o y)
  BY <1>1, <1>2, PlainConcat
<1>7. Ordered(n, a \o (x \o y), u)
  BY <1>6, PlainFollows
<1>8. Ordered(n, (a \o (x \o y)) \o <<t>>, t)
  BY <1>3, <1>4, <1>7, PartFollows DEF t
<1>9. (a \o (x \o y)) \o <<t>> = a \o ((x \o y) \o <<t>>)
  <2>1. a \in Seq(Tokens) /\ x \o y \in Seq(Tokens)
    BY <1>6 DEF Ordered, Plain
  <2> QED
    BY ONLY SMTT(30), <1>3, <2>1, ConcatAssociative
<1> QED
  BY <1>5, <1>8, <1>9 DEF t

-----------------------------------------------------------------------------
(* How far a datastream has come, by where the library is.                 *)

\* SOI and the application's markers.
Begun(n, stream) == Ordered(n, stream, Token("SOI")) /\ Untouched(stream, "SOF")

\* The scans before the current one, if any, and their data.
ScansWritten(n, stream, scan) ==
  IF scan = 0 THEN Begun(n, stream)
  ELSE \E t \in Tokens : /\ Ordered(n, stream, t)
                         /\ t.kind = "data" /\ t.scan + 1 = scan

HeaderWritten(n, stream, scan) == Ordered(n, stream, ScanToken(scan))

Written ==
  /\ pc = "app" /\ global_state \in {"SCANNING", "RAW_OK"} =>
       IF call_pass_startup \/ Opt THEN Begun(Scans, out)
       ELSE HeaderWritten(Scans, out, scan_number)
  /\ pc = "app" /\ global_state = "WRCOEFS" => Begun(Scans, out)
  /\ pc = "passes" => ScansWritten(Scans, out, scan_number)
  /\ pc = "pass" => IF gather THEN ScansWritten(Scans, out, scan_number)
                    ELSE HeaderWritten(Scans, out, scan_number)

\* The headers of a single pass are written with the first scanline.
HeadersWait ==
  pc = "app" /\ global_state \in {"SCANNING", "RAW_OK"} =>
    /\ call_pass_startup => ~Opt
    /\ next_scanline = 0 /\ ~Opt => call_pass_startup

WInv == WellFormed /\ Written /\ HeadersWait

LEMMA OrderedIsWellFormed ==
  ASSUME NEW n, NEW s, NEW t, Ordered(n, s, t)
  PROVE  InOrder(n, s) /\ MarkersFirst(s)
BY DEF Ordered

\* What is written stands in order, at each of these points.
LEMMA PointsOrdered ==
  ASSUME NEW n, NEW s, NEW k
  PROVE  /\ Begun(n, s) => InOrder(n, s) /\ MarkersFirst(s)
         /\ ScansWritten(n, s, k) => InOrder(n, s) /\ MarkersFirst(s)
         /\ HeaderWritten(n, s, k) => InOrder(n, s) /\ MarkersFirst(s)
BY OrderedIsWellFormed DEF Begun, ScansWritten, HeaderWritten

\* write_file_header.
LEMMA SOIBegins == \A n : Begun(n, <<Token("SOI")>>)
<1> DEFINE t == Token("SOI")
<1>1. t \in Tokens /\ t.kind = "SOI" /\ <<t>> \in Seq(Tokens)
  BY TokenKinds, Tok
<1>2. Part(t)
  BY <1>1, PartKinds
<1> HIDE DEF t
<1>3. DOMAIN <<t>> = {1} /\ <<t>>[1] = t
  OBVIOUS
<1> DEFINE s == <<t>>
<1>4. s \in Seq(Tokens) /\ DOMAIN s = {1} /\ s[1] = t
  BY <1>1, <1>3
<1> HIDE DEF s
<1>5. EndsIn(s, t) /\ Untouched(s, "SOF")
  BY <1>1, <1>2, <1>4 DEF EndsIn, Untouched, Is, Slots
<1>6. MarkersFirst(s) /\ \A n : InOrder(n, s)
  BY <1>1, <1>4 DEF MarkersFirst, InOrder
<1> QED
  BY <1>4, <1>5, <1>6 DEF Begun, Ordered, s, t

\* jpeg_write_marker before the headers.
LEMMA MarkerFollows ==
  ASSUME NEW n, NEW a, Begun(n, a)
  PROVE  Begun(n, a \o <<Token("COM")>>)
<1> DEFINE t == Token("COM")
           b == <<t>>
           c == a \o b
<1>1. t \in Tokens /\ t.kind = "COM" /\ <<t>> \in Seq(Tokens)
  BY TokenKinds, Tok
<1> HIDE DEF t
<1>2. Len(b) = 1 /\ b[1] = t /\ DOMAIN b = {1}
  OBVIOUS
<1>3. Follow(a, b, c) /\ c \in Seq(Tokens) /\ a \in Seq(Tokens) /\ b \in Seq(Tokens)
  BY <1>1, Following DEF Begun, Ordered
<1>4. ~Part(b[1]) /\ Untouched(b, "SOF")
  BY <1>1, <1>2 DEF Part, Untouched, Is, Slots
<1>5. Untouched(c, "SOF")
  BY <1>3, <1>4, Concat DEF Begun
<1> HIDE DEF b, c
<1>6. InOrder(n, c) /\ EndsIn(c, Token("SOI"))
  BY <1>2, <1>3, <1>4, KeepsOrder, KeepsEnd DEF Begun, Ordered
<1>7. MarkersFirst(c)
  BY <1>5 DEF MarkersFirst, Untouched, Is, Slots
<1> QED
  BY <1>3, <1>5, <1>6, <1>7 DEF Begun, Ordered, b, c, t

\* The headers of a scan, after those before it.
LEMMA HeaderFollows ==
  ASSUME Typed, NEW n \in Nat, NEW a, NEW k \in Nat, k < n, ScansWritten(n, a, k),
         NEW scan, NEW i \in Nat
  PROVE  HeaderWritten(n, (a \o IF k = 0 THEN FrameHeader ELSE <<>>)
                             \o ScanHeader(k, scan, i), k)
<1>1. ScanToken(k).kind = "SOS" /\ ScanToken(k).scan = k
  BY DEF ScanToken
<1>2. CASE k = 0
  <2>1. Token("SOI").kind = "SOI" /\ Token("SOF").kind = "SOF"
    BY TokenKinds
  <2>2. Ordered(n, a \o FrameHeader, Token("SOF"))
    BY <1>2, <2>1, FrameOrdered DEF ScansWritten, Begun
  <2>3. Follows(n, Token("SOF"), ScanToken(k))
    BY <1>1, <1>2, <2>1 DEF Follows
  <2>4. Ordered(n, (a \o FrameHeader) \o ScanHeader(k, scan, i), ScanToken(k))
    BY <2>2, <2>3, ScanOrdered
  <2> QED
    BY <1>2, <2>4 DEF HeaderWritten
<1>3. CASE k # 0
  <2>1. PICK t \in Tokens : Ordered(n, a, t) /\ t.kind = "data" /\ t.scan + 1 = k
    BY <1>3 DEF ScansWritten
  <2>2. Follows(n, t, ScanToken(k))
    BY <1>1, <2>1 DEF Follows
  <2>3. Ordered(n, a \o ScanHeader(k, scan, i), ScanToken(k))
    BY <2>1, <2>2, ScanOrdered
  <2>4. a \o <<>> = a
    BY <2>1, ConcatEmptySeq DEF Ordered
  <2> QED
    BY <1>3, <2>3, <2>4 DEF HeaderWritten
<1> QED
  BY <1>2, <1>3

\* A scan's data, after its headers.
LEMMA DataFollows ==
  ASSUME NEW n, NEW a, NEW k \in Nat, HeaderWritten(n, a, k),
         NEW t \in Tokens, t.kind = "data", t.scan = k
  PROVE  ScansWritten(n, a \o <<t>>, k + 1)
<1>1. ScanToken(k).kind = "SOS" /\ ScanToken(k).scan = k
  BY DEF ScanToken
<1>2. Follows(n, ScanToken(k), t) /\ Part(t)
  BY <1>1, PartKinds DEF Follows
<1>3. Ordered(n, a \o <<t>>, t)
  BY <1>2, PartFollows DEF HeaderWritten
<1> QED
  BY <1>3 DEF ScansWritten

-----------------------------------------------------------------------------
(* The steps, for the order of the parts.                                  *)

\* A step that writes nothing, and after which nothing is promised.
LEMMA NothingWritten ==
  ASSUME WellFormed, UNCHANGED <<params, out>>,
         pc' = "error" \/ (pc' = "app" /\ global_state' = "START")
  PROVE  WInv'
<1>1. WellFormed'
  BY DEF WellFormed
<1>2. Written' /\ HeadersWait'
  BY DEF Written, HeadersWait
<1> QED
  BY <1>1, <1>2 DEF WInv

LEMMA RefusedOrder == ASSUME WInv, BadState PROVE WInv'
BY NothingWritten DEF WInv, BadState, streamVars

\* What is written in order makes a well-formed datastream.
LEMMA WellFormedNow ==
  ASSUME NEW k, \/ Begun(Scans, out)' \/ ScansWritten(Scans, out, k)'
                \/ HeaderWritten(Scans, out, k)'
  PROVE  WellFormed'
BY PointsOrdered DEF WellFormed, Scans

LEMMA TableCallsOrder ==
  ASSUME WInv, SetDefaults \/ SetQuality \/ \E b \in BOOLEAN : SuppressTables(b)
  PROVE  WInv'
<1>1. CASE BadState
  BY <1>1, RefusedOrder
<1>2. CASE ~BadState
  <2>1. UNCHANGED <<pc, global_state, params, next_scanline, scan_number,
                    call_pass_startup, gather, out>>
    BY <1>2 DEF SetDefaults, SetQuality, SuppressTables, apiVars, passVars
  <2> QED
    BY <2>1 DEF WInv, WellFormed, Written, HeadersWait, Scans, Opt, OptimizeCoding
<1> QED
  BY <1>1, <1>2

LEMMA WriteTablesOrder == ASSUME IInv, RInv, WInv, WriteTables PROVE WInv'
<1>1. CASE BadState
  BY <1>1, RefusedOrder
<1>2. CASE ~BadState
  <2> DEFINE huffman == IF params.arith THEN {} ELSE {"dc", "ac"}
             s == <<Token("SOI")>>
             q == Table("quant")
             h == HuffmanTables(huffman)
             e == Token("EOI")
  <2>1. /\ out' = ((s \o q) \o h) \o <<e>>
        /\ pc' = "app" /\ global_state' = "START" /\ UNCHANGED params
    BY <1>2 DEF WriteTables, apiVars, Idle, Calling
  <2>2. Plain(q) /\ Plain(h)
    BY TablePlain, HuffmanPlain DEF RInv, Slots
  <2>3. Ordered(Scans, s, Token("SOI"))
    BY SOIBegins DEF Begun
  <2> HIDE DEF s, q, h
  <2>4. Ordered(Scans, s \o q, Token("SOI"))
    BY <2>2, <2>3, PlainFollows
  <2>5. Ordered(Scans, (s \o q) \o h, Token("SOI"))
    BY <2>2, <2>4, PlainFollows
  <2>6. e \in Tokens /\ e.kind = "EOI" /\ Token("SOI").kind = "SOI"
    BY TokenKinds
  <2>7. Part(e) /\ Follows(Scans, Token("SOI"), e)
    BY <2>6, PartKinds DEF Follows
  <2> HIDE DEF e
  <2>8. Ordered(Scans, out', e)
    BY <2>1, <2>5, <2>6, <2>7, PartFollows
  <2>9. WellFormed'
    BY <2>1, <2>8, OrderedIsWellFormed DEF WellFormed, Scans
  <2> QED
    BY <2>1, <2>9 DEF WInv, Written, HeadersWait
<1> QED
  BY <1>1, <1>2

\* A datastream begun by jpeg_start_compress or jpeg_write_coefficients.
LEMMA StartOrder ==
  ASSUME WInv, StartCompress \/ WriteCoefficients
  PROVE  WInv'
<1>1. CASE BadState
  BY <1>1, RefusedOrder
<1>2. CASE ~BadState
  <2>1. out' = <<Token("SOI")>> /\ pc' = "app"
    BY <1>2 DEF StartCompress, WriteCoefficients, Idle, Calling
  <2>2. Begun(Scans, out)'
    BY <2>1, SOIBegins
  <2>3. WellFormed'
    BY <2>2, WellFormedNow
  <2>4. CASE StartCompress
    <3>1. PICK p \in Params : params' = p /\ PrepareMainPass(p)
      BY <1>2, <2>4 DEF StartCompress
    <3>2. /\ call_pass_startup' <=> ~Opt'
          /\ global_state' \in {"SCANNING", "RAW_OK"}
      BY <1>2, <2>4, <3>1 DEF PrepareMainPass, Opt, StartCompress
    <3> QED
      BY <2>1, <2>2, <2>3, <3>2 DEF WInv, Written, HeadersWait
  <2>5. CASE WriteCoefficients
    <3>1. global_state' = "WRCOEFS"
      BY <1>2, <2>5 DEF WriteCoefficients
    <3> QED
      BY <2>1, <2>2, <2>3, <3>1 DEF WInv, Written, HeadersWait
  <2> QED
    BY <2>4, <2>5
<1> QED
  BY <1>1, <1>2

LEMMA MarkerOrder == ASSUME IInv, RInv, WInv, WriteMarker PROVE WInv'
<1>1. CASE BadState
  BY <1>1, RefusedOrder
<1>2. CASE ~BadState
  <2>1. /\ pc = "app" /\ Compressing /\ next_scanline = 0
        /\ out' = Append(out, Token("COM"))
        /\ UNCHANGED <<pc, global_state, params, next_scanline, scan_number,
                       call_pass_startup, gather>>
    BY <1>2 DEF WriteMarker, apiVars, passVars, Calling
  <2>2. Opt' = Opt /\ Scans' = Scans
    BY <2>1 DEF Opt, Scans
  <2>3. Begun(Scans, out)
    BY <2>1 DEF WInv, Written, HeadersWait, Compressing
  <2>4. out' = out \o <<Token("COM")>>
    BY <2>1, TokenKinds, AppendIsConcat DEF RInv, Typed
  <2>5. Begun(Scans, out)'
    BY <2>2, <2>3, <2>4, MarkerFollows
  <2>6. WellFormed'
    BY <2>5, WellFormedNow
  <2>7. HeadersWait'
    BY <2>1, <2>2 DEF WInv, HeadersWait
  <2>8. Written'
    BY <2>1, <2>2, <2>5, <2>7 DEF Written, HeadersWait
  <2> QED
    BY <2>6, <2>7, <2>8 DEF WInv
<1> QED
  BY <1>1, <1>2

LEMMA RowsOrder == ASSUME IInv, RInv, WInv, WriteRows PROVE WInv'
<1>1. CASE BadState
  BY <1>1, RefusedOrder
<1>2. CASE ~BadState
  <2>1. /\ pc = "app" /\ global_state \in {"SCANNING", "RAW_OK"}
        /\ call_pass_startup' = FALSE /\ next_scanline' = next_scanline + 1
        /\ UNCHANGED <<pc, global_state, params, scan_number>>
        /\ IF call_pass_startup
           THEN out' = out \o FrameHeader \o ScanHeader(0, Scan(0), restart_interval)
           ELSE UNCHANGED out
    BY <1>2 DEF WriteRows, Calling
  <2>2. Opt' = Opt /\ Scans' = Scans /\ next_scanline' # 0
    BY <2>1 DEF Opt, Scans, IInv, TypeOK
  <2>3. scan_number = 0 /\ scan_number < Scans /\ Scans \in Nat /\ restart_interval \in Nat
    <3>1. params \in Params /\ restart_interval \in Nat
      BY DEF IInv, TypeOK
    <3> QED
      BY <2>1, <3>1, MainSlots, ScriptFacts DEF Scans
  <2>4. HeadersWait'
    BY <2>1, <2>2 DEF HeadersWait
  <2>5. CASE call_pass_startup
    <3>1. ~Opt /\ Begun(Scans, out)
      BY <2>1, <2>5 DEF WInv, Written, HeadersWait
    <3>2. ScansWritten(Scans, out, 0)
      BY <3>1 DEF ScansWritten
    <3>3. HeaderWritten(Scans, (out \o IF 0 = 0 THEN FrameHeader ELSE <<>>)
                                  \o ScanHeader(0, Scan(0), restart_interval), 0)
      BY <2>3, <3>2, HeaderFollows DEF RInv
    <3>4. HeaderWritten(Scans, out, scan_number)'
      BY <2>1, <2>2, <2>3, <2>5, <3>3
    <3>5. WellFormed'
      BY <3>4, WellFormedNow
    <3>6. Written'
      BY <2>1, <2>2, <3>1, <3>4 DEF Written
    <3> QED
      BY <2>4, <3>5, <3>6 DEF WInv
  <2>6. CASE ~call_pass_startup
    <3>1. UNCHANGED <<out, params>>
      BY <2>1, <2>6
    <3>2. Written'
      BY <2>1, <2>2, <2>6, <3>1 DEF WInv, Written
    <3>3. WellFormed'
      BY <3>1 DEF WInv, WellFormed
    <3> QED
      BY <2>4, <3>2, <3>3 DEF WInv
  <2> QED
    BY <2>5, <2>6
<1> QED
  BY <1>1, <1>2

\* A statistics pass writes nothing, an output pass the data of its scan.
LEMMA PassEndsOrder ==
  ASSUME IInv, RInv, WInv, FinishPass, scan_number < Scans,
         gather => /\ ScansWritten(Scans, out, scan_number)
                   /\ Opt /\ pass_type # "output_pass",
         ~gather => HeaderWritten(Scans, out, scan_number),
         ~gather => pass_type = "output_pass" \/ (pass_type = "main_pass" /\ ~Opt)
  PROVE  WInv'
<1>1. /\ UNCHANGED params /\ pc' = "passes" /\ Scans' = Scans
      /\ scan_number' = IF pass_type = "output_pass" \/ (pass_type = "main_pass" /\ ~Opt)
                        THEN scan_number + 1 ELSE scan_number
      /\ pass_type \in {"main_pass", "huff_opt_pass", "output_pass"}
      /\ scan_number \in Nat
  <2>1. params \in Params /\ scan_number \in 0..Len(params.scans)
        /\ pass_type \in {"main_pass", "huff_opt_pass", "output_pass"}
    BY DEF IInv, TypeOK
  <2> QED
    BY <2>1, ScriptFacts DEF FinishPass, Opt, Scans
<1>2. ScansWritten(Scans, out, scan_number)'
  <2>1. CASE gather
    <3>1. UNCHANGED out
      BY <2>1 DEF FinishPass
    <3>2. scan_number' = scan_number
      BY <1>1, <2>1
    <3> QED
      BY <1>1, <2>1, <3>1, <3>2
  <2>2. CASE ~gather
    <3> DEFINE d == Data(scan_number)
    <3>1. /\ d \in Tokens /\ d.kind = "data" /\ d.scan = scan_number
      <4>1. restart_interval \in Nat
        BY DEF IInv, TypeOK
      <4> QED
        BY <1>1, <4>1 DEF Data, Tokens, RInv, Typed
    <3> HIDE DEF d
    <3>2. out' = Append(out, d)
      BY <2>2 DEF FinishPass, d
    <3>3. out' = out \o <<d>>
      BY <3>1, <3>2, AppendIsConcat DEF RInv, Typed
    <3>4. ScansWritten(Scans, out', scan_number + 1)
      BY <1>1, <2>2, <3>1, <3>3, DataFollows
    <3>5. scan_number' = scan_number + 1
      BY <1>1, <2>2
    <3> QED
      BY <1>1, <3>4, <3>5
  <2> QED
    BY <2>1, <2>2
<1>3. WellFormed'
  BY <1>2, WellFormedNow
<1> QED
  BY <1>1, <1>2, <1>3 DEF WInv, Written, HeadersWait

LEMMA FinishOrder == ASSUME IInv, RInv, WInv, FinishCompress PROVE WInv'
<1>1. CASE Calling /\ AllRows /\ FinishPass
  <2>1. /\ pc = "app" /\ global_state \in {"SCANNING", "RAW_OK"} /\ next_scanline # 0
        /\ InMainPass /\ MainCoded
    <3>1. pc = "app" /\ global_state \in {"SCANNING", "RAW_OK"} /\ next_scanline >= HEIGHT
      BY <1>1 DEF Calling, AllRows
    <3>2. next_scanline # 0
      BY <3>1, Bounds
    <3> QED
      BY <3>1, <3>2 DEF RInv, Coded, IInv, Schedule
  <2>2. (gather <=> Opt) /\ ~call_pass_startup
    BY <2>1 DEF MainCoded
  <2>3. pass_type = "main_pass" /\ scan_number = 0 /\ scan_number < Scans
    BY <2>1, MainSlots DEF InMainPass
  <2>4. gather => ScansWritten(Scans, out, scan_number)
    BY <2>1, <2>2, <2>3 DEF WInv, Written, ScansWritten
  <2>5. ~gather => HeaderWritten(Scans, out, scan_number)
    BY <2>1, <2>2 DEF WInv, Written
  <2> QED
    BY <1>1, <2>2, <2>3, <2>4, <2>5, PassEndsOrder
<1>2. CASE /\ Calling /\ global_state = "WRCOEFS" /\ pc' = "passes"
           /\ UNCHANGED <<global_state, params, next_scanline, passVars, streamVars,
                          readerVars>>
  <2>1. /\ UNCHANGED <<params, scan_number, out>> /\ pc = "app" /\ pc' = "passes"
        /\ Scans' = Scans
    BY <1>2 DEF Calling, passVars, streamVars, Scans
  <2>2. Begun(Scans, out) /\ scan_number = 0
    BY <1>2, <2>1 DEF WInv, Written, IInv, Schedule, AwaitsFinish
  <2>3. ScansWritten(Scans, out, scan_number)'
    BY <2>1, <2>2 DEF ScansWritten
  <2>4. WellFormed'
    BY <2>3, WellFormedNow
  <2> QED
    BY <2>1, <2>3, <2>4 DEF WInv, Written, HeadersWait
<1> QED
  BY <1>1, <1>2 DEF FinishCompress

LEMMA GatherOrder == ASSUME WInv, PrepareGather PROVE WInv'
<1>1. /\ UNCHANGED <<params, scan_number, out>> /\ Scans' = Scans
      /\ pc = "passes" /\ pc' = "pass" /\ gather' = TRUE
  BY DEF PrepareGather, Scans
<1>2. ScansWritten(Scans, out, scan_number)'
  BY <1>1 DEF WInv, Written
<1>3. WellFormed'
  BY <1>2, WellFormedNow
<1> QED
  BY <1>1, <1>2, <1>3 DEF WInv, Written, HeadersWait

LEMMA OutputOrder == ASSUME IInv, RInv, WInv, PrepareOutput PROVE WInv'
<1> DEFINE scan == Scan(scan_number)
           f == IF scan_number = 0 THEN FrameHeader ELSE <<>>
<1>1. /\ UNCHANGED <<params, scan_number>> /\ Scans' = Scans
      /\ pc = "passes" /\ ~is_last_pass /\ pc' = "pass" /\ gather' = FALSE
      /\ out' = (out \o f) \o ScanHeader(scan_number, scan, scan.interval)
  BY DEF PrepareOutput, Scans
<1>2. /\ scan_number < Scans /\ scan_number \in Nat /\ Scans \in Nat
      /\ scan.interval \in Nat
  <2>1. scan_number < Scans /\ params \in Params
    BY <1>1 DEF IInv, TypeOK, Scans
  <2> QED
    BY <2>1, UsedSlots, ScriptFacts DEF Scans
<1> HIDE DEF scan
<1>3. ScansWritten(Scans, out, scan_number)
  BY <1>1 DEF WInv, Written
<1>4. HeaderWritten(Scans, (out \o f) \o ScanHeader(scan_number, scan, scan.interval),
                    scan_number)
  BY <1>2, <1>3, HeaderFollows DEF RInv
<1>5. HeaderWritten(Scans, out, scan_number)'
  BY <1>1, <1>4
<1>6. WellFormed'
  BY <1>5, WellFormedNow
<1> QED
  BY <1>1, <1>5, <1>6 DEF WInv, Written, HeadersWait

LEMMA RunOrder == ASSUME IInv, RInv, WInv, RunPass PROVE WInv'
<1>1. pc = "pass" /\ FinishPass /\ InPass /\ PassCoded
  BY DEF RunPass, IInv, Schedule, RInv, Coded
<1>2. /\ scan_number < Scans /\ pass_type # "main_pass" /\ (~Opt => pass_type = "output_pass")
      /\ gather <=> pass_type = "huff_opt_pass"
      /\ pass_type \in {"main_pass", "huff_opt_pass", "output_pass"}
  BY <1>1 DEF InPass, PassCoded, IInv, TypeOK
<1>3. /\ gather => ScansWritten(Scans, out, scan_number)
      /\ ~gather => HeaderWritten(Scans, out, scan_number)
  BY <1>1 DEF WInv, Written
<1> QED
  BY <1>1, <1>2, <1>3, PassEndsOrder

LEMMA TrailerOrder == ASSUME IInv, RInv, WInv, WriteTrailer PROVE WInv'
<1> DEFINE e == Token("EOI")
<1>1. /\ out' = Append(out, e) /\ UNCHANGED params /\ Scans' = Scans
      /\ pc = "passes" /\ is_last_pass /\ pc' = "app" /\ global_state' = "START"
  BY DEF WriteTrailer, Scans
<1>2. scan_number = Scans /\ Scans \in Nat \ {0}
  <2>1. scan_number = Scans /\ params \in Params
    BY <1>1 DEF IInv, TypeOK, Schedule, BetweenPasses
  <2> QED
    BY <2>1, ScriptFacts DEF Scans
<1>3. PICK t \in Tokens : Ordered(Scans, out, t) /\ t.kind = "data" /\ t.scan + 1 = Scans
  BY <1>1, <1>2 DEF WInv, Written, ScansWritten
<1>4. e \in Tokens /\ e.kind = "EOI"
  BY TokenKinds
<1>5. Part(e) /\ Follows(Scans, t, e)
  BY <1>3, <1>4, PartKinds DEF Follows
<1> HIDE DEF e
<1>6. out' = out \o <<e>>
  BY <1>1, <1>4, AppendIsConcat DEF RInv, Typed
<1>7. Ordered(Scans, out', e)
  BY <1>3, <1>4, <1>5, <1>6, PartFollows
<1>8. WellFormed'
  BY <1>1, <1>7, OrderedIsWellFormed DEF WellFormed, Scans
<1> QED
  BY <1>1, <1>8 DEF WInv, Written, HeadersWait

\* A datastream that was given up is gone; one that was completed stays.
LEMMA AbortOrder == ASSUME WInv, Abort PROVE WInv'
<1>1. /\ pc' = "app" /\ global_state' = "START" /\ UNCHANGED params
      /\ out' = out \/ out' = <<>>
  BY DEF Abort
<1>2. CASE out' = out
  BY <1>1, <1>2, NothingWritten DEF WInv
<1>3. CASE out' = <<>>
  <2>1. WellFormed'
    BY <1>3 DEF WellFormed, InOrder, MarkersFirst
  <2> QED
    BY <1>1, <2>1 DEF WInv, Written, HeadersWait
<1> QED
  BY <1>1, <1>2, <1>3

LEMMA InitOrder == Init => WInv
<1> SUFFICES ASSUME Init PROVE WInv
  OBVIOUS
<1>1. out = <<>> /\ global_state = "START" /\ pc = "app"
  BY DEF Init
<1>2. WellFormed
  BY <1>1 DEF WellFormed, InOrder, MarkersFirst
<1> QED
  BY <1>1, <1>2 DEF WInv, Written, HeadersWait

LEMMA NextOrder == IInv /\ RInv /\ WInv /\ [Next]_vars => WInv'
<1> SUFFICES ASSUME IInv, RInv, WInv, [Next]_vars PROVE WInv'
  OBVIOUS
<1>1. CASE UNCHANGED vars
  <2>1. UNCHANGED <<pc, global_state, params, next_scanline, scan_number,
                    call_pass_startup, gather, out>>
    BY <1>1 DEF vars, apiVars, passVars, streamVars
  <2> QED
    BY <2>1 DEF WInv, WellFormed, Written, HeadersWait, Scans, Opt, OptimizeCoding
<1>2. CASE FinishRefused \/ PassError
  <2>1. pc' = "error" /\ UNCHANGED <<params, out>>
    BY <1>2 DEF FinishRefused, PassError, BadState, streamVars
  <2> QED
    BY <2>1, NothingWritten DEF WInv
<1>3. CASE Next
  BY <1>2, <1>3, TableCallsOrder, WriteTablesOrder, StartOrder, MarkerOrder, RowsOrder,
     FinishOrder, GatherOrder, OutputOrder, RunOrder, TrailerOrder, AbortOrder DEF Next
<1> QED
  BY <1>1, <1>3

\* How far the datastream has come, by where the library is, holds in every
\* state of every execution.
THEOREM OrderInductive == Spec => []WInv
<1> QED
  BY Inductive, ReaderInductive, InitOrder, NextOrder, PTL DEF Spec

\* For every scan script, with or without optimisation, through scanlines or
\* coefficients, and every order of API calls: the datastream is SOI, the
\* application's markers, one frame header, then every scan of the script once,
\* in order and followed by its data, and EOI, or a beginning of that.
THEOREM DatastreamsWellFormed == Spec => []WellFormed
<1>1. WInv => WellFormed
  BY DEF WInv
<1> QED
  BY <1>1, OrderInductive, PTL

=============================================================================
