---------------------------- MODULE RestartSync ----------------------------
(***************************************************************************)
(* How the decoder finds its place again in a damaged scan with restart    *)
(* markers: the marker scanner and the resynchronisation of jdmarker.c     *)
(* (next_marker, read_restart_marker, jpeg_resync_to_restart), the restart *)
(* and out-of-data handling of jdhuff.c, and the source's fake EOI.        *)
(*                                                                         *)
(* A scan is a sequence of coded MCUs and markers, followed by EOI or by   *)
(* the next scan.  The source may stop delivering at any byte; the call    *)
(* then returns and is made again (I/O suspension).                        *)
(***************************************************************************)
EXTENDS Integers, Sequences

CONSTANTS Scans,            \* intact scans: segments, interval, last (EOI or SOS)
          Faults            \* the faults to apply to them, by scan

M_SOF0 == 192
M_RST0 == 208
M_RST7 == 215
M_EOI == 217
M_SOS == 218

ASSUME ScanAssumption ==
  Scans \subseteq [segments : Nat \ {0}, interval : Nat \ {0}, last : {M_EOI, M_SOS}]

VARIABLES scan, fault,
          stream,           \* what the source delivers
          pos,              \* the next token to read
          pc,
          unread_marker,    \* 0, or a marker already taken from the source
          next_restart_num,
          restarts_to_go,
          insufficient_data,
          out               \* the MCUs decoded so far

input == <<stream, pos>>
vars == <<scan, fault, input, pc, unread_marker, next_restart_num,
          restarts_to_go, insufficient_data, out>>

-----------------------------------------------------------------------------
(* Streams and their faults.                                               *)

Data(mcu) == [kind |-> "data", mcu |-> mcu]
Marker(code) == [kind |-> "marker", code |-> code]
Rst(num) == Marker(M_RST0 + (num % 8))

GARBAGE == -1               \* data that is not of this scan
GRAY == -2                  \* an MCU left zero for want of data
STUFFED == -3               \* an MCU decoded from zero bits put in for want of data

McuCount(s) == s.segments * s.interval

\* The coded MCUs, with a restart marker after each segment but the last.
ScanTokens(s) ==
  LET period == s.interval + 1
  IN  [i \in 1..(s.segments * period - 1) |->
         IF i % period = 0 THEN Rst(i \div period - 1)
         ELSE Data(i - 1 - i \div period)]

Rest(s) ==
  <<Marker(s.last)>> \o
    (IF s.last = M_SOS THEN <<Data(GARBAGE), Data(GARBAGE), Marker(M_EOI)>> ELSE <<>>)

\* Foreign data, or two bytes that the scanner takes for a marker.
FaultTokens == {Data(GARBAGE)} \cup {Marker(code) : code \in 1..254}

\* `at' is a position in the scan.
ASSUME FaultAssumption ==
  \A s \in Scans :
    Faults[s] \subseteq
      [kind : {"none", "lose", "repeat", "replace", "insert", "truncate"},
       at : 1..Len(ScanTokens(s)), count : Nat, token : FaultTokens]

Damaged(s, f) ==
  LET t == ScanTokens(s)
      upto(i) == SubSeq(t, 1, i)
      from(i) == SubSeq(t, i, Len(t))
  IN  CASE f.kind = "none" -> t \o Rest(s)
        [] f.kind = "lose" -> upto(f.at - 1) \o from(f.at + f.count) \o Rest(s)
        [] f.kind = "repeat" -> upto(f.at) \o from(f.at) \o Rest(s)
        [] f.kind = "replace" -> upto(f.at - 1) \o <<f.token>> \o from(f.at + 1) \o Rest(s)
        [] f.kind = "insert" -> upto(f.at - 1) \o <<f.token>> \o from(f.at) \o Rest(s)
        [] f.kind = "truncate" -> upto(f.at - 1)

\* fill_mem_input_buffer, fill_input_buffer: past the end there is an EOI.
Token(i) == IF i <= Len(stream) THEN stream[i] ELSE Marker(M_EOI)

-----------------------------------------------------------------------------

\* start_pass_huff_decoder and start_input_pass, behind the SOS marker.
Init ==
  /\ scan \in Scans
  /\ fault \in Faults[scan]
  /\ stream = Damaged(scan, fault) /\ pos = 1
  /\ pc = "decode_mcu"
  /\ unread_marker = 0 /\ next_restart_num = 0
  /\ restarts_to_go = scan.interval /\ insufficient_data = FALSE
  /\ out = <<>>

Deliver(mcu) ==
  /\ out' = Append(out, mcu)
  /\ restarts_to_go' = restarts_to_go - 1
  /\ pc' = IF Len(out') = McuCount(scan) THEN "done" ELSE "decode_mcu"

Decoding == pc = "decode_mcu" /\ restarts_to_go > 0

\* decode_mcu_slow with enough data.  Loading the bit buffer may run into the
\* marker behind the MCU before its bits are wanted.
DecodeMcu ==
  /\ Decoding /\ ~insufficient_data /\ unread_marker = 0
  /\ Token(pos).kind = "data"
  /\ Deliver(Token(pos).mcu)
  /\ \/ pos' = pos + 1 /\ UNCHANGED unread_marker
     \/ /\ Token(pos + 1).kind = "marker"
        /\ pos' = pos + 2 /\ unread_marker' = Token(pos + 1).code
  /\ UNCHANGED <<scan, fault, stream, next_restart_num, insufficient_data>>

\* jpeg_fill_bit_buffer at no_more_bytes: a marker where bits are wanted.
\* Zero bits are put in and decoded, whatever they stand for in the Huffman
\* tables; from the next MCU on the flag keeps the segment zero.
HitMarker ==
  /\ Decoding /\ ~insufficient_data
  /\ \/ unread_marker # 0 /\ UNCHANGED <<pos, unread_marker>>
     \/ /\ unread_marker = 0 /\ Token(pos).kind = "marker"
        /\ pos' = pos + 1 /\ unread_marker' = Token(pos).code
  /\ insufficient_data' = TRUE
  /\ Deliver(STUFFED)
  /\ UNCHANGED <<scan, fault, stream, next_restart_num>>

\* decode_mcu with the out-of-data flag set.
LeaveGray ==
  /\ Decoding /\ insufficient_data
  /\ Deliver(GRAY)
  /\ UNCHANGED <<scan, fault, input, unread_marker, next_restart_num, insufficient_data>>

-----------------------------------------------------------------------------
(* process_restart and read_restart_marker.                                *)

\* The bits left are thrown away and the search for the marker starts.
ProcessRestart ==
  /\ pc = "decode_mcu" /\ restarts_to_go = 0
  /\ pc' = IF unread_marker = 0 THEN "next_marker" ELSE "read_restart_marker"
  /\ UNCHANGED <<scan, fault, input, unread_marker, next_restart_num,
                 restarts_to_go, insufficient_data, out>>

\* next_marker: data is skipped and consumed; a marker ends the search.
NextMarker(from, to) ==
  /\ pc = from
  /\ pos' = pos + 1
  /\ IF Token(pos).kind = "marker"
     THEN unread_marker' = Token(pos).code /\ pc' = to
     ELSE UNCHANGED <<unread_marker, pc>>
  /\ UNCHANGED <<scan, fault, stream, next_restart_num, restarts_to_go,
                 insufficient_data, out>>

FindRestart == NextMarker("next_marker", "read_restart_marker")

\* Action 2 of the resynchronisation: scan forward and decide again.
ScanForward == NextMarker("scan_forward", "resync")

\* Mutant: the number of the next restart marker is not reduced to three bits.
Resume_NoWrap(marker) ==
  /\ unread_marker' = marker
  /\ next_restart_num' = next_restart_num + 1
  /\ restarts_to_go' = scan.interval
  /\ insufficient_data' = IF marker = 0 THEN FALSE ELSE insufficient_data
  /\ pc' = "decode_mcu"
  /\ UNCHANGED <<scan, fault, input, out>>

\* Mutant: the restart counter is not reset.
Resume_NoReset(marker) ==
  /\ unread_marker' = marker
  /\ next_restart_num' = (next_restart_num + 1) % 8
  /\ insufficient_data' = IF marker = 0 THEN FALSE ELSE insufficient_data
  /\ pc' = "decode_mcu"
  /\ UNCHANGED <<scan, fault, input, restarts_to_go, out>>

\* The end of process_restart: read_restart_marker has left marker unread.
Resume(marker) ==
  /\ unread_marker' = marker
  /\ next_restart_num' = (next_restart_num + 1) % 8
  /\ restarts_to_go' = scan.interval
  /\ insufficient_data' = IF marker = 0 THEN FALSE ELSE insufficient_data
  /\ pc' = "decode_mcu"
  /\ UNCHANGED <<scan, fault, input, out>>

SwallowRestart ==
  /\ pc = "read_restart_marker" /\ unread_marker = M_RST0 + next_restart_num
  /\ Resume(0)

CallResync ==
  /\ pc = "read_restart_marker" /\ unread_marker # M_RST0 + next_restart_num
  /\ pc' = "resync"
  /\ UNCHANGED <<scan, fault, input, unread_marker, next_restart_num,
                 restarts_to_go, insufficient_data, out>>

-----------------------------------------------------------------------------
(* jpeg_resync_to_restart.                                                 *)

Distant(n) == M_RST0 + ((next_restart_num + n) % 8)

\* Mutant: only the very next restart marker is taken for a future one.
Action_NextOnly(marker) ==
  IF marker < M_SOF0 THEN 2
  ELSE IF marker < M_RST0 \/ marker > M_RST7 THEN 3
  ELSE IF marker = Distant(1) THEN 3
  ELSE IF marker \in {Distant(-1), Distant(-2)} THEN 2
  ELSE 1

\* Mutant: the variant the comment names for single-scan files.
Action_SingleScan(marker) ==
  IF marker < M_SOF0 THEN 2
  ELSE IF marker < M_RST0 \/ marker > M_RST7 THEN IF marker = M_EOI THEN 3 ELSE 2
  ELSE IF marker \in {Distant(1), Distant(2)} THEN 3
  ELSE IF marker \in {Distant(-1), Distant(-2)} THEN 2
  ELSE 1

\* Mutant: a marker seen before is discarded like any other.
Action_NoPrior(marker) ==
  IF marker < M_SOF0 THEN 2
  ELSE IF marker < M_RST0 \/ marker > M_RST7 THEN 3
  ELSE IF marker \in {Distant(1), Distant(2)} THEN 3
  ELSE 1

\* 1: discard the marker; 2: scan to the next one; 3: leave it unread.
Action(marker) ==
  IF marker < M_SOF0 THEN 2
  ELSE IF marker < M_RST0 \/ marker > M_RST7 THEN 3
  ELSE IF marker \in {Distant(1), Distant(2)} THEN 3
  ELSE IF marker \in {Distant(-1), Distant(-2)} THEN 2
  ELSE 1

Resync ==
  /\ pc = "resync"
  /\ \/ Action(unread_marker) = 1 /\ Resume(0)
     \/ /\ Action(unread_marker) = 2
        /\ pc' = "scan_forward"
        /\ UNCHANGED <<scan, fault, input, unread_marker, next_restart_num,
                       restarts_to_go, insufficient_data, out>>
     \/ Action(unread_marker) = 3 /\ Resume(unread_marker)

\* Mutant: an interrupted scan forward counts the restart as done.
Suspend_RestartDone ==
  /\ pc \in {"next_marker", "scan_forward"}
  /\ pc' = "decode_mcu"
  /\ restarts_to_go' = scan.interval
  /\ next_restart_num' = (next_restart_num + 1) % 8
  /\ UNCHANGED <<scan, fault, input, unread_marker, insufficient_data, out>>

\* The source has no byte for next_marker: decode_mcu returns FALSE, having
\* consumed the data it skipped and nothing else.  (Inside an MCU nothing is
\* kept at all, so that a suspension there is no step.)
Suspend ==
  /\ pc \in {"next_marker", "scan_forward"}
  /\ pc' = "decode_mcu"
  /\ UNCHANGED <<scan, fault, input, unread_marker, next_restart_num,
                 restarts_to_go, insufficient_data, out>>

-----------------------------------------------------------------------------

Decode == DecodeMcu \/ HitMarker \/ LeaveGray
Restart == ProcessRestart \/ SwallowRestart \/ CallResync \/ Resync

Done == pc = "done" /\ UNCHANGED vars

Next == Decode \/ Restart \/ FindRestart \/ ScanForward \/ Suspend \/ Done

\* The application calls again until the scan is done, and the source delivers
\* the next byte if it is asked again and again.
Fairness ==
  WF_vars(Decode \/ Restart) /\ SF_vars(FindRestart) /\ SF_vars(ScanForward)

Spec == Init /\ [][Next]_vars /\ Fairness

-----------------------------------------------------------------------------

\* Every variable has its type.
TypeOK ==
  /\ scan \in Scans
  /\ pos \in Nat \ {0}
  /\ pc \in {"decode_mcu", "next_marker", "read_restart_marker", "resync",
             "scan_forward", "done"}
  /\ unread_marker \in 0..255 /\ next_restart_num \in 0..7
  /\ restarts_to_go \in 0..scan.interval
  /\ insufficient_data \in BOOLEAN
  /\ Len(out) <= McuCount(scan)

\* The segments of the result that are not what the encoder put there.
WrongSegments ==
  {k \in 0..(scan.segments - 1) :
     \E i \in 1..scan.interval : out[k * scan.interval + i] # k * scan.interval + i - 1}

\* The segment a position of the intact scan lies in; a marker counts with the
\* segment before it.
SegmentAt(at) == (at - 1) \div (scan.interval + 1)

\* An undamaged scan is decoded completely, wherever the source suspends and
\* however far the bit buffer reads ahead of the decoding.
IntactIsRight == pc = "done" /\ fault.kind = "none" => WrongSegments = {}

\* One or two segments lost, each with the marker in front of it, and the marker
\* behind them still there.
WholeSegmentsLost ==
  LET period == scan.interval + 1
  IN  /\ fault.kind = "lose" /\ fault.at % period = 0
      /\ fault.count \in {period, 2 * period}
      /\ fault.at + fault.count <= Len(ScanTokens(scan))

\* jpeg_resync_to_restart: "I missed the desired restart marker, probably
\* because it got corrupted" is recovered from: up to two whole segments lost
\* with their markers cost exactly those segments, and nothing of another place
\* comes out in them: one MCU of stuffed bits where the loss is met, and gray to
\* the end of the loss, over the restart between the two segments.
LostSegmentsAreBlank ==
  pc = "done" /\ WholeSegmentsLost =>
    LET first == SegmentAt(fault.at) + 1
        lost == first..(first + fault.count \div (scan.interval + 1) - 1)
    IN  /\ WrongSegments = lost
        /\ \A k \in lost : \A i \in 1..scan.interval :
             out[k * scan.interval + i] = IF k = first /\ i = 1 THEN STUFFED ELSE GRAY

\* The faults the strategy is made for: one token lost, repeated, garbled or
\* inserted that does not look like a marker ending the scan.  A restart marker
\* in the midst of a segment two counts ahead of the one due is the exception:
\* after it the decoder is three counts ahead, takes every marker for "too far
\* away" and stays out of step.
Recoverable ==
  LET d == SegmentAt(fault.at)
      midst == fault.kind = "insert" \/ fault.at % (scan.interval + 1) # 0
  IN  \/ fault.kind \in {"lose", "repeat"} /\ fault.count = 1
      \/ /\ fault.kind \in {"replace", "insert"}
         /\ \/ fault.token.kind = "data"
            \/ fault.token.code < M_SOF0
            \/ fault.token.code \in M_RST0..M_RST7 /\ ~(midst /\ fault.token = Rst(d + 2))

\* One recoverable fault damages its own segment and at most the three after it.
DamageContained ==
  pc = "done" /\ Recoverable =>
    WrongSegments \subseteq SegmentAt(fault.at)..(SegmentAt(fault.at) + 3)

\* "This keeps us from overrunning the end of a scan": whatever the damage, the
\* decoder never takes a byte from behind the first marker that is valid and no
\* restart marker, and it keeps that marker for the input controller.
NeverOverrun ==
  \A i \in 1..(pos - 1) :
    Token(i).kind = "marker" /\ Token(i).code >= M_SOF0
      /\ Token(i).code \notin M_RST0..M_RST7
    => i = pos - 1 /\ unread_marker = Token(i).code

\* Every call sequence ends: truncated or damaged, all MCUs are delivered.
AllDelivered == <>(pc = "done")

=============================================================================
