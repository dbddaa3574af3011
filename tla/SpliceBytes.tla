---------------------------- MODULE SpliceBytes ----------------------------
(***************************************************************************)
(* jpar_splice_strips (jcparallel.c) on bytes: jpar_find_header_end walks  *)
(* the marker segments of each strip's JPEG, jpar_find_entropy_end looks   *)
(* for its EOI, the scans are copied behind the header of strip 0 and the  *)
(* restart markers are renumbered in place.  Every step is one iteration   *)
(* of the code's loops.  Positions count from 0 as in the code.            *)
(*                                                                         *)
(* The inputs are JPEGs as jpar_encode_strip writes them (jcmarker.c,      *)
(* jchuff.c), possibly cut short.  The scan of a strip is a sequence of    *)
(* MCU rows, each a sequence of units: a data byte, or 0xFF stuffed with   *)
(* 0x00.                                                                   *)
(***************************************************************************)
EXTENDS Integers, Sequences, SequencesExt

CONSTANTS Inputs            \* records [strips, height, cut], see below

VARIABLES input, bufs,      \* the strips' JPEGs, of which the last may be cut
          pc, i, pos,       \* position of the reader in strip i
          sof0,             \* sof0_pos, -1 when none was seen
          starts, ends,     \* entropy_starts[] and entropy_ends[]
          out, seq          \* the output and the next restart number

scanVars == <<starts, ends, sof0>>
vars == <<input, bufs, pc, i, pos, scanVars, out, seq>>

FF   == 255
SOI  == 216
EOI  == 217
RST0 == 208
RST7 == 215
SOF0 == 192
APP0 == 224
SOS  == 218

IsRstCode(b) == b \in RST0..RST7

Hi(k) == (k \div 256) % 256
Lo(k) == k % 256

-----------------------------------------------------------------------------
(* What the strip encoder writes.                                          *)

Stuffed == <<FF, 0>>

\* A header: SOI, a segment whose payload looks like an SOS marker, SOF0 with
\* the height, SOS.
HeaderBytes(height) ==
  <<FF, SOI, FF, APP0, 0, 4, FF, SOS,
    FF, SOF0, 0, 11, 8, Hi(height), Lo(height), 0, 1, 1, 1, 17, 0,
    FF, SOS, 0, 3, 0>>

\* The rows of a scan, with restart markers 0, 1, ... 7, 0, ... between.
ScanBytes(rows) ==
  FlattenSeq([k \in DOMAIN rows |->
    (IF k = 1 THEN <<>> ELSE <<FF, RST0 + ((k - 2) % 8)>>) \o FlattenSeq(rows[k])])

StripJpeg(rows) ==
  HeaderBytes(Len(rows)) \o ScanBytes(rows) \o <<FF, EOI>>

\* The JPEG of the whole image, written in one scan.
WholeJpeg(strips, height) ==
  HeaderBytes(height) \o ScanBytes(FlattenSeq(strips)) \o <<FF, EOI>>

-----------------------------------------------------------------------------

\* cut = 0 leaves the strips whole, otherwise the last cut bytes are missing.
Init ==
  /\ input \in Inputs
  /\ bufs = [k \in DOMAIN input.strips |->
               LET b == StripJpeg(input.strips[k])
               IN  IF k = Len(input.strips) THEN SubSeq(b, 1, Len(b) - input.cut) ELSE b]
  /\ pc = "start" /\ i = 1 /\ pos = 0 /\ sof0 = -1
  /\ starts = <<>> /\ ends = <<>> /\ out = <<>> /\ seq = 0

Size == Len(bufs[i])
At(p) == bufs[i][p + 1]
SegLen(p) == At(p) * 256 + At(p + 1)

\* SOI.
Start ==
  /\ pc = "start" /\ i <= Len(bufs)
  /\ Size >= 2 /\ At(0) = FF /\ At(1) = SOI
  /\ pc' = "header" /\ pos' = 2
  /\ UNCHANGED <<input, bufs, i, scanVars, out, seq>>

AtSegment == pc = "header" /\ pos + 4 <= Size /\ At(pos) = FF

\* A segment other than SOS is stepped over; strip 0's SOF0 is remembered.
NextSegment ==
  /\ AtSegment /\ At(pos + 1) # SOS
  /\ SegLen(pos + 2) >= 2 /\ pos + 2 + SegLen(pos + 2) <= Size
  /\ pos' = pos + 2 + SegLen(pos + 2)
  /\ sof0' = IF i = 1 /\ At(pos + 1) = SOF0 THEN pos ELSE sof0
  /\ UNCHANGED <<input, bufs, pc, i, starts, ends, out, seq>>

\* The SOS segment ends the header; strip 0 must have had an SOF0.
EndOfHeader ==
  /\ AtSegment /\ At(pos + 1) = SOS
  /\ pos + 2 + SegLen(pos + 2) <= Size
  /\ i = 1 => sof0 # -1 /\ sof0 + 9 <= Size
  /\ pc' = "scan" /\ pos' = pos + 2 + SegLen(pos + 2)
  /\ starts' = Append(starts, pos')
  /\ UNCHANGED <<input, bufs, i, sof0, ends, out, seq>>

AtPair == pc = "scan" /\ pos + 1 < Size /\ At(pos) = FF

\* A stuffed byte or a restart marker is scan data.
SkipPair ==
  /\ AtPair /\ (At(pos + 1) = 0 \/ IsRstCode(At(pos + 1)))
  /\ pos' = pos + 2
  /\ UNCHANGED <<input, bufs, pc, i, scanVars, out, seq>>

SkipByte ==
  /\ pc = "scan" /\ pos + 1 < Size /\ At(pos) # FF
  /\ pos' = pos + 1
  /\ UNCHANGED <<input, bufs, pc, i, scanVars, out, seq>>

\* The end of the scan without a restart marker right before it.
TrimmedEnd(start, end) ==
  IF end - start >= 2 /\ At(end - 2) = FF /\ IsRstCode(At(end - 1))
  THEN end - 2 ELSE end

\* Mutant: the scan ends at the first 0xD9, whatever stands before it.
EndOfScan_AnyD9 ==
  /\ pc = "scan" /\ pos + 1 < Size /\ At(pos + 1) = EOI
  /\ ends' = Append(ends, TrimmedEnd(starts[i], pos))
  /\ i' = i + 1 /\ pos' = 0
  /\ pc' = IF i = Len(bufs) THEN "copy" ELSE "start"
  /\ UNCHANGED <<input, bufs, starts, sof0, out, seq>>

EndOfScan ==
  /\ AtPair /\ At(pos + 1) = EOI
  /\ ends' = Append(ends, TrimmedEnd(starts[i], pos))
  /\ i' = i + 1 /\ pos' = 0
  /\ pc' = IF i = Len(bufs) THEN "copy" ELSE "start"
  /\ UNCHANGED <<input, bufs, starts, sof0, out, seq>>

Reading == Start \/ NextSegment \/ EndOfHeader \/ SkipPair \/ SkipByte \/ EndOfScan

\* No strip at all, a malformed header, or a scan without its EOI.
Reject ==
  /\ pc \in {"start", "header", "scan"} /\ ~ENABLED Reading
  /\ pc' = "rejected"
  /\ UNCHANGED <<input, bufs, i, pos, scanVars, out, seq>>

Piece(k) == SubSeq(bufs[k], starts[k] + 1, ends[k])

\* Mutant: no room is left for the EOI.
Capacity_NoTrailer ==
  starts[1] + 2 * (Len(bufs) - 1)
    + FoldLeft(LAMBDA sum, k : sum + ends[k] - starts[k], 0, [k \in DOMAIN ends |-> k])

\* header_len + total_entropy + 2 * (num_strips - 1) + 2
Capacity ==
  starts[1] + 2 * Len(bufs)
    + FoldLeft(LAMBDA sum, k : sum + ends[k] - starts[k], 0, [k \in DOMAIN ends |-> k])

PatchedHeader ==
  [SubSeq(bufs[1], 1, starts[1]) EXCEPT
     ![sof0 + 6] = Hi(input.height), ![sof0 + 7] = Lo(input.height)]

\* The header with the height of the whole image, and the scans one after the
\* other with an RST0 between two strips.
Copy ==
  /\ pc = "copy"
  /\ out' = PatchedHeader
              \o FlattenSeq([k \in DOMAIN bufs |->
                   (IF k = 1 THEN <<>> ELSE <<FF, RST0>>) \o Piece(k)])
  /\ pc' = "renumber" /\ pos' = starts[1]
  /\ UNCHANGED <<input, bufs, i, scanVars, seq>>

\* Mutant: 0xD0..0xD7 is renumbered wherever it stands.
RenumberMarker_AnyByte ==
  /\ pc = "renumber" /\ pos + 1 < Len(out) /\ IsRstCode(out[pos + 2])
  /\ out' = [out EXCEPT ![pos + 2] = RST0 + (seq % 8)]
  /\ seq' = seq + 1 /\ pos' = pos + 2
  /\ UNCHANGED <<input, bufs, pc, i, scanVars>>

RenumberMarker ==
  /\ pc = "renumber" /\ pos + 1 < Len(out)
  /\ out[pos + 1] = FF /\ IsRstCode(out[pos + 2])
  /\ out' = [out EXCEPT ![pos + 2] = RST0 + (seq % 8)]
  /\ seq' = seq + 1 /\ pos' = pos + 2
  /\ UNCHANGED <<input, bufs, pc, i, scanVars>>

RenumberSkip ==
  /\ pc = "renumber" /\ pos + 1 < Len(out)
  /\ ~(out[pos + 1] = FF /\ IsRstCode(out[pos + 2]))
  /\ pos' = IF out[pos + 1] = FF /\ out[pos + 2] = 0 THEN pos + 2 ELSE pos + 1
  /\ UNCHANGED <<input, bufs, pc, i, scanVars, out, seq>>

\* EOI.
Trailer ==
  /\ pc = "renumber" /\ pos + 1 >= Len(out)
  /\ out' = out \o <<FF, EOI>>
  /\ pc' = "done"
  /\ UNCHANGED <<input, bufs, i, pos, scanVars, seq>>

Stopped == pc \in {"done", "rejected"} /\ UNCHANGED vars

Next ==
  \/ Start \/ NextSegment \/ EndOfHeader \/ SkipPair \/ SkipByte \/ EndOfScan
  \/ Reject \/ Copy \/ RenumberMarker \/ RenumberSkip \/ Trailer \/ Stopped

Spec == Init /\ [][Next]_vars

-----------------------------------------------------------------------------

\* The reader stays inside its strip, and the writer inside the malloc'd
\* out_capacity bytes, which it fills exactly.
InBounds ==
  /\ pc \in {"header", "scan"} => pos <= Size
  /\ pc \in {"renumber", "done"} => Len(out) <= Capacity
  /\ pc = "done" => Len(out) = Capacity

\* The result is byte for byte the JPEG of the whole image written in a single
\* scan: 0xD9 and 0xD0..0xD7 among the data bytes, stuffed bytes and header
\* bytes that look like markers are never mistaken for markers.
SplicesToWholeJpeg ==
  pc = "done" => out = WholeJpeg(input.strips, input.height)

\* jpar_splice_strips "Returns FALSE if num_strips < 1 or any strip's buffer
\* doesn't parse", and only then: a strip that lost its last bytes is never
\* spliced, a complete one never refused.
RejectsOnlyIncomplete ==
  /\ pc = "done" => input.cut = 0
  /\ pc = "rejected" => input.strips = <<>> \/ input.cut > 0

=============================================================================
