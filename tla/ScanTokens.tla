----------------------------- MODULE ScanTokens -----------------------------
(***************************************************************************)
(* The entropy-coded scan of a baseline JPEG as the strip encoder sees it: *)
(* a sequence of coded MCU rows and restart markers.  A coded MCU row is   *)
(* known by the scanlines it was computed from; since a restart precedes   *)
(* it and resets the DC predictions, nothing else enters its bytes.        *)
(***************************************************************************)
EXTENDS StripGeometry, Sequences, FiniteSets

CONSTANT RST_CYCLE          \* restart markers are numbered modulo 8

ASSUME CycleAssumption == RST_CYCLE \in Nat \ {0}

-----------------------------------------------------------------------------

Row(first, count) == [kind |-> "row", first |-> first, count |-> count]

Rst(num) == [kind |-> "rst", num |-> num]

IsRst(token) == token.kind = "rst"

\* MCU row r of a picture whose scanlines are first .. first + count - 1: a
\* last row that is not full is padded by the encoder, not read from below.
McuRow(first, count, h, r) ==
  Row(first + r * h, IF count - r * h < h THEN count - r * h ELSE h)

\* The scan a single-threaded encoder with a restart interval of one MCU row
\* writes for an image of H scanlines in MCU rows of height h.
ReferenceScan(H, h) ==
  [j \in 1..(2 * McuRows(H, h) - 1) |->
     IF j % 2 = 1 THEN McuRow(0, H, h, j \div 2)
     ELSE Rst((j \div 2 - 1) % RST_CYCLE)]

=============================================================================
