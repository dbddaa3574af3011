-------------------------- MODULE MCCompressMaster --------------------------
(***************************************************************************)
(* Scan scripts for CompressMaster: one scan, two scans that share their   *)
(* tables but not their restart interval, and a progressive script with a  *)
(* DC refinement scan in the middle.                                       *)
(***************************************************************************)
EXTENDS CompressMaster

S(huffman, dc_refine, interval) ==
  [huffman |-> huffman, dc_refine |-> dc_refine, interval |-> interval]

One == <<S({"dc", "ac"}, FALSE, 0)>>
Two == <<S({"dc", "ac"}, FALSE, 2), S({"dc", "ac"}, FALSE, 1)>>
Progressive == <<S({"dc"}, FALSE, 1), S({}, TRUE, 1), S({"ac"}, FALSE, 0)>>
Arithmetic == <<S({}, FALSE, 0), S({}, TRUE, 1)>>

P(scans, progressive, optimize, raw, arith) ==
  [scans |-> scans, progressive |-> progressive, optimize |-> optimize,
   raw |-> raw, arith |-> arith]

MCParams ==
  {P(One, FALSE, FALSE, FALSE, FALSE), P(One, FALSE, TRUE, TRUE, FALSE),
   P(Two, FALSE, FALSE, FALSE, FALSE), P(Two, FALSE, TRUE, FALSE, FALSE),
   P(Progressive, TRUE, FALSE, FALSE, FALSE), P(Arithmetic, TRUE, TRUE, FALSE, TRUE)}
=============================================================================
