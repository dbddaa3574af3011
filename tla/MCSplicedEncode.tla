-------------------------- MODULE MCSplicedEncode --------------------------
(* Images from empty to ten MCU rows, with and without a partial last row, *)
(* for up to four threads: more threads than rows, rows that do not divide *)
(* evenly, arguments below one, and restart numbers that wrap past RST7.   *)
EXTENDS SplicedEncode

Arg(h, v, t) == [height |-> h, v |-> v, threads |-> t]

MCCalls ==
  {Arg(h, 1, t) : h \in 0..8, t \in 0..3}
    \cup {Arg(7, 1, 4), Arg(9, 2, 2), Arg(9, 2, 3), Arg(5, 0, 2)}
    \cup {Arg(19, 1, 2), Arg(19, 1, 3)}
=============================================================================
