--------------------------- MODULE AbstractArray ---------------------------
(***************************************************************************)
(* What a virtual array promises its clients (the comment "About virtual   *)
(* array management" in jmemmgr.c): an array of rows that is defined from  *)
(* the top down by writing accesses, whose rows keep what was written to   *)
(* them, and of which one strip at a time is accessible.                   *)
(***************************************************************************)
EXTENDS Integers

CONSTANTS Kinds,            \* [rows, pre_zero, maxaccess, ...]
          Values            \* what clients write

ZERO == 0
JUNK == -1                  \* in a row that was made accessible but not zeroed
UNDEF == -2                 \* in a row that was never made accessible

VARIABLES kind,
          rows,             \* the contents
          defined,          \* rows 0 .. defined - 1 have been written to
          strip,            \* the last access: start, end, writable
          seen              \* what the client finds there

absVars == <<kind, rows, defined, strip, seen>>

NoStrip == [start |-> 0, end |-> 0, writable |-> FALSE]

Init ==
  /\ kind \in Kinds
  /\ rows = [r \in 0..(kind.rows - 1) |-> UNDEF]
  /\ defined = 0
  /\ strip = NoStrip /\ seen = <<>>

Fresh == IF kind.pre_zero THEN ZERO ELSE JUNK

\* What a client sees of row r: a reader may look ahead only if the array is
\* zeroed.
Visible(r) == IF r < defined' THEN rows'[r] ELSE ZERO

Legal(start, end, writable) ==
  /\ end <= kind.rows /\ end - start <= kind.maxaccess
  /\ IF writable THEN start <= defined ELSE kind.pre_zero \/ end <= defined

Access(start, end, writable) ==
  /\ Legal(start, end, writable)
  /\ defined' = IF writable /\ end > defined THEN end ELSE defined
  /\ \E fresh \in [defined..(defined' - 1) -> IF kind.pre_zero THEN {ZERO} ELSE Values \cup {ZERO, JUNK}] :
       rows' = [r \in DOMAIN rows |-> IF r \in DOMAIN fresh THEN fresh[r] ELSE rows[r]]
  /\ strip' = [start |-> start, end |-> end, writable |-> writable]
  /\ seen' = [r \in start..(end - 1) |-> Visible(r)]
  /\ UNCHANGED kind

\* The client fills a row of a strip it asked for to write.
Write(r, value) ==
  /\ strip.writable /\ r \in strip.start..(strip.end - 1)
  /\ rows' = [rows EXCEPT ![r] = value]
  /\ seen' = [seen EXCEPT ![r] = value]
  /\ UNCHANGED <<kind, defined, strip>>

Next ==
  \/ \E start, end \in 0..kind.rows, writable \in BOOLEAN :
       start < end /\ Access(start, end, writable)
  \/ \E r \in 0..(kind.rows - 1), value \in Values : Write(r, value)

Spec == Init /\ [][Next]_absVars

=============================================================================
