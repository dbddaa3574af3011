--------------------------- MODULE MCVirtualArray ---------------------------
(* Arrays of four rows with windows of two, three (in chunks that do not    *)
(* divide it) and four rows, strips of one or two rows, zeroed beforehand   *)
(* or not.                                                                  *)
EXTENDS VirtualArray

MCKinds ==
  [rows : {4}, mem : {2}, chunk : {1}, maxaccess : {2}, pre_zero : BOOLEAN]
    \cup [rows : {4}, mem : {3, 4}, chunk : {2}, maxaccess : {2}, pre_zero : BOOLEAN]
=============================================================================
