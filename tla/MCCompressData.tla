--------------------------- MODULE MCCompressData ---------------------------
(* Images of one to five block rows, full and partial at the bottom, with  *)
(* one or two block rows per iMCU row, interleaved or not, with and without *)
(* context rows and restart markers (more than RST_CYCLE of them in one).  *)
EXTENDS CompressData

Img(h, f, cols, inter, ctx, interval) ==
  [height |-> h, v |-> f, columns |-> cols, interleaved |-> inter,
   context |-> ctx, interval |-> interval]

MCImages ==
  {Img(h, f, 2, inter, ctx, 3) :
     h \in {1, 3, 4, 5, 8, 9}, f \in {1, 2}, inter \in BOOLEAN, ctx \in BOOLEAN}
    \cup {Img(h, 3, 1, TRUE, ctx, 1) : h \in {7, 12, 13}, ctx \in BOOLEAN}
    \cup {Img(19, 1, 1, TRUE, FALSE, 1), Img(5, 1, 2, FALSE, FALSE, 0)}
=============================================================================
