-------------------------- MODULE MCAdaptiveEncode --------------------------
(* Every input format and pixel layout the loaders accept, for images of   *)
(* one to three rows.                                                      *)
EXTENDS AdaptiveEncode

MCFiles ==
  {[format |-> f, layout |-> l, precision |-> p, height |-> h] :
     f \in {"jpeg", "bmp", "png", "pnm", "other"}, l \in {"gray", "color"},
     p \in {8}, h \in {1, 3}}
    \cup {[format |-> "jpeg", layout |-> "color", precision |-> 12, height |-> 2],
          [format |-> "bmp", layout |-> "color_alpha", precision |-> 8, height |-> 2],
          [format |-> "bmp", layout |-> "palette_color", precision |-> 8, height |-> 1],
          [format |-> "png", layout |-> "palette_color", precision |-> 8, height |-> 1]}

MCForced == {-1, 0, 1, 3}
=============================================================================
