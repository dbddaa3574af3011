--------------------------- MODULE MCSpliceBytes ---------------------------
(* One to three strips of one or two MCU rows.  The data bytes are those   *)
(* that could be taken for the second byte of a marker.                    *)
EXTENDS SpliceBytes

Units == {<<EOI>>, <<RST0>>, Stuffed}
MCRows == {<<a>> : a \in Units} \cup {<<a, b>> : a \in Units, b \in Units}

Whole(strips, height) == [strips |-> strips, height |-> height, cut |-> 0]

\* A strip cut at every place.
CutStrip == << <<Stuffed, <<RST0>>>>, <<<<RST0>>, <<EOI>>>> >>

MCInputs ==
  {Whole(<< <<a, b>>, <<c>> >>, 3) : a \in MCRows, b \in {<<<<7>>>>}, c \in MCRows}
    \cup {Whole(<< <<a, b>> >>, 300) : a \in MCRows, b \in MCRows}
    \cup {Whole(<< <<a>>, <<b>>, <<c>> >>, 3) :
            a \in {<<Stuffed>>}, b \in MCRows, c \in {<<<<EOI>>>>}}
    \cup {Whole(<< [k \in 1..10 |-> <<<<7>>>>], <<<<<<7>>>>>> >>, 11)}
    \cup {[strips |-> <<>>, height |-> 1, cut |-> 0]}
    \cup {[strips |-> << <<<<<<7>>>>>>, CutStrip >>, height |-> 3, cut |-> c] :
            c \in 0..Len(StripJpeg(CutStrip))}
=============================================================================
