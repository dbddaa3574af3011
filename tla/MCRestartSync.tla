--------------------------- MODULE MCRestartSync ---------------------------
(* Scans of eleven segments, so that the marker numbers wrap around, with  *)
(* one MCU per segment, and of eight with two; every single fault at every *)
(* position, up to two segments lost, and truncation everywhere.           *)
EXTENDS RestartSync

MCScans ==
  {[segments |-> 11, interval |-> 1, last |-> l] : l \in {M_EOI, M_SOS}}
    \cup {[segments |-> 8, interval |-> 2, last |-> M_SOS]}

Fault(kind, at, count, token) ==
  [kind |-> kind, at |-> at, count |-> count, token |-> token]

NoToken == Data(GARBAGE)

\* TEM is below SOF0; DHT and SOI are valid and no restart markers.
Codes == {1, 196, 216} \cup (M_RST0..M_RST7)

MCFaults ==
  [s \in MCScans |->
    LET t == ScanTokens(s)
        n == Len(t)
        ends == {i \in 1..n : t[i].kind = "marker"}
    IN  {Fault("none", 1, 0, NoToken)}
        \cup {Fault(k, i, 1, NoToken) : k \in {"lose", "repeat", "truncate"}, i \in 1..n}
        \cup {Fault("lose", i, m * (s.interval + 1), NoToken) :
                m \in 1..2, i \in {j \in ends : j + 2 * (s.interval + 1) <= n}}
        \cup {Fault("replace", i, 1, Marker(c)) : i \in 1..n, c \in Codes}
        \cup {Fault("replace", i, 1, NoToken) : i \in 1..n}
        \cup {Fault("insert", i, 1, Marker(c)) : i \in 1..n, c \in Codes}]
=============================================================================
