------------------------- MODULE RestartSyncProofs -------------------------
(***************************************************************************)
(* The decoder among restart markers, for every scan, every fault and      *)
(* every interleaving of suspensions and read-ahead: it counts its         *)
(* segments modulo 8 whatever the stream says and never passes the end of  *)
(* a scan; an intact scan is decoded as it was coded; the loss of one or   *)
(* two whole segments costs those segments only; and one recoverable fault *)
(* costs at most the segment it is in and the three after it.              *)
(***************************************************************************)
EXTENDS RestartSync, ArithmeticProofs, TLAPS

-----------------------------------------------------------------------------
(* Types.                                                                  *)

\* An MCU of any number, or a marker by its code byte.
Tokens == [kind : {"data"}, mcu : Int] \cup [kind : {"marker"}, code : 1..254]

\* What no step changes.
StreamInv ==
  /\ scan \in Scans /\ fault \in Faults[scan]
  /\ stream = Damaged(scan, fault) /\ stream \in Seq(Tokens)

\* The values of every variable, those of the queue of MCUs included.
TypeInv ==
  /\ StreamInv
  /\ pos \in Nat \ {0}
  /\ pc \in {"decode_mcu", "next_marker", "read_restart_marker", "resync",
             "scan_forward", "done"}
  /\ unread_marker \in 0..254 /\ next_restart_num \in 0..7
  /\ restarts_to_go \in 0..scan.interval
  /\ insufficient_data \in BOOLEAN
  /\ out \in Seq(Int)

\* Every token a source delivers is an MCU or a marker of two bytes.
LEMMA ScanTokensType ==
  ASSUME NEW s \in Scans
  PROVE  ScanTokens(s) \in Seq(Tokens)
<1>1. s.segments \in Nat \ {0} /\ s.interval \in Nat \ {0}
  BY ScanAssumption
<1> DEFINE period == s.interval + 1
           n == s.segments * period - 1
<1>2. period \in Nat \ {0} /\ n \in Nat
  BY <1>1, MulPositive
<1>3. ASSUME NEW i \in 1..n
      PROVE  (IF i % period = 0 THEN Rst(i \div period - 1)
              ELSE Data(i - 1 - i \div period)) \in Tokens
  <2>1. i \div period \in Int
    BY <1>2
  <2>2. Data(i - 1 - i \div period) \in Tokens
    BY <2>1 DEF Data, Tokens
  <2>3. Rst(i \div period - 1) \in Tokens
    <3> DEFINE num == i \div period - 1
    <3>1. num % 8 \in 0..7 /\ Rst(num) = Marker(M_RST0 + (num % 8))
      BY <2>1 DEF Rst
    <3>2. M_RST0 + (num % 8) \in 1..254
      BY <3>1 DEF M_RST0
    <3> HIDE DEF num
    <3>3. Rst(num) \in Tokens
      BY <3>1, <3>2 DEF Marker, Tokens
    <3> QED
      BY <3>3 DEF num
  <2> QED
    BY <2>2, <2>3
<1> HIDE DEF period, n
<1>4. [i \in 1..n |-> IF i % period = 0 THEN Rst(i \div period - 1)
                      ELSE Data(i - 1 - i \div period)] \in Seq(Tokens)
  BY <1>2, <1>3
<1> QED
  BY <1>4 DEF ScanTokens, period, n

\* So is what follows the scan.
LEMMA RestType ==
  ASSUME NEW s \in Scans
  PROVE  Rest(s) \in Seq(Tokens)
<1>1. s.last \in {M_EOI, M_SOS}
  BY ScanAssumption
<1>2. Marker(s.last) \in Tokens /\ Marker(M_EOI) \in Tokens /\ Data(GARBAGE) \in Tokens
  BY <1>1 DEF Marker, Data, Tokens, M_EOI, M_SOS, GARBAGE
<1> QED
  BY <1>2 DEF Rest

\* A fault rearranges tokens and adds none that is of another type.
LEMMA StreamType ==
  ASSUME NEW s \in Scans, NEW f \in Faults[s]
  PROVE  Damaged(s, f) \in Seq(Tokens)
<1> DEFINE t == ScanTokens(s)
<1>1. t \in Seq(Tokens)
  BY ScanTokensType
<1>2. /\ f.kind \in {"none", "lose", "repeat", "replace", "insert", "truncate"}
      /\ f.at \in 1..Len(t) /\ f.count \in Nat /\ f.token \in FaultTokens
  BY FaultAssumption
<1>3. f.token \in Tokens
  <2>1. Data(GARBAGE) \in Tokens
    BY DEF Data, Tokens, GARBAGE
  <2>2. ASSUME NEW code \in 1..254
        PROVE  Marker(code) \in Tokens
    BY DEF Marker, Tokens
  <2> QED
    BY <1>2, <2>1, <2>2 DEF FaultTokens
<1>4. Rest(s) \in Seq(Tokens)
  BY RestType
<1>5. ASSUME NEW k \in 0..Len(t)
      PROVE  SubSeq(t, 1, k) \in Seq(Tokens)
  BY <1>1
<1>6. ASSUME NEW k \in Nat \ {0}
      PROVE  SubSeq(t, k, Len(t)) \in Seq(Tokens)
  BY <1>1
<1>7. <<f.token>> \in Seq(Tokens)
  BY <1>3
<1>8. /\ f.at - 1 \in 0..Len(t) /\ f.at \in 0..Len(t)
      /\ f.at \in Nat \ {0} /\ f.at + f.count \in Nat \ {0} /\ f.at + 1 \in Nat \ {0}
  BY <1>1, <1>2
<1>9. /\ SubSeq(t, 1, f.at - 1) \in Seq(Tokens) /\ SubSeq(t, 1, f.at) \in Seq(Tokens)
      /\ SubSeq(t, f.at, Len(t)) \in Seq(Tokens)
      /\ SubSeq(t, f.at + f.count, Len(t)) \in Seq(Tokens)
      /\ SubSeq(t, f.at + 1, Len(t)) \in Seq(Tokens)
  BY <1>5, <1>6, <1>8
<1>10. ASSUME NEW a \in Seq(Tokens), NEW b \in Seq(Tokens)
       PROVE  a \o b \in Seq(Tokens)
  OBVIOUS
<1> HIDE DEF t
<1> QED
  BY <1>1, <1>2, <1>4, <1>7, <1>9, <1>10 DEF Damaged, t

\* The token at the place of the source, or data of no meaning behind the end.
LEMMA TokenType ==
  ASSUME TypeInv, NEW k \in Nat \ {0}
  PROVE  Token(k) \in Tokens
<1>1. Marker(M_EOI) \in Tokens
  BY DEF Marker, Tokens, M_EOI
<1>2. stream \in Seq(Tokens)
  BY DEF TypeInv, StreamInv
<1> QED
  BY <1>1, <1>2 DEF Token

\* Every scan starts with its variables in their ranges.
LEMMA TypeInit == Init => TypeInv
<1> SUFFICES ASSUME Init PROVE TypeInv
  OBVIOUS
<1>1. scan.interval \in Nat
  BY ScanAssumption DEF Init
<1>2. StreamInv
  BY StreamType DEF Init, StreamInv
<1>3. out \in Seq(Int)
  BY DEF Init
<1>4. insufficient_data \in BOOLEAN
  BY DEF Init
<1> QED
  BY <1>1, <1>2, <1>3, <1>4 DEF Init, TypeInv

\* Every step of the decoder, the resync routine and the source keeps them there.
LEMMA TypeStep == TypeInv /\ [Next]_vars => TypeInv'
<1> SUFFICES ASSUME TypeInv, [Next]_vars PROVE TypeInv'
  OBVIOUS
<1>1. /\ scan.interval \in Nat \ {0} /\ scan.segments \in Nat \ {0}
      /\ Token(pos) \in Tokens /\ Token(pos + 1) \in Tokens
  BY ScanAssumption, TokenType DEF TypeInv, StreamInv
<1>0. /\ pos \in Nat \ {0} /\ pos + 1 \in Nat \ {0} /\ pos + 2 \in Nat \ {0}
      /\ unread_marker \in 0..254 /\ next_restart_num \in 0..7
      /\ restarts_to_go \in 0..scan.interval
      /\ out \in Seq(Int) /\ 0 \in 0..254
  BY DEF TypeInv
<1>2. /\ Token(pos).kind = "marker" => \E c \in 0..254 : Token(pos).code = c
      /\ Token(pos).kind = "data" => Token(pos).mcu \in Int
      /\ Token(pos + 1).kind = "marker" => \E c \in 0..254 : Token(pos + 1).code = c
  <2>1. 1..254 \subseteq 0..254
    OBVIOUS
  <2> QED
    BY <1>1, <2>1 DEF Tokens
<1>3. UNCHANGED <<scan, fault, stream>>
  BY DEF Next, Decode, Restart, Done, DecodeMcu, HitMarker, LeaveGray, ProcessRestart,
         SwallowRestart, CallResync, Resync, Resume, FindRestart, ScanForward,
         NextMarker, Suspend, vars, input
<1>4. StreamInv'
  BY <1>3 DEF TypeInv, StreamInv
<1>14. insufficient_data' \in BOOLEAN
  <2>1. insufficient_data \in BOOLEAN
    BY DEF TypeInv
  <2> QED
    BY <2>1, Zenon
       DEF Next, Decode, Restart, Done, DecodeMcu, HitMarker, LeaveGray, ProcessRestart,
           SwallowRestart, CallResync, Resync, Resume, FindRestart, ScanForward,
           NextMarker, Suspend, vars, input
<1> SUFFICES /\ pos' \in Nat \ {0}
             /\ pc' \in {"decode_mcu", "next_marker", "read_restart_marker", "resync",
                         "scan_forward", "done"}
             /\ unread_marker' \in 0..254 /\ next_restart_num' \in 0..7
             /\ restarts_to_go' \in 0..scan.interval
             /\ out' \in Seq(Int)
  BY <1>3, <1>4, <1>14 DEF TypeInv
<1>5. ASSUME NEW x \in Int, Deliver(x), Decoding
      PROVE  /\ out' \in Seq(Int) /\ restarts_to_go' \in 0..scan.interval
             /\ pc' \in {"done", "decode_mcu"}
  BY <1>1, <1>5 DEF Deliver, Decoding, TypeInv
<1>6. CASE DecodeMcu
  <2>1. Decoding /\ Deliver(Token(pos).mcu) /\ Token(pos).mcu \in Int
    BY <1>2, <1>6 DEF DecodeMcu
  <2>2. /\ pos' \in Nat \ {0} /\ unread_marker' \in 0..254
        /\ UNCHANGED next_restart_num
    BY ZenonT(30), <1>0, <1>2, <1>6 DEF DecodeMcu
  <2> QED
    BY <1>5, <2>1, <2>2 DEF TypeInv
<1>7. CASE HitMarker \/ LeaveGray
  <2>1. /\ Deliver(STUFFED) \/ Deliver(GRAY)
        /\ Decoding /\ STUFFED \in Int /\ GRAY \in Int
    BY <1>7 DEF HitMarker, LeaveGray, STUFFED, GRAY
  <2>2. /\ pos' \in Nat \ {0} /\ unread_marker' \in 0..254
        /\ UNCHANGED next_restart_num
    BY ZenonT(30), <1>0, <1>2, <1>7 DEF HitMarker, LeaveGray, input
  <2> QED
    BY <1>5, <2>1, <2>2 DEF TypeInv
<1>8. CASE ProcessRestart \/ CallResync
  BY ZenonT(30), <1>8 DEF ProcessRestart, CallResync, TypeInv, input
<1>9. CASE FindRestart \/ ScanForward
  <2>1. /\ pos' = pos + 1 /\ unread_marker' \in 0..254
        /\ pc' \in {pc, "read_restart_marker", "resync"}
    BY ZenonT(30), <1>0, <1>2, <1>9 DEF FindRestart, ScanForward, NextMarker
  <2>2. UNCHANGED <<next_restart_num, restarts_to_go, out>>
    BY <1>9 DEF FindRestart, ScanForward, NextMarker
  <2> QED
    BY <2>1, <2>2 DEF TypeInv
<1>10. ASSUME NEW marker \in 0..254, Resume(marker)
       PROVE  /\ pos' \in Nat \ {0} /\ pc' = "decode_mcu"
              /\ unread_marker' \in 0..254 /\ next_restart_num' \in 0..7
              /\ restarts_to_go' \in 0..scan.interval /\ out' \in Seq(Int)
  <2>1. (next_restart_num + 1) % 8 \in 0..7
    BY <1>0
  <2> QED
    BY <1>0, <1>1, <1>10, <2>1 DEF Resume, input
<1>11. CASE SwallowRestart
  BY <1>0, <1>10, <1>11 DEF SwallowRestart
<1>12. CASE Resync
  <2>1. CASE Resume(0) \/ Resume(unread_marker)
    BY <1>0, <1>10, <2>1
  <2>2. CASE pc' = "scan_forward" /\ UNCHANGED <<input, unread_marker, next_restart_num,
                                                 restarts_to_go, out>>
    BY <1>0, <2>2 DEF input
  <2> QED
    BY <1>12, <2>1, <2>2 DEF Resync
<1>13. CASE Suspend \/ UNCHANGED vars
  BY ZenonT(30), <1>13 DEF Suspend, vars, TypeInv, input
<1> QED
  BY <1>6, <1>7, <1>8, <1>9, <1>11, <1>12, <1>13 DEF Next, Decode, Restart, Done

-----------------------------------------------------------------------------
(* The end of the scan is never passed.                                    *)

\* A marker that is valid and no restart marker.
Stops(marker) == marker >= M_SOF0 /\ marker \notin M_RST0..M_RST7

\* next_marker is only called for a marker when none is held, and scanning
\* forward only over a marker that does not end the scan.
OverrunInv ==
  /\ NeverOverrun
  /\ pc = "next_marker" => unread_marker = 0
  /\ pc = "scan_forward" => ~Stops(unread_marker)

\* At the start nothing has been passed.
LEMMA OverrunInit == Init => OverrunInv
  BY DEF Init, OverrunInv, NeverOverrun

\* Only the marker reader and the scan forward move over a marker; neither does
\* over one that ends the scan.
LEMMA OverrunStep == TypeInv /\ OverrunInv /\ [Next]_vars => OverrunInv'
<1> SUFFICES ASSUME TypeInv, OverrunInv, [Next]_vars PROVE OverrunInv'
  OBVIOUS
<1>1. pos \in Nat \ {0} /\ unread_marker \in 0..254 /\ next_restart_num \in 0..7
  BY DEF TypeInv
<1>2. UNCHANGED stream /\ \A i : Token(i)' = Token(i)
  BY DEF Token, Next, Decode, Restart, Done, DecodeMcu, HitMarker, LeaveGray,
         ProcessRestart, SwallowRestart, CallResync, Resync, Resume, FindRestart,
         ScanForward, NextMarker, Suspend, vars, input
\* A step that reads nothing may give up a marker that does not end the scan.
<1>3. ASSUME UNCHANGED pos, unread_marker' = unread_marker \/ ~Stops(unread_marker)
      PROVE  NeverOverrun'
  BY <1>1, <1>2, <1>3 DEF OverrunInv, NeverOverrun, Stops
\* A step that reads the next token with no such marker held keeps that token.
<1>4. ASSUME ~Stops(unread_marker), pos' = pos + 1,
             Token(pos).kind = "marker" => unread_marker' = Token(pos).code
      PROVE  NeverOverrun'
  BY <1>1, <1>2, <1>4 DEF OverrunInv, NeverOverrun, Stops
<1>5. ~Stops(0)
  BY DEF Stops, M_SOF0
<1>6. CASE DecodeMcu
  <2>1. /\ unread_marker = 0 /\ Token(pos).kind = "data"
        /\ pc' \in {"done", "decode_mcu"}
    BY <1>6 DEF DecodeMcu, Deliver
  <2>2. CASE pos' = pos + 1
    BY <1>4, <1>5, <2>1, <2>2 DEF OverrunInv
  <2>3. CASE pos' = pos + 2 /\ unread_marker' = Token(pos + 1).code
    BY <1>1, <1>2, <1>5, <2>1, <2>3 DEF OverrunInv, NeverOverrun, Stops
  <2> QED
    BY <1>6, <2>2, <2>3 DEF DecodeMcu
<1>7. CASE HitMarker
  <2>1. pc' \in {"done", "decode_mcu"}
    BY <1>7 DEF HitMarker, Deliver
  <2>2. CASE UNCHANGED <<pos, unread_marker>>
    BY <1>3, <2>1, <2>2 DEF OverrunInv
  <2>3. CASE unread_marker = 0 /\ pos' = pos + 1 /\ unread_marker' = Token(pos).code
    BY <1>4, <1>5, <2>1, <2>3 DEF OverrunInv
  <2> QED
    BY <1>7, <2>2, <2>3 DEF HitMarker
<1>8. CASE LeaveGray \/ ProcessRestart \/ CallResync \/ Suspend \/ UNCHANGED vars
  <2>1. /\ UNCHANGED <<pos, unread_marker>>
        /\ pc' = "next_marker" => pc = "next_marker" \/ unread_marker = 0
        /\ pc' = "scan_forward" => pc = "scan_forward"
    BY <1>8 DEF LeaveGray, Deliver, ProcessRestart, CallResync, Suspend, vars, input
  <2> QED
    BY <1>3, <2>1 DEF OverrunInv
<1>9. CASE FindRestart \/ ScanForward
  <2>1. /\ ~Stops(unread_marker) /\ pos' = pos + 1
        /\ Token(pos).kind = "marker" =>
             unread_marker' = Token(pos).code /\ pc' \notin {"next_marker", "scan_forward"}
        /\ Token(pos).kind # "marker" => UNCHANGED <<unread_marker, pc>>
    BY <1>5, <1>9 DEF FindRestart, ScanForward, NextMarker, OverrunInv
  <2> QED
    BY <1>4, <2>1 DEF OverrunInv
<1>10. CASE SwallowRestart
  <2>1. unread_marker \in M_RST0..M_RST7
    BY <1>1, <1>10 DEF SwallowRestart, M_RST0, M_RST7
  <2> QED
    BY <1>3, <1>10, <2>1 DEF SwallowRestart, Resume, Stops, OverrunInv, input
<1>11. CASE Resync
  <2>1. Action(unread_marker) # 3 => ~Stops(unread_marker)
    BY <1>1 DEF Action, Stops, M_SOF0, M_RST0, M_RST7
  <2>2. CASE Action(unread_marker) = 1 /\ Resume(0)
    BY <1>3, <2>1, <2>2 DEF Resume, OverrunInv, input
  <2>3. CASE Action(unread_marker) = 2 /\ pc' = "scan_forward" /\ UNCHANGED <<input, unread_marker>>
    BY <1>3, <2>1, <2>3 DEF OverrunInv, input
  <2>4. CASE Resume(unread_marker)
    BY <1>3, <2>4 DEF Resume, OverrunInv, input
  <2> QED
    BY <1>11, <2>2, <2>3, <2>4 DEF Resync
<1> QED
  BY <1>6, <1>7, <1>8, <1>9, <1>10, <1>11 DEF Next, Decode, Restart, Done

\* Whatever the damage and however the calls are interrupted, the decoder takes
\* no byte from behind the first marker that ends the scan, and keeps that one.
THEOREM EndIsKept == Spec => []NeverOverrun
<1>1. TypeInv /\ OverrunInv /\ [Next]_vars => (TypeInv /\ OverrunInv)'
  BY TypeStep, OverrunStep
<1>2. OverrunInv => NeverOverrun
  BY DEF OverrunInv
<1> QED
  BY <1>1, <1>2, TypeInit, OverrunInit, PTL DEF Spec

-----------------------------------------------------------------------------
(* Counting segments.                                                      *)

\* g restarts have been processed; the count says which segment is decoded.
AtSegment(g) ==
  /\ g \in 0..(scan.segments - 1)
  /\ Len(out) + restarts_to_go = (g + 1) * scan.interval
  /\ next_restart_num = g % 8

\* The counters agree, whatever the stream says.
CountInv ==
  /\ \E g \in Nat : AtSegment(g)
  /\ pc = "done" <=> Len(out) = McuCount(scan)
  /\ pc \notin {"decode_mcu", "done"} => restarts_to_go = 0

\* One more MCU of segment g.
LEMMA DeliverCounts ==
  ASSUME TypeInv, CountInv, Decoding, NEW x \in Int, Deliver(x),
         UNCHANGED <<scan, next_restart_num>>, NEW g \in Nat, AtSegment(g)
  PROVE  /\ AtSegment(g)' /\ CountInv'
         /\ pc' \in {"done", "decode_mcu"}
         /\ out' = Append(out, x) /\ Len(out') = Len(out) + 1
         /\ restarts_to_go' = restarts_to_go - 1
<1>1. /\ pc = "decode_mcu" /\ restarts_to_go \in Nat \ {0} /\ out \in Seq(Int)
      /\ scan.interval \in Nat \ {0} /\ scan.segments \in Nat \ {0}
  BY ScanAssumption DEF Decoding, TypeInv, StreamInv
<1>2. /\ out' = Append(out, x) /\ restarts_to_go' = restarts_to_go - 1
      /\ pc' = IF Len(out') = McuCount(scan) THEN "done" ELSE "decode_mcu"
  BY DEF Deliver
<1>3. Len(out') = Len(out) + 1 /\ Len(out) \in Nat
  BY <1>1, <1>2
<1>4. AtSegment(g)'
  BY <1>1, <1>2, <1>3 DEF AtSegment
<1>5. McuCount(scan)' = McuCount(scan)
  BY DEF McuCount
<1>6. CountInv'
  BY <1>2, <1>4, <1>5 DEF CountInv
<1> QED
  BY <1>2, <1>3, <1>4, <1>6

\* A restart: the next segment is one the scan has.
LEMMA ResumeCounts ==
  ASSUME TypeInv, CountInv, pc \notin {"decode_mcu", "done"}, NEW marker, Resume(marker),
         NEW g \in Nat, AtSegment(g)
  PROVE  /\ g < scan.segments - 1 /\ restarts_to_go = 0
         /\ AtSegment(g + 1)' /\ CountInv'
<1>1. /\ restarts_to_go = 0 /\ Len(out) # McuCount(scan) /\ Len(out) \in Nat
      /\ scan.interval \in Nat \ {0} /\ scan.segments \in Nat \ {0}
  BY ScanAssumption DEF CountInv, TypeInv, StreamInv
<1>2. Len(out) = (g + 1) * scan.interval /\ g \in 0..(scan.segments - 1)
  BY <1>1 DEF AtSegment
<1>3. g # scan.segments - 1
  BY <1>1, <1>2 DEF McuCount
<1>4. /\ next_restart_num' = (next_restart_num + 1) % 8
      /\ restarts_to_go' = scan.interval /\ pc' = "decode_mcu"
      /\ UNCHANGED <<scan, out>>
  BY DEF Resume
<1>5. next_restart_num' = (g + 1) % 8
  BY <1>4 DEF AtSegment
<1>6. ((g + 1) + 1) * scan.interval = (g + 1) * scan.interval + scan.interval
  BY SMTT(30), <1>1
<1>7. AtSegment(g + 1)'
  BY SMTT(30), <1>1, <1>2, <1>3, <1>4, <1>5, <1>6 DEF AtSegment
<1>8. CountInv'
  <2>1. McuCount(scan)' = McuCount(scan)
    BY <1>4 DEF McuCount
  <2>2. g + 1 \in Nat
    OBVIOUS
  <2> QED
    BY <1>1, <1>4, <1>7, <2>1, <2>2 DEF CountInv
<1> QED
  BY <1>1, <1>2, <1>3, <1>7, <1>8

\* No restart yet, and the whole of the first segment to go.
LEMMA CountInit == Init => CountInv
<1> SUFFICES ASSUME Init PROVE CountInv
  OBVIOUS
<1>1. scan.interval \in Nat \ {0} /\ scan.segments \in Nat \ {0}
  BY ScanAssumption DEF Init
<1>2. AtSegment(0)
  BY <1>1 DEF Init, AtSegment
<1>3. McuCount(scan) # 0
  BY <1>1, MulPositive DEF McuCount
<1> QED
  BY <1>2, <1>3 DEF Init, CountInv

\* Each MCU and each restart keeps the counters in agreement.
LEMMA CountStep == TypeInv /\ CountInv /\ [Next]_vars => CountInv'
<1> SUFFICES ASSUME TypeInv, CountInv, [Next]_vars PROVE CountInv'
  OBVIOUS
<1>1. PICK g \in Nat : AtSegment(g)
  BY DEF CountInv
<1>2. CASE DecodeMcu
  <2>1. Token(pos).mcu \in Int
    BY <1>2, TokenType DEF DecodeMcu, TypeInv, Tokens
  <2> QED
    BY <1>1, <1>2, <2>1, DeliverCounts DEF DecodeMcu
<1>3. CASE HitMarker \/ LeaveGray
  <2>1. STUFFED \in Int /\ GRAY \in Int
    BY DEF STUFFED, GRAY
  <2> QED
    BY <1>1, <1>3, <2>1, DeliverCounts DEF HitMarker, LeaveGray
<1>4. CASE /\ UNCHANGED <<scan, out, restarts_to_go, next_restart_num>>
           /\ pc = "done" <=> pc' = "done"
           /\ restarts_to_go = 0 \/ pc' \in {"decode_mcu", "done"}
  <2>1. AtSegment(g)' /\ McuCount(scan)' = McuCount(scan)
    BY <1>1, <1>4 DEF AtSegment, McuCount
  <2> QED
    BY <1>4, <2>1 DEF CountInv
<1>5. CASE ProcessRestart \/ CallResync \/ FindRestart \/ ScanForward \/ Suspend
  BY <1>4, <1>5 DEF ProcessRestart, CallResync, FindRestart, ScanForward, NextMarker,
                    Suspend, CountInv
<1>6. CASE SwallowRestart
  BY <1>1, <1>6, ResumeCounts DEF SwallowRestart
<1>7. CASE Resync
  BY <1>1, <1>4, <1>7, ResumeCounts DEF Resync, CountInv
<1>8. CASE UNCHANGED vars
  BY <1>4, <1>8 DEF vars, CountInv
<1> QED
  BY <1>2, <1>3, <1>5, <1>6, <1>7, <1>8 DEF Next, Decode, Restart, Done

\* The decoder never delivers more MCUs than the scan has, and its counters
\* keep their range, whatever the stream says.
THEOREM TypeCorrect == Spec => []TypeOK
<1>1. TypeInv /\ CountInv /\ [Next]_vars => (TypeInv /\ CountInv)'
  BY TypeStep, CountStep
<1>2. TypeInv /\ CountInv => TypeOK
  <2> SUFFICES ASSUME TypeInv, CountInv PROVE TypeOK
    OBVIOUS
  <2>1. scan.interval \in Nat \ {0} /\ scan.segments \in Nat \ {0} /\ Len(out) \in Nat
        /\ restarts_to_go \in Nat
    BY ScanAssumption DEF TypeInv, StreamInv
  <2>2. PICK g \in Nat : AtSegment(g)
    BY DEF CountInv
  <2>3. (g + 1) * scan.interval <= scan.segments * scan.interval
    BY <2>1, <2>2, MulMonotone DEF AtSegment
  <2>4. Len(out) <= McuCount(scan)
    BY <2>1, <2>2, <2>3 DEF AtSegment, McuCount
  <2>5. unread_marker \in 0..255
    BY DEF TypeInv
  <2> QED
    BY <2>4, <2>5 DEF TypeInv, StreamInv, TypeOK
<1> QED
  BY <1>1, <1>2, TypeInit, CountInit, PTL DEF Spec

-----------------------------------------------------------------------------
(* Intact scans and lost segments.                                         *)

\* A segment and the marker behind it.
Period == scan.interval + 1

\* m segments are gone, first among them; m = 0 in an intact scan.
Gone(g, first, m) == first <= g /\ g < first + m

\* The number of periods in the stream before segment g.
Base(g, first, m) == IF g < first THEN g ELSE g - m

\* The number of the restart marker behind segment g.
MarkBehind(g, first, m) == IF g = first - 1 THEN g + m ELSE g

\* What is left of the segments and markers of the scan.
Shape(first, m) ==
  /\ first \in Nat /\ m \in 0..2
  /\ m > 0 => first > 0 /\ first + m <= scan.segments - 1
  /\ \A g \in 0..(scan.segments - 1) : ~Gone(g, first, m) =>
       /\ \A j \in 0..(scan.interval - 1) :
            Token(Base(g, first, m) * Period + j + 1) = Data(g * scan.interval + j)
       /\ g < scan.segments - 1 =>
            Token((Base(g, first, m) + 1) * Period) = Rst(MarkBehind(g, first, m))

\* In a segment that is there the decoder reads its MCUs, or holds the marker
\* behind it; in one that is gone it holds the marker that comes next, and the
\* out-of-data flag is set as soon as one MCU has been made up.
PlaceInv(g, first, m) ==
  /\ Gone(g, first, m) =>
       /\ insufficient_data = (Len(out) # first * scan.interval)
       /\ unread_marker = M_RST0 + ((first + m - 1) % 8)
       /\ pos = first * Period + 1
  /\ ~Gone(g, first, m) =>
       /\ insufficient_data = FALSE
       /\ unread_marker = 0 =>
            pos = Base(g, first, m) * Period + (scan.interval - restarts_to_go) + 1
       /\ unread_marker # 0 =>
            /\ restarts_to_go = 0
            /\ g < scan.segments - 1 =>
                 /\ unread_marker = M_RST0 + (MarkBehind(g, first, m) % 8)
                 /\ pos = (Base(g, first, m) + 1) * Period + 1

\* The marker found is never one that is skipped.
SearchInv ==
  /\ pc # "scan_forward"
  /\ pc = "next_marker" => unread_marker = 0
  /\ pc = "read_restart_marker" => unread_marker # 0
  /\ pc = "resync" => unread_marker \notin {0, M_RST0 + next_restart_num}

\* What stands in place q when the segment is gone.
Blank(q, first) == IF q - 1 = first * scan.interval THEN STUFFED ELSE GRAY

\* Each MCU delivered is the one of its place, or a blank.
OutInv(first, m) ==
  \A q \in 1..Len(out) :
    out[q] = IF Gone((q - 1) \div scan.interval, first, m) THEN Blank(q, first) ELSE q - 1

\* The decoder is somewhere in a scan that lost m segments, first among them.
LostInv(first, m) ==
  /\ \E g \in Nat : AtSegment(g) /\ PlaceInv(g, first, m)
  /\ SearchInv
  /\ OutInv(first, m)

\* Where the intact scan has its MCUs and its markers.
LEMMA ScanTokenAt ==
  ASSUME NEW s \in Scans, NEW g \in 0..(s.segments - 1)
  PROVE  LET period == s.interval + 1
             t == ScanTokens(s)
         IN  /\ Len(t) = s.segments * period - 1 /\ Len(t) \in Nat
             /\ \A j \in 0..(s.interval - 1) :
                  /\ g * period + j + 1 \in 1..Len(t)
                  /\ t[g * period + j + 1] = Data(g * s.interval + j)
             /\ g < s.segments - 1 =>
                  /\ (g + 1) * period \in 1..Len(t)
                  /\ t[(g + 1) * period] = Rst(g)
<1> DEFINE period == s.interval + 1
           t == ScanTokens(s)
           n == s.segments * period - 1
<1>1. s.segments \in Nat \ {0} /\ s.interval \in Nat \ {0} /\ period \in Nat \ {0}
  BY ScanAssumption
<1>2. n \in Nat
  BY <1>1, MulPositive
<1>3. /\ Len(t) = n /\ DOMAIN t = 1..n
      /\ \A i \in 1..n : t[i] = IF i % period = 0 THEN Rst(i \div period - 1)
                                ELSE Data(i - 1 - i \div period)
  BY <1>2 DEF ScanTokens
<1>4. (g + 1) * period <= s.segments * period /\ (g + 1) * period = g * period + period
  BY <1>1, MulMonotone
<1>5. g \in Nat /\ g * period \in Nat /\ g * period = g * s.interval + g
  <2>1. ASSUME NEW x \in Nat, NEW y \in Nat
        PROVE  y * (x + 1) \in Nat /\ y * (x + 1) = y * x + y
    OBVIOUS
  <2>2. s.interval \in Nat /\ g \in Nat
    BY <1>1
  <2> QED
    BY <2>1, <2>2
<1> HIDE DEF t
<1>6. ASSUME NEW j \in 0..(s.interval - 1)
      PROVE  /\ g * period + j + 1 \in 1..n
             /\ t[g * period + j + 1] = Data(g * s.interval + j)
  <2> DEFINE i == g * period + j + 1
  <2>1. i \in 1..n
    BY <1>1, <1>2, <1>4, <1>5
  <2>2. j + 1 \in 0..(period - 1) /\ g \in Int /\ i = g * period + (j + 1)
    BY <1>1, <1>5
  <2>3. i % period = j + 1
    BY <1>1, <2>2, ModUnique
  <2>4. i \div period = g
    <3>1. period * g = g * period
      BY <1>1
    <3> QED
      BY <1>1, <1>5, <2>2, <3>1, DivUnique
  <2>5. i - 1 - g = g * s.interval + j
    BY <1>1, <1>5
  <2>6. j + 1 # 0
    OBVIOUS
  <2> HIDE DEF i
  <2>7. t[i] = Data(g * s.interval + j)
    BY <1>3, <2>1, <2>3, <2>4, <2>5, <2>6
  <2> QED
    BY <2>1, <2>7 DEF i
<1>7. ASSUME g < s.segments - 1
      PROVE  (g + 1) * period \in 1..n /\ t[(g + 1) * period] = Rst(g)
  <2> DEFINE i == (g + 1) * period
  <2>1. (g + 2) * period <= s.segments * period /\ (g + 2) * period = i + period
    BY <1>1, <1>7, MulMonotone
  <2>2. i \in 1..n
    BY <1>1, <1>2, <1>4, <1>5, <2>1
  <2>3. i % period = 0
    BY <1>1, ModOfMultiple
  <2>4. i \div period = g + 1
    <3>1. period * (g + 1) = i /\ i \in Nat /\ g + 1 \in Nat
      BY <1>1, <2>2
    <3> QED
      BY <1>1, <3>1, DivUnique
  <2>5. (g + 1) - 1 = g
    OBVIOUS
  <2> HIDE DEF i
  <2> QED
    BY <1>3, <2>2, <2>3, <2>4, <2>5 DEF i
<1> QED
  BY <1>2, <1>3, <1>6, <1>7 DEF t

\* An intact scan keeps its shape.
LEMMA IntactShape ==
  ASSUME TypeInv, fault.kind = "none"
  PROVE  Shape(0, 0)
<1> DEFINE t == ScanTokens(scan)
<1>1. /\ scan \in Scans /\ scan.segments \in Nat \ {0} /\ scan.interval \in Nat \ {0}
      /\ Period \in Nat \ {0}
  BY ScanAssumption DEF TypeInv, StreamInv, Period
<1>2. stream = t \o Rest(scan)
  BY DEF TypeInv, StreamInv, Damaged
<1>3. t \in Seq(Tokens) /\ Rest(scan) \in Seq(Tokens)
  BY <1>1, ScanTokensType, RestType
<1> HIDE DEF t
<1>4. ASSUME NEW i \in 1..Len(t)
      PROVE  Token(i) = t[i]
  BY <1>2, <1>3 DEF Token
<1>5. ASSUME NEW g \in 0..(scan.segments - 1)
      PROVE  /\ Base(g, 0, 0) = g /\ MarkBehind(g, 0, 0) = g /\ ~Gone(g, 0, 0)
             /\ \A j \in 0..(scan.interval - 1) :
                  Token(g * Period + j + 1) = Data(g * scan.interval + j)
             /\ g < scan.segments - 1 => Token((g + 1) * Period) = Rst(g)
  <2>1. /\ \A j \in 0..(scan.interval - 1) :
             /\ g * Period + j + 1 \in 1..Len(t)
             /\ t[g * Period + j + 1] = Data(g * scan.interval + j)
        /\ g < scan.segments - 1 =>
             /\ (g + 1) * Period \in 1..Len(t)
             /\ t[(g + 1) * Period] = Rst(g)
    BY <1>1, ScanTokenAt DEF Period, t
  <2>2. Base(g, 0, 0) = g /\ MarkBehind(g, 0, 0) = g /\ ~Gone(g, 0, 0)
    BY DEF Base, MarkBehind, Gone
  <2> QED
    BY <1>4, <2>1, <2>2
<1> QED
  BY <1>5 DEF Shape

\* What is left of a sequence behind its first elements.
LEMMA TailFrom ==
  ASSUME NEW S, NEW t \in Seq(S), NEW a \in 1..Len(t)
  PROVE  /\ SubSeq(t, a, Len(t)) \in Seq(S)
         /\ Len(SubSeq(t, a, Len(t))) = Len(t) - a + 1
         /\ \A i \in 1..(Len(t) - a + 1) : SubSeq(t, a, Len(t))[i] = t[i + a - 1]
  OBVIOUS

\* The elements of a sequence made of two.
LEMMA FrontOfConcat ==
  ASSUME NEW S, NEW s \in Seq(S), NEW r \in Seq(S), NEW i \in 1..Len(s)
  PROVE  i <= Len(s \o r) /\ (s \o r)[i] = s[i]
OBVIOUS

\* And those of the second come after them.
LEMMA BackOfConcat ==
  ASSUME NEW S, NEW s \in Seq(S), NEW r \in Seq(S), NEW i \in 1..Len(r)
  PROVE  Len(s) + i <= Len(s \o r) /\ (s \o r)[Len(s) + i] = r[i]
OBVIOUS

\* A sequence that has lost c elements from position a on, with r behind it.
Without(t, a, c, r) == SubSeq(t, 1, a - 1) \o SubSeq(t, a + c, Len(t)) \o r

\* Its elements: those before a, those behind the gap, then r.
LEMMA ClosedUp ==
  ASSUME NEW t \in Seq(Tokens), NEW r \in Seq(Tokens),
         NEW a \in Nat \ {0}, NEW c \in Nat, a + c <= Len(t)
  PROVE  /\ \A i \in 1..(a - 1) :
              i <= Len(Without(t, a, c, r)) /\ Without(t, a, c, r)[i] = t[i]
         /\ \A i \in a..(Len(t) - c) :
              i <= Len(Without(t, a, c, r)) /\ Without(t, a, c, r)[i] = t[i + c]
<1> DEFINE front == SubSeq(t, 1, a - 1)
           back == SubSeq(t, a + c, Len(t))
<1>1. /\ front \in Seq(Tokens) /\ Len(front) = a - 1
      /\ \A i \in 1..(a - 1) : front[i] = t[i]
  OBVIOUS
<1>2. /\ back \in Seq(Tokens) /\ Len(back) = Len(t) - (a + c) + 1
      /\ \A i \in 1..(Len(t) - (a + c) + 1) : back[i] = t[i + (a + c) - 1]
  <2>1. a + c \in 1..Len(t)
    OBVIOUS
  <2> QED
    BY <2>1, TailFrom
<1>3. Len(t) \in Nat /\ Len(r) \in Nat
  OBVIOUS
<1> HIDE DEF front, back
<1>4. /\ front \o back \in Seq(Tokens) /\ Len(front \o back) = Len(t) - c
      /\ \A i \in 1..(a - 1) : (front \o back)[i] = front[i]
      /\ \A i \in 1..(Len(t) - (a + c) + 1) : (front \o back)[(a - 1) + i] = back[i]
  <2>1. front \o back \in Seq(Tokens) /\ Len(front \o back) = Len(t) - c
    BY <1>1, <1>2, <1>3
  <2>2. \A i \in 1..(a - 1) : (front \o back)[i] = front[i]
    BY <1>1, <1>2, FrontOfConcat
  <2>3. \A i \in 1..(Len(t) - (a + c) + 1) : (front \o back)[(a - 1) + i] = back[i]
    <3> SUFFICES ASSUME NEW i \in 1..Len(back)
                 PROVE  (front \o back)[(a - 1) + i] = back[i]
      BY <1>2
    <3>1. (front \o back)[Len(front) + i] = back[i]
      <4>1. front \in Seq(Tokens) /\ back \in Seq(Tokens)
        BY <1>1, <1>2
      <4> QED
        BY ONLY <4>1, i \in 1..Len(back), BackOfConcat, Zenon
    <3> QED
      BY <1>1, <3>1
  <2> QED
    BY <2>1, <2>2, <2>3
<1> DEFINE both == front \o back
<1> HIDE DEF both
<1>5. /\ both \in Seq(Tokens) /\ Len(both) = Len(t) - c
      /\ \A i \in 1..(a - 1) : both[i] = t[i]
      /\ \A i \in 1..(Len(t) - (a + c) + 1) : both[(a - 1) + i] = t[i + (a + c) - 1]
  BY <1>1, <1>2, <1>4 DEF both
<1>6. ASSUME NEW i \in 1..(Len(t) - c)
      PROVE  i <= Len(both \o r) /\ (both \o r)[i] = both[i]
  BY <1>3, <1>5, <1>6, FrontOfConcat
<1>7. ASSUME NEW i \in a..(Len(t) - c)
      PROVE  both[i] = t[i + c]
  <2> DEFINE k == i - (a - 1)
  <2>1. /\ k \in 1..(Len(t) - (a + c) + 1)
        /\ (a - 1) + k = i /\ k + (a + c) - 1 = i + c
    BY <1>3
  <2> HIDE DEF k
  <2> QED
    BY <1>5, <2>1
<1>8. /\ \A i \in 1..(a - 1) : i <= Len(both \o r) /\ (both \o r)[i] = t[i]
      /\ \A i \in a..(Len(t) - c) : i <= Len(both \o r) /\ (both \o r)[i] = t[i + c]
  <2>1. /\ \A i \in 1..(a - 1) : i \in 1..(Len(t) - c)
        /\ \A i \in a..(Len(t) - c) : i \in 1..(Len(t) - c)
    BY <1>3
  <2> QED
    BY <1>5, <1>6, <1>7, <2>1
<1> QED
  BY <1>8 DEF Without, both, front, back

\* So does a scan that has lost whole segments, with what is left closed up.
LEMMA LostShape ==
  ASSUME TypeInv, WholeSegmentsLost
  PROVE  \E first \in Nat, m \in 1..2 :
           /\ fault.at = first * Period /\ fault.count = m * Period
           /\ Shape(first, m)
<1> DEFINE t == ScanTokens(scan)
           n == Len(t)
<1>1. /\ scan \in Scans /\ scan.segments \in Nat \ {0} /\ scan.interval \in Nat \ {0}
      /\ Period \in Nat \ {0} /\ Period = scan.interval + 1
  BY ScanAssumption DEF TypeInv, StreamInv, Period
<1>2. /\ n \in Nat /\ n = scan.segments * Period - 1
  BY <1>1, ScanTokenAt DEF Period
<1>3. t \in Seq(Tokens) /\ Rest(scan) \in Seq(Tokens)
  BY <1>1, ScanTokensType, RestType
<1>4. /\ fault.kind = "lose" /\ fault.at \in 1..n /\ fault.at % Period = 0
      /\ fault.count \in {Period, 2 * Period} /\ fault.at + fault.count <= n
  BY <1>1, FaultAssumption DEF WholeSegmentsLost, TypeInv, StreamInv, Period
<1>5. stream = SubSeq(t, 1, fault.at - 1) \o SubSeq(t, fault.at + fault.count, n)
                 \o Rest(scan)
  BY <1>4 DEF TypeInv, StreamInv, Damaged
<1>6. PICK first \in Nat : first = fault.at \div Period
  BY <1>1, <1>4, DivBounds
<1>7. fault.at = first * Period
  <2>1. fault.at \in Int
    BY <1>2, <1>4
  <2>2. fault.at = (fault.at \div Period) * Period + (fault.at % Period)
    BY <1>1, <2>1, DivMod
  <2> QED
    BY <1>1, <1>4, <1>6, <2>1, <2>2
<1>8. PICK m \in 1..2 : fault.count = m * Period
  BY <1>1, <1>4
<1>9. first > 0
  BY <1>1, <1>4, <1>7
<1>10. (first + m) * Period = fault.at + fault.count
  BY <1>1, <1>7, <1>8
<1>11. first + m <= scan.segments - 1
  <2>1. CASE scan.segments <= first + m
    <3>1. scan.segments * Period <= (first + m) * Period
      BY <1>1, <2>1, MulMonotone
    <3>2. PICK all \in Nat : all = scan.segments * Period
      BY <1>1
    <3>3. PICK gone \in Nat : gone = (first + m) * Period
      BY <1>1
    <3>4. all <= gone /\ n = all - 1
      BY <1>2, <3>1, <3>2, <3>3
    <3>5. gone <= n
      BY <1>4, <1>10, <3>3
    <3> QED
      BY <1>2, <3>4, <3>5
  <2> QED
    BY <1>1, <2>1
<1> HIDE DEF t, n
<1>16. fault.at \in Nat \ {0} /\ fault.count \in Nat /\ n \in Nat
  BY <1>1, <1>2, <1>4
<1>17. /\ \A i \in 1..(fault.at - 1) : i <= Len(stream) /\ stream[i] = t[i]
      /\ \A i \in fault.at..(n - fault.count) :
           i <= Len(stream) /\ stream[i] = t[i + fault.count]
  <2>1. fault.at + fault.count <= Len(t)
    BY <1>4 DEF n
  <2>2. stream = Without(t, fault.at, fault.count, Rest(scan))
    BY <1>5 DEF n, Without
  <2> DEFINE r == Rest(scan)
             a == fault.at
             c == fault.count
  <2> HIDE DEF r, a, c
  <2>3. /\ t \in Seq(Tokens) /\ r \in Seq(Tokens)
        /\ a \in Nat \ {0} /\ c \in Nat /\ a + c <= Len(t)
    BY <1>3, <1>16, <2>1 DEF r, a, c
  <2>4. /\ \A i \in 1..(a - 1) :
              i <= Len(Without(t, a, c, r)) /\ Without(t, a, c, r)[i] = t[i]
        /\ \A i \in a..(Len(t) - c) :
              i <= Len(Without(t, a, c, r)) /\ Without(t, a, c, r)[i] = t[i + c]
    BY <2>3, ClosedUp
  <2> QED
    BY <2>2, <2>4 DEF n, r, a, c
<1>12. ASSUME NEW i \in 1..n, i < fault.at
       PROVE  Token(i) = t[i]
  <2>1. i \in 1..(fault.at - 1)
    BY <1>12, <1>16
  <2> QED
    BY <1>17, <2>1 DEF Token
<1>13. ASSUME NEW i \in Nat, fault.at <= i, i + fault.count <= n
       PROVE  Token(i) = t[i + fault.count]
  <2>1. i \in fault.at..(n - fault.count)
    BY <1>13, <1>16
  <2> QED
    BY <1>17, <2>1 DEF Token
<1>14. ASSUME NEW g \in 0..(scan.segments - 1), ~Gone(g, first, m)
       PROVE  /\ \A j \in 0..(scan.interval - 1) :
                   Token(Base(g, first, m) * Period + j + 1) = Data(g * scan.interval + j)
              /\ g < scan.segments - 1 =>
                   Token((Base(g, first, m) + 1) * Period) = Rst(MarkBehind(g, first, m))
  <2>1. /\ \A j \in 0..(scan.interval - 1) :
             /\ g * Period + j + 1 \in 1..n
             /\ t[g * Period + j + 1] = Data(g * scan.interval + j)
        /\ g < scan.segments - 1 =>
             /\ (g + 1) * Period \in 1..n
             /\ t[(g + 1) * Period] = Rst(g)
    BY <1>1, ScanTokenAt DEF Period, t, n
  <2>2. g * Period \in Nat /\ (g + 1) * Period = g * Period + Period
    BY <1>1
  <2>3. CASE g < first
    <3>1. (g + 1) * Period <= fault.at
      BY <1>1, <1>7, <2>3, MulMonotone
    <3>2. Base(g, first, m) = g
      BY <2>3 DEF Base
    <3>3. ASSUME NEW j \in 0..(scan.interval - 1)
          PROVE  Token(g * Period + j + 1) = Data(g * scan.interval + j)
      <4>1. g * Period + j + 1 < fault.at
        BY <1>1, <1>4, <2>2, <3>1
      <4> QED
        BY <1>12, <2>1, <4>1
    <3>4. CASE g = first - 1
      <4>1. (g + 1) * Period = fault.at /\ MarkBehind(g, first, m) = (first + m) - 1
        BY <1>7, <3>4 DEF MarkBehind
      <4>2. Token(fault.at) = t[(first + m) * Period]
        <5>1. fault.at \in Nat /\ fault.at <= fault.at
          BY <1>2, <1>4
        <5> QED
          BY <1>4, <1>10, <1>13, <5>1
      <4>3. t[((first + m - 1) + 1) * Period] = Rst(first + m - 1)
        <5>1. /\ first + m - 1 \in 0..(scan.segments - 1)
              /\ first + m - 1 < scan.segments - 1
          BY <1>1, <1>9, <1>11
        <5> QED
          BY <1>1, <5>1, ScanTokenAt DEF Period, t
      <4>4. (first + m - 1) + 1 = first + m
        OBVIOUS
      <4> QED
        BY <3>2, <3>3, <4>1, <4>2, <4>3, <4>4
    <3>5. CASE g # first - 1
      <4>1. g + 2 <= first
        BY <2>3, <3>5
      <4>2. (g + 2) * Period <= first * Period
        BY <1>1, <4>1, MulMonotone
      <4>7. (g + 2) * Period = (g + 1) * Period + Period
        BY <1>1
      <4>3. (g + 1) * Period < fault.at
        BY <1>1, <1>7, <2>2, <4>2, <4>7
      <4>4. g < scan.segments - 1
        BY <1>1, <1>11, <4>1
      <4>5. Token((g + 1) * Period) = Rst(g)
        BY <1>12, <2>1, <4>3, <4>4
      <4>6. MarkBehind(g, first, m) = g
        BY <3>5 DEF MarkBehind
      <4> QED
        BY <3>2, <3>3, <4>5, <4>6
    <3> QED
      BY <3>4, <3>5
  <2>4. CASE ~(g < first)
    <3>1. first + m <= g /\ g - m \in Nat
      BY <1>14, <2>4 DEF Gone
    <3>2. Base(g, first, m) = g - m /\ MarkBehind(g, first, m) = g
      BY <2>4 DEF Base, MarkBehind
    <3>3. /\ (g - m) * Period \in Nat
          /\ (g - m) * Period + fault.count = g * Period
          /\ ((g - m) + 1) * Period + fault.count = (g + 1) * Period
          /\ first * Period <= (g - m) * Period
      <4>1. /\ (g - m) * Period = g * Period - m * Period
            /\ ((g - m) + 1) * Period = (g - m) * Period + Period
        BY <1>1
      <4>2. first <= g - m
        BY <3>1
      <4>3. first * Period <= (g - m) * Period
        BY <1>1, <3>1, <4>2, MulMonotone
      <4>4. (g - m) * Period \in Nat /\ m * Period \in Nat
        BY <1>1, <3>1
      <4> QED
        BY <1>1, <1>8, <2>2, <4>1, <4>3, <4>4
    <3>4. ASSUME NEW j \in 0..(scan.interval - 1)
          PROVE  Token((g - m) * Period + j + 1) = Data(g * scan.interval + j)
      <4> DEFINE i == (g - m) * Period + j + 1
      <4>1. i \in Nat /\ fault.at <= i /\ i + fault.count = g * Period + j + 1
        <5>1. j \in Nat
          BY <1>1
        <5> QED
          BY <1>7, <1>16, <2>2, <3>3, <5>1
      <4>2. i + fault.count <= n
        BY <1>2, <2>1, <4>1
      <4> HIDE DEF i
      <4>3. Token(i) = Data(g * scan.interval + j)
        BY <1>13, <2>1, <4>1, <4>2
      <4> QED
        BY <4>3 DEF i
    <3>5. ASSUME g < scan.segments - 1
          PROVE  Token(((g - m) + 1) * Period) = Rst(g)
      <4> DEFINE i == ((g - m) + 1) * Period
      <4>1. i \in Nat /\ i + fault.count = (g + 1) * Period /\ fault.at <= i
        BY <1>1, <1>4, <1>7, <3>1, <3>3
      <4>2. i + fault.count <= n
        BY <1>2, <2>1, <3>5, <4>1
      <4> HIDE DEF i
      <4>3. Token(i) = Rst(g)
        BY <1>13, <2>1, <3>5, <4>1, <4>2
      <4> QED
        BY <4>3 DEF i
    <3> QED
      BY <3>2, <3>4, <3>5
  <2> QED
    BY <2>3, <2>4
<1>15. Shape(first, m)
  BY <1>9, <1>11, <1>14 DEF Shape
<1> QED
  BY <1>7, <1>8, <1>15

\* A segment that is there: its next MCU, and the marker behind it, are next in
\* the stream.
LEMMA NextToken ==
  ASSUME TypeInv, NEW first \in Nat, NEW m \in 0..2, Shape(first, m), NEW g \in Nat, AtSegment(g),
         ~Gone(g, first, m), PlaceInv(g, first, m), unread_marker = 0
  PROVE  /\ insufficient_data = FALSE
         /\ restarts_to_go > 0 => Token(pos) = Data(Len(out))
         /\ restarts_to_go > 1 => Token(pos + 1) = Data(Len(out) + 1)
         /\ restarts_to_go = 1 /\ g < scan.segments - 1 =>
              /\ pos + 1 = (Base(g, first, m) + 1) * Period
              /\ Token(pos + 1) = Rst(MarkBehind(g, first, m))
         /\ restarts_to_go = 0 /\ g < scan.segments - 1 =>
              /\ pos = (Base(g, first, m) + 1) * Period
              /\ Token(pos) = Rst(MarkBehind(g, first, m))
<1> DEFINE base == Base(g, first, m)
           j == scan.interval - restarts_to_go
<1>1. /\ scan.interval \in Nat \ {0} /\ scan.segments \in Nat \ {0}
      /\ restarts_to_go \in 0..scan.interval /\ Len(out) \in Nat
      /\ g \in 0..(scan.segments - 1) /\ first \in Nat /\ m \in 0..2
  BY ScanAssumption DEF TypeInv, StreamInv, AtSegment, Shape
<1>2. base \in Nat
  BY <1>1 DEF Base, Gone
<1>3. insufficient_data = FALSE /\ pos = base * Period + j + 1
  BY DEF PlaceInv
<1>4. /\ \A k \in 0..(scan.interval - 1) :
           Token(base * Period + k + 1) = Data(g * scan.interval + k)
      /\ g < scan.segments - 1 => Token((base + 1) * Period) = Rst(MarkBehind(g, first, m))
  BY <1>1 DEF Shape
<1>5. Len(out) = g * scan.interval + j /\ g * scan.interval \in Nat
  <2>1. (g + 1) * scan.interval = g * scan.interval + scan.interval
    BY SMTT(30), <1>1
  <2>2. g * scan.interval \in Nat
    BY <1>1
  <2> QED
    BY SMTT(30), <1>1, <2>1, <2>2 DEF AtSegment
<1> HIDE DEF base
<1>6. (base + 1) * Period = base * Period + scan.interval + 1 /\ base * Period \in Nat
  <2>1. Period \in Nat /\ Period = scan.interval + 1
    BY <1>1 DEF Period
  <2>2. (base + 1) * Period = base * Period + Period /\ base * Period \in Nat
    BY <1>2, <2>1
  <2> QED
    BY <1>1, <2>1, <2>2
<1>7. restarts_to_go > 0 => Token(pos) = Data(Len(out))
  <2>1. restarts_to_go > 0 => j \in 0..(scan.interval - 1)
    BY <1>1
  <2> HIDE DEF j
  <2> QED
    BY <1>3, <1>4, <1>5, <2>1
<1>8. restarts_to_go > 1 => Token(pos + 1) = Data(Len(out) + 1)
  <2> SUFFICES ASSUME restarts_to_go > 1
               PROVE  Token(pos + 1) = Data(Len(out) + 1)
    OBVIOUS
  <2>1. j + 1 \in 0..(scan.interval - 1)
    BY SMTT(30), <1>1
  <2>2. pos + 1 = base * Period + (j + 1) + 1 /\ Len(out) + 1 = g * scan.interval + (j + 1)
    <3>1. j \in Int
      BY <1>1
    <3> HIDE DEF j
    <3> QED
      BY SMTT(30), <1>3, <1>5, <1>6, <3>1
  <2> HIDE DEF j
  <2> QED
    BY <1>4, <2>1, <2>2
<1>9. /\ restarts_to_go = 1 => pos + 1 = (base + 1) * Period
      /\ restarts_to_go = 0 => pos = (base + 1) * Period
  BY SMTT(30), <1>1, <1>3, <1>6
<1> QED
  BY <1>3, <1>4, <1>7, <1>8, <1>9 DEF base

\* At the end of a segment the marker held is the one due, with the next segment
\* behind it, or one of the two after it, with that segment gone.
LEMMA MarkerHeld ==
  ASSUME TypeInv, NEW first \in Nat, NEW m \in 0..2, Shape(first, m), NEW g \in Nat,
         g < scan.segments - 1, PlaceInv(g, first, m), unread_marker # 0
  PROVE  \/ /\ unread_marker = M_RST0 + (g % 8)
            /\ ~Gone(g + 1, first, m)
            /\ pos = Base(g + 1, first, m) * Period + 1
         \/ /\ unread_marker \in {M_RST0 + ((g + 1) % 8), M_RST0 + ((g + 2) % 8)}
            /\ Gone(g + 1, first, m)
            /\ unread_marker = M_RST0 + ((first + m - 1) % 8)
            /\ pos = first * Period + 1
<1>1. /\ first \in Nat /\ m \in 0..2 /\ m > 0 => first > 0
  BY DEF Shape
<1>2. CASE Gone(g, first, m)
  <2>1. unread_marker = M_RST0 + ((first + m - 1) % 8) /\ pos = first * Period + 1
    BY <1>2 DEF PlaceInv
  <2>2. first + m - 1 = g \/ first + m - 1 = g + 1
    BY <1>1, <1>2 DEF Gone
  <2>3. CASE first + m - 1 = g
    BY <1>1, <1>2, <2>1, <2>3 DEF Gone, Base
  <2>4. CASE first + m - 1 = g + 1
    BY <1>1, <1>2, <2>1, <2>4 DEF Gone
  <2> QED
    BY <2>2, <2>3, <2>4
<1>3. CASE ~Gone(g, first, m)
  <2>1. /\ unread_marker = M_RST0 + (MarkBehind(g, first, m) % 8)
        /\ pos = (Base(g, first, m) + 1) * Period + 1
    BY <1>3 DEF PlaceInv
  <2>2. CASE g = first - 1 /\ m > 0
    <3>1. MarkBehind(g, first, m) = g + m /\ Base(g, first, m) + 1 = first
      BY <1>1, <2>2 DEF MarkBehind, Base
    <3>2. Gone(g + 1, first, m) /\ g + m = first + m - 1 /\ m \in {1, 2}
      BY <1>1, <2>2 DEF Gone
    <3> QED
      BY <2>1, <3>1, <3>2
  <2>3. CASE ~(g = first - 1 /\ m > 0)
    <3>1. MarkBehind(g, first, m) = g /\ Base(g, first, m) + 1 = Base(g + 1, first, m)
      BY <1>1, <1>3, <2>3 DEF MarkBehind, Base, Gone
    <3>2. ~Gone(g + 1, first, m)
      BY <1>1, <1>3, <2>3 DEF Gone
    <3> QED
      BY <2>1, <3>1, <3>2
  <2> QED
    BY <2>2, <2>3
<1> QED
  BY <1>2, <1>3

\* Steps leave the shape of the stream alone.
LEMMA ShapeStays ==
  ASSUME NEW first \in Nat, NEW m \in 0..2, Shape(first, m), UNCHANGED <<scan, stream>>
  PROVE  Shape(first, m)'
<1>1. Period' = Period /\ \A i : Token(i)' = Token(i)
  BY DEF Period, Token
<1> QED
  BY <1>1 DEF Shape

\* At the start the decoder is at the head of segment 0.
LEMMA LostInit ==
  ASSUME Init, NEW first \in Nat, NEW m \in 0..2, Shape(first, m)
  PROVE  LostInv(first, m)
<1>1. /\ scan.interval \in Nat \ {0} /\ scan.segments \in Nat \ {0}
      /\ first \in Nat /\ m \in 0..2 /\ m > 0 => first > 0
  BY ScanAssumption DEF Init, Shape
<1>2. AtSegment(0)
  BY <1>1 DEF Init, AtSegment
<1>3. ~Gone(0, first, m) /\ Base(0, first, m) = 0
  BY <1>1 DEF Gone, Base
<1>4. 0 * Period + (scan.interval - scan.interval) + 1 = 1
  BY <1>1 DEF Period
<1>5. PlaceInv(0, first, m)
  BY <1>3, <1>4 DEF Init, PlaceInv
<1>6. SearchInv /\ OutInv(first, m)
  BY DEF Init, SearchInv, OutInv
<1> QED
  BY <1>2, <1>5, <1>6 DEF LostInv

\* A term taken to the other side, with the product as a number of its own.
LEMMA ShiftLeft ==
  ASSUME NEW l \in Int, NEW r \in Int, NEW n \in Int, NEW p \in Int, l + r = p + n
  PROVE  l = p + (n - r)
OBVIOUS

\* A place in a block of a sequence, behind p others.
LEMMA InBlock ==
  ASSUME NEW p \in Nat, NEW n \in Nat, NEW l \in Nat, NEW i \in 1..n, p + n <= l
  PROVE  p + i \in 1..l
OBVIOUS

\* The MCUs decoded of the segment.
Sent == scan.interval - restarts_to_go

\* The next MCU belongs to the segment that is counted.
LEMMA LastSegment ==
  ASSUME TypeInv, NEW g \in Nat, AtSegment(g), restarts_to_go > 0
  PROVE  /\ Len(out) \div scan.interval = g
         /\ Len(out) = g * scan.interval + Sent
         /\ Sent \in 0..(scan.interval - 1)
<1>1. /\ scan.interval \in Nat \ {0} /\ restarts_to_go \in 1..scan.interval
      /\ Len(out) \in Nat
  BY ScanAssumption DEF TypeInv, StreamInv
<1>2. /\ (g + 1) * scan.interval = g * scan.interval + scan.interval
      /\ g * scan.interval \in Nat /\ scan.interval * g = g * scan.interval
  BY <1>1
<1>3. Len(out) = g * scan.interval + (scan.interval - restarts_to_go)
  <2>1. Len(out) + restarts_to_go = (g + 1) * scan.interval /\ restarts_to_go \in Int
    BY <1>1 DEF AtSegment
  <2>2. PICK p \in Int : p = g * scan.interval
    BY <1>2
  <2>3. Len(out) + restarts_to_go = p + scan.interval
    BY <1>2, <2>1, <2>2
  <2>4. Len(out) = p + (scan.interval - restarts_to_go)
    BY <1>1, <2>1, <2>3, ShiftLeft
  <2> QED
    BY <2>2, <2>4
<1>4. Sent \in 0..(scan.interval - 1)
  BY <1>1 DEF Sent
<1>5. scan.interval * g <= Len(out) /\ Len(out) < scan.interval * g + scan.interval
  BY SMTT(30), <1>1, <1>2, <1>3
<1> QED
  BY <1>1, <1>3, <1>4, <1>5, DivUnique DEF Sent

\* An MCU of segment g, or a blank if the segment is gone, is in its place.
LEMMA OutGrows ==
  ASSUME TypeInv, NEW first \in Nat, NEW m \in 0..2, OutInv(first, m),
         NEW g \in Nat, AtSegment(g), restarts_to_go > 0, UNCHANGED scan,
         out' = Append(out, IF Gone(g, first, m) THEN Blank(Len(out) + 1, first) ELSE Len(out))
  PROVE  OutInv(first, m)'
<1>1. /\ scan.interval \in Nat \ {0} /\ restarts_to_go \in 1..scan.interval
      /\ out \in Seq(Int) /\ Len(out) \in Nat
  BY ScanAssumption DEF TypeInv, StreamInv
<1>2. Len(out) \div scan.interval = g
  BY LastSegment
<1> DEFINE x == IF Gone(g, first, m) THEN Blank(Len(out) + 1, first) ELSE Len(out)
<1>3. x \in Int
  BY <1>1 DEF Blank, STUFFED, GRAY
<1> HIDE DEF x
<1>4. /\ Len(out') = Len(out) + 1 /\ out'[Len(out) + 1] = x
      /\ \A q \in 1..Len(out) : out'[q] = out[q]
  BY <1>1, <1>3 DEF x
<1>5. ASSUME NEW q \in 1..Len(out')
      PROVE  out'[q] = IF Gone((q - 1) \div scan.interval, first, m) THEN Blank(q, first)
                       ELSE q - 1
  <2>1. CASE q = Len(out) + 1
    <3>1. q - 1 = Len(out)
      BY <1>1, <2>1
    <3> QED
      BY <1>2, <1>4, <2>1, <3>1 DEF x
  <2>2. CASE q # Len(out) + 1
    <3>1. q \in 1..Len(out)
      BY <1>1, <1>4, <2>2
    <3> QED
      BY <1>4, <3>1 DEF OutInv
  <2> QED
    BY <2>1, <2>2
<1> QED
  BY <1>5 DEF OutInv, Gone, Blank

\* Each step keeps the decoder in a place where it knows which segment it has.
LEMMA LostStep ==
  ASSUME TypeInv, CountInv, NEW first \in Nat, NEW m \in 0..2, Shape(first, m),
         LostInv(first, m), [Next]_vars
  PROVE  LostInv(first, m)'
<1>1. PICK g \in Nat : AtSegment(g) /\ PlaceInv(g, first, m)
  BY DEF LostInv
<1>2. SearchInv /\ OutInv(first, m)
  BY DEF LostInv
<1>3. /\ scan.interval \in Nat \ {0} /\ restarts_to_go \in 0..scan.interval
      /\ unread_marker \in 0..254 /\ pos \in Nat \ {0} /\ Len(out) \in Nat
      /\ first + m - 1 \in Int /\ g + 1 \in Nat
  BY ScanAssumption DEF TypeInv, StreamInv
<1>4. unread_marker = 0 => ~Gone(g, first, m)
  BY <1>1, <1>3 DEF PlaceInv, M_RST0
<1>5. pc \notin {"decode_mcu", "done"} => restarts_to_go = 0 /\ g < scan.segments - 1
  <2> SUFFICES ASSUME pc \notin {"decode_mcu", "done"}
               PROVE  restarts_to_go = 0 /\ g < scan.segments - 1
    OBVIOUS
  <2>1. restarts_to_go = 0 /\ Len(out) # McuCount(scan)
    BY DEF CountInv
  <2>2. Len(out) = (g + 1) * scan.interval
    BY <1>1, <1>3, <2>1 DEF AtSegment
  <2>3. scan.segments \in Nat /\ g \in 0..(scan.segments - 1)
    BY <1>1, ScanAssumption DEF AtSegment, TypeInv, StreamInv
  <2>4. g # scan.segments - 1
    BY <2>1, <2>2, <2>3 DEF McuCount
  <2> QED
    BY <2>1, <2>3, <2>4
\* A delivered MCU: what is left to show.
<1>6. ASSUME Decoding,
             Deliver(IF Gone(g, first, m) THEN Blank(Len(out) + 1, first) ELSE Len(out)),
             UNCHANGED <<scan, next_restart_num>>, PlaceInv(g, first, m)'
      PROVE  LostInv(first, m)'
  <2> DEFINE x == IF Gone(g, first, m) THEN Blank(Len(out) + 1, first) ELSE Len(out)
  <2>1. x \in Int
    BY <1>3 DEF Blank, STUFFED, GRAY
  <2>2. /\ AtSegment(g)' /\ pc' \in {"done", "decode_mcu"} /\ out' = Append(out, x)
    <3> HIDE DEF x
    <3>1. Deliver(x)
      BY <1>6 DEF x
    <3> QED
      BY <1>1, <1>6, <2>1, <3>1, DeliverCounts
  <2>3. OutInv(first, m)'
    BY <1>1, <1>2, <1>6, <2>2, OutGrows DEF Decoding
  <2>4. SearchInv'
    BY <2>2 DEF SearchInv
  <2> QED
    BY <1>6, <2>2, <2>3, <2>4 DEF LostInv
<1>7. CASE DecodeMcu
  <2>1. /\ Decoding /\ unread_marker = 0 /\ Deliver(Token(pos).mcu)
        /\ Token(pos).kind = "data"
        /\ UNCHANGED <<scan, next_restart_num, insufficient_data>>
    BY <1>7 DEF DecodeMcu
  <2>2. ~Gone(g, first, m) /\ restarts_to_go \in Nat \ {0}
    BY <1>3, <1>4, <2>1 DEF Decoding
  <2>3. /\ insufficient_data = FALSE /\ Token(pos) = Data(Len(out))
        /\ restarts_to_go > 1 => Token(pos + 1) = Data(Len(out) + 1)
        /\ restarts_to_go = 1 /\ g < scan.segments - 1 =>
             /\ pos + 1 = (Base(g, first, m) + 1) * Period
             /\ Token(pos + 1) = Rst(MarkBehind(g, first, m))
    BY <1>1, <2>1, <2>2, NextToken DEF Decoding
  <2>4. Deliver(IF Gone(g, first, m) THEN Blank(Len(out) + 1, first) ELSE Len(out))
    BY <2>1, <2>2, <2>3 DEF Data
  <2>5. restarts_to_go' = restarts_to_go - 1 /\ Period' = Period
    BY <2>1 DEF Deliver, Period
  <2>6. PlaceInv(g, first, m)'
    <3>1. CASE pos' = pos + 1 /\ UNCHANGED unread_marker
      <4>1. pos = Base(g, first, m) * Period + (scan.interval - restarts_to_go) + 1
        BY <1>1, <2>1, <2>2 DEF PlaceInv
      <4>2. Base(g, first, m) * Period \in Int
        <5>1. Base(g, first, m) \in Int /\ Period \in Int
          BY <1>3 DEF Base, Period
        <5> QED
          BY <5>1
      <4>3. pos' = Base(g, first, m) * Period + (scan.interval - restarts_to_go') + 1
        BY <1>3, <2>2, <2>5, <3>1, <4>1, <4>2
      <4> QED
        BY <2>1, <2>2, <2>3, <2>5, <3>1, <4>3 DEF PlaceInv, Gone, Base
    <3>2. CASE /\ Token(pos + 1).kind = "marker"
               /\ pos' = pos + 2 /\ unread_marker' = Token(pos + 1).code
      <4>1. restarts_to_go = 1
        <5>1. ~(restarts_to_go > 1)
          BY <2>3, <3>2 DEF Data
        <5> QED
          BY <2>2, <5>1
      <4>2. unread_marker' # 0
        <5>1. pos + 1 \in Nat \ {0}
          BY <1>3
        <5>2. Token(pos + 1) \in Tokens
          BY <5>1, TokenType
        <5> QED
          BY <3>2, <5>2 DEF Tokens
      <4>3. g < scan.segments - 1 =>
              /\ unread_marker' = M_RST0 + (MarkBehind(g, first, m) % 8)
              /\ pos' = (Base(g, first, m) + 1) * Period + 1
        BY <1>3, <2>3, <3>2, <4>1 DEF Rst, Marker
      <4>4. restarts_to_go' = 0
        BY <2>5, <4>1
      <4> QED
        BY <2>1, <2>2, <2>3, <2>5, <4>2, <4>3, <4>4 DEF PlaceInv, Gone, Base, MarkBehind
    <3> QED
      BY <1>7, <3>1, <3>2 DEF DecodeMcu
  <2> QED
    BY <1>6, <2>1, <2>4, <2>6
<1>8. CASE HitMarker \/ LeaveGray
  <2>1. /\ Decoding /\ UNCHANGED <<scan, next_restart_num>> /\ insufficient_data' = TRUE
        /\ Deliver(IF insufficient_data THEN GRAY ELSE STUFFED)
    BY <1>8 DEF HitMarker, LeaveGray
  <2>2. restarts_to_go > 0
    BY <2>1 DEF Decoding
  <2>3. Gone(g, first, m)
    <3> SUFFICES ASSUME ~Gone(g, first, m) PROVE FALSE
      OBVIOUS
    <3>1. insufficient_data = FALSE /\ unread_marker = 0
      BY <1>1, <1>3, <2>2 DEF PlaceInv
    <3>2. Token(pos) = Data(Len(out))
      BY <1>1, <2>2, <3>1, NextToken
    <3> QED
      BY <1>8, <3>1, <3>2 DEF HitMarker, LeaveGray, Data
  <2>4. UNCHANGED <<pos, unread_marker>>
    BY <1>4, <1>8, <2>3 DEF HitMarker, LeaveGray, input
  <2>5. /\ insufficient_data = (Len(out) # first * scan.interval)
        /\ first * scan.interval \in Nat /\ first * scan.interval <= Len(out)
    <3>1. insufficient_data = (Len(out) # first * scan.interval)
      BY <1>1, <2>3 DEF PlaceInv
    <3>2. /\ g \in Nat /\ first <= g /\ Len(out) >= g * scan.interval
      BY <1>1, <1>3, <2>2, <2>3 DEF AtSegment, Gone
    <3>3. /\ first * scan.interval \in Nat /\ g * scan.interval \in Nat
          /\ first * scan.interval <= g * scan.interval
      BY <1>3, <3>2, MulMonotone
    <3> QED
      BY <1>3, <3>1, <3>2, <3>3
  <2>6. Deliver(IF Gone(g, first, m) THEN Blank(Len(out) + 1, first) ELSE Len(out))
    <3>1. Blank(Len(out) + 1, first) = IF insufficient_data THEN GRAY ELSE STUFFED
      <4>1. Len(out) + 1 - 1 = Len(out)
        BY <1>3
      <4>2. insufficient_data <=> Len(out) # first * scan.interval
        BY <2>5
      <4>3. CASE insufficient_data
        BY <4>1, <4>2, <4>3 DEF Blank
      <4>4. CASE ~insufficient_data
        BY <4>1, <4>2, <4>4 DEF Blank
      <4> QED
        BY <4>3, <4>4
    <3> QED
      BY <2>1, <2>3, <3>1
  <2>7. Len(out') = Len(out) + 1
    BY <1>3, <2>6 DEF Deliver
  <2>8. insufficient_data' = (Len(out') # (first * scan.interval)')
    <3>1. Len(out) + 1 # first * scan.interval
      BY <1>3, <2>5
    <3> QED
      BY Zenon, <2>1, <2>7, <3>1
  <2>9. PlaceInv(g, first, m)'
    BY <1>1, <2>1, <2>3, <2>4, <2>8 DEF PlaceInv, Gone, Period
  <2> QED
    BY <1>6, <2>1, <2>6, <2>9
<1>9. ASSUME UNCHANGED <<scan, pos, unread_marker, next_restart_num, restarts_to_go,
                         insufficient_data, out>>, SearchInv'
      PROVE  LostInv(first, m)'
  <2>1. AtSegment(g)' /\ PlaceInv(g, first, m)' /\ OutInv(first, m)'
    BY <1>1, <1>2, <1>9 DEF AtSegment, PlaceInv, Period, Gone, Base, MarkBehind, OutInv, Blank
  <2> QED
    BY <1>9, <2>1 DEF LostInv
<1>10. CASE ProcessRestart \/ CallResync \/ Suspend \/ UNCHANGED vars
  <2>1. SearchInv'
    BY <1>2, <1>10 DEF ProcessRestart, CallResync, Suspend, vars, SearchInv
  <2> QED
    BY <1>9, <1>10, <2>1 DEF ProcessRestart, CallResync, Suspend, vars, input
<1>11. CASE FindRestart
  <2>1. /\ pc = "next_marker" /\ unread_marker = 0 /\ pos' = pos + 1
        /\ UNCHANGED <<scan, next_restart_num, restarts_to_go, insufficient_data, out>>
    BY <1>2, <1>11 DEF FindRestart, NextMarker, SearchInv
  <2>2. ~Gone(g, first, m) /\ restarts_to_go = 0 /\ g < scan.segments - 1
    BY <1>4, <1>5, <2>1
  <2>3. /\ pos = (Base(g, first, m) + 1) * Period
        /\ Token(pos) = Rst(MarkBehind(g, first, m)) /\ insufficient_data = FALSE
    BY <1>1, <2>1, <2>2, NextToken
  <2>4. /\ unread_marker' = M_RST0 + (MarkBehind(g, first, m) % 8)
        /\ pc' = "read_restart_marker"
    BY <1>11, <2>3 DEF FindRestart, NextMarker, Rst, Marker
  <2>5. unread_marker' # 0
    <3>1. MarkBehind(g, first, m) \in Int
      BY <1>3 DEF MarkBehind
    <3> QED
      BY <2>4, <3>1 DEF M_RST0
  <2>6. AtSegment(g)' /\ OutInv(first, m)' /\ SearchInv'
    BY <1>1, <1>2, <2>1, <2>4, <2>5 DEF AtSegment, OutInv, Gone, Blank, SearchInv
  <2>7. PlaceInv(g, first, m)'
    BY <2>1, <2>2, <2>3, <2>4, <2>5 DEF PlaceInv, Gone, Base, MarkBehind, Period
  <2> QED
    BY <2>6, <2>7 DEF LostInv
<1>12. CASE ScanForward
  BY <1>2, <1>12 DEF ScanForward, NextMarker, SearchInv
<1>13. next_restart_num = g % 8
  BY <1>1 DEF AtSegment
<1>14. ASSUME NEW marker, Resume(marker), pc \notin {"decode_mcu", "done"},
              PlaceInv(g + 1, first, m)'
       PROVE  LostInv(first, m)'
  <2>1. AtSegment(g + 1)'
    BY <1>1, <1>14, ResumeCounts
  <2>2. OutInv(first, m)' /\ SearchInv'
    BY <1>2, <1>14 DEF Resume, OutInv, Gone, Blank, SearchInv
  <2> QED
    BY <1>3, <1>14, <2>1, <2>2 DEF LostInv
<1>15. CASE SwallowRestart
  <2>1. /\ pc = "read_restart_marker" /\ unread_marker = M_RST0 + (g % 8)
        /\ Resume(0) /\ unread_marker # 0
    BY <1>2, <1>13, <1>15 DEF SwallowRestart, SearchInv
  <2>2. /\ M_RST0 + (g % 8) # M_RST0 + ((g + 1) % 8)
        /\ M_RST0 + (g % 8) # M_RST0 + ((g + 2) % 8)
    BY DEF M_RST0
  <2>3. ~Gone(g + 1, first, m) /\ pos = Base(g + 1, first, m) * Period + 1
    BY <1>1, <1>5, <2>1, <2>2, MarkerHeld
  <2>4. /\ UNCHANGED <<scan, pos>> /\ unread_marker' = 0 /\ restarts_to_go' = scan.interval
        /\ insufficient_data' = FALSE
    BY <2>1 DEF Resume, input
  <2>5. pos' = Base(g + 1, first, m) * Period + (scan.interval - restarts_to_go') + 1
    <3>1. scan.interval - restarts_to_go' = 0
      BY <1>3, <2>4
    <3>2. Base(g + 1, first, m) * Period \in Int
      <4>1. Base(g + 1, first, m) \in Int /\ Period \in Int
        BY <1>3 DEF Base, Period
      <4> QED
        BY <4>1
    <3> QED
      BY <2>3, <2>4, <3>1, <3>2
  <2>6. PlaceInv(g + 1, first, m)'
    BY <2>3, <2>4, <2>5 DEF PlaceInv, Gone, Base, Period
  <2> QED
    BY <1>14, <2>1, <2>6
<1>16. CASE Resync
  <2>1. pc = "resync" /\ unread_marker \notin {0, M_RST0 + (g % 8)}
    BY <1>2, <1>13, <1>16 DEF Resync, SearchInv
  <2>2. /\ unread_marker \in {M_RST0 + ((g + 1) % 8), M_RST0 + ((g + 2) % 8)}
        /\ Gone(g + 1, first, m)
        /\ unread_marker = M_RST0 + ((first + m - 1) % 8)
        /\ pos = first * Period + 1
    BY <1>1, <1>5, <2>1, MarkerHeld
  <2>3. Distant(1) = M_RST0 + ((g + 1) % 8) /\ Distant(2) = M_RST0 + ((g + 2) % 8)
    <3>1. ((g % 8) + 1) % 8 = (g + 1) % 8 /\ ((g % 8) + 2) % 8 = (g + 2) % 8
      OBVIOUS
    <3> QED
      BY <1>13, <3>1 DEF Distant
  <2>4. ~(unread_marker < M_SOF0) /\ ~(unread_marker < M_RST0 \/ unread_marker > M_RST7)
    BY <2>2 DEF M_SOF0, M_RST0, M_RST7
  <2>5. Action(unread_marker) = 3
    BY <2>2, <2>3, <2>4 DEF Action
  <2>6. Resume(unread_marker)
    BY <1>16, <2>5 DEF Resync
  <2>7. insufficient_data = (Len(out) # first * scan.interval)
    <3>1. CASE Gone(g, first, m)
      BY <1>1, <3>1 DEF PlaceInv
    <3>2. CASE ~Gone(g, first, m)
      <4>1. g + 1 = first
        BY <1>3, <2>2, <3>2 DEF Gone
      <4>2. Len(out) = (g + 1) * scan.interval
        BY <1>1, <1>3, <1>5, <2>1 DEF AtSegment
      <4>3. insufficient_data = FALSE
        BY <1>1, <3>2 DEF PlaceInv
      <4> QED
        BY <4>1, <4>2, <4>3
    <3> QED
      BY <3>1, <3>2
  <2>8. UNCHANGED <<pos, insufficient_data, out, scan>> /\ unread_marker' = unread_marker
    BY <2>1, <2>6 DEF Resume, input
  <2>9. PlaceInv(g + 1, first, m)'
    BY <2>2, <2>7, <2>8 DEF PlaceInv, Gone, Period
  <2> QED
    BY <1>14, <2>1, <2>6, <2>9
<1> QED
  BY <1>7, <1>8, <1>10, <1>11, <1>12, <1>15, <1>16 DEF Next, Decode, Restart, Done

\* What is lost of the scan, by its fault.
Loss(first, m) ==
  /\ fault.kind = "none" => first = 0 /\ m = 0
  /\ fault.kind # "none" =>
       m > 0 /\ fault.at = first * Period /\ fault.count = m * Period

\* For an intact scan and for every loss of whole segments.
LossInv ==
  fault.kind = "none" \/ WholeSegmentsLost =>
    \E first \in Nat, m \in 0..2 : Loss(first, m) /\ Shape(first, m) /\ LostInv(first, m)

\* It holds at the start of the scan.
LEMMA LossInit == Init => LossInv
<1> SUFFICES ASSUME Init, fault.kind = "none" \/ WholeSegmentsLost
             PROVE  \E first \in Nat, m \in 0..2 :
                      Loss(first, m) /\ Shape(first, m) /\ LostInv(first, m)
  BY DEF LossInv
<1>1. TypeInv
  BY TypeInit
<1>2. CASE fault.kind = "none"
  <2>1. Loss(0, 0) /\ Shape(0, 0)
    BY <1>1, <1>2, IntactShape DEF Loss
  <2>2. 0 \in Nat /\ 0 \in 0..2
    OBVIOUS
  <2>3. LostInv(0, 0)
    BY <2>1, <2>2, LostInit
  <2> QED
    BY <2>1, <2>2, <2>3
<1>3. CASE WholeSegmentsLost
  <2>1. PICK first \in Nat, m \in 1..2 :
          /\ fault.at = first * Period /\ fault.count = m * Period
          /\ Shape(first, m)
    BY <1>1, <1>3, LostShape
  <2>2. m \in 0..2 /\ m > 0 /\ fault.kind = "lose"
    BY <1>3 DEF WholeSegmentsLost
  <2>3. LostInv(first, m)
    BY <2>1, <2>2, LostInit
  <2> QED
    BY <2>1, <2>2, <2>3 DEF Loss
<1> QED
  BY <1>2, <1>3

\* Every step keeps it.
LEMMA LossStep == TypeInv /\ CountInv /\ LossInv /\ [Next]_vars => LossInv'
<1> SUFFICES ASSUME TypeInv, CountInv, LossInv, [Next]_vars,
                    fault'.kind = "none" \/ WholeSegmentsLost'
             PROVE  (\E first \in Nat, m \in 0..2 :
                       Loss(first, m) /\ Shape(first, m) /\ LostInv(first, m))'
  BY DEF LossInv
<1>1. UNCHANGED <<scan, fault, stream>>
  BY DEF Next, Decode, Restart, Done, DecodeMcu, HitMarker, LeaveGray, ProcessRestart,
         SwallowRestart, CallResync, Resync, Resume, FindRestart, ScanForward,
         NextMarker, Suspend, vars, input
<1>2. fault.kind = "none" \/ WholeSegmentsLost
  BY <1>1 DEF WholeSegmentsLost
<1>3. PICK first \in Nat, m \in 0..2 :
        Loss(first, m) /\ Shape(first, m) /\ LostInv(first, m)
  BY <1>2 DEF LossInv
<1>4. LostInv(first, m)'
  BY <1>3, LostStep
<1>5. Shape(first, m)'
  BY <1>1, <1>3, ShapeStays
<1>6. Loss(first, m)'
  BY <1>1, <1>3 DEF Loss, Period
<1> QED
  BY <1>4, <1>5, <1>6

\* The decoder's place in a scan with a known loss.
THEOREM Inductive == Spec => [](TypeInv /\ CountInv /\ LossInv)
<1>1. Init => TypeInv /\ CountInv /\ LossInv
  BY TypeInit, CountInit, LossInit
<1>2. TypeInv /\ CountInv /\ LossInv /\ [Next]_vars => (TypeInv /\ CountInv /\ LossInv)'
  BY TypeStep, CountStep, LossStep
<1> QED
  BY <1>1, <1>2, PTL DEF Spec

\* The places of the MCUs of a segment, once the scan is decoded.
LEMMA DonePlace ==
  ASSUME TypeInv, CountInv, pc = "done", NEW k \in 0..(scan.segments - 1),
         NEW i \in 1..scan.interval, NEW q, q = k * scan.interval + i
  PROVE  /\ k * scan.interval \in Nat
         /\ q \in 1..Len(out) /\ (q - 1) \div scan.interval = k
<1>1. scan.interval \in Nat \ {0} /\ scan.segments \in Nat \ {0} /\ k \in Nat /\ i \in Nat
  BY ScanAssumption DEF TypeInv, StreamInv
<1>2. /\ k * scan.interval \in Nat /\ scan.interval * k = k * scan.interval
      /\ (k + 1) * scan.interval = k * scan.interval + scan.interval
      /\ (k + 1) * scan.interval <= scan.segments * scan.interval
  BY <1>1, MulMonotone
<1>3. q \in 1..Len(out)
  <2>1. Len(out) = scan.segments * scan.interval /\ Len(out) \in Nat
    BY <1>1 DEF CountInv, McuCount, TypeInv
  <2>2. /\ k * scan.interval \in Nat /\ i \in Nat /\ i >= 1 /\ i <= scan.interval
        /\ k * scan.interval + scan.interval <= Len(out)
    BY <1>1, <1>2, <2>1
  <2> QED
    BY <1>1, <2>1, <2>2, InBlock
<1>4. (q - 1) \div scan.interval = k
  <2>1. /\ q - 1 \in Nat /\ scan.interval * k <= q - 1
        /\ q - 1 < scan.interval * k + scan.interval
    BY <1>1, <1>2
  <2> QED
    BY <1>1, <2>1, DivUnique
<1> QED
  BY <1>2, <1>3, <1>4

\* The MCUs of a scan that was decoded to its end.
LEMMA Delivered ==
  ASSUME TypeInv, CountInv, NEW first \in Nat, NEW m \in 0..2, OutInv(first, m),
         pc = "done", NEW k \in 0..(scan.segments - 1), NEW i \in 1..scan.interval
  PROVE  /\ k * scan.interval + i - 1 \in Nat
         /\ out[k * scan.interval + i] = IF Gone(k, first, m)
                                         THEN Blank(k * scan.interval + i, first)
                                         ELSE k * scan.interval + i - 1
<1>1. scan.interval \in Nat \ {0} /\ scan.segments \in Nat \ {0} /\ k \in Nat /\ i \in Nat
  BY ScanAssumption DEF TypeInv, StreamInv
<1>2. PICK q : q = k * scan.interval + i
  OBVIOUS
<1>3. /\ k * scan.interval \in Nat
      /\ q \in 1..Len(out) /\ (q - 1) \div scan.interval = k
  BY <1>2, DonePlace
<1>4. out[q] = IF Gone(k, first, m) THEN Blank(q, first) ELSE q - 1
  BY <1>3 DEF OutInv
<1>5. q - 1 = k * scan.interval + i - 1 /\ q - 1 \in Nat
  <2>1. PICK b \in Nat : b = k * scan.interval
    BY <1>3
  <2>2. q = b + i /\ i \in Nat \ {0}
    BY <1>1, <1>2, <2>1
  <2>3. q - 1 = b + i - 1 /\ q - 1 \in Nat
    BY <2>2
  <2> QED
    BY <2>1, <2>3
<1> QED
  BY <1>2, <1>4, <1>5

\* An undamaged scan comes out as it was coded, for every number and length of
\* its segments, wherever the source suspends and however far the bit buffer
\* reads ahead.
THEOREM IntactDecoded == Spec => []IntactIsRight
<1>1. TypeInv /\ CountInv /\ LossInv => IntactIsRight
  <2> SUFFICES ASSUME TypeInv, CountInv, LossInv, pc = "done", fault.kind = "none"
               PROVE  WrongSegments = {}
    BY DEF IntactIsRight
  <2>1. OutInv(0, 0) /\ 0 \in Nat /\ 0 \in 0..2
    BY DEF LossInv, Loss, LostInv
  <2>2. \A k : ~Gone(k, 0, 0) \/ k \notin Nat
    BY DEF Gone
  <2>3. ASSUME NEW k \in 0..(scan.segments - 1), NEW i \in 1..scan.interval
        PROVE  out[k * scan.interval + i] = k * scan.interval + i - 1
    <3>1. k \in Nat
      BY ScanAssumption DEF TypeInv, StreamInv
    <3> QED
      BY <2>1, <2>2, <3>1, Delivered
  <2> QED
    BY <2>3 DEF WrongSegments
<1> QED
  BY <1>1, Inductive, PTL

\* Where in the gap the MCU of stuffed bits stands.
LEMMA FirstBlank ==
  ASSUME NEW interval \in Nat \ {0}, NEW first \in Nat, NEW k \in Nat, first <= k,
         NEW i \in 1..interval
  PROVE  k * interval + i - 1 = first * interval <=> k = first /\ i = 1
<1>1. PICK a \in Nat, b \in Nat : a = first * interval /\ b = k * interval
  OBVIOUS
<1>2. CASE k = first
  <2>1. a = b
    BY <1>1, <1>2
  <2>2. b + i - 1 = a <=> i = 1
    BY <1>1, <2>1
  <2> QED
    BY <1>1, <1>2, <2>2
<1>3. CASE k # first
  <2>1. first + 1 <= k /\ first + 1 \in Nat
    BY <1>3
  <2>2. (first + 1) * interval <= k * interval
    BY <2>1, MulMonotone
  <2>3. (first + 1) * interval = a + interval
    BY <1>1
  <2>4. b + i - 1 # a
    BY <1>1, <2>2, <2>3
  <2> QED
    BY <1>1, <1>3, <2>4
<1> QED
  BY <1>2, <1>3

\* One or two whole segments lost cost exactly those segments, and what comes out
\* in their places is one MCU of stuffed bits and gray behind it, for every scan
\* and every place of the loss.
THEOREM LossIsBlank == Spec => []LostSegmentsAreBlank
<1>1. TypeInv /\ CountInv /\ LossInv => LostSegmentsAreBlank
  <2> SUFFICES ASSUME TypeInv, CountInv, LossInv, pc = "done", WholeSegmentsLost
               PROVE  LostSegmentsAreBlank
    BY DEF LostSegmentsAreBlank
  <2>1. PICK first \in Nat, m \in 0..2 :
          Loss(first, m) /\ Shape(first, m) /\ LostInv(first, m)
    BY DEF LossInv
  <2>2. /\ m > 0 /\ fault.at = first * Period /\ fault.count = m * Period
        /\ OutInv(first, m) /\ first > 0 /\ first + m <= scan.segments - 1
    BY <2>1 DEF WholeSegmentsLost, Loss, Shape, LostInv
  <2>3. /\ scan.interval \in Nat \ {0} /\ scan.segments \in Nat \ {0}
        /\ Period \in Nat \ {0} /\ Period = scan.interval + 1
    BY ScanAssumption DEF TypeInv, StreamInv, Period
  <2>4. SegmentAt(fault.at) + 1 = first
    <3>1. /\ Period * (first - 1) = first * Period - Period
          /\ first * Period \in Nat \ {0}
      BY <2>2, <2>3
    <3>2. /\ first * Period - 1 \in Nat /\ first - 1 \in Nat
          /\ Period * (first - 1) <= first * Period - 1
          /\ first * Period - 1 < Period * (first - 1) + Period
      BY <2>2, <2>3, <3>1
    <3>3. (first * Period - 1) \div Period = first - 1
      BY <2>3, <3>2, DivUnique
    <3> QED
      BY <2>2, <2>3, <3>3 DEF SegmentAt
  <2>5. fault.count \div (scan.interval + 1) = m
    <3>1. Period * m = m * Period /\ m * Period \in Nat /\ m \in Nat
      BY <2>3
    <3>2. (m * Period) \div Period = m
      BY <2>3, <3>1, DivUnique
    <3> QED
      BY <2>2, <2>3, <3>2
  <2> DEFINE lost == first..(first + m - 1)
  <2>6. \A k \in 0..(scan.segments - 1) : k \in lost <=> Gone(k, first, m)
    BY <2>3 DEF Gone
  <2>7. lost \subseteq 0..(scan.segments - 1)
    BY <2>2, <2>3
  <2>8. ASSUME NEW k \in 0..(scan.segments - 1), NEW i \in 1..scan.interval
        PROVE  /\ k \in lost => out[k * scan.interval + i] = Blank(k * scan.interval + i, first)
               /\ k \notin lost => out[k * scan.interval + i] = k * scan.interval + i - 1
               /\ k * scan.interval + i - 1 \in Nat
    BY <2>2, <2>6, Delivered
  <2>9. ASSUME NEW k \in lost, NEW i \in 1..scan.interval
        PROVE  out[k * scan.interval + i] = IF k = first /\ i = 1 THEN STUFFED ELSE GRAY
    <3>1. k \in Nat /\ first <= k
      BY <2>2, <2>3
    <3>2. k * scan.interval + i - 1 = first * scan.interval <=> k = first /\ i = 1
      BY <2>3, <3>1, FirstBlank
    <3>3. out[k * scan.interval + i] = Blank(k * scan.interval + i, first)
      BY <2>7, <2>8
    <3>4. /\ k * scan.interval \in Nat /\ i \in Nat
          /\ (k * scan.interval + i) - 1 = k * scan.interval + (i - 1)
      BY <2>3, <3>1
    <3>5. /\ k = first /\ i = 1 => Blank(k * scan.interval + i, first) = STUFFED
          /\ ~(k = first /\ i = 1) => Blank(k * scan.interval + i, first) = GRAY
      BY ONLY <3>2, <3>4, Zenon DEF Blank
    <3> QED
      BY ONLY <3>3, <3>5, Zenon
  <2>10. WrongSegments = lost
    <3>1. ASSUME NEW k \in lost
          PROVE  \E i \in 1..scan.interval :
                   out[k * scan.interval + i] # k * scan.interval + i - 1
      <4>1. 1 \in 1..scan.interval
        BY <2>3
      <4>2. /\ out[k * scan.interval + 1] \in {STUFFED, GRAY}
            /\ k * scan.interval + 1 - 1 \in Nat
        BY <2>7, <2>8, <4>1 DEF Blank
      <4> QED
        BY <4>1, <4>2 DEF STUFFED, GRAY
    <3> HIDE DEF lost
    <3> QED
      BY <2>7, <2>8, <3>1 DEF WrongSegments
  <2> HIDE DEF lost
  <2>11. lost = first..(first + m - 1)
    BY DEF lost
  <2> QED
    BY <2>4, <2>5, <2>9, <2>10, <2>11 DEF LostSegmentsAreBlank
<1> QED
  BY <1>1, Inductive, PTL

-----------------------------------------------------------------------------
(* One fault: the decoder is in step with the stream up to the fault, and  *)
(* again before the fifth segment from there.                              *)

\* The segment of the fault.
D == SegmentAt(fault.at)

\* How many tokens the fault puts in the stream.
Added == IF fault.kind = "lose" THEN 0 ELSE 1

\* How far what comes behind the fault is moved.
Shift == IF fault.kind = "lose" THEN -1 ELSE IF fault.kind = "replace" THEN 0 ELSE 1

\* Token j of segment h of the intact scan, the marker behind it included.
TokenAt(h, j) ==
  IF j <= scan.interval THEN Data(h * scan.interval + j - 1)
  ELSE IF h < scan.segments - 1 THEN Rst(h) ELSE Marker(scan.last)

\* Position p holds that token: where it was, in front of the fault, or moved.
Before(p, h, j) ==
  /\ h \in 0..(scan.segments - 1) /\ j \in 1..Period
  /\ p = h * Period + j /\ p < fault.at

\* Or behind the fault, moved.
Behind(p, h, j) ==
  /\ h \in 0..(scan.segments - 1) /\ j \in 1..Period
  /\ p = h * Period + j + Shift /\ p >= fault.at + Added

\* A marker c segments ahead, modulo 8, of the one that segment g waits for.
Ahead(g, c) == M_RST0 + ((g + c) % 8)

\* A scan with one recoverable fault, in segment D.
DamagedShape ==
  /\ D \in 0..(scan.segments - 1)
  /\ D * Period < fault.at /\ fault.at <= D * Period + Period
  /\ fault.at < scan.segments * Period
  /\ \A p, h, j \in Int : Before(p, h, j) \/ Behind(p, h, j) => Token(p) = TokenAt(h, j)
  /\ Added = 1 /\ Token(fault.at).kind = "marker" =>
       \/ Token(fault.at).code < M_SOF0
       \/ \E c \in 0..7 :
            /\ Token(fault.at).code = Ahead(D, c)
            /\ c = 2 => Shift = 0 /\ fault.at = D * Period + Period

\* The segments that the fault may cost.
Spoilt(k) == D <= k /\ k <= D + 3

\* n MCUs of segment g are decoded and the rest is next, or its marker is held.
InStep(g, n, p, u, s) ==
  /\ u = 0 => p = g * Period + n + 1 + s
  /\ u # 0 => n = scan.interval /\ u = Ahead(g, 0) /\ p = (g + 1) * Period + 1 + s

\* The resynchronisation reads on: the marker held is invalid or from the past.
Waiting(g, u) == u < M_SOF0 \/ u = Ahead(g, 6) \/ u = Ahead(g, 7)

\* Segment h comes next in the stream: near enough to tell its marker from others.
Near(g, h) == g - 2 <= h /\ h <= g + 1 /\ h <= D + 3

\* The segment that is decoded when a marker c ahead has had its turn.
Landing(g, c) == IF c <= 2 THEN g + c + 1 ELSE g + 1

\* Behind the fault and out of step, but it will not last.
Off(g, p, u) ==
  /\ Spoilt(g)
  /\ \E h, j \in Int :
       /\ Behind(p, h, j)
       /\ \/ Waiting(g, u) /\ Near(g, h)
          \/ \E c \in 0..5 :
               /\ u = Ahead(g, c)
               /\ \/ h = Landing(g, c) /\ j = 1 /\ h <= D + 4
                  \/ Landing(g, c) <= D + 3 /\ Near(Landing(g, c), h)

\* The marker behind the scan is held, and no segment is left to be spoilt.
Ended(g, u) ==
  /\ D <= g /\ scan.segments - 1 <= D + 3
  /\ u \in {M_EOI, M_SOS}

\* Where the decoder is in the stream, n MCUs into segment g.
Place(g, n, p, u, gray) ==
  \/ InStep(g, n, p, u, 0) /\ p <= fault.at /\ ~gray
  \/ InStep(g, n, p, u, Shift) /\ p >= fault.at + Added /\ ~gray
  \/ Off(g, p, u)
  \/ Ended(g, u)

\* Outside the four segments each MCU delivered is the one of its place.
KeptInv ==
  \A q \in 1..Len(out) : ~Spoilt((q - 1) \div scan.interval) => out[q] = q - 1

\* What the search for a restart marker holds.
SkipInv ==
  /\ pc = "next_marker" => unread_marker = 0
  /\ pc \in {"read_restart_marker", "resync", "scan_forward"} => unread_marker # 0
  /\ pc = "scan_forward" => Action(unread_marker) = 2

\* The inductive invariant of a scan with one recoverable fault.
DamageInv ==
  /\ \E g \in Nat :
       /\ AtSegment(g)
       /\ pc # "done" => Place(g, Sent, pos, unread_marker, insufficient_data)
  /\ SkipInv
  /\ KeptInv

-----------------------------------------------------------------------------
(* The stream with one fault.                                              *)

\* The numbers of the scan and of the fault.
LEMMA Sizes ==
  ASSUME TypeInv
  PROVE  /\ scan.interval \in Nat \ {0} /\ scan.segments \in Nat \ {0}
         /\ Period \in Nat \ {0} /\ Period = scan.interval + 1
         /\ fault.at \in Nat \ {0} /\ Added \in 0..1
          /\ Shift \in Int /\ Shift <= 1 /\ 0 <= Shift + 1
         /\ Added - Shift \in 0..1 /\ D \in Int
<1>1. /\ scan.interval \in Nat \ {0} /\ scan.segments \in Nat \ {0} /\ scan \in Scans
      /\ Period \in Nat \ {0} /\ Period = scan.interval + 1
  BY ScanAssumption DEF TypeInv, StreamInv, Period
<1>2. fault.at \in 1..Len(ScanTokens(scan))
  BY FaultAssumption DEF TypeInv, StreamInv
<1>3. fault.at \in Nat \ {0}
  <2>1. ScanTokens(scan) \in Seq(Tokens)
    BY <1>1, ScanTokensType
  <2> QED
    BY <1>2, <2>1
<1>4. Added \in 0..1 /\ Shift \in Int /\ Shift <= 1 /\ 0 <= Shift + 1 /\ Added - Shift \in 0..1
  BY DEF Added, Shift
<1>5. D \in Int
  BY <1>1, <1>3 DEF D, SegmentAt
<1> QED
  BY <1>1, <1>3, <1>4, <1>5

\* The intact scan, token by token.
LEMMA IntactTokenAt ==
  ASSUME TypeInv, NEW h \in 0..(scan.segments - 1), NEW j \in 1..Period,
         h * Period + j < scan.segments * Period
  PROVE  /\ Len(ScanTokens(scan)) = scan.segments * Period - 1
         /\ h * Period + j \in 1..Len(ScanTokens(scan))
         /\ ScanTokens(scan)[h * Period + j] = TokenAt(h, j)
<1>1. /\ scan.interval \in Nat \ {0} /\ scan.segments \in Nat \ {0} /\ scan \in Scans
      /\ Period \in Nat \ {0} /\ Period = scan.interval + 1
  BY Sizes DEF TypeInv, StreamInv
<1> DEFINE t == ScanTokens(scan)
<1>2. /\ Len(t) = scan.segments * Period - 1
      /\ \A i \in 0..(scan.interval - 1) :
           /\ h * Period + i + 1 \in 1..Len(t)
           /\ t[h * Period + i + 1] = Data(h * scan.interval + i)
      /\ h < scan.segments - 1 =>
           /\ (h + 1) * Period \in 1..Len(t)
           /\ t[(h + 1) * Period] = Rst(h)
  BY <1>1, ScanTokenAt DEF Period
<1> HIDE DEF t
<1>3. h * Period \in Int /\ (h + 1) * Period = h * Period + Period
  BY <1>1
<1>4. CASE j <= scan.interval
  <2>1. /\ j - 1 \in 0..(scan.interval - 1)
        /\ h * Period + (j - 1) + 1 = h * Period + j
        /\ h * scan.interval + (j - 1) = h * scan.interval + j - 1
    BY <1>1, <1>3, <1>4
  <2>2. h * Period + j \in 1..Len(t) /\ t[h * Period + j] = Data(h * scan.interval + j - 1)
    BY <1>2, <2>1
  <2> QED
    BY <1>2, <1>4, <2>2 DEF TokenAt, t
<1>5. CASE j > scan.interval
  <2>1. j = Period
    BY <1>1, <1>5
  <2>2. h # scan.segments - 1
    <3>1. ((scan.segments - 1) + 1) * Period = scan.segments * Period
      BY <1>1
    <3> QED
      BY <1>1, <1>3, <2>1, <3>1
  <2>3. h < scan.segments - 1
    BY <1>1, <2>2
  <2>4. h * Period + j \in 1..Len(t) /\ t[h * Period + j] = Rst(h)
    BY <1>2, <1>3, <2>1, <2>3
  <2> QED
    BY <1>1, <1>2, <1>5, <2>3, <2>4 DEF TokenAt, t
<1> QED
  BY <1>1, <1>4, <1>5

\* The concatenation of two sequences.
LEMMA ConcatType ==
  ASSUME NEW S, NEW s \in Seq(S), NEW r \in Seq(S)
  PROVE  s \o r \in Seq(S) /\ Len(s \o r) = Len(s) + Len(r)
OBVIOUS

\* A sequence t with another front, from position b on, and r behind it.
Joined(front, t, b, r) == front \o SubSeq(t, b, Len(t)) \o r

\* Its elements: those of the front, those of t, moved, and those of r.
LEMMA FrontAndBack ==
  ASSUME NEW t \in Seq(Tokens), NEW r \in Seq(Tokens), Len(r) > 0,
         NEW front \in Seq(Tokens), NEW b \in 1..(Len(t) + 1),
         NEW n \in Nat, Len(front) = n
  PROVE  LET s == Joined(front, t, b, r)
         IN  /\ \A i \in 1..n : i <= Len(s) /\ s[i] = front[i]
             /\ \A i \in b..Len(t) :
                  i + (n - b + 1) <= Len(s) /\ s[i + (n - b + 1)] = t[i]
             /\ Len(t) + 1 + (n - b + 1) <= Len(s)
             /\ s[Len(t) + 1 + (n - b + 1)] = r[1]
<1> DEFINE s == Joined(front, t, b, r)
<1> DEFINE back == SubSeq(t, b, Len(t))
<1>1. /\ back \in Seq(Tokens) /\ Len(back) = Len(t) - b + 1
      /\ \A i \in 1..(Len(t) - b + 1) : back[i] = t[i + b - 1]
  <2>1. CASE b <= Len(t)
    <3>1. b \in 1..Len(t)
      BY <2>1
    <3> QED
      BY <3>1, TailFrom
  <2>2. CASE b = Len(t) + 1
    BY <2>2
  <2> QED
    BY <2>1, <2>2
<1>2. /\ Len(t) \in Nat /\ Len(r) \in Nat \ {0} /\ b \in Int /\ b >= 1
      /\ b <= Len(t) + 1
  OBVIOUS
<1> DEFINE both == front \o back
<1>3. s = both \o r
  BY DEF back, Joined
<1> HIDE DEF s
<1> HIDE DEF back
<1>4. both \in Seq(Tokens) /\ Len(both) = n + Len(t) - b + 1
  <2>1. both \in Seq(Tokens) /\ Len(both) = Len(front) + Len(back)
    BY <1>1, ConcatType
  <2> QED
    BY <1>1, <1>2, <2>1
<1>5. \A i \in 1..n : both[i] = front[i]
  BY <1>1, FrontOfConcat
<1>6. \A i \in 1..(Len(t) - b + 1) : both[n + i] = back[i]
  BY SMTT(30), <1>1, BackOfConcat
<1> HIDE DEF both
<1>7. \A i \in 1..(n + Len(t) - b + 1) : i <= Len(s) /\ s[i] = both[i]
  BY <1>3, <1>4, FrontOfConcat
<1>8. ASSUME NEW i \in 1..n
      PROVE  i <= Len(s) /\ s[i] = front[i]
  <2>1. i \in 1..(n + Len(t) - b + 1)
    BY <1>2
  <2> QED
    BY <1>5, <1>7, <2>1
<1>9. ASSUME NEW i \in b..Len(t)
      PROVE  i + (n - b + 1) <= Len(s) /\ s[i + (n - b + 1)] = t[i]
  <2> DEFINE k == i - b + 1
  <2>1. /\ k \in 1..(Len(t) - b + 1) /\ k + b - 1 = i /\ n + k = i + (n - b + 1)
        /\ n + k \in 1..(n + Len(t) - b + 1)
    BY <1>2
  <2> HIDE DEF k
  <2>2. s[n + k] = both[n + k] /\ n + k <= Len(s)
    BY <1>7, <2>1
  <2>3. both[n + k] = back[k] /\ back[k] = t[i]
    BY <1>1, <1>6, <2>1
  <2> QED
    BY <2>1, <2>2, <2>3
<1>10. /\ Len(t) + 1 + (n - b + 1) <= Len(s)
       /\ s[Len(t) + 1 + (n - b + 1)] = r[1]
  <2>1. 1 \in 1..Len(r)
    BY <1>2
  <2>2. Len(both) + 1 <= Len(s) /\ s[Len(both) + 1] = r[1]
    BY <1>3, <1>4, <2>1, BackOfConcat
  <2>3. Len(both) + 1 = Len(t) + 1 + (n - b + 1)
    BY <1>2, <1>4
  <2> QED
    BY <2>2, <2>3
<1> QED
  BY <1>8, <1>9, <1>10 DEF s

\* The places of a grid of n rows and w columns, numbered from 1.
LEMMA InGrid ==
  ASSUME NEW w \in Nat \ {0}, NEW n \in Nat \ {0}, NEW h \in 0..(n - 1), NEW j \in 1..w
  PROVE  /\ h * w \in Nat /\ n * w \in Nat /\ (h + 1) * w = h * w + w
         /\ h * w + j <= n * w
         /\ h < n - 1 => h * w + w < n * w
         /\ h = n - 1 => h * w + w = n * w
<1>1. h * w \in Nat /\ n * w \in Nat /\ (h + 1) * w = h * w + w
  OBVIOUS
<1>2. (h + 1) * w <= n * w
  BY MulMonotone
<1>3. h < n - 1 => (h + 2) * w <= n * w
  BY MulMonotone
<1>4. (h + 2) * w = (h + 1) * w + w
  OBVIOUS
<1>5. h = n - 1 => (h + 1) * w = n * w
  OBVIOUS
<1> QED
  BY <1>1, <1>2, <1>3, <1>4, <1>5

\* The stream consists of front, the tokens from the fault on and the rest.
HasFront(front) ==
  LET t == ScanTokens(scan)
  IN  /\ front \in Seq(Tokens) /\ Len(front) = fault.at - 1 + Added
      /\ \A i \in 1..(fault.at - 1) : front[i] = t[i]
      /\ stream = Joined(front, t, fault.at + (Added - Shift), Rest(scan))

\* What comes behind the scan begins with the marker that ends it.
LEMMA RestFirst == Len(Rest(scan)) > 0 /\ Rest(scan)[1] = Marker(scan.last)
<1> DEFINE m == <<Marker(scan.last)>>
           more == <<Data(GARBAGE), Data(GARBAGE), Marker(M_EOI)>>
<1>1. Rest(scan) = m \o (IF scan.last = M_SOS THEN more ELSE <<>>)
  BY DEF Rest
<1> DEFINE S == {Data(GARBAGE), Marker(M_EOI), Marker(scan.last)}
<1>2. m \in Seq(S) /\ Len(m) = 1 /\ m[1] = Marker(scan.last)
  OBVIOUS
<1>3. more \in Seq(S) /\ <<>> \in Seq(S)
  OBVIOUS
<1> HIDE DEF m, more, S
<1>4. ASSUME NEW x \in Seq(S)
      PROVE  Len(m \o x) = 1 + Len(x) /\ (m \o x)[1] = m[1] /\ Len(x) \in Nat
  <2>1. 1 \in 1..Len(m) /\ Len(x) \in Nat
    BY <1>2
  <2>2. Len(m \o x) = 1 + Len(x)
    BY <1>2, ConcatType
  <2>3. (m \o x)[1] = m[1]
    BY <1>2, <2>1, FrontOfConcat
  <2> QED
    BY <2>1, <2>2, <2>3
<1> QED
  BY <1>1, <1>2, <1>3, <1>4

\* In the stream of a fault with one or no token of its own, the tokens of the
\* scan stand where they were or Shift tokens further.
LEMMA Displaced ==
  ASSUME TypeInv, NEW front, HasFront(front)
  PROVE  /\ \A p, h, j \in Int : Before(p, h, j) \/ Behind(p, h, j) => Token(p) = TokenAt(h, j)
         /\ Added = 1 => Token(fault.at) = front[fault.at]
<1> DEFINE t == ScanTokens(scan)
<1>1. /\ scan.interval \in Nat \ {0} /\ scan.segments \in Nat \ {0} /\ scan \in Scans
      /\ Period \in Nat \ {0} /\ Period = scan.interval + 1
  BY Sizes DEF TypeInv, StreamInv
<1>11. /\ fault.at \in Nat \ {0} /\ Added \in 0..1 /\ Shift \in Int
       /\ Added - Shift \in 0..1
  BY Sizes
<1>2. /\ Len(t) = scan.segments * Period - 1 /\ Len(t) \in Nat
      /\ scan.segments * Period \in Nat
  <2>1. 0 \in 0..(scan.segments - 1)
    BY <1>1
  <2>2. Len(t) = scan.segments * Period - 1 /\ Len(t) \in Nat
    BY <1>1, <2>1, ScanTokenAt DEF Period
  <2> QED
    BY <1>1, <2>2
<1>3. fault.at \in 1..Len(t)
  BY FaultAssumption DEF TypeInv, StreamInv
<1>4. t \in Seq(Tokens) /\ Rest(scan) \in Seq(Tokens)
  BY <1>1, ScanTokensType, RestType
<1> HIDE DEF t
<1>5. PICK a \in Nat \ {0}, b \in Nat \ {0}, n \in Nat, s \in Int :
        /\ a = fault.at /\ b = a + (Added - Shift) /\ n = a - 1 + Added /\ s = Shift
        /\ b \in 1..(Len(t) + 1) /\ n - b + 1 = s
  BY <1>2, <1>3, <1>11
<1>12. a = fault.at /\ b = a + (Added - Shift) /\ n = a - 1 + Added /\ s = Shift
  BY <1>5
<1>6. /\ front \in Seq(Tokens) /\ Len(front) = n /\ \A i \in 1..(a - 1) : front[i] = t[i]
      /\ stream = Joined(front, t, b, Rest(scan))
  BY <1>5 DEF HasFront, t
<1>7. /\ \A i \in 1..n : i <= Len(stream) /\ stream[i] = front[i]
      /\ \A i \in b..Len(t) : i + s <= Len(stream) /\ stream[i + s] = t[i]
      /\ Len(t) + 1 + s <= Len(stream) /\ stream[Len(t) + 1 + s] = Marker(scan.last)
  <2>1. /\ \A i \in 1..n : i <= Len(stream) /\ stream[i] = front[i]
        /\ \A i \in b..Len(t) :
             i + (n - b + 1) <= Len(stream) /\ stream[i + (n - b + 1)] = t[i]
        /\ Len(t) + 1 + (n - b + 1) <= Len(stream)
        /\ stream[Len(t) + 1 + (n - b + 1)] = Rest(scan)[1]
    <3>1. /\ Len(Rest(scan)) > 0 /\ front \in Seq(Tokens)
          /\ a \in Nat \ {0} /\ b \in 1..(Len(t) + 1) /\ n \in Nat
      BY <1>5, <1>6, RestFirst
    <3> QED
      BY SMTT(30), <1>4, <1>6, <3>1, FrontAndBack
  <2> QED
    BY <1>5, <2>1, RestFirst
<1>8. ASSUME NEW p \in Int, NEW h \in Int, NEW j \in Int, Before(p, h, j)
      PROVE  Token(p) = TokenAt(h, j)
  <2>1. /\ h \in 0..(scan.segments - 1) /\ j \in 1..Period
        /\ p = h * Period + j /\ p < a
    BY <1>5, <1>8 DEF Before
  <2>2. h * Period + j < scan.segments * Period
    BY <1>2, <1>3, <1>5, <2>1
  <2>3. p \in 1..Len(t) /\ t[p] = TokenAt(h, j)
    BY <1>2, <2>1, <2>2, IntactTokenAt DEF t
  <2>4. p \in 1..(a - 1) /\ p \in 1..n
    <3>1. p >= 1 /\ p < a /\ a - 1 <= n
      BY SMTT(30), <1>11, <1>12, <2>1, <2>3
    <3> QED
      BY <3>1
  <2> QED
    BY <1>6, <1>7, <2>3, <2>4 DEF Token
<1>9. ASSUME NEW p \in Int, NEW h \in Int, NEW j \in Int, Behind(p, h, j)
      PROVE  Token(p) = TokenAt(h, j)
  <2>1. /\ h \in 0..(scan.segments - 1) /\ j \in 1..Period
        /\ p = h * Period + j + s /\ p >= a + Added
    BY <1>5, <1>9 DEF Behind
  <2> DEFINE base == h * Period
             len == scan.segments * Period
  <2>0. /\ base \in Nat /\ len \in Nat /\ base + j <= len
        /\ h < scan.segments - 1 => base + Period < len
        /\ h = scan.segments - 1 => base + Period = len
    BY <1>1, <2>1, InGrid
  <2> HIDE DEF base, len
  <2>2. PICK i \in Nat : i = base + j /\ i <= len
    BY <1>1, <2>0, <2>1
  <2>3. i >= b /\ p = i + s
    <3>1. p = i + s
      BY <2>1, <2>2 DEF base
    <3> QED
      BY <1>11, <1>12, <2>1, <3>1
  <2>4. CASE i < len
    <3>1. i \in 1..Len(t) /\ t[i] = TokenAt(h, j)
      BY <1>2, <2>1, <2>2, <2>4, IntactTokenAt DEF t, base, len
    <3>2. i \in b..Len(t)
      BY <1>2, <2>3, <3>1
    <3> QED
      BY <1>7, <2>3, <3>1, <3>2 DEF Token
  <2>5. CASE i = len
    <3>1. ~(h < scan.segments - 1)
      BY <1>1, <2>0, <2>1, <2>2, <2>5
    <3>2. j = Period
      BY <1>1, <2>0, <2>1, <2>2, <2>5, <3>1
    <3>3. TokenAt(h, j) = Marker(scan.last)
      BY <1>1, <3>1, <3>2 DEF TokenAt
    <3>4. p = Len(t) + 1 + s
      BY <1>2, <2>3, <2>5 DEF len
    <3> QED
      BY <1>7, <3>3, <3>4 DEF Token
  <2> QED
    BY <2>0, <2>2, <2>4, <2>5
<1>10. ASSUME Added = 1
       PROVE  Token(fault.at) = front[fault.at]
  <2>1. fault.at \in 1..n
    BY <1>10, <1>11, <1>12
  <2> QED
    BY <1>7, <2>1 DEF Token
<1> QED
  BY <1>8, <1>9, <1>10

\* Seven is the modulus less one: every restart marker is 0 to 7 ahead of any.
LEMMA AheadOf ==
  ASSUME NEW g \in Nat, NEW code \in M_RST0..M_RST7
  PROVE  \E c \in 0..7 : code = Ahead(g, c)
<1> DEFINE r == code - M_RST0
           c == (r - g) % 8
<1>1. r \in 0..7 /\ c \in 0..7
  BY DEF M_RST0, M_RST7
<1>2. (g + c) % 8 = r
  BY <1>1
<1>3. code = Ahead(g, c)
  BY <1>2 DEF Ahead, M_RST0
<1> QED
  BY <1>1, <1>3

\* The row and the column of place a in a grid of n rows and w columns; the last
\* place of the grid left out.
LEMMA RowOf ==
  ASSUME NEW w \in Nat \ {0}, NEW n \in Nat \ {0}, NEW a \in Nat \ {0}, a < n * w
  PROVE  LET k == (a - 1) \div w
         IN  /\ k \in 0..(n - 1) /\ k * w \in Nat /\ k * w < a /\ a <= k * w + w
             /\ \E j \in 1..w :
                  /\ a = k * w + j
                  /\ j = w => k < n - 1
                  /\ a % w = 0 => j = w
<1> DEFINE k == (a - 1) \div w
<1>1. a - 1 \in Nat
  OBVIOUS
<1>2. k \in Nat /\ w * k <= a - 1 /\ a - 1 < w * k + w
  BY <1>1, DivBounds
<1> HIDE DEF k
<1>3. w * k = k * w /\ k * w \in Nat
  BY <1>2
<1> DEFINE base == k * w
<1>4. base \in Nat /\ base < a /\ a <= base + w
  BY <1>2, <1>3
<1>5. k \in 0..(n - 1)
  <2>1. CASE k >= n
    <3>1. n * w <= base
      BY <1>2, <2>1, MulMonotone
    <3>2. n * w \in Nat
      OBVIOUS
    <3> QED
      BY <1>4, <3>1, <3>2
  <2> QED
    BY <1>2, <2>1
<1>6. k = n - 1 => base + w = n * w
  BY <1>5, InGrid
<1>7. a = base + (a - base) /\ a - base \in 1..w
  <2> HIDE DEF base
  <2> QED
    BY <1>4
<1>8. a - base = w => k < n - 1
  <2>1. n * w \in Nat
    OBVIOUS
  <2>2. k # n - 1 => k < n - 1
    BY <1>5
  <2> HIDE DEF base
  <2> QED
    BY <1>4, <1>6, <2>1, <2>2
<1>9. a % w = 0 => a - base = w
  <2>1. ASSUME a - base < w
        PROVE  a % w # 0
    <3>1. a - base \in 0..(w - 1) /\ k \in Int
      BY <1>2, <1>7, <2>1
    <3>2. (k * w + (a - base)) % w = a - base
      BY <3>1, ModUnique
    <3> QED
      BY <1>7, <3>2
  <2> HIDE DEF base
  <2> QED
    BY <1>7, <2>1
<1> QED
  BY <1>3, <1>4, <1>5, <1>7, <1>8, <1>9 DEF k

\* The token a recoverable fault puts in place, as the decoder at it sees it.
Harmless(token) ==
  token.kind = "marker" =>
    \/ token.code < M_SOF0
    \/ \E c \in 0..7 :
         /\ token.code = Ahead(D, c)
         /\ c = 2 => Shift = 0 /\ fault.at = D * Period + Period

\* Where the fault is in the scan.
LEMMA FaultRow ==
  ASSUME TypeInv
  PROVE  /\ fault.at < scan.segments * Period
         /\ D \in Nat /\ D * Period \in Nat /\ D \in 0..(scan.segments - 1)
         /\ D * Period < fault.at /\ fault.at <= D * Period + Period
         /\ \E j \in 1..Period :
              /\ fault.at = D * Period + j
              /\ j = Period => D < scan.segments - 1
              /\ fault.at % Period = 0 => j = Period
<1>1. /\ scan.interval \in Nat \ {0} /\ scan.segments \in Nat \ {0} /\ scan \in Scans
      /\ Period \in Nat \ {0} /\ Period = scan.interval + 1
  BY Sizes DEF TypeInv, StreamInv
<1>2. fault.at \in Nat \ {0} /\ fault.at \in 1..Len(ScanTokens(scan))
  BY Sizes, FaultAssumption DEF TypeInv, StreamInv
<1>3. /\ Len(ScanTokens(scan)) = scan.segments * Period - 1
      /\ Len(ScanTokens(scan)) \in Nat
  <2>1. 0 \in 0..(scan.segments - 1)
    BY <1>1
  <2> QED
    BY <1>1, <2>1, ScanTokenAt DEF Period
<1>4. fault.at < scan.segments * Period
  <2>1. scan.segments * Period \in Nat
    BY <1>1
  <2> QED
    BY <1>2, <1>3, <2>1
<1>5. D = (fault.at - 1) \div Period
  BY <1>1 DEF D, SegmentAt
<1> DEFINE k == (fault.at - 1) \div Period
<1>6. /\ k \in 0..(scan.segments - 1) /\ k * Period \in Nat
      /\ k * Period < fault.at /\ fault.at <= k * Period + Period
      /\ \E j \in 1..Period :
           /\ fault.at = k * Period + j
           /\ j = Period => k < scan.segments - 1
           /\ fault.at % Period = 0 => j = Period
  <2>1. Period \in Nat \ {0} /\ scan.segments \in Nat \ {0} /\ fault.at \in Nat \ {0}
    BY <1>1, <1>2
  <2> QED
    BY <1>4, <2>1, RowOf
<1>7. D = k /\ (k \in 0..(scan.segments - 1) => k \in Nat)
  BY <1>1, <1>5
<1> HIDE DEF k
<1> QED
  BY <1>4, <1>6, <1>7

\* A scan with a recoverable fault has the shape of one.
LEMMA RecoverableShape ==
  ASSUME TypeInv, Recoverable
  PROVE  DamagedShape
<1> DEFINE t == ScanTokens(scan)
           up(i) == SubSeq(t, 1, i)
<1>1. /\ scan.interval \in Nat \ {0} /\ scan.segments \in Nat \ {0} /\ scan \in Scans
      /\ Period \in Nat \ {0} /\ Period = scan.interval + 1
  BY Sizes DEF TypeInv, StreamInv
<1>2. fault.at \in Nat \ {0} /\ fault.at \in 1..Len(t) /\ fault.token \in FaultTokens
  <2>1. fault.at \in 1..Len(t) /\ fault.token \in FaultTokens
    BY FaultAssumption DEF TypeInv, StreamInv
  <2> QED
    BY <2>1, Sizes
<1>3. t \in Seq(Tokens) /\ Len(t) = scan.segments * Period - 1 /\ Len(t) \in Nat
  <2>1. 0 \in 0..(scan.segments - 1)
    BY <1>1
  <2> QED
    BY <1>1, <2>1, ScanTokenAt, ScanTokensType DEF Period
<1>4. fault.at < scan.segments * Period
  BY FaultRow
<1>5. /\ D \in Nat /\ D * Period \in Nat /\ D \in 0..(scan.segments - 1)
      /\ D * Period < fault.at /\ fault.at <= D * Period + Period
  BY FaultRow
<1>6. PICK col \in 1..Period :
        /\ fault.at = D * Period + col
        /\ col = Period => D < scan.segments - 1
        /\ fault.at % Period = 0 => col = Period
  BY FaultRow
<1> HIDE DEF t
<1>7. \A i \in 0..Len(t) : /\ up(i) \in Seq(Tokens) /\ Len(up(i)) = i
                          /\ \A k \in 1..i : up(i)[k] = t[k]
  BY <1>3
<1> HIDE DEF up
\* It is enough to find the front and to look at its last token.
<1>8. ASSUME NEW front, HasFront(front), Added = 1 => Harmless(front[fault.at])
      PROVE  DamagedShape
  <2>1. /\ \A p, h, j \in Int : Before(p, h, j) \/ Behind(p, h, j) => Token(p) = TokenAt(h, j)
        /\ Added = 1 => Token(fault.at) = front[fault.at]
    BY <1>8, Displaced
  <2>2. Added = 1 => Harmless(Token(fault.at))
    BY <1>8, <2>1
  <2> QED
    BY <1>4, <1>5, <2>1, <2>2 DEF DamagedShape, Harmless
<1>9. CASE fault.kind = "lose" /\ fault.count = 1
  <2>1. Added = 0 /\ Shift = -1 /\ Added - Shift = 1
    BY <1>9 DEF Added, Shift
  <2>2. stream = Joined(up(fault.at - 1), t, fault.at + 1, Rest(scan))
    BY <1>9 DEF TypeInv, StreamInv, Damaged, Joined, up, t
  <2>3. HasFront(up(fault.at - 1))
    <3>1. fault.at - 1 \in 0..Len(t)
      BY <1>2, <1>3
    <3> QED
      BY <1>2, <1>7, <2>1, <2>2, <3>1 DEF HasFront, t
  <2> QED
    BY <1>8, <2>1, <2>3
<1>10. CASE fault.kind = "repeat" /\ fault.count = 1
  <2>1. Added = 1 /\ Shift = 1 /\ Added - Shift = 0
    BY <1>10 DEF Added, Shift
  <2>2. stream = Joined(up(fault.at), t, fault.at, Rest(scan))
    BY <1>10 DEF TypeInv, StreamInv, Damaged, Joined, up, t
  <2>3. fault.at \in 0..Len(t)
    BY <1>2, <1>3
  <2>4. HasFront(up(fault.at))
    <3>1. fault.at - 1 + Added = fault.at /\ fault.at + (Added - Shift) = fault.at
      BY <1>2, <2>1
    <3>2. \A i \in 1..(fault.at - 1) : i \in 1..fault.at
      BY <1>2
    <3> QED
      BY <1>7, <2>2, <2>3, <3>1, <3>2 DEF HasFront, t
  <2>5. up(fault.at)[fault.at] = t[fault.at]
    BY <1>2, <1>7, <2>3
  <2>7. t[fault.at] = TokenAt(D, col)
    BY <1>4, <1>5, <1>6, IntactTokenAt DEF t
  <2>8. Harmless(TokenAt(D, col))
    <3>1. CASE col <= scan.interval
      BY <3>1 DEF Harmless, TokenAt, Data
    <3>2. CASE ~(col <= scan.interval)
      <4>1. col = Period
        BY <1>1, <3>2
      <4>2. D < scan.segments - 1
        BY <1>6, <4>1
      <4>3. TokenAt(D, col).code = Ahead(D, 0)
        BY <1>5, <3>2, <4>2 DEF TokenAt, Rst, Marker, Ahead
      <4>4. 0 \in 0..7 /\ 0 # 2
        OBVIOUS
      <4> QED
        BY <4>3, <4>4 DEF Harmless
    <3> QED
      BY <3>1, <3>2
  <2> QED
    BY <1>8, <2>4, <2>5, <2>7, <2>8
<1>11. CASE fault.kind \in {"replace", "insert"} /\ Recoverable
  <2> DEFINE front == up(fault.at - 1) \o <<fault.token>>
  <2>1. fault.token \in Tokens
    BY <1>2 DEF FaultTokens, Tokens, Data, Marker, GARBAGE
  <2>2. fault.at - 1 \in 0..Len(t)
    BY <1>2, <1>3
  <2>3. /\ front \in Seq(Tokens) /\ Len(front) = fault.at
        /\ \A i \in 1..(fault.at - 1) : front[i] = t[i]
        /\ front[fault.at] = fault.token
    <3>1. /\ up(fault.at - 1) \in Seq(Tokens) /\ Len(up(fault.at - 1)) = fault.at - 1
          /\ \A i \in 1..(fault.at - 1) : up(fault.at - 1)[i] = t[i]
      BY <1>7, <2>2
    <3>2. <<fault.token>> \in Seq(Tokens) /\ Len(<<fault.token>>) = 1
          /\ 1 \in 1..Len(<<fault.token>>) /\ <<fault.token>>[1] = fault.token
      BY <2>1
    <3>3. front \in Seq(Tokens) /\ Len(front) = fault.at
      BY <1>2, <3>1, <3>2, ConcatType
    <3>4. \A i \in 1..(fault.at - 1) : front[i] = t[i]
      BY <3>1, <3>2, FrontOfConcat
    <3>5. front[(fault.at - 1) + 1] = fault.token
      BY <3>1, <3>2, BackOfConcat
    <3>6. (fault.at - 1) + 1 = fault.at
      BY <1>2
    <3> QED
      BY <3>3, <3>4, <3>5, <3>6
  <2>4. Added = 1 /\ fault.at - 1 + Added = fault.at
    BY <1>2, <1>11 DEF Added
  <2>5. stream = Joined(front, t, fault.at + (Added - Shift), Rest(scan))
    <3>1. CASE fault.kind = "replace"
      <4>1. Added - Shift = 1
        BY <3>1 DEF Added, Shift
      <4> QED
        BY <3>1, <4>1 DEF TypeInv, StreamInv, Damaged, Joined, up, t
    <3>2. CASE fault.kind = "insert"
      <4>1. fault.at + (Added - Shift) = fault.at
        BY <1>2, <3>2 DEF Added, Shift
      <4> QED
        BY <3>2, <4>1 DEF TypeInv, StreamInv, Damaged, Joined, up, t
    <3> QED
      BY <1>11, <3>1, <3>2
  <2>6. HasFront(front)
    <3> HIDE DEF front
    <3> QED
      BY <2>3, <2>4, <2>5 DEF HasFront, t
  <2>7. Harmless(fault.token)
    <3>1. CASE fault.token.kind = "data"
      BY <3>1 DEF Harmless
    <3>2. CASE fault.token.kind = "marker" /\ fault.token.code \in M_RST0..M_RST7
      <4>1. PICK c \in 0..7 : fault.token.code = Ahead(D, c)
        BY <1>5, <3>2, AheadOf
      <4>2. ASSUME c = 2
            PROVE  Shift = 0 /\ fault.at = D * Period + Period
        <5>1. fault.token = Rst(D + 2)
          BY <1>2, <3>2, <4>1, <4>2 DEF FaultTokens, Data, Marker, Rst, Ahead
        <5>2. fault.kind = "replace" /\ fault.at % Period = 0
          <6>1. ~(fault.token.code < M_SOF0)
            BY <3>2 DEF M_SOF0, M_RST0, M_RST7
          <6> QED
            BY <1>11, <3>2, <5>1, <6>1 DEF Recoverable, D, Period
        <5>3. fault.at = D * Period + Period
          BY <1>6, <5>2
        <5> QED
          BY <5>2, <5>3 DEF Shift
      <4> QED
        BY <4>1, <4>2 DEF Harmless
    <3>3. CASE fault.token.kind = "marker" /\ fault.token.code < M_SOF0
      BY <3>3 DEF Harmless
    <3>4. fault.token.kind = "data" \/ fault.token.kind = "marker"
      BY <2>1 DEF Tokens
    <3> QED
      BY <1>11, <3>1, <3>2, <3>3, <3>4 DEF Recoverable
  <2> QED
    BY <1>8, <2>3, <2>6, <2>7
<1> QED
  BY <1>9, <1>10, <1>11 DEF Recoverable

-----------------------------------------------------------------------------
(* What the decoder does next, from each place.                            *)

\* The eight markers are told apart, and from what is no restart marker.
LEMMA AheadDistinct ==
  ASSUME NEW g \in Nat, NEW c \in 0..7, NEW e \in 0..7
  PROVE  /\ Ahead(g, c) \in M_RST0..M_RST7
         /\ Ahead(g, c) = Ahead(g, e) => c = e
<1>1. (g + c) % 8 \in 0..7 /\ (g + e) % 8 \in 0..7
  OBVIOUS
<1>2. (g + c) % 8 = (g + e) % 8 => c = e
  OBVIOUS
<1> QED
  BY <1>1, <1>2 DEF Ahead, M_RST0, M_RST7

\* The token that comes after the fault.
LEMMA AfterFault ==
  ASSUME TypeInv
  PROVE  \E h, j \in Int :
           /\ Behind(fault.at + Added, h, j)
           /\ h = D \/ h = D + 1
           /\ Shift = 0 /\ fault.at = D * Period + Period => h = D + 1
<1>1. /\ Period \in Nat \ {0} /\ scan.segments \in Nat \ {0} /\ fault.at \in Nat
      /\ Added \in Nat /\ Shift \in Int
  BY Sizes
<1>2. PICK i \in 1..Period : fault.at = D * Period + i /\ (i = Period => D < scan.segments - 1)
  BY FaultRow
<1>3. D \in Nat /\ D * Period \in Nat /\ D \in 0..(scan.segments - 1)
  BY FaultRow
<1>4. CASE Added = Shift
  <2>1. Behind(fault.at + Added, D, i)
    BY <1>1, <1>2, <1>3, <1>4 DEF Behind
  <2>2. Shift # 0
    BY <1>4 DEF Added, Shift
  <2> QED
    BY <1>1, <1>2, <1>3, <2>1, <2>2
<1>5. CASE Added = Shift + 1 /\ i < Period
  <2>1. i + 1 \in 1..Period
    BY <1>1, <1>5
  <2>2. fault.at + Added = D * Period + (i + 1) + Shift
    BY <1>1, <1>2, <1>3, <1>5
  <2>3. Behind(fault.at + Added, D, i + 1)
    BY <1>1, <1>3, <2>1, <2>2 DEF Behind
  <2>4. fault.at # D * Period + Period
    BY <1>1, <1>2, <1>3, <1>5
  <2> QED
    BY <1>1, <1>2, <1>3, <2>3, <2>4
<1>6. CASE Added = Shift + 1 /\ i = Period
  <2>1. D + 1 \in 0..(scan.segments - 1) /\ 1 \in 1..Period
    BY <1>1, <1>2, <1>3, <1>6
  <2>2. (D + 1) * Period = D * Period + Period
    BY <1>1, <1>3, InGrid
  <2>3. fault.at + Added = (D + 1) * Period + 1 + Shift
    BY <1>1, <1>2, <1>3, <1>6, <2>2
  <2>4. Behind(fault.at + Added, D + 1, 1)
    BY <1>1, <2>1, <2>3 DEF Behind
  <2> QED
    BY <1>3, <2>4
<1>7. Added = Shift \/ Added = Shift + 1
  BY DEF Added, Shift
<1> QED
  BY <1>1, <1>2, <1>4, <1>5, <1>6, <1>7

\* Only in segment D does the decoder come to the fault.
LEMMA FaultSegment ==
  ASSUME TypeInv, NEW g \in Nat, NEW n \in 0..scan.interval,
         fault.at = g * Period + n + 1
  PROVE  g = D
<1>1. /\ Period \in Nat \ {0} /\ Period = scan.interval + 1 /\ fault.at \in Nat \ {0}
      /\ scan.interval \in Nat \ {0}
  BY Sizes
<1>2. Period * g = g * Period /\ g * Period \in Nat /\ n \in Nat
  BY <1>1
<1>3. /\ fault.at - 1 \in Nat /\ Period * g <= fault.at - 1
      /\ fault.at - 1 < Period * g + Period
  <2>1. PICK base \in Nat : base = g * Period
    BY <1>2
  <2>2. n < Period /\ n \in Nat
    BY <1>1
  <2>3. fault.at - 1 = base + n /\ Period * g = base
    BY <1>1, <1>2, <2>1, <2>2
  <2>4. base + n \in Nat /\ base <= base + n /\ base + n < base + Period
    BY <1>1, <2>1, <2>2
  <2> QED
    BY <2>3, <2>4
<1>4. (fault.at - 1) \div Period = g
  BY <1>1, <1>3, DivUnique
<1> QED
  BY <1>1, <1>4 DEF D, SegmentAt

\* With no marker held the decoder behind the fault is near enough.
LEMMA OffAfterFault ==
  ASSUME TypeInv, NEW u, Waiting(D, u)
  PROVE  Off(D, fault.at + Added, u)
<1>1. PICK h, j \in Int : Behind(fault.at + Added, h, j) /\ (h = D \/ h = D + 1)
  BY AfterFault
<1>2. D \in Nat
  BY FaultRow
<1>3. Near(D, h) /\ Spoilt(D)
  BY <1>1, <1>2 DEF Near, Spoilt
<1> QED
  BY <1>1, <1>3 DEF Off

\* The token of the fault, whatever it is, leads there too.
LEMMA OverFault ==
  ASSUME TypeInv, DamagedShape, Added = 1
  PROVE  /\ Token(fault.at).kind = "data" => Off(D, fault.at + 1, 0)
         /\ Token(fault.at).kind = "marker" => Off(D, fault.at + 1, Token(fault.at).code)
<1>1. D \in Nat /\ Waiting(D, 0)
  BY FaultRow DEF Waiting, M_SOF0
<1>2. Token(fault.at).kind = "data" => Off(D, fault.at + 1, 0)
  BY <1>1, OffAfterFault
<1>3. ASSUME Token(fault.at).kind = "marker", Token(fault.at).code < M_SOF0
      PROVE  Off(D, fault.at + 1, Token(fault.at).code)
  BY <1>3, OffAfterFault DEF Waiting
<1>4. ASSUME Token(fault.at).kind = "marker", NEW c \in 0..7,
             Token(fault.at).code = Ahead(D, c),
             c = 2 => Shift = 0 /\ fault.at = D * Period + Period
      PROVE  Off(D, fault.at + 1, Token(fault.at).code)
  <2>1. CASE c \in {6, 7}
    BY <1>4, <2>1, OffAfterFault DEF Waiting
  <2>2. CASE c \in 0..5
    <3>1. PICK h, j \in Int :
            /\ Behind(fault.at + Added, h, j)
            /\ h = D \/ h = D + 1
            /\ Shift = 0 /\ fault.at = D * Period + Period => h = D + 1
      BY AfterFault
    <3>2. Landing(D, c) <= D + 3 /\ Near(Landing(D, c), h) /\ Spoilt(D)
      BY <1>1, <1>4, <2>2, <3>1 DEF Landing, Near, Spoilt
    <3> QED
      BY <1>4, <2>2, <3>1, <3>2 DEF Off
  <2> QED
    BY <1>4, <2>1, <2>2
<1> QED
  BY <1>2, <1>3, <1>4 DEF DamagedShape

\* Out of step, one more MCU does not change where the decoder is.
LEMMA OffData ==
  ASSUME TypeInv, DamagedShape, NEW g \in Nat, NEW p \in Nat, NEW u,
         Off(g, p, u), Waiting(g, u), Token(p).kind = "data"
  PROVE  Off(g, p + 1, u)
<1>1. /\ Period \in Nat \ {0} /\ Period = scan.interval + 1 /\ scan.interval \in Nat \ {0}
      /\ Shift \in Int /\ Added \in Nat /\ fault.at \in Nat
  BY Sizes
<1>2. PICK h, j \in Int :
        /\ Behind(p, h, j)
        /\ \/ Waiting(g, u) /\ Near(g, h)
           \/ \E c \in 0..5 : u = Ahead(g, c)
  BY DEF Off
<1>3. \A c \in 0..5 : u # Ahead(g, c)
  <2>1. \A c \in 0..5 : Ahead(g, c) # Ahead(g, 6) /\ Ahead(g, c) # Ahead(g, 7)
    BY AheadDistinct
  <2>2. \A c \in 0..5 : ~(Ahead(g, c) < M_SOF0)
    BY AheadDistinct DEF M_SOF0, M_RST0, M_RST7
  <2> QED
    BY <2>1, <2>2 DEF Waiting
<1>4. Token(p) = TokenAt(h, j)
  BY <1>2 DEF DamagedShape
<1>5. j \in 1..Period /\ j <= scan.interval
  <2>1. ~(j <= scan.interval) => TokenAt(h, j).kind = "marker"
    BY DEF TokenAt, Rst, Marker
  <2>2. ~(j <= scan.interval) => Token(p).kind = "marker"
    BY <1>4, <2>1
  <2> QED
    BY <1>2, <2>2 DEF Behind
<1>6. Behind(p + 1, h, j + 1)
  <2>1. h * Period \in Int
    BY <1>1
  <2> QED
    BY <1>1, <1>2, <1>5, <2>1 DEF Behind
<1> QED
  BY <1>2, <1>3, <1>6 DEF Off

\* Out of step, the next marker says where the stream is, or that it is over.
LEMMA OffMarker ==
  ASSUME TypeInv, DamagedShape, NEW g \in Nat, NEW p \in Nat, NEW u,
         Off(g, p, u), Waiting(g, u), Token(p).kind = "marker"
  PROVE  Off(g, p + 1, Token(p).code) \/ Ended(g, Token(p).code)
<1>1. /\ Period \in Nat \ {0} /\ Period = scan.interval + 1 /\ scan.interval \in Nat \ {0}
      /\ Shift \in Int /\ Added \in Nat /\ fault.at \in Nat /\ scan.segments \in Nat \ {0}
      /\ D \in Nat
  BY Sizes, FaultRow
<1>2. PICK h, j \in Int :
        /\ Behind(p, h, j)
        /\ \/ Waiting(g, u) /\ Near(g, h)
           \/ \E c \in 0..5 : u = Ahead(g, c)
  BY DEF Off
<1>3. Near(g, h) /\ Spoilt(g)
  <2>1. \A c \in 0..5 : Ahead(g, c) # Ahead(g, 6) /\ Ahead(g, c) # Ahead(g, 7)
    BY AheadDistinct
  <2>2. \A c \in 0..5 : ~(Ahead(g, c) < M_SOF0)
    BY AheadDistinct DEF M_SOF0, M_RST0, M_RST7
  <2> QED
    BY <1>2, <2>1, <2>2 DEF Waiting, Off
<1>4. Token(p) = TokenAt(h, j)
  BY <1>2 DEF DamagedShape
<1>5. ~(j <= scan.interval)
  <2>1. j <= scan.interval => TokenAt(h, j).kind = "data"
    BY DEF TokenAt, Data
  <2>2. j <= scan.interval => Token(p).kind = "data"
    BY <1>4, <2>1
  <2> QED
    BY <2>2
<1>6. /\ h \in 0..(scan.segments - 1) /\ j = Period
      /\ p = h * Period + Period + Shift /\ p >= fault.at + Added
  BY <1>1, <1>2, <1>5 DEF Behind
<1>7. CASE h < scan.segments - 1
  <2>1. Token(p).code = M_RST0 + (h % 8)
    BY <1>4, <1>5, <1>7 DEF TokenAt, Rst, Marker
  <2>2. Behind(p + 1, h + 1, 1)
    <3>1. (h + 1) * Period = h * Period + Period /\ h * Period \in Int
      BY <1>1, <1>6
    <3>2. p + 1 = (h + 1) * Period + 1 + Shift
      BY <1>1, <1>6, <3>1
    <3>3. h + 1 \in 0..(scan.segments - 1) /\ 1 \in 1..Period /\ p + 1 >= fault.at + Added
      BY <1>1, <1>6, <1>7
    <3> QED
      BY <3>2, <3>3 DEF Behind
  <2>3. CASE h = g \/ h = g + 1
    <3>1. PICK c \in 0..1 : h = g + c
      BY <2>3
    <3>2. Token(p).code = Ahead(g, c) /\ c \in 0..5
      BY <2>1, <3>1 DEF Ahead
    <3>3. h + 1 = Landing(g, c) /\ h + 1 <= D + 4
      BY <1>1, <1>3, <1>6, <3>1 DEF Landing, Near
    <3> QED
      BY <1>3, <1>6, <2>2, <3>2, <3>3 DEF Off
  <2>4. CASE h = g - 1 \/ h = g - 2
    <3>1. Token(p).code = Ahead(g, 7) \/ Token(p).code = Ahead(g, 6)
      <4>1. h = g - 1 => h % 8 = (g + 7) % 8
        OBVIOUS
      <4>2. h = g - 2 => h % 8 = (g + 6) % 8
        OBVIOUS
      <4> QED
        BY <2>1, <2>4, <4>1, <4>2 DEF Ahead
    <3>2. Near(g, h + 1)
      BY <1>1, <1>3, <2>4 DEF Near, Spoilt
    <3>3. h + 1 \in Int /\ 1 \in Int
      BY <1>6
    <3> QED
      BY <1>3, <2>2, <3>1, <3>2, <3>3 DEF Off, Waiting
  <2> QED
    BY <1>1, <1>3, <1>6, <2>3, <2>4 DEF Near
<1>8. CASE h = scan.segments - 1
  <2>1. Token(p).code = scan.last
    BY <1>1, <1>4, <1>5, <1>8 DEF TokenAt, Marker
  <2>2. scan.last \in {M_EOI, M_SOS}
    BY ScanAssumption DEF TypeInv, StreamInv
  <2>3. D <= g /\ scan.segments - 1 <= D + 3
    BY <1>1, <1>3, <1>8 DEF Near, Spoilt
  <2> QED
    BY <2>1, <2>2, <2>3 DEF Ended
<1>9. scan.segments \in Nat /\ h \in Int
  BY <1>1
<1>10. h < scan.segments - 1 \/ h = scan.segments - 1
  BY <1>6, <1>9
<1> QED
  BY <1>7, <1>8, <1>10

\* In step, and clear of the fault.
Onward(g, n, p, s) ==
  /\ InStep(g, n, p, 0, s) /\ Token(p) = TokenAt(g, n + 1)
  /\ \/ s = 0 /\ p < fault.at
     \/ s = Shift /\ p >= fault.at + Added

\* With no marker held the decoder is in step, at the fault, or out of step.
LEMMA PlaceCases ==
  ASSUME TypeInv, DamagedShape, NEW g \in 0..(scan.segments - 1),
         NEW n \in 0..scan.interval, NEW p \in Nat, NEW gray,
         Place(g, n, p, 0, gray)
  PROVE  \/ ~gray /\ \E s \in Int : Onward(g, n, p, s)
         \/ Added = 1 /\ p = fault.at /\ g = D
         \/ Off(g, p, 0)
<1>1. /\ Period \in Nat \ {0} /\ Period = scan.interval + 1 /\ scan.interval \in Nat \ {0}
      /\ Shift \in Int /\ Added \in 0..1 /\ fault.at \in Nat /\ scan.segments \in Nat \ {0}
      /\ g \in Nat /\ g * Period \in Nat /\ n \in Nat
  BY Sizes
<1>2. n + 1 \in 1..Period /\ g * Period + n + 1 = g * Period + (n + 1)
  BY <1>1
<1>3. CASE InStep(g, n, p, 0, 0) /\ p < fault.at /\ ~gray
  <2>1. p = g * Period + (n + 1)
    BY <1>1, <1>3 DEF InStep
  <2>2. Before(p, g, n + 1)
    BY <1>2, <1>3, <2>1 DEF Before
  <2>3. Token(p) = TokenAt(g, n + 1)
    BY <1>1, <2>2 DEF DamagedShape
  <2>4. Onward(g, n, p, 0) /\ 0 \in Int
    BY <1>3, <2>3 DEF Onward
  <2> QED
    BY <1>3, <2>4
<1>4. CASE InStep(g, n, p, 0, 0) /\ p = fault.at
  <2>1. p = g * Period + n + 1
    BY <1>1, <1>4 DEF InStep
  <2>2. g = D
    BY <1>1, <1>4, <2>1, FaultSegment
  <2>3. CASE Added = 0
    <3>1. Waiting(D, 0) /\ fault.at + Added = p
      BY <1>1, <1>4, <2>3 DEF Waiting, M_SOF0
    <3> QED
      BY <2>2, <3>1, OffAfterFault
  <2> QED
    BY <1>1, <1>4, <2>2, <2>3
<1>5. CASE InStep(g, n, p, 0, Shift) /\ p >= fault.at + Added /\ ~gray
  <2>1. p = g * Period + (n + 1) + Shift
    BY <1>1, <1>5 DEF InStep
  <2>2. Behind(p, g, n + 1)
    BY <1>2, <1>5, <2>1 DEF Behind
  <2>3. Token(p) = TokenAt(g, n + 1)
    BY <1>1, <2>2 DEF DamagedShape
  <2> QED
    BY <1>1, <1>5, <2>3 DEF Onward
<1>6. ~Ended(g, 0)
  BY DEF Ended, M_EOI, M_SOS
<1>7. p <= fault.at => p < fault.at \/ p = fault.at
  BY <1>1
<1> QED
  BY <1>3, <1>4, <1>5, <1>6, <1>7 DEF Place

\* An MCU is decoded: the one of its place, if the segment is none of the four.
LEMMA PlaceData ==
  ASSUME TypeInv, DamagedShape, NEW g \in 0..(scan.segments - 1),
         NEW n \in 0..(scan.interval - 1), NEW p \in Nat, NEW gray,
         Place(g, n, p, 0, gray), Token(p).kind = "data"
  PROVE  /\ Place(g, n + 1, p + 1, 0, gray)
         /\ Spoilt(g) \/ Token(p).mcu = g * scan.interval + n
<1>1. /\ scan.interval \in Nat \ {0} /\ scan.segments \in Nat \ {0} /\ fault.at \in Nat
      /\ Period \in Nat \ {0} /\ Shift \in Int /\ Added \in Nat
      /\ g \in Nat /\ n \in Nat /\ n \in 0..scan.interval /\ g * Period \in Nat
      /\ g * scan.interval \in Nat /\ n + 1 <= scan.interval
  BY Sizes
<1>2. CASE ~gray /\ \E s \in Int : Onward(g, n, p, s)
  <2>1. PICK s \in Int : Onward(g, n, p, s)
    BY <1>2
  <2>2. InStep(g, n + 1, p + 1, 0, s)
    BY <1>1, <2>1 DEF Onward, InStep
  <2>3. Place(g, n + 1, p + 1, 0, gray)
    <3>1. s = 0 /\ p < fault.at => p + 1 <= fault.at
      BY <1>1
    <3>2. s = Shift /\ p >= fault.at + Added => p + 1 >= fault.at + Added
      BY <1>1
    <3> QED
      BY <1>2, <2>1, <2>2, <3>1, <3>2 DEF Onward, Place
  <2>4. Token(p).mcu = g * scan.interval + (n + 1) - 1
    BY <1>1, <2>1 DEF Onward, TokenAt, Data
  <2>5. g * scan.interval + (n + 1) - 1 = g * scan.interval + n
    BY <1>1
  <2> QED
    BY <2>3, <2>4, <2>5
<1>3. CASE Added = 1 /\ p = fault.at /\ g = D
  <2>1. Off(g, p + 1, 0)
    BY <1>3, OverFault
  <2> QED
    BY <2>1 DEF Place, Off
<1>4. CASE Off(g, p, 0)
  <2>1. Waiting(g, 0)
    BY DEF Waiting, M_SOF0
  <2>2. Off(g, p + 1, 0)
    BY <1>1, <1>4, <2>1, OffData
  <2> QED
    BY <2>2 DEF Place, Off
<1> QED
  BY <1>1, <1>2, <1>3, <1>4, PlaceCases

\* Data between a finished segment and its marker: the decoder is out of step.
LEMMA PlaceSkip ==
  ASSUME TypeInv, DamagedShape, NEW g \in 0..(scan.segments - 1), NEW p \in Nat, NEW gray,
         Place(g, scan.interval, p, 0, gray), Token(p).kind = "data"
  PROVE  Off(g, p + 1, 0)
<1>1. scan.interval \in Nat \ {0} /\ scan.interval \in 0..scan.interval /\ g \in Nat
  BY Sizes
<1>2. ASSUME NEW s \in Int, Onward(g, scan.interval, p, s)
      PROVE  FALSE
  <2>1. ~(scan.interval + 1 <= scan.interval)
    BY <1>1
  <2>2. TokenAt(g, scan.interval + 1).kind = "marker"
    BY <2>1 DEF TokenAt, Rst, Marker
  <2> QED
    BY <1>2, <2>2 DEF Onward
<1>3. Waiting(g, 0)
  BY DEF Waiting, M_SOF0
<1> QED
  BY <1>1, <1>2, <1>3, PlaceCases, OverFault, OffData

\* The next marker is that of the segment, or the decoder is out of step.
LEMMA PlaceMarker ==
  ASSUME TypeInv, DamagedShape, NEW g \in 0..(scan.segments - 1),
         NEW n \in 0..scan.interval, n = scan.interval => g < scan.segments - 1,
         NEW p \in Nat, NEW gray,
         Place(g, n, p, 0, gray), Token(p).kind = "marker"
  PROVE  \/ Off(g, p + 1, Token(p).code) \/ Ended(g, Token(p).code)
         \/ n = scan.interval /\ Place(g, n, p + 1, Token(p).code, gray)
<1>1. /\ scan.interval \in Nat \ {0} /\ scan.segments \in Nat \ {0} /\ fault.at \in Nat
      /\ Period \in Nat \ {0} /\ Period = scan.interval + 1 /\ Shift \in Int /\ Added \in Nat
      /\ g \in Nat /\ n \in Nat
  BY Sizes
<1>2. CASE ~gray /\ \E s \in Int : Onward(g, n, p, s)
  <2>1. PICK s \in Int : Onward(g, n, p, s)
    BY <1>2
  <2>2. n = scan.interval
    <3>1. n + 1 <= scan.interval => TokenAt(g, n + 1).kind = "data"
      BY DEF TokenAt, Data
    <3>2. ~(n + 1 <= scan.interval)
      BY <2>1, <3>1 DEF Onward
    <3> QED
      BY <1>1, <3>2
  <2>3. Token(p).code = Ahead(g, 0) /\ Ahead(g, 0) # 0
    <3>1. ~(n + 1 <= scan.interval)
      BY <1>1, <2>2
    <3>2. Token(p).code = M_RST0 + (g % 8) /\ g + 0 = g
      BY <1>1, <2>1, <2>2, <3>1 DEF Onward, TokenAt, Rst, Marker
    <3> QED
      BY <3>2 DEF Ahead, M_RST0
  <2>4. p + 1 = (g + 1) * Period + 1 + s
    <3>1. (g + 1) * Period = g * Period + Period /\ g * Period \in Int
      BY <1>1
    <3>2. p = g * Period + n + 1 + s
      BY <2>1 DEF Onward, InStep
    <3> QED
      BY <1>1, <2>2, <3>1, <3>2
  <2>5. InStep(g, n, p + 1, Token(p).code, s)
    BY <2>2, <2>3, <2>4 DEF InStep
  <2>6. s = 0 /\ p < fault.at => p + 1 <= fault.at
    BY <1>1
  <2>7. s = Shift /\ p >= fault.at + Added => p + 1 >= fault.at + Added
    BY <1>1
  <2> QED
    BY <1>2, <2>1, <2>2, <2>5, <2>6, <2>7 DEF Onward, Place
<1>3. CASE Added = 1 /\ p = fault.at /\ g = D
  BY <1>3, OverFault
<1>4. CASE Off(g, p, 0)
  <2>1. Waiting(g, 0)
    BY DEF Waiting, M_SOF0
  <2> QED
    BY <1>1, <1>4, <2>1, OffMarker
<1> QED
  BY <1>2, <1>3, <1>4, PlaceCases

\* A marker held in the midst of a segment, or a gray MCU, tells of the fault.
LEMMA PlaceGray ==
  ASSUME TypeInv, NEW g, NEW n, n # scan.interval, NEW p, NEW u, NEW gray \in BOOLEAN,
         Place(g, n, p, u, gray), gray \/ u # 0
  PROVE  Off(g, p, u) \/ Ended(g, u)
BY DEF Place, InStep

\* Out of step, the four segments are not yet over.
LEMMA OffSpoilt ==
  ASSUME TypeInv, NEW g \in 0..(scan.segments - 1), NEW p, NEW u,
         Off(g, p, u) \/ Ended(g, u)
  PROVE  Spoilt(g)
<1>1. scan.segments \in Nat /\ D \in Nat /\ g \in Nat
  BY Sizes, FaultRow
<1> QED
  BY <1>1 DEF Off, Ended, Spoilt

\* What the decoder does with a marker, by the number of segments it is ahead.
LEMMA ActionAhead ==
  ASSUME NEW g \in Nat, next_restart_num = g % 8, NEW c \in 0..7
  PROVE  Action(Ahead(g, c)) = IF c \in {1, 2} THEN 3 ELSE IF c \in {6, 7} THEN 2 ELSE 1
<1>1. Distant(1) = Ahead(g, 1) /\ Distant(2) = Ahead(g, 2)
  <2>1. ((g % 8) + 1) % 8 = (g + 1) % 8 /\ ((g % 8) + 2) % 8 = (g + 2) % 8
    OBVIOUS
  <2> QED
    BY <2>1 DEF Distant, Ahead
<1>2. Distant(-1) = Ahead(g, 7) /\ Distant(-2) = Ahead(g, 6)
  <2>1. ((g % 8) + (-1)) % 8 = (g + 7) % 8 /\ ((g % 8) + (-2)) % 8 = (g + 6) % 8
    OBVIOUS
  <2> QED
    BY <2>1 DEF Distant, Ahead
<1>3. /\ ~(Ahead(g, c) < M_SOF0)
      /\ ~(Ahead(g, c) < M_RST0 \/ Ahead(g, c) > M_RST7)
  BY AheadDistinct DEF M_SOF0, M_RST0, M_RST7
<1>4. \A e \in 0..7 : Ahead(g, c) = Ahead(g, e) <=> c = e
  BY AheadDistinct
<1>5. /\ Ahead(g, c) \in {Distant(1), Distant(2)} <=> c \in {1, 2}
      /\ Ahead(g, c) \in {Distant(-1), Distant(-2)} <=> c \in {6, 7}
  BY <1>1, <1>2, <1>4
<1> QED
  BY <1>3, <1>5 DEF Action

\* Markers below SOF0 are passed over, and those that end the scan are kept.
LEMMA ActionOther ==
  ASSUME NEW u
  PROVE  /\ u < M_SOF0 => Action(u) = 2
         /\ u \in {M_EOI, M_SOS} => Action(u) = 3
BY DEF Action, M_SOF0, M_RST0, M_RST7, M_EOI, M_SOS

\* The shifts a position in step may have.
Within(p, s) ==
  \/ s = 0 /\ p <= fault.at
  \/ s = Shift /\ p >= fault.at + Added

\* The marker held, by what is done with it.
LEMMA PlaceHeld ==
  ASSUME TypeInv, NEW g \in Nat, next_restart_num = g % 8, NEW p, NEW u, u # 0, NEW gray,
         Place(g, scan.interval, p, u, gray)
  PROVE  \/ /\ Action(u) = 1 /\ ~gray /\ u = Ahead(g, 0)
            /\ \E s \in {0, Shift} : p = (g + 1) * Period + 1 + s /\ Within(p, s)
         \/ Action(u) = 2 /\ Off(g, p, u) /\ Waiting(g, u)
         \/ Off(g, p, u) /\ ~Waiting(g, u) /\ Action(u) # 2
         \/ Action(u) = 3 /\ Ended(g, u)
<1>1. ASSUME NEW s \in {0, Shift}, InStep(g, scan.interval, p, u, s)
      PROVE  Action(u) = 1 /\ u = Ahead(g, 0) /\ p = (g + 1) * Period + 1 + s
  <2>1. Action(Ahead(g, 0)) = 1
    BY ActionAhead
  <2> QED
    BY <1>1, <2>1 DEF InStep
<1>2. ASSUME Off(g, p, u), Waiting(g, u)
      PROVE  Action(u) = 2
  <2>1. Action(Ahead(g, 6)) = 2 /\ Action(Ahead(g, 7)) = 2
    BY ActionAhead
  <2> QED
    BY <1>2, <2>1, ActionOther DEF Waiting
<1>3. ASSUME Off(g, p, u), ~Waiting(g, u)
      PROVE  Action(u) # 2
  <2>1. PICK c \in 0..5 : u = Ahead(g, c)
    BY <1>3 DEF Off
  <2> QED
    BY <2>1, ActionAhead
<1>4. Ended(g, u) => Action(u) = 3
  BY ActionOther DEF Ended
<1> QED
  BY <1>1, <1>2, <1>3, <1>4 DEF Place, Within

\* The marker is the one awaited, or of no use: the next segment is begun.
LEMMA PlaceResume ==
  ASSUME TypeInv, DamagedShape, NEW g \in Nat, g + 1 <= scan.segments - 1,
         next_restart_num = g % 8, NEW p, NEW u, u # 0, NEW gray,
         Place(g, scan.interval, p, u, gray), Action(u) = 1
  PROVE  Place(g + 1, 0, p, 0, FALSE)
<1>1. ASSUME NEW s \in {0, Shift}, p = (g + 1) * Period + 1 + s,
             Within(p, s)
      PROVE  Place(g + 1, 0, p, 0, FALSE)
  <2>1. s \in Int /\ (g + 1) * Period \in Int
    BY Sizes
  <2>2. p = (g + 1) * Period + 0 + 1 + s
    BY <1>1, <2>1
  <2>3. InStep(g + 1, 0, p, 0, s)
    BY <2>2 DEF InStep
  <2> QED
    BY <1>1, <2>3 DEF Place, Within
<1>2. ASSUME Off(g, p, u), ~Waiting(g, u)
      PROVE  Place(g + 1, 0, p, 0, FALSE)
  <2>1. PICK h, j \in Int, c \in 0..5 :
          /\ Behind(p, h, j) /\ u = Ahead(g, c) /\ Spoilt(g)
          /\ \/ h = Landing(g, c) /\ j = 1 /\ h <= D + 4
             \/ Landing(g, c) <= D + 3 /\ Near(Landing(g, c), h)
    BY <1>2 DEF Off
  <2>2. c \notin {1, 2}
    BY <2>1, ActionAhead
  <2>3. Landing(g, c) = g + 1
    BY <2>1, <2>2 DEF Landing
  <2>4. CASE h = g + 1 /\ j = 1
    <3>1. p = (g + 1) * Period + 1 + Shift /\ Within(p, Shift)
      BY <2>1, <2>4 DEF Behind, Within
    <3> QED
      BY <1>1, <3>1
  <2>5. CASE g + 1 <= D + 3 /\ Near(g + 1, h)
    <3>1. Spoilt(g + 1)
      BY <2>1, <2>5, FaultRow DEF Spoilt
    <3>2. Waiting(g + 1, 0)
      BY DEF Waiting, M_SOF0
    <3>3. Off(g + 1, p, 0)
      BY <2>1, <2>5, <3>1, <3>2 DEF Off
    <3> QED
      BY <3>3 DEF Place
  <2> QED
    BY <2>1, <2>3, <2>4, <2>5
<1>3. \/ \E s \in {0, Shift} : p = (g + 1) * Period + 1 + s /\ Within(p, s)
      \/ Off(g, p, u) /\ ~Waiting(g, u)
  BY PlaceHeld
<1> QED
  BY <1>1, <1>2, <1>3

\* The marker is from ahead: it is kept and the next segment goes without data.
LEMMA PlaceLeave ==
  ASSUME TypeInv, DamagedShape, NEW g \in Nat, g + 1 <= scan.segments - 1,
         next_restart_num = g % 8, NEW p, NEW u, u # 0, NEW gray,
         Place(g, scan.interval, p, u, gray), Action(u) = 3
  PROVE  Place(g + 1, 0, p, u, gray)
<1>1. D \in Nat
  BY FaultRow
<1>2. CASE Ended(g, u)
  <2>1. Ended(g + 1, u)
    BY <1>1, <1>2 DEF Ended
  <2> QED
    BY <2>1 DEF Place
<1>3. CASE Off(g, p, u) /\ ~Waiting(g, u)
  <2>1. PICK h, j \in Int, c \in 0..5 :
          /\ Behind(p, h, j) /\ u = Ahead(g, c) /\ Spoilt(g)
          /\ \/ h = Landing(g, c) /\ j = 1 /\ h <= D + 4
             \/ Landing(g, c) <= D + 3 /\ Near(Landing(g, c), h)
    BY <1>3 DEF Off
  <2>2. c \in {1, 2}
    BY <2>1, ActionAhead
  <2>3. /\ u = Ahead(g + 1, c - 1) /\ c - 1 \in 0..5
        /\ Landing(g + 1, c - 1) = Landing(g, c) /\ Landing(g, c) = g + c + 1
    <3>1. g + c = (g + 1) + (c - 1)
      BY <2>1
    <3> QED
      BY <2>1, <2>2, <3>1 DEF Ahead, Landing
  <2>4. Spoilt(g + 1)
    BY <1>1, <2>1, <2>2, <2>3 DEF Spoilt
  <2>5. Off(g + 1, p, u)
    BY <2>1, <2>3, <2>4 DEF Off
  <2> QED
    BY <2>5 DEF Place
<1> QED
  BY <1>2, <1>3, PlaceHeld

-----------------------------------------------------------------------------
(* Each step of the decoder on a stream with one fault.                    *)

\* The MCU delivered is the one of its place, or in one of the four segments.
LEMMA KeptGrows ==
  ASSUME TypeInv, KeptInv, NEW g \in Nat, AtSegment(g), restarts_to_go > 0,
         UNCHANGED <<scan, fault>>, NEW x \in Int, out' = Append(out, x),
         Spoilt(g) \/ x = Len(out)
  PROVE  KeptInv'
<1>1. out \in Seq(Int) /\ Len(out) \in Nat
  BY DEF TypeInv
<1>2. Len(out) \div scan.interval = g
  BY LastSegment
<1>3. /\ Len(out') = Len(out) + 1 /\ out'[Len(out) + 1] = x
      /\ \A q \in 1..Len(out) : out'[q] = out[q]
  BY <1>1
<1>4. \A k : Spoilt(k)' <=> Spoilt(k)
  BY DEF Spoilt, D, SegmentAt
<1>5. ASSUME NEW q \in 1..Len(out'), ~Spoilt((q - 1) \div scan.interval)
      PROVE  out'[q] = q - 1
  <2>1. CASE q = Len(out) + 1
    <3>1. q - 1 = Len(out)
      BY <1>1, <2>1
    <3> QED
      BY <1>2, <1>3, <1>5, <2>1, <3>1
  <2>2. CASE q # Len(out) + 1
    <3>1. q \in 1..Len(out)
      BY <1>1, <1>3, <2>2
    <3> QED
      BY <1>3, <1>5, <3>1 DEF KeptInv
  <2> QED
    BY <2>1, <2>2
<1>6. \A k : Spoilt(k)' <=> Spoilt(k)
  BY <1>4
<1> QED
  BY <1>5 DEF KeptInv, Spoilt, D, SegmentAt

\* The decoder is in step when the scan begins.
LEMMA DamageInit == Init => DamageInv
<1> SUFFICES ASSUME Init PROVE DamageInv
  OBVIOUS
<1>1. TypeInv
  BY TypeInit
<1>2. /\ scan.interval \in Nat \ {0} /\ scan.segments \in Nat \ {0}
      /\ fault.at \in Nat \ {0}
  BY <1>1, Sizes
<1>3. AtSegment(0) /\ 0 \in Nat
  BY <1>2 DEF Init, AtSegment
<1>4. Sent = 0 /\ pos = 1 /\ unread_marker = 0 /\ insufficient_data = FALSE
  BY <1>2 DEF Init, Sent
<1>5. InStep(0, 0, 1, 0, 0)
  <2>1. 0 * Period + 0 + 1 + 0 = 1
    BY <1>1, Sizes
  <2> QED
    BY <2>1 DEF InStep
<1>6. Place(0, 0, 1, 0, FALSE)
  BY <1>2, <1>5 DEF Place
<1>7. SkipInv /\ KeptInv
  BY DEF Init, SkipInv, KeptInv
<1> QED
  BY <1>3, <1>4, <1>6, <1>7 DEF DamageInv

\* A place is a place of the same stream after the step as well.
LEMMA PlaceStays ==
  ASSUME UNCHANGED <<scan, fault>>, NEW CONSTANT g, NEW CONSTANT n, NEW CONSTANT p,
         NEW CONSTANT u, NEW CONSTANT gray, Place(g, n, p, u, gray)
  PROVE  Place(g, n, p, u, gray)'
<1>1. Period' = Period /\ Shift' = Shift /\ Added' = Added /\ D' = D
  BY DEF Period, Shift, Added, D, SegmentAt
<1>2. \A s : InStep(g, n, p, u, s)' <=> InStep(g, n, p, u, s)
  BY <1>1 DEF InStep, Ahead
<1>3. \A h, j : Behind(p, h, j)' <=> Behind(p, h, j)
  BY <1>1 DEF Behind
<1>4. \A h, k : (Near(k, h)' <=> Near(k, h)) /\ (Spoilt(k)' <=> Spoilt(k))
  BY <1>1 DEF Near, Spoilt
<1>5. Off(g, p, u)' <=> Off(g, p, u)
  BY <1>1, <1>3, <1>4 DEF Off, Waiting, Ahead, Landing
<1>6. Ended(g, u)' <=> Ended(g, u)
  BY <1>1 DEF Ended
<1> QED
  BY <1>1, <1>2, <1>5, <1>6 DEF Place

\* Out of step or at the end, whatever has been delivered of the segment.
LEMMA OffPlace ==
  ASSUME NEW g, NEW n, NEW p, NEW u, NEW gray, Off(g, p, u) \/ Ended(g, u)
  PROVE  Place(g, n, p, u, gray)
BY DEF Place

\* Each step keeps the decoder in step, or out of step in the four segments.
LEMMA DamageStep ==
  ASSUME TypeInv, CountInv, DamagedShape, DamageInv, [Next]_vars
  PROVE  DamageInv'
<1>1. PICK g \in Nat :
        /\ AtSegment(g)
        /\ pc # "done" => Place(g, Sent, pos, unread_marker, insufficient_data)
  BY DEF DamageInv
<1>2. SkipInv /\ KeptInv
  BY DEF DamageInv
<1>3. UNCHANGED <<scan, fault>>
  BY DEF Next, Decode, Restart, Done, DecodeMcu, HitMarker, LeaveGray, ProcessRestart,
         SwallowRestart, CallResync, Resync, Resume, FindRestart, ScanForward,
         NextMarker, Suspend, vars, input
<1>4. /\ scan.interval \in Nat \ {0} /\ scan.segments \in Nat \ {0}
      /\ g \in 0..(scan.segments - 1) /\ next_restart_num = g % 8
  BY <1>1, Sizes DEF AtSegment
<1>5. /\ pos \in Nat \ {0} /\ unread_marker \in 0..254 /\ restarts_to_go \in 0..scan.interval
      /\ insufficient_data \in BOOLEAN /\ Len(out) \in Nat
  BY DEF TypeInv
<1>6. pc \notin {"decode_mcu", "done"} =>
        restarts_to_go = 0 /\ Sent = scan.interval /\ g < scan.segments - 1
  <2> SUFFICES ASSUME pc \notin {"decode_mcu", "done"}
               PROVE  restarts_to_go = 0 /\ Sent = scan.interval /\ g < scan.segments - 1
    OBVIOUS
  <2>1. restarts_to_go = 0 /\ Len(out) # McuCount(scan)
    BY DEF CountInv
  <2>2. Len(out) = (g + 1) * scan.interval
    BY <1>1, <1>5, <2>1 DEF AtSegment
  <2>3. g # scan.segments - 1
    BY <1>4, <2>1, <2>2 DEF McuCount
  <2>4. Sent = scan.interval
    BY <1>4, <2>1 DEF Sent
  <2> QED
    BY <1>4, <2>1, <2>3, <2>4
<1>7. PICK n, p, u, gray :
        n = Sent' /\ p = pos' /\ u = unread_marker' /\ gray = insufficient_data'
  OBVIOUS
\* What is left to show of a step.
<1>8. ASSUME NEW h \in Nat, AtSegment(h)', SkipInv', KeptInv',
             pc' # "done" => Place(h, n, p, u, gray)
      PROVE  DamageInv'
  <2>1. Place(h, n, p, u, gray) => Place(h, n, p, u, gray)'
    BY <1>3, PlaceStays
  <2>2. pc' # "done" => Place(h, Sent, pos, unread_marker, insufficient_data)'
    BY <1>7, <1>8, <2>1
  <2> QED
    BY <1>8, <2>2 DEF DamageInv
\* An MCU is delivered.
<1>9. ASSUME Decoding, NEW x \in Int, Deliver(x), UNCHANGED next_restart_num,
             Spoilt(g) \/ x = Len(out),
             pc' # "done" => Place(g, Sent + 1, p, u, gray)
      PROVE  DamageInv'
  <2>1. /\ AtSegment(g)' /\ pc' \in {"done", "decode_mcu"} /\ out' = Append(out, x)
        /\ restarts_to_go' = restarts_to_go - 1
    BY <1>1, <1>3, <1>9, DeliverCounts
  <2>2. KeptInv'
    BY <1>1, <1>2, <1>3, <1>9, <2>1, KeptGrows DEF Decoding
  <2>3. SkipInv'
    BY <2>1 DEF SkipInv
  <2>4. n = Sent + 1
    BY <1>3, <1>4, <1>5, <1>7, <2>1 DEF Sent
  <2> QED
    BY <1>8, <1>9, <2>1, <2>2, <2>3, <2>4
<1>10. Decoding =>
         /\ Sent \in 0..(scan.interval - 1) /\ Len(out) = g * scan.interval + Sent
         /\ Place(g, Sent, pos, unread_marker, insufficient_data)
  BY <1>1, LastSegment DEF Decoding
<1>11. CASE DecodeMcu
  <2>1. /\ Decoding /\ unread_marker = 0 /\ Deliver(Token(pos).mcu)
        /\ Token(pos).kind = "data"
        /\ UNCHANGED <<next_restart_num, insufficient_data>>
    BY <1>11 DEF DecodeMcu
  <2>2. /\ Place(g, Sent + 1, pos + 1, 0, insufficient_data)
        /\ Spoilt(g) \/ Token(pos).mcu = Len(out)
    BY <1>4, <1>5, <1>10, <2>1, PlaceData
  <2>3. Token(pos).mcu \in Int
    BY <1>5, <2>1, TokenType DEF Tokens
  <2>4. CASE pos' = pos + 1 /\ UNCHANGED unread_marker
    BY <1>7, <1>9, <2>1, <2>2, <2>3, <2>4
  <2>5. CASE /\ Token(pos + 1).kind = "marker"
             /\ pos' = pos + 2 /\ unread_marker' = Token(pos + 1).code
    <3>1. ASSUME pc' # "done", Sent + 1 = scan.interval
          PROVE  g < scan.segments - 1
      <4>1. Len(out') # McuCount(scan) /\ Len(out') = Len(out) + 1
        <5>1. out' = Append(out, Token(pos).mcu) /\ Len(out') # McuCount(scan)
          BY <2>1, <3>1 DEF Deliver
        <5>2. out \in Seq(Int)
          BY DEF TypeInv
        <5> QED
          BY <2>3, <5>1, <5>2
      <4>2. Len(out) + 1 = (g + 1) * scan.interval
        <5>1. (g + 1) * scan.interval = g * scan.interval + scan.interval
          BY <1>4
        <5>2. g * scan.interval \in Nat
          BY <1>4
        <5>3. PICK b \in Nat : b = g * scan.interval
          BY <5>2
        <5>4. Len(out) = b + Sent /\ Sent \in Nat
          BY <1>4, <1>10, <2>1, <5>3
        <5>5. Len(out) + 1 = b + scan.interval
          BY <3>1, <5>4
        <5> QED
          BY <5>1, <5>3, <5>5
      <4>3. g # scan.segments - 1
        BY <1>4, <4>1, <4>2 DEF McuCount
      <4> QED
        BY <1>4, <4>3
    <3>2. /\ Sent + 1 \in 0..scan.interval /\ pos + 1 \in Nat /\ (pos + 1) + 1 = pos + 2
      BY SMTT(30), <1>4, <1>5, <1>10, <2>1
    <3>3. ASSUME pc' # "done"
          PROVE  \/ Off(g, pos + 2, Token(pos + 1).code) \/ Ended(g, Token(pos + 1).code)
                 \/ Place(g, Sent + 1, pos + 2, Token(pos + 1).code, insufficient_data)
      <4>1. PICK i \in 0..scan.interval, q \in Nat : i = Sent + 1 /\ q = pos + 1
        BY <3>2
      <4>2. i = scan.interval => g < scan.segments - 1
        BY <3>1, <3>3, <4>1
      <4>3. Place(g, i, q, 0, insufficient_data) /\ Token(q).kind = "marker"
        BY <2>2, <2>5, <4>1
      <4>4. \/ Off(g, q + 1, Token(q).code) \/ Ended(g, Token(q).code)
            \/ Place(g, i, q + 1, Token(q).code, insufficient_data)
        BY <1>4, <4>2, <4>3, PlaceMarker
      <4>5. q + 1 = pos + 2
        BY <3>2, <4>1
      <4> QED
        BY <4>1, <4>4, <4>5
    <3>4. pc' # "done" => Place(g, Sent + 1, p, u, gray)
      BY <1>7, <2>1, <2>5, <3>3, OffPlace
    <3> QED
      BY <1>9, <2>1, <2>2, <2>3, <3>4
  <2> QED
    BY <1>11, <2>4, <2>5 DEF DecodeMcu
<1>12. STUFFED \in Int /\ GRAY \in Int
  BY DEF STUFFED, GRAY
<1>13. CASE HitMarker
  <2>1. Decoding /\ Deliver(STUFFED) /\ UNCHANGED next_restart_num /\ ~insufficient_data
    BY <1>13 DEF HitMarker
  <2>2. CASE unread_marker # 0 /\ UNCHANGED <<pos, unread_marker>>
    <3>1. Off(g, pos, unread_marker) \/ Ended(g, unread_marker)
      <4>1. Sent # scan.interval
        BY <1>4, <1>10, <2>1
      <4> QED
        BY <1>5, <1>10, <2>1, <2>2, <4>1, PlaceGray
    <3>2. Spoilt(g)
      BY <1>4, <3>1, OffSpoilt
    <3>3. Place(g, Sent + 1, p, u, gray)
      BY <1>7, <2>2, <3>1, OffPlace
    <3> QED
      BY <1>9, <1>12, <2>1, <3>2, <3>3
  <2>3. CASE /\ unread_marker = 0 /\ Token(pos).kind = "marker"
             /\ pos' = pos + 1 /\ unread_marker' = Token(pos).code
    <3>1. Off(g, pos + 1, Token(pos).code) \/ Ended(g, Token(pos).code)
      <4>1. PICK i \in 0..scan.interval, q \in Nat : i = Sent /\ q = pos /\ i # scan.interval
        BY SMTT(30), <1>4, <1>5, <1>10, <2>1
      <4>2. Place(g, i, q, 0, insufficient_data) /\ Token(q).kind = "marker"
        BY <1>10, <2>1, <2>3, <4>1
      <4>3. Off(g, q + 1, Token(q).code) \/ Ended(g, Token(q).code)
        BY <1>4, <4>1, <4>2, PlaceMarker
      <4> QED
        BY <4>1, <4>3
    <3>2. Spoilt(g)
      BY <1>4, <3>1, OffSpoilt
    <3>3. Place(g, Sent + 1, p, u, gray)
      BY <1>7, <2>3, <3>1, OffPlace
    <3> QED
      BY <1>9, <1>12, <2>1, <3>2, <3>3
  <2> QED
    BY <1>13, <2>2, <2>3 DEF HitMarker
<1>14. CASE LeaveGray
  <2>1. /\ Decoding /\ Deliver(GRAY) /\ insufficient_data
        /\ UNCHANGED <<pos, unread_marker, next_restart_num>>
    BY <1>14 DEF LeaveGray, input
  <2>2. Off(g, pos, unread_marker) \/ Ended(g, unread_marker)
    <3>1. Sent # scan.interval
      BY <1>4, <1>10, <2>1
    <3> QED
      BY <1>5, <1>10, <2>1, <3>1, PlaceGray
  <2>3. Spoilt(g)
    BY <1>4, <2>2, OffSpoilt
  <2>4. Place(g, Sent + 1, p, u, gray)
    BY <1>7, <2>1, <2>2, OffPlace
  <2> QED
    BY <1>9, <1>12, <2>1, <2>3, <2>4
\* The search for the marker: nothing is delivered.
<1>15. out' = out => KeptInv'
  BY <1>2, <1>3 DEF KeptInv, Spoilt, D, SegmentAt
<1>16. ASSUME UNCHANGED <<restarts_to_go, next_restart_num, out>>, SkipInv',
              pc' # "done" => Place(g, Sent, p, u, gray)
       PROVE  DamageInv'
  <2>1. AtSegment(g)'
    BY <1>1, <1>3, <1>16 DEF AtSegment
  <2>2. n = Sent
    BY <1>3, <1>7, <1>16 DEF Sent
  <2> QED
    BY <1>8, <1>15, <1>16, <2>1, <2>2
<1>17. ASSUME pc = "done" => pc' = "done",
              UNCHANGED <<pos, unread_marker, next_restart_num, restarts_to_go,
                          insufficient_data, out>>, SkipInv'
       PROVE  DamageInv'
  <2>1. pc' # "done" => Place(g, Sent, p, u, gray)
    BY <1>1, <1>7, <1>17
  <2> QED
    BY <1>16, <1>17, <2>1
<1>18. CASE ProcessRestart \/ CallResync \/ Suspend \/ UNCHANGED vars
  <2>1. SkipInv'
    BY <1>2, <1>18 DEF ProcessRestart, CallResync, Suspend, vars, SkipInv, Action, Distant
  <2> QED
    BY <1>17, <1>18, <2>1 DEF ProcessRestart, CallResync, Suspend, vars, input
<1>19. CASE FindRestart
  <2>1. /\ pc = "next_marker" /\ unread_marker = 0 /\ pos' = pos + 1
        /\ UNCHANGED <<next_restart_num, restarts_to_go, insufficient_data, out>>
    BY <1>2, <1>19 DEF FindRestart, NextMarker, SkipInv
  <2>2. /\ Place(g, scan.interval, pos, 0, insufficient_data)
        /\ g < scan.segments - 1 /\ Sent = scan.interval /\ pos \in Nat
    BY <1>1, <1>5, <1>6, <2>1
  <2>3. CASE Token(pos).kind = "marker"
    <3>1. unread_marker' = Token(pos).code /\ pc' = "read_restart_marker"
      BY <1>19, <2>3 DEF FindRestart, NextMarker
    <3>2. Token(pos).code # 0
      <4>1. Token(pos) \in Tokens
        BY <1>5, TokenType
      <4> QED
        BY <2>3, <4>1 DEF Tokens
    <3>3. \/ Off(g, pos + 1, Token(pos).code) \/ Ended(g, Token(pos).code)
          \/ Place(g, scan.interval, pos + 1, Token(pos).code, insufficient_data)
      <4>1. scan.interval \in 0..scan.interval
        BY <1>4
      <4> QED
        BY <1>4, <2>2, <2>3, <4>1, PlaceMarker
    <3>4. Place(g, Sent, p, u, gray)
      BY <1>7, <2>1, <2>2, <3>1, <3>3, OffPlace
    <3>5. SkipInv'
      BY <3>1, <3>2 DEF SkipInv
    <3> QED
      BY <1>16, <2>1, <3>4, <3>5
  <2>4. CASE Token(pos).kind # "marker"
    <3>1. unread_marker' = 0 /\ pc' = "next_marker"
      BY <1>19, <2>1, <2>4 DEF FindRestart, NextMarker
    <3>2. Token(pos).kind = "data"
      BY <1>5, <2>4, TokenType DEF Tokens
    <3>3. Off(g, pos + 1, 0)
      BY <1>4, <2>2, <3>2, PlaceSkip
    <3>4. Place(g, Sent, p, u, gray)
      BY <1>7, <2>1, <3>1, <3>3, OffPlace
    <3>5. SkipInv'
      BY <3>1 DEF SkipInv
    <3> QED
      BY <1>16, <2>1, <3>4, <3>5
  <2> QED
    BY <2>3, <2>4
<1>20. pc \in {"read_restart_marker", "resync", "scan_forward"} =>
         /\ Place(g, scan.interval, pos, unread_marker, insufficient_data)
         /\ unread_marker # 0 /\ g + 1 <= scan.segments - 1
  BY <1>1, <1>2, <1>4, <1>6 DEF SkipInv
<1>21. CASE ScanForward
  <2>1. /\ pc = "scan_forward" /\ pos' = pos + 1 /\ Action(unread_marker) = 2
        /\ UNCHANGED <<next_restart_num, restarts_to_go, insufficient_data, out>>
    BY <1>2, <1>21 DEF ScanForward, NextMarker, SkipInv
  <2>2. Off(g, pos, unread_marker) /\ Waiting(g, unread_marker) /\ pos \in Nat
    <3>1. /\ Place(g, scan.interval, pos, unread_marker, insufficient_data)
          /\ unread_marker # 0 /\ next_restart_num = g % 8
      BY <1>4, <1>20, <2>1
    <3>2. \/ Off(g, pos, unread_marker) /\ Waiting(g, unread_marker)
          \/ Action(unread_marker) = 1 \/ Action(unread_marker) # 2
          \/ Action(unread_marker) = 3
      BY <3>1, PlaceHeld, Zenon
    <3> QED
      BY <1>5, <2>1, <3>2
  <2>3. CASE Token(pos).kind = "marker"
    <3>1. unread_marker' = Token(pos).code /\ pc' = "resync"
      BY <1>21, <2>3 DEF ScanForward, NextMarker
    <3>2. Token(pos).code # 0
      <4>1. Token(pos) \in Tokens
        BY <1>5, TokenType
      <4> QED
        BY <2>3, <4>1 DEF Tokens
    <3>3. Off(g, pos + 1, Token(pos).code) \/ Ended(g, Token(pos).code)
      BY <2>2, <2>3, OffMarker
    <3>4. Place(g, Sent, p, u, gray)
      BY <1>7, <2>1, <3>1, <3>3, OffPlace
    <3>5. SkipInv'
      BY <3>1, <3>2 DEF SkipInv
    <3> QED
      BY <1>16, <2>1, <3>4, <3>5
  <2>4. CASE Token(pos).kind # "marker"
    <3>1. UNCHANGED unread_marker /\ pc' = "scan_forward"
      BY <1>21, <2>1, <2>4 DEF ScanForward, NextMarker
    <3>2. Token(pos).kind = "data"
      BY <1>5, <2>4, TokenType DEF Tokens
    <3>3. Off(g, pos + 1, unread_marker)
      BY <2>2, <3>2, OffData
    <3>4. Place(g, Sent, p, u, gray)
      BY <1>7, <2>1, <3>1, <3>3, OffPlace
    <3>5. SkipInv'
      BY <1>2, <2>1, <3>1 DEF SkipInv, Action, Distant
    <3> QED
      BY <1>16, <2>1, <3>4, <3>5
  <2> QED
    BY <2>3, <2>4
\* A restart: the next segment is begun.
<1>22. ASSUME NEW marker, Resume(marker), pc \notin {"decode_mcu", "done"},
              Place(g + 1, 0, p, u, gray)
       PROVE  DamageInv'
  <2>1. AtSegment(g + 1)'
    BY <1>1, <1>22, ResumeCounts
  <2>2. pc' = "decode_mcu" /\ restarts_to_go' = scan.interval /\ out' = out
    BY <1>22 DEF Resume
  <2>3. n = 0
    BY <1>3, <1>4, <1>7, <2>2 DEF Sent
  <2>4. SkipInv'
    BY <2>2 DEF SkipInv
  <2>5. g + 1 \in Nat
    OBVIOUS
  <2> QED
    BY <1>8, <1>15, <1>22, <2>1, <2>2, <2>3, <2>4, <2>5
<1>23. ASSUME Resume(0), pc \in {"read_restart_marker", "resync"}, Action(unread_marker) = 1
       PROVE  DamageInv'
  <2>1. Place(g + 1, 0, pos, 0, FALSE)
    BY <1>4, <1>20, <1>23, PlaceResume
  <2>2. p = pos /\ u = 0 /\ gray = FALSE
    BY <1>7, <1>23 DEF Resume, input
  <2> QED
    BY <1>22, <1>23, <2>1, <2>2
<1>24. CASE SwallowRestart
  <2>1. /\ pc = "read_restart_marker" /\ Resume(0)
        /\ unread_marker = M_RST0 + next_restart_num
    BY <1>24 DEF SwallowRestart
  <2>2. unread_marker = Ahead(g, 0) /\ 0 \in 0..7
    BY <1>4, <2>1 DEF Ahead
  <2>3. Action(unread_marker) = 1
    BY <1>4, <2>2, ActionAhead
  <2> QED
    BY <1>23, <2>1, <2>3
<1>25. CASE Resync
  <2>1. pc = "resync"
    BY <1>25 DEF Resync
  <2>2. CASE Action(unread_marker) = 1 /\ Resume(0)
    BY <1>23, <2>1, <2>2
  <2>3. CASE /\ Action(unread_marker) = 2 /\ pc' = "scan_forward"
             /\ UNCHANGED <<input, unread_marker, next_restart_num, restarts_to_go,
                            insufficient_data, out>>
    <3>1. SkipInv'
      BY <1>20, <2>1, <2>3 DEF SkipInv, Action, Distant
    <3> QED
      BY <1>17, <2>1, <2>3, <3>1 DEF input
  <2>4. CASE Action(unread_marker) = 3 /\ Resume(unread_marker)
    <3>1. Place(g + 1, 0, pos, unread_marker, insufficient_data)
      BY <1>4, <1>20, <2>1, <2>4, PlaceLeave
    <3>2. p = pos /\ u = unread_marker /\ gray = insufficient_data
      BY <1>7, <1>20, <2>1, <2>4 DEF Resume, input
    <3> QED
      BY <1>22, <2>1, <2>4, <3>1, <3>2
  <2> QED
    BY <1>25, <2>2, <2>3, <2>4 DEF Resync
<1> QED
  BY <1>11, <1>13, <1>14, <1>18, <1>19, <1>21, <1>24, <1>25
     DEF Next, Decode, Restart, Done

\* The decoder's place in a scan with one recoverable fault.
THEOREM DamageInductive == Spec => [](TypeInv /\ CountInv /\ (Recoverable => DamageInv))
<1>1. Init => TypeInv /\ CountInv /\ DamageInv
  BY TypeInit, CountInit, DamageInit
<1>2. ASSUME TypeInv, CountInv, Recoverable => DamageInv, [Next]_vars, Recoverable'
      PROVE  DamageInv'
  <2>1. UNCHANGED <<scan, fault>>
    BY <1>2 DEF Next, Decode, Restart, Done, DecodeMcu, HitMarker, LeaveGray,
           ProcessRestart, SwallowRestart, CallResync, Resync, Resume, FindRestart,
           ScanForward, NextMarker, Suspend, vars, input
  <2>2. Recoverable
    BY <1>2, <2>1 DEF Recoverable, SegmentAt
  <2> QED
    BY <1>2, <2>2, RecoverableShape, DamageStep
<1>3. TypeInv /\ CountInv /\ (Recoverable => DamageInv) /\ [Next]_vars
        => (TypeInv /\ CountInv /\ (Recoverable => DamageInv))'
  BY <1>2, TypeStep, CountStep
<1> QED
  BY <1>1, <1>3, PTL DEF Spec

\* One recoverable fault costs at most its own segment and the three after it,
\* for every scan, every place of the fault and every token it may consist of.
THEOREM DamageIsContained == Spec => []DamageContained
<1>1. TypeInv /\ CountInv /\ (Recoverable => DamageInv) => DamageContained
  <2> SUFFICES ASSUME TypeInv, CountInv, KeptInv, pc = "done",
                      NEW k \in WrongSegments
               PROVE  k \in D..(D + 3)
    BY DEF DamageContained, DamageInv, D
  <2>1. /\ scan.interval \in Nat \ {0} /\ scan.segments \in Nat \ {0}
        /\ D \in Int
    BY Sizes
  <2>2. PICK i \in 1..scan.interval :
          /\ k \in 0..(scan.segments - 1)
          /\ out[k * scan.interval + i] # k * scan.interval + i - 1
    BY DEF WrongSegments
  <2>3. k \in Nat /\ i \in Nat
    BY <2>1, <2>2
  <2>4. PICK q : q = k * scan.interval + i
    OBVIOUS
  <2>5. /\ k * scan.interval \in Nat
        /\ q \in 1..Len(out) /\ (q - 1) \div scan.interval = k
    BY <2>2, <2>4, DonePlace
  <2>6. out[q] # q - 1
    BY <2>2, <2>3, <2>4, <2>5
  <2>7. Spoilt(k)
    BY <2>5, <2>6 DEF KeptInv
  <2> QED
    BY <2>1, <2>3, <2>7 DEF Spoilt
<1> QED
  BY <1>1, DamageInductive, PTL

=============================================================================
