----------------------------- MODULE EncodeSpec -----------------------------
(***************************************************************************)
(* What jpar_encode_strips_spliced promises its caller (jcparallel.h): it  *)
(* returns once, either FALSE with no buffer or TRUE with the JPEG that a  *)
(* single-threaded encode of the whole image would have written.           *)
(***************************************************************************)
EXTENDS ScanTokens

CONSTANT Calls              \* argument records [height, v, threads]

VARIABLES call, result, jpeg

specVars == <<call, result, jpeg>>

NoJpeg == [height |-> 0, scan |-> <<>>]

SpecInit ==
  /\ call \in Calls
  /\ result = "none"
  /\ jpeg = NoJpeg

Fail ==
  /\ result = "none"
  /\ result' = "FALSE"
  /\ UNCHANGED <<call, jpeg>>

Succeed ==
  /\ result = "none"
  /\ result' = "TRUE"
  /\ jpeg' = [height |-> call.height,
              scan   |-> ReferenceScan(call.height, McuRowHeight(call.v))]
  /\ UNCHANGED call

SpecNext == Fail \/ Succeed

\* The call returns exactly once, with the reference JPEG or with nothing.
EncodeSafety == SpecInit /\ [][SpecNext]_specVars

=============================================================================
