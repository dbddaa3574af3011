---------------------------- MODULE LosslessDiff ----------------------------
(***************************************************************************)
(* The arithmetic of lossless mode: a sample is coded as its difference    *)
(* from a prediction, the difference as a category and that many bits      *)
(* (jclossls.c, jclhuff.c), and the decoder adds the prediction back       *)
(* modulo 2^16 (jdlhuff.c, jdlossls.c).                                    *)
(*                                                                         *)
(* Half stands for 2^15.  An image of two rows of two samples has every    *)
(* neighbour a predictor looks at.                                         *)
(***************************************************************************)
EXTENDS LosslessCode, Sequences, FiniteSetsExt

CONSTANTS Half,           \* 0x8000, half the modulus of the differences
          Precision       \* data_precision
ASSUME HalfAssumption == Half \in Nat \ {0}
ASSUME PrecisionAssumption == Precision \in Nat \ {0}

VARIABLES psv, pt,        \* Ss and Al: predictor selection, point transform
          image,          \* the samples, <<above, row>>
          codes,          \* per sample, the category and the bits after it
          decoded         \* the samples given back, <<above, row>>
vars == <<psv, pt, image, codes, decoded>>

MaxSample == 2 ^ Precision - 1

\* Category 16, whose one difference has no bits.
Full == CHOOSE n \in 0 .. 32 : 2 ^ n = Modulus(Half)
BitLength(m) == CHOOSE n \in 0 .. 32 : m < 2 ^ n /\ (n = 0 \/ 2 ^ (n - 1) <= m)

\* encode_mcus_huff for one difference.
Code(d) ==
    LET m == Magnitude(d, Half)
        n == BitLength(m)
    IN IF m = 0 THEN [nbits |-> 0, bits |-> 0]
       ELSE IF n = Full THEN [nbits |-> n, bits |-> 0]
       ELSE [nbits |-> n, bits |-> Bits(Negative(d, Half), m, 2 ^ (n - 1))]

\* decode_mcus for one difference.
Difference(code) ==
    IF code.nbits = 0 THEN 0
    ELSE IF code.nbits = Full THEN Half
    ELSE Extend(code.bits, 2 ^ (code.nbits - 1))

-----------------------------------------------------------------------------
\* PREDICTOR1 to PREDICTOR7 from the samples to the left, above, and above to
\* the left; RIGHT_SHIFT rounds down.
Predictor(ra, rb, rc) ==
    CASE psv = 1 -> ra
      [] psv = 2 -> rb
      [] psv = 3 -> rc
      [] psv = 4 -> ra + rb - rc
      [] psv = 5 -> ra + ((rb - rc) \div 2)
      [] psv = 6 -> rb + ((ra - rc) \div 2)
      [] psv = 7 -> (ra + rb) \div 2

\* INITIAL_PREDICTORx, the prediction of the first sample of a first row.
InitialPredictor == 2 ^ (Precision - pt - 1)

\* Prediction of sample x of row y (1 above, 2 below) from a picture of which
\* the samples before it are known: DIFFERENCE_1D and DIFFERENCE_2D, and their
\* UNDIFFERENCE forms.
Prediction(pic, y, x) ==
    IF y = 1 THEN IF x = 1 THEN InitialPredictor ELSE pic[1][x - 1]
    ELSE IF x = 1 THEN pic[1][1]
    ELSE Predictor(pic[2][x - 1], pic[1][x], pic[1][x - 1])

\* The point transform: simple_downscale, and simple_upscale of the decoder.
Downscaled(s) == s \div 2 ^ pt
Upscaled(s) == s * 2 ^ pt

\* The samples before (y, x) in reading order decode one after the other; pic
\* holds those decoded so far.
Order == <<<<1, 1>>, <<1, 2>>, <<2, 1>>, <<2, 2>>>>

Encode ==
    /\ codes = <<>>
    /\ LET pic == [y \in 1 .. 2 |-> [x \in 1 .. 2 |-> Downscaled(image[y][x])]]
       IN codes' = [i \in 1 .. 4 |->
              Code(pic[Order[i][1]][Order[i][2]] - Prediction(pic, Order[i][1], Order[i][2]))]
    /\ UNCHANGED <<psv, pt, image, decoded>>

\* The next sample of the scan.
DecodeSample ==
    /\ codes # <<>>
    /\ \E i \in 1 .. 4 :
        /\ decoded[Order[i][1]][Order[i][2]] = -1
        /\ \A j \in 1 .. i - 1 : decoded[Order[j][1]][Order[j][2]] # -1
        /\ decoded' = [decoded EXCEPT ![Order[i][1]][Order[i][2]] =
              Undifferenced(Difference(codes[i]), Prediction(decoded, Order[i][1], Order[i][2]),
              Half)]
    /\ UNCHANGED <<psv, pt, image, codes>>

Samples == 0 .. MaxSample
Init ==
    /\ psv \in 1 .. 7 /\ pt \in 0 .. Precision - 1
    /\ image \in [1 .. 2 -> [1 .. 2 -> Samples]]
    /\ codes = <<>>
    /\ decoded = [y \in 1 .. 2 |-> [x \in 1 .. 2 |-> -1]]

Next == Encode \/ DecodeSample
Spec == Init /\ [][Next]_vars
-----------------------------------------------------------------------------
\* The samples come back: exactly without a point transform, and with the low
\* bits cleared with one.
Lossless ==
    \A y \in 1 .. 2, x \in 1 .. 2 :
        decoded[y][x] # -1 =>
            /\ decoded[y][x] = Downscaled(image[y][x])
            /\ Upscaled(decoded[y][x]) = image[y][x] - (image[y][x] % 2 ^ pt)

\* Every category fits the symbols of a Huffman table for differences, and
\* its bits fit their number: no code is ever asked for a symbol above 16.
CodesFit ==
    \A i \in 1 .. Len(codes) :
        /\ codes[i].nbits <= Full
        /\ codes[i].nbits < Full => codes[i].bits \in 0 .. 2 ^ codes[i].nbits - 1
=============================================================================
