---------------------------- MODULE LosslessCode ----------------------------
(***************************************************************************)
(* How one difference of a lossless image is turned into bits and back     *)
(* (jclhuff.c, jdlhuff.c, jdlossls.c), as pure arithmetic.  Differences are*)
(* taken modulo 2^16; half stands for 2^15, 0x8000 in the code.            *)
(***************************************************************************)
EXTENDS Integers

\* Differences and reconstructed samples are taken modulo 2^16.
Modulus(half) == 2 * half

\* The sign of a difference taken modulo Modulus(half).
Negative(d, half) == d % Modulus(half) >= half

\* The magnitude of the difference modulo Modulus(half): of the difference half, it
\* is half itself, which has a category of its own.
Magnitude(d, half) ==
  IF Negative(d, half) THEN (IF (0 - d) % half = 0 THEN half ELSE (0 - d) % half)
  ELSE d % half

\* The bits of a magnitude m below 2p and not below p: themselves, or those of
\* its complement.
Bits(negative, m, p) == IF negative THEN 2 * p - 1 - m ELSE m

\* HUFF_EXTEND with p = 2^(s - 1).
Extend(r, p) == IF r < p THEN r - 2 * p + 1 ELSE r

\* Mutant: without the AND.
Undifferenced_NoMask(d, p, half) == d + p

\* The decoder's sample: the sum of difference and prediction modulo Modulus(half).
Undifferenced(d, p, half) == (d + p) % Modulus(half)

=============================================================================
