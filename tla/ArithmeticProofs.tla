-------------------------- MODULE ArithmeticProofs --------------------------
(***************************************************************************)
(* Facts about the arithmetic the models are built from: the strips and    *)
(* MCU rows of an image, for every height, block size and number of        *)
(* strips, and the differences of lossless mode, for every width.          *)
(***************************************************************************)
EXTENDS StripGeometry, LosslessCode, TLAPS

-----------------------------------------------------------------------------
(* Facts about integer division and products.                              *)

\* The quotient is the number of whole multiples of h that fit in a.
LEMMA DivBounds ==
  ASSUME NEW a \in Nat, NEW h \in Nat \ {0}
  PROVE  /\ a \div h \in Nat
         /\ h * (a \div h) <= a
         /\ a < h * (a \div h) + h
  OBVIOUS

\* A quotient is determined by its bounds.
LEMMA DivUnique ==
  ASSUME NEW a \in Nat, NEW h \in Nat \ {0}, NEW q \in Nat,
         h * q <= a, a < h * q + h
  PROVE  a \div h = q
  OBVIOUS

\* Multiplication by a natural number is monotone.
LEMMA MulMonotone ==
  ASSUME NEW a \in Int, NEW b \in Int, NEW c \in Nat, a <= b
  PROVE  a * c <= b * c
  OBVIOUS

LEMMA MulPositive ==
  ASSUME NEW a \in Nat \ {0}, NEW b \in Nat \ {0}
  PROVE  a * b \in Nat \ {0}
  OBVIOUS

LEMMA ModOfMultiple ==
  ASSUME NEW q \in Nat, NEW h \in Nat \ {0}
  PROVE  (q * h) % h = 0
  OBVIOUS

-----------------------------------------------------------------------------
(* The plan made by Setup.                                                 *)

\* total MCU rows of height h hold H scanlines, and total - 1 do not.
LEMMA McuRowsBounds ==
  ASSUME NEW H \in Nat, NEW h \in Nat \ {0}
  PROVE  /\ McuRows(H, h) \in Nat
         /\ H <= h * McuRows(H, h)
         /\ h * McuRows(H, h) < H + h
         /\ H = 0 => McuRows(H, h) = 0
         /\ H > 0 => McuRows(H, h) > 0
<1>1. H + h - 1 \in Nat
  OBVIOUS
<1>2. /\ McuRows(H, h) \in Nat
      /\ h * McuRows(H, h) <= H + h - 1
      /\ H + h - 1 < h * McuRows(H, h) + h
  BY <1>1, DivBounds DEF McuRows
<1>3. H <= h * McuRows(H, h) /\ h * McuRows(H, h) < H + h
  <2>1. h * McuRows(H, h) \in Nat
    BY <1>2
  <2> QED
    BY <1>2, <2>1
<1>4. H = 0 => McuRows(H, h) = 0
  BY <1>1, DivUnique DEF McuRows
<1>5. H > 0 => McuRows(H, h) > 0
  BY <1>2, <1>3
<1> QED
  BY <1>2, <1>3, <1>4, <1>5

\* The number of MCU rows is determined by its bounds.
LEMMA McuRowsUnique ==
  ASSUME NEW H \in Nat, NEW h \in Nat \ {0}, NEW q \in Nat,
         H <= h * q, h * q < H + h
  PROVE  McuRows(H, h) = q
<1>1. H + h - 1 \in Nat /\ h * q \in Nat
  OBVIOUS
<1>2. h * q <= H + h - 1 /\ H + h - 1 < h * q + h
  BY <1>1
<1> QED
  BY <1>1, <1>2, DivUnique DEF McuRows

\* n strips of per MCU rows fit in the image's MCU rows.
LEMMA PlanFits ==
  ASSUME NEW total \in Nat, NEW t \in Int
  PROVE  LET m   == StripCount(total, t)
             per == McuRowsPerStrip(total, m)
         IN  /\ m \in Nat \ {0} /\ m <= AtLeastOne(t)
             /\ per \in Nat \ {0}
             /\ total > 0 => m * per <= total
             /\ total = 0 => m = 1
<1> DEFINE m   == StripCount(total, t)
           per == McuRowsPerStrip(total, m)
<1>1. m \in Nat \ {0} /\ m <= AtLeastOne(t) /\ (total = 0 => m = 1)
  BY DEF StripCount, AtLeastOne
<1>2. total > 0 => m <= total
  BY DEF StripCount, AtLeastOne
<1> HIDE DEF m
<1>3. /\ total \div m \in Nat
      /\ m * (total \div m) <= total
      /\ total < m * (total \div m) + m
  BY <1>1, DivBounds
<1>4. per \in Nat \ {0}
  BY <1>3 DEF McuRowsPerStrip, AtLeastOne
<1>5. ASSUME total > 0
      PROVE  m * per <= total
  <2>1. total \div m >= 1
    BY <1>1, <1>2, <1>3, <1>5
  <2>2. per = total \div m
    BY <1>3, <2>1 DEF McuRowsPerStrip, AtLeastOne
  <2> QED
    BY <1>3, <2>2
<1> QED
  BY <1>1, <1>4, <1>5 DEF m

\* Every strip starts inside the image, and every strip but the last ends
\* inside it: the cut-off of end_row in the loop never applies.
LEMMA BoundariesInside ==
  ASSUME NEW H \in Nat, NEW h \in Nat \ {0},
         NEW m \in Nat \ {0}, NEW per \in Nat \ {0},
         McuRows(H, h) > 0 => m * per <= McuRows(H, h),
         McuRows(H, h) = 0 => m = 1,
         NEW k \in 0..(m - 1)
  PROVE  /\ k * (per * h) \in Nat
         /\ k * (per * h) <= H
         /\ H > 0 => k * (per * h) < H
         /\ k < m - 1 => (k + 1) * (per * h) < H
<1> DEFINE total == McuRows(H, h)
<1>1. total \in Nat /\ h * total < H + h /\ (H = 0 => total = 0) /\ (H > 0 => total > 0)
  BY McuRowsBounds
<1> HIDE DEF total
<1>2. k * (per * h) \in Nat
  OBVIOUS
<1>3. ASSUME H = 0
      PROVE  k = 0 /\ m = 1
  BY <1>1, <1>3 DEF total
<1>4. ASSUME H > 0, NEW j \in Nat, j <= m - 1
      PROVE  j * (per * h) < H
  <2>1. m * per <= total
    BY <1>1, <1>4 DEF total
  <2>2. j * per <= (m - 1) * per
    BY <1>4, MulMonotone
  <2>3. (m - 1) * per = m * per - per
    OBVIOUS
  <2>4. j * per <= total - 1
    BY <1>1, <2>1, <2>2, <2>3
  <2>5. (j * per) * h <= (total - 1) * h
    BY <1>1, <2>4, MulMonotone
  <2>6. (total - 1) * h = h * total - h
    BY <1>1
  <2>7. (j * per) * h = j * (per * h)
    OBVIOUS
  <2> QED
    BY <1>1, <2>5, <2>6, <2>7
<1>5. k < m - 1 => (k + 1) * (per * h) < H
  BY <1>3, <1>4
<1> QED
  BY <1>2, <1>3, <1>4, <1>5

-----------------------------------------------------------------------------
(* Differences of lossless mode.                                           *)

\* A number is its quotient's multiple and its rest.
LEMMA DivMod ==
    ASSUME NEW M \in Nat \ {0}, NEW a \in Int
    PROVE  a \div M \in Int /\ a % M \in 0 .. M - 1 /\ a = (a \div M) * M + (a % M)
OBVIOUS

\* A number written as a multiple of M plus a rest has that rest.
LEMMA ModUnique ==
    ASSUME NEW M \in Nat \ {0}, NEW r \in 0 .. M - 1, NEW k \in Int
    PROVE  (k * M + r) % M = r
OBVIOUS

\* Adding a multiple of M changes nothing modulo M.
LEMMA ModShift ==
    ASSUME NEW M \in Nat \ {0}, NEW a \in Int, NEW k \in Int
    PROVE  (a + k * M) % M = a % M
<1> DEFINE q == a \div M
<1> DEFINE r == a % M
<1>1. q \in Int /\ r \in 0 .. M - 1 /\ a = q * M + r
    BY DivMod
<1> HIDE DEF q, r
<1>2. a + k * M = (q + k) * M + r
    BY <1>1
<1>3. q + k \in Int
    BY <1>1
<1>4. ((q + k) * M + r) % M = r /\ (q * M + r) % M = r
    BY <1>1, <1>3, ModUnique
<1> QED BY <1>1, <1>2, <1>4

\* HUFF_EXTEND undoes what encode_mcus_huff does to the bits of a magnitude
\* of a category, whatever the category.
LEMMA ExtendUndoesBits ==
    ASSUME NEW p \in Nat \ {0}, NEW m \in p .. 2 * p - 1, NEW neg \in BOOLEAN
    PROVE  Extend(Bits(neg, m, p), p) = IF neg THEN 0 - m ELSE m
<1>1. CASE neg
    BY <1>1 DEF Extend, Bits
<1>2. CASE ~neg
    BY <1>2 DEF Extend, Bits
<1> QED BY <1>1, <1>2

\* Sign and magnitude are the difference but for a multiple of the modulus.
LEMMA SignAndMagnitude ==
    ASSUME NEW half \in Nat \ {0}, NEW d \in Int
    PROVE  /\ Magnitude(d, half) \in 0 .. half
           /\ \E k \in Int : (IF Negative(d, half) THEN 0 - Magnitude(d, half)
                             ELSE Magnitude(d, half)) = d + k * Modulus(half)
<1> DEFINE q == d \div Modulus(half)
<1> DEFINE r == d % Modulus(half)
<1>0. Modulus(half) = 2 * half /\ Modulus(half) \in Nat \ {0} /\ half \in Nat \ {0}
    BY DEF Modulus
<1>1. q \in Int /\ r \in 0 .. Modulus(half) - 1 /\ d = q * Modulus(half) + r
    BY <1>0, DivMod
<1>2. Negative(d, half) <=> r >= half
    BY DEF Negative
<1> HIDE DEF q, r
<1>3. CASE r < half
  <2>1. d = (2 * q) * half + r /\ 2 * q \in Int /\ r \in 0 .. half - 1
    BY <1>0, <1>1, <1>3
  <2>2. d % half = r
    BY <1>0, <2>1, ModUnique
  <2>3. Magnitude(d, half) = r
    BY <1>0, <1>1, <1>2, <1>3, <2>2 DEF Magnitude
  <2>4. r = d + (0 - q) * Modulus(half) /\ 0 - q \in Int
    BY <1>0, <1>1
  <2>5. (IF Negative(d, half) THEN 0 - Magnitude(d, half) ELSE Magnitude(d, half)) = r
    BY <1>2, <1>3, <2>3, <1>0, <1>1
  <2>6. Magnitude(d, half) \in 0 .. half
    BY <1>0, <2>1, <2>3
  <2> QED BY <2>4, <2>5, <2>6
<1>4. CASE r = half
  <2>1. 0 - d = (0 - (2 * q) - 1) * half + 0 /\ 0 - (2 * q) - 1 \in Int /\ 0 \in 0 .. half - 1
    BY <1>0, <1>1, <1>4
  <2>2. (0 - d) % half = 0
    BY SMTT(30), <1>0, <2>1, ModUnique
  <2>3. Magnitude(d, half) = half /\ Negative(d, half)
    BY <1>0, <1>2, <1>4, <2>2 DEF Magnitude
  <2>4. 0 - half = d + (0 - q - 1) * Modulus(half) /\ 0 - q - 1 \in Int
    BY <1>0, <1>1, <1>4
  <2>5. (IF Negative(d, half) THEN 0 - Magnitude(d, half) ELSE Magnitude(d, half)) = 0 - half
    BY <2>3
  <2>6. Magnitude(d, half) \in 0 .. half
    BY <1>0, <2>3
  <2> QED BY <2>4, <2>5, <2>6
<1>5. CASE r > half
  <2> DEFINE e == Modulus(half) - r
  <2>1. e \in 1 .. half - 1
    BY <1>0, <1>1, <1>5
  <2>2. 0 - d = (0 - (2 * q) - 2) * half + e /\ 0 - (2 * q) - 2 \in Int /\ e \in 0 .. half - 1
    BY <1>0, <1>1, <2>1
  <2>3. 0 - e = d + (0 - q - 1) * Modulus(half) /\ 0 - q - 1 \in Int
    BY <1>0, <1>1
  <2> HIDE DEF e
  <2>4. (0 - d) % half = e
    BY <1>0, <2>2, ModUnique
  <2>5. Magnitude(d, half) = e /\ Negative(d, half)
    BY <1>0, <1>1, <1>2, <1>5, <2>1, <2>4 DEF Magnitude
  <2>6. (IF Negative(d, half) THEN 0 - Magnitude(d, half) ELSE Magnitude(d, half)) = 0 - e
    BY <2>5
  <2>7. Magnitude(d, half) \in 0 .. half
    BY <1>0, <2>1, <2>5
  <2> QED BY <2>3, <2>6, <2>7
<1> QED BY <1>0, <1>1, <1>3, <1>4, <1>5

\* Every sample comes back from its difference to any prediction: the
\* decoder's sum modulo 2^16 is the sample, through the bits of the
\* category its magnitude is in (p is the least magnitude of the category).
THEOREM SamplesComeBack ==
    ASSUME NEW half \in Nat \ {0}, NEW samp \in 0 .. Modulus(half) - 1,
           NEW pred \in Int, NEW p \in Nat \ {0},
           Magnitude(samp - pred, half) \in p .. 2 * p - 1
    PROVE  Undifferenced(Extend(Bits(Negative(samp - pred, half),
                                     Magnitude(samp - pred, half), p), p),
                         pred, half) = samp
<1> DEFINE d == samp - pred
<1> DEFINE v == IF Negative(d, half) THEN 0 - Magnitude(d, half) ELSE Magnitude(d, half)
<1>0. Modulus(half) \in Nat \ {0}
    BY DEF Modulus
<1>1. d \in Int /\ samp \in Int
    BY <1>0
<1>2. Negative(d, half) \in BOOLEAN
    BY DEF Negative
<1>3. Extend(Bits(Negative(d, half), Magnitude(d, half), p), p) = v
    BY <1>2, ExtendUndoesBits
<1>4. PICK k \in Int : v = d + k * Modulus(half)
    BY <1>1, SignAndMagnitude
<1>5. (samp + k * Modulus(half)) % Modulus(half) = samp % Modulus(half)
    BY <1>0, <1>1, ModShift
<1>6. samp % Modulus(half) = samp
    BY ONLY <1>0, samp \in 0 .. Modulus(half) - 1
<1>7. v + pred = samp + k * Modulus(half)
    BY <1>0, <1>1, <1>4
<1> QED BY <1>3, <1>5, <1>6, <1>7 DEF Undifferenced

\* The category without bits stands for the one magnitude 2^15, and the
\* category 0 for the difference 0: those samples come back as well.
THEOREM SpecialCategoriesComeBack ==
    ASSUME NEW half \in Nat \ {0}, NEW samp \in 0 .. Modulus(half) - 1,
           NEW pred \in Int,
           Magnitude(samp - pred, half) \in {0, half}
    PROVE  Undifferenced(Magnitude(samp - pred, half), pred, half) = samp
<1> DEFINE d == samp - pred
<1> DEFINE m == Magnitude(d, half)
<1>0. Modulus(half) = 2 * half /\ Modulus(half) \in Nat \ {0} /\ half \in Nat \ {0}
    BY DEF Modulus
<1>1. d \in Int /\ samp \in Int /\ m \in Int
    BY <1>0
<1>2. PICK k \in Int : (IF Negative(d, half) THEN 0 - m ELSE m) = d + k * Modulus(half)
    BY <1>1, SignAndMagnitude
<1>3. \E j \in Int : m = d + j * Modulus(half)
  <2>1. CASE ~Negative(d, half)
    BY <1>2, <2>1
  <2>2. CASE Negative(d, half) /\ m = 0
    BY <1>2, <2>2
  <2>3. CASE Negative(d, half) /\ m = half
    <3>1. m = d + (k + 1) * Modulus(half) /\ k + 1 \in Int
      BY <1>0, <1>1, <1>2, <2>3
    <3> QED BY <3>1
  <2> QED BY <2>1, <2>2, <2>3
<1>4. PICK j \in Int : m = d + j * Modulus(half)
    BY <1>3
<1>5. (samp + j * Modulus(half)) % Modulus(half) = samp % Modulus(half)
    BY <1>0, <1>1, ModShift
<1>6. samp % Modulus(half) = samp
    BY ONLY <1>0, samp \in 0 .. Modulus(half) - 1
<1>7. m + pred = samp + j * Modulus(half)
    BY <1>0, <1>1, <1>4
<1> QED BY <1>5, <1>6, <1>7 DEF Undifferenced

=============================================================================
