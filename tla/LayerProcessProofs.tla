------------------------- MODULE LayerProcessProofs -------------------------
(***************************************************************************)
(* Theorems about a process with one layer: what loading leaves, and what  *)
(* the answer to a call says about its arguments.                          *)
(***************************************************************************)
EXTENDS LayerProcess, FoldProofs

-----------------------------------------------------------------------------
(***************************************************************************)
(* Numbers.                                                                *)
(***************************************************************************)

\* A set of numbers with a bound has a largest element, which Max chooses.
LEMMA LargestElement ==
    ASSUME NEW bound \in Nat, NEW S \in SUBSET (1 .. bound), S # {}
    PROVE  Max(S) \in S
<1> DEFINE Rest == {bound - n : n \in S}
<1>1. \A n \in S : n \in Int /\ bound - n \in Nat
  OBVIOUS
<1>. Rest \in SUBSET Nat /\ Rest # {}
  BY <1>1
<1>2. PICK rest \in Rest : \A other \in Rest : rest <= other
  BY SmallestElement
<1>3. PICK n \in S : rest = bound - n
  BY <1>2
<1>4. ASSUME NEW m \in S
      PROVE  n >= m
  <2>1. bound - n <= bound - m
    BY <1>2, <1>3
  <2>2. m \in Int /\ n \in Int
    OBVIOUS
  <2>. QED  BY <2>1, <2>2
<1>. QED  BY <1>4 DEF Max

\* Quotient and remainder.
LEMMA Division ==
    ASSUME NEW a \in Nat, NEW p \in Nat \ {0}
    PROVE  /\ a \div p \in Nat
           /\ a % p \in 0 .. p - 1
           /\ a = p * (a \div p) + (a % p)
OBVIOUS

LEMMA RemainderIs ==
    ASSUME NEW a \in Nat, NEW p \in Nat \ {0}, NEW q \in Int, NEW r \in 0 .. p - 1,
           a = p * q + r
    PROVE  a % p = r
OBVIOUS

-----------------------------------------------------------------------------
(***************************************************************************)
(* Copies between rectangles.  Two intervals of `width' that repeat with a *)
(* period, and two of them that meet.                                      *)
(***************************************************************************)

\* A multiple of a positive number between its negative and itself is zero.
LEMMA NoMultipleBetween ==
    ASSUME NEW p \in Nat \ {0}, NEW m \in Int, - p < m * p, m * p < p
    PROVE  m = 0
<1>1. CASE m >= 1
  <2>1. m * p >= p
    BY <1>1
  <2>. QED  BY <2>1
<1>2. CASE m <= -1
  <2>1. m * p <= - p
    BY <1>2
  <2>. QED  BY <2>1
<1>. QED  BY <1>1, <1>2

\* InGap is right: if one interval lies in the gaps of the other, no two meet.
LEMMA GapsDoNotMeet ==
    ASSUME NEW a \in Nat, NEW b \in Nat, NEW width \in Nat, NEW p \in Nat \ {0},
           InGap(a, b, width, p),
           NEW m \in Int, NEW i \in Int, - width < i, i < width, b - a = m * p + i
    PROVE  FALSE
<1>1. m * p \in Int
  OBVIOUS
<1>2. CASE b >= a + width /\ b + width <= a + p
  <2>1. 0 < m * p /\ m * p < p
    BY <1>1, <1>2
  <2>2. m = 0
    BY <2>1, NoMultipleBetween
  <2>. QED  BY <2>1, <2>2
<1>3. CASE a >= b + width /\ a + width <= b + p
  <2>1. m * p < 0 /\ - p < m * p
    BY <1>1, <1>3
  <2>2. m = 0
    BY <2>1, NoMultipleBetween
  <2>. QED  BY <2>1, <2>2
<1>. QED  BY <1>2, <1>3 DEF InGap

\* ... and complete: if none lies in a gap, two meet.
LEMMA OutsideGapsMeet ==
    ASSUME NEW a \in Nat, NEW b \in Nat, NEW width \in Nat, NEW p \in Nat \ {0},
           a < p, b < p, ~ InGap(a, b, width, p)
    PROVE  \E m \in {-1, 0, 1} : - width < b - a - m * p /\ b - a - m * p < width
<1>1. CASE b >= a /\ b < a + width
  <2>1. - width < b - a - 0 * p /\ b - a - 0 * p < width
    BY <1>1
  <2>. QED  BY <2>1
<1>2. CASE b >= a /\ b + width > a + p
  <2>1. - width < b - a - 1 * p /\ b - a - 1 * p < width
    BY <1>2
  <2>. QED  BY <2>1
<1>3. CASE a >= b /\ a < b + width
  <2>1. - width < b - a - 0 * p /\ b - a - 0 * p < width
    BY <1>3
  <2>. QED  BY <2>1
<1>4. CASE a >= b /\ a + width > b + p
  <2>1. - width < b - a - (-1) * p /\ b - a - (-1) * p < width
    BY <1>4
  <2>. QED  BY <2>1
<1>. QED  BY <1>1, <1>2, <1>3, <1>4 DEF InGap

\* If `distance' is near a multiple of the period, and no farther than the last
\* of n intervals reaches, then it is near one of the first n multiples.
LEMMA NearbyInterval ==
    ASSUME NEW distance \in Int, NEW n \in Nat \ {0}, NEW p \in Nat \ {0}, NEW width \in 1 .. p,
           distance < (n - 1) * p + width, - distance < (n - 1) * p + width,
           NEW m \in Int, - width < distance - m * p, distance - m * p < width
    PROVE  \E k \in Int : /\ - n < k /\ k < n
                           /\ - width < distance - k * p /\ distance - k * p < width
<1>1. CASE - n < m /\ m < n
  BY <1>1
<1>2. CASE m >= n
  <2>1. m * p >= n * p
    BY <1>2
  <2>2. (n - 1) * p = n * p - p
    OBVIOUS
  <2>3. n * p \in Int /\ m * p \in Int /\ (n - 1) * p \in Int
    OBVIOUS
  <2>4. - width < distance - (n - 1) * p /\ distance - (n - 1) * p < width
    BY <2>1, <2>2, <2>3
  <2>. QED  BY <2>4
<1>3. CASE m <= - n
  <2>1. m * p <= - (n * p)
    BY <1>3
  <2>2. (n - 1) * p = n * p - p /\ (1 - n) * p = p - n * p
    OBVIOUS
  <2>3. n * p \in Int /\ m * p \in Int /\ (n - 1) * p \in Int /\ (1 - n) * p \in Int
    OBVIOUS
  <2>4. - width < distance - (1 - n) * p /\ distance - (1 - n) * p < width
    BY <2>1, <2>2, <2>3
  <2>. QED  BY <2>4
<1>. QED  BY <1>1, <1>2, <1>3

\* The distance is within `width' of some multiple of the period.
Near(distance, p, width) ==
    \E m \in Int : - width < distance - m * p /\ distance - m * p < width

\* InGap on the remainders of two starts decides whether the distance of the
\* starts is near a multiple of the period.
LEMMA GapOfRemainders ==
    ASSUME NEW p \in Nat \ {0}, NEW width \in Nat,
           NEW a \in 0 .. p - 1, NEW b \in 0 .. p - 1, NEW qa \in Nat, NEW qb \in Nat,
           NEW s \in Nat, NEW t \in Nat, s = p * qa + a, t = p * qb + b
    PROVE  InGap(a, b, width, p) <=> ~ Near(t - s, p, width)
<1>1. \A m \in Int : (m - (qb - qa)) * p = m * p - (p * qb - p * qa)
  OBVIOUS
<1>2. \A m \in Int : (m + (qb - qa)) * p = m * p + (p * qb - p * qa)
  OBVIOUS
<1>3. p * qa \in Int /\ p * qb \in Int /\ \A m \in Int : m * p \in Int
  OBVIOUS
<1>4. ASSUME InGap(a, b, width, p), Near(t - s, p, width)
      PROVE  FALSE
  <2>1. PICK m \in Int : - width < t - s - m * p /\ t - s - m * p < width
    BY <1>4 DEF Near
  <2> DEFINE i == t - s - m * p
             k == m - (qb - qa)
  <2>2. i \in Int /\ k \in Int /\ - width < i /\ i < width
    BY <2>1, <1>3
  <2>3. b - a = k * p + i
    BY <1>1, <1>3
  <2> HIDE DEF i, k
  <2>4. a \in Nat /\ b \in Nat
    OBVIOUS
  <2>. QED  BY <1>4, <2>2, <2>3, <2>4, GapsDoNotMeet
<1>5. ASSUME ~ InGap(a, b, width, p)
      PROVE  Near(t - s, p, width)
  <2>1. a \in Nat /\ b \in Nat /\ a < p /\ b < p
    OBVIOUS
  <2>2. PICK m \in {-1, 0, 1} : - width < b - a - m * p /\ b - a - m * p < width
    BY <1>5, <2>1, OutsideGapsMeet
  <2> DEFINE k == m + (qb - qa)
  <2>3. k \in Int /\ m \in Int
    OBVIOUS
  <2>4. t - s - k * p = b - a - m * p
    BY <1>2, <1>3, <2>3
  <2> HIDE DEF k
  <2>. QED  BY <2>2, <2>3, <2>4 DEF Near
<1>. QED  BY <1>4, <1>5

\* The distance is made of fewer slices, rows and bytes than a region has.
ApartBy(distance, width, height, depth, row, slice) ==
    \E k, j, i \in Int :
        /\ - depth < k /\ k < depth /\ - height < j /\ j < height /\ - width < i /\ i < width
        /\ distance = k * slice + j * row + i

\* A distance is k slices, j rows and i bytes of a region if it is within its
\* extent and near a multiple of either pitch.
LEMMA DistanceInRegion ==
    ASSUME NEW width \in Nat \ {0}, NEW height \in Nat \ {0}, NEW depth \in Nat \ {0},
           NEW row \in Nat, NEW rows \in Nat, row >= width, rows >= height,
           NEW slice \in Nat, slice = rows * row,
           NEW slice_size \in Nat, slice_size = (height - 1) * row + width,
           NEW distance \in Int,
           distance < (depth - 1) * slice + slice_size,
           - distance < (depth - 1) * slice + slice_size,
           Near(distance, row, width), Near(distance, slice, slice_size)
    PROVE  ApartBy(distance, width, height, depth, row, slice)
<1>1. slice_size \in 1 .. slice /\ slice \in Nat \ {0} /\ row \in Nat \ {0} /\ width \in 1 .. row
  <2>1. height * row <= rows * row
    OBVIOUS
  <2>2. (height - 1) * row = height * row - row /\ height * row \in Int /\ (height - 1) * row >= 0
    OBVIOUS
  <2>. QED  BY <2>1, <2>2
<1>2. PICK k \in Int : /\ - depth < k /\ k < depth
                       /\ - slice_size < distance - k * slice /\ distance - k * slice < slice_size
  <2>1. PICK m \in Int : /\ - slice_size < distance - m * slice
                         /\ distance - m * slice < slice_size
    BY DEF Near
  <2>. QED  BY <1>1, <2>1, NearbyInterval
<1>3. PICK m \in Int : - width < distance - m * row /\ distance - m * row < width
  BY DEF Near
<1> DEFINE rest == distance - k * slice
           l == m - k * rows
<1>4. rest \in Int /\ l \in Int
  OBVIOUS
<1>5. l * row = m * row - k * slice
  OBVIOUS
<1>6. rest - l * row = distance - m * row
  BY <1>5
<1>7. /\ rest < (height - 1) * row + width /\ - rest < (height - 1) * row + width
      /\ - width < rest - l * row /\ rest - l * row < width
  <2>1. k * slice \in Int /\ (height - 1) * row \in Int
    OBVIOUS
  <2>2. rest < slice_size /\ - rest < slice_size
    BY <1>2, <2>1
  <2>. QED  BY <1>3, <1>6, <2>1, <2>2
<1>8. distance = k * slice + rest
  OBVIOUS
<1> HIDE DEF rest, l
<1>9. PICK j \in Int : /\ - height < j /\ j < height
                       /\ - width < rest - j * row /\ rest - j * row < width
  BY <1>1, <1>4, <1>7, NearbyInterval
<1> DEFINE i == rest - j * row
<1>10. i \in Int /\ distance = k * slice + j * row + i /\ - width < i /\ i < width
  BY <1>4, <1>8, <1>9
<1> HIDE DEF i
<1>. QED  BY <1>2, <1>9, <1>10 DEF ApartBy

\* ... and only then.
LEMMA RegionInDistance ==
    ASSUME NEW width \in Nat \ {0}, NEW height \in Nat \ {0}, NEW depth \in Nat \ {0},
           NEW row \in Nat, NEW rows \in Nat,
           NEW slice \in Nat, slice = rows * row,
           NEW slice_size \in Nat, slice_size = (height - 1) * row + width,
           NEW distance \in Int, ApartBy(distance, width, height, depth, row, slice)
    PROVE  /\ distance < (depth - 1) * slice + slice_size
           /\ - distance < (depth - 1) * slice + slice_size
           /\ Near(distance, row, width)
           /\ Near(distance, slice, slice_size)
<1>. PICK k, j, i \in Int :
        /\ - depth < k /\ k < depth /\ - height < j /\ j < height /\ - width < i /\ i < width
        /\ distance = k * slice + j * row + i
  BY DEF ApartBy
<1>1. k * slice <= (depth - 1) * slice /\ - (k * slice) <= (depth - 1) * slice
  <2>1. (depth - 1 - k) * slice >= 0 /\ (depth - 1 + k) * slice >= 0
    OBVIOUS
  <2>2. (depth - 1 - k) * slice = (depth - 1) * slice - k * slice
    OBVIOUS
  <2>3. (depth - 1 + k) * slice = (depth - 1) * slice + k * slice
    OBVIOUS
  <2>4. k * slice \in Int /\ (depth - 1) * slice \in Int
    OBVIOUS
  <2>. QED  BY <2>1, <2>2, <2>3, <2>4
<1>2. j * row <= (height - 1) * row /\ - (j * row) <= (height - 1) * row
  <2>1. (height - 1 - j) * row >= 0 /\ (height - 1 + j) * row >= 0
    OBVIOUS
  <2>2. (height - 1 - j) * row = (height - 1) * row - j * row
    OBVIOUS
  <2>3. (height - 1 + j) * row = (height - 1) * row + j * row
    OBVIOUS
  <2>4. j * row \in Int /\ (height - 1) * row \in Int
    OBVIOUS
  <2>. QED  BY <2>1, <2>2, <2>3, <2>4
<1>3. /\ k * slice \in Int /\ j * row \in Int
      /\ (height - 1) * row \in Int /\ (depth - 1) * slice \in Int
  OBVIOUS
<1>4. - slice_size < j * row + i /\ j * row + i < slice_size
  BY <1>2, <1>3
<1>5. Near(distance, slice, slice_size)
  <2>1. distance - k * slice = j * row + i
    BY <1>3
  <2>. QED  BY <1>4, <2>1 DEF Near
<1>6. Near(distance, row, width)
  <2> DEFINE m == k * rows + j
  <2>1. m * row = k * slice + j * row /\ m \in Int
    OBVIOUS
  <2>2. distance - m * row = i
    BY <1>3, <2>1
  <2> HIDE DEF m
  <2>. QED  BY <2>1, <2>2 DEF Near
<1>7. distance < (depth - 1) * slice + slice_size /\ - distance < (depth - 1) * slice + slice_size
  BY <1>1, <1>3, <1>4
<1>. QED  BY <1>5, <1>6, <1>7

\* The bytes of two rectangles of the same shape meet if their starts are some
\* slices, rows and bytes of the region apart.
LEMMA SharedBytes ==
    ASSUME NEW o \in Triple, NEW e \in Triple, NEW region \in Triple, NEW src, NEW dst,
           NEW row \in Nat, row = RowPitch(src, region), row = RowPitch(dst, region),
           NEW slice \in Nat, slice = SlicePitch(src, region), slice = SlicePitch(dst, region),
           NEW distance \in Int,
           distance = (e[3] * slice + e[2] * row + e[1]) - (o[3] * slice + o[2] * row + o[1])
    PROVE  Bytes(o, src, region) \cap Bytes(e, dst, region) # {} <=>
              ApartBy(distance, region[1], region[2], region[3], row, slice)
<1>1. /\ o[1] \in Nat /\ o[2] \in Nat /\ o[3] \in Nat
      /\ e[1] \in Nat /\ e[2] \in Nat /\ e[3] \in Nat
      /\ region[1] \in Nat /\ region[2] \in Nat /\ region[3] \in Nat
  BY DEF Triple
<1> DEFINE Place(origin, z, y, x) == (origin[3] + z) * slice + (origin[2] + y) * row + origin[1] + x
           Xs == 0 .. region[1] - 1
           Ys == 0 .. region[2] - 1
           Zs == 0 .. region[3] - 1
<1>2. /\ Bytes(o, src, region) = {Place(o, z, y, x) : x \in Xs, y \in Ys, z \in Zs}
      /\ Bytes(e, dst, region) = {Place(e, z, y, x) : x \in Xs, y \in Ys, z \in Zs}
  BY DEF Bytes
<1>3. ASSUME NEW z1 \in Int, NEW y1 \in Int, NEW x1 \in Int,
             NEW z2 \in Int, NEW y2 \in Int, NEW x2 \in Int
      PROVE  Place(o, z1, y1, x1) = Place(e, z2, y2, x2) <=>
                distance = (z1 - z2) * slice + (y1 - y2) * row + (x1 - x2)
  <2> DEFINE so == o[3] * slice + o[2] * row + o[1]
             se == e[3] * slice + e[2] * row + e[1]
             d1 == z1 * slice + y1 * row + x1
             d2 == z2 * slice + y2 * row + x2
  <2>1. Place(o, z1, y1, x1) = so + d1
    BY <1>1
  <2>2. Place(e, z2, y2, x2) = se + d2
    BY <1>1
  <2>3. (z1 - z2) * slice + (y1 - y2) * row + (x1 - x2) = d1 - d2
    OBVIOUS
  <2>4. so \in Int /\ se \in Int /\ d1 \in Int /\ d2 \in Int
    BY <1>1
  <2>5. distance = se - so
    OBVIOUS
  <2> HIDE DEF Place, so, se, d1, d2
  <2>. QED  BY <2>1, <2>2, <2>3, <2>4, <2>5
<1> HIDE DEF Place
<1>4. ASSUME Bytes(o, src, region) \cap Bytes(e, dst, region) # {}
      PROVE  \E k, j, i \in Int :
                /\ - region[3] < k /\ k < region[3] /\ - region[2] < j /\ j < region[2]
                /\ - region[1] < i /\ i < region[1]
                /\ distance = k * slice + j * row + i
  <2>1. PICK byte : byte \in Bytes(o, src, region) /\ byte \in Bytes(e, dst, region)
    BY <1>4
  <2>2. PICK x1 \in Xs, y1 \in Ys, z1 \in Zs : byte = Place(o, z1, y1, x1)
    BY <1>2, <2>1
  <2>3. PICK x2 \in Xs, y2 \in Ys, z2 \in Zs : byte = Place(e, z2, y2, x2)
    BY <1>2, <2>1
  <2>4. distance = (z1 - z2) * slice + (y1 - y2) * row + (x1 - x2)
    <3>1. /\ z1 \in Int /\ y1 \in Int /\ x1 \in Int
          /\ z2 \in Int /\ y2 \in Int /\ x2 \in Int
      OBVIOUS
    <3>2. Place(o, z1, y1, x1) = Place(e, z2, y2, x2)
      BY <2>2, <2>3
    <3>. QED  BY <1>3, <3>1, <3>2
  <2>5. /\ - region[3] < z1 - z2 /\ z1 - z2 < region[3] /\ z1 - z2 \in Int
        /\ - region[2] < y1 - y2 /\ y1 - y2 < region[2] /\ y1 - y2 \in Int
        /\ - region[1] < x1 - x2 /\ x1 - x2 < region[1] /\ x1 - x2 \in Int
    BY <1>1
  <2>. QED  BY <2>4, <2>5
<1>5. ASSUME NEW k \in Int, NEW j \in Int, NEW i \in Int,
             - region[3] < k, k < region[3], - region[2] < j, j < region[2],
             - region[1] < i, i < region[1], distance = k * slice + j * row + i
      PROVE  Bytes(o, src, region) \cap Bytes(e, dst, region) # {}
  <2>1. PICK z1 \in Zs, z2 \in Zs : k = z1 - z2
    <3>1. CASE k >= 0
      <4>1. k \in Zs /\ 0 \in Zs /\ k = k - 0
        BY <1>1, <1>5, <3>1
      <4>. QED  BY <4>1
    <3>2. CASE k < 0
      <4>1. 0 \in Zs /\ - k \in Zs /\ k = 0 - (- k)
        BY <1>1, <1>5, <3>2
      <4>. QED  BY <4>1
    <3>. QED  BY <3>1, <3>2
  <2>2. PICK y1 \in Ys, y2 \in Ys : j = y1 - y2
    <3>1. CASE j >= 0
      <4>1. j \in Ys /\ 0 \in Ys /\ j = j - 0
        BY <1>1, <1>5, <3>1
      <4>. QED  BY <4>1
    <3>2. CASE j < 0
      <4>1. 0 \in Ys /\ - j \in Ys /\ j = 0 - (- j)
        BY <1>1, <1>5, <3>2
      <4>. QED  BY <4>1
    <3>. QED  BY <3>1, <3>2
  <2>3. PICK x1 \in Xs, x2 \in Xs : i = x1 - x2
    <3>1. CASE i >= 0
      <4>1. i \in Xs /\ 0 \in Xs /\ i = i - 0
        BY <1>1, <1>5, <3>1
      <4>. QED  BY <4>1
    <3>2. CASE i < 0
      <4>1. 0 \in Xs /\ - i \in Xs /\ i = 0 - (- i)
        BY <1>1, <1>5, <3>2
      <4>. QED  BY <4>1
    <3>. QED  BY <3>1, <3>2
  <2>4. Place(o, z1, y1, x1) = Place(e, z2, y2, x2)
    <3>1. /\ z1 \in Int /\ y1 \in Int /\ x1 \in Int
          /\ z2 \in Int /\ y2 \in Int /\ x2 \in Int
      OBVIOUS
    <3>2. distance = (z1 - z2) * slice + (y1 - y2) * row + (x1 - x2)
      BY <1>5, <2>1, <2>2, <2>3
    <3>. QED  BY <1>3, <3>1, <3>2
  <2>. QED  BY <1>2, <2>4
<1>. QED  BY <1>4, <1>5 DEF ApartBy

\* The checks in front of the overlap leave pitches that rows and slices fit in.
LEMMA Pitches ==
    ASSUME NEW region \in Triple, \A n \in 1 .. 3 : region[n] # 0, NEW pitch \in Pitch,
           ~ row_pitch_violation(pitch.row, region),
           ~ slice_pitch_violation(pitch.row, pitch.slice, region)
    PROVE  LET row == RowPitch(pitch, region)
               slice == SlicePitch(pitch, region)
           IN  /\ row = (IF pitch.row > 0 THEN pitch.row ELSE region[1])
               /\ slice = (IF pitch.slice > 0 THEN pitch.slice ELSE region[2] * row)
               /\ row \in Nat /\ row >= region[1]
               /\ slice \in Nat
               /\ \E rows \in Nat : rows >= region[2] /\ slice = rows * row
<1> DEFINE row == RowPitch(pitch, region)
           slice == SlicePitch(pitch, region)
<1>1. /\ region[1] \in Nat \ {0} /\ region[2] \in Nat \ {0} /\ region[3] \in Nat \ {0}
      /\ pitch.row \in Nat /\ pitch.slice \in Nat
  BY DEF Triple, Pitch
<1>2. /\ row = (IF pitch.row > 0 THEN pitch.row ELSE region[1])
      /\ row = (IF pitch.row # 0 THEN pitch.row ELSE region[1])
      /\ row \in Nat /\ row >= region[1]
  BY <1>1 DEF RowPitch, Max2, row_pitch_violation
<1>3. pitch.slice = 0 \/ (pitch.slice >= region[2] * row /\ pitch.slice % row = 0)
  <2>1. region[2] * row \in Int
    BY <1>1, <1>2
  <2> HIDE DEF row
  <2>. QED  BY <1>1, <1>2, <2>1 DEF slice_pitch_violation
<1>4. slice = Max2(pitch.slice, row * region[2])
  BY DEF SlicePitch
<1>5. row * region[2] = region[2] * row /\ region[2] * row \in Nat
  BY <1>1, <1>2
<1> HIDE DEF row, slice
<1>6. slice = (IF pitch.slice > 0 THEN pitch.slice ELSE region[2] * row) /\ slice \in Nat
  BY <1>1, <1>3, <1>4, <1>5 DEF Max2
<1>7. \E rows \in Nat : rows >= region[2] /\ slice = rows * row
  <2>1. CASE pitch.slice = 0
    BY <1>1, <1>6, <2>1
  <2>2. CASE pitch.slice # 0
    <3>1. slice >= region[2] * row /\ slice % row = 0
      BY <1>1, <1>3, <1>6, <2>2
    <3>2. PICK rows \in Nat : slice = row * rows + 0
      <4>1. row \in Nat \ {0}
        BY <1>1, <1>2
      <4>. QED  BY <1>6, <3>1, <4>1, Division
    <3>3. rows >= region[2]
      <4>1. SUFFICES ASSUME rows < region[2]
                     PROVE  FALSE
        BY <1>1
      <4>2. (region[2] - rows) * row >= row
        BY <1>1, <1>2, <4>1
      <4>3. (region[2] - rows) * row = region[2] * row - row * rows
        BY <1>1, <1>2
      <4>. QED  BY <1>1, <1>2, <1>5, <3>1, <3>2, <4>2, <4>3
    <3>4. slice = rows * row
      BY <1>2, <3>2
    <3>. QED  BY <3>3, <3>4
  <2>. QED  BY <2>1, <2>2
<1>. QED  BY <1>2, <1>6, <1>7 DEF row, slice

\* The arithmetic of check_copy_overlap finds the bytes that rectangles share.
LEMMA OverlapExact ==
    ASSUME NEW o \in Triple, NEW e \in Triple, NEW region \in Triple,
           \A n \in 1 .. 3 : region[n] # 0,
           NEW src \in Pitch, NEW dst,
           ~ row_pitch_violation(src.row, region),
           ~ slice_pitch_violation(src.row, src.slice, region),
           RowPitch(src, region) = RowPitch(dst, region),
           SlicePitch(src, region) = SlicePitch(dst, region)
    PROVE  check_copy_overlap(o, e, region, src.row, src.slice) <=>
              Bytes(o, src, region) \cap Bytes(e, dst, region) # {}
<1>1. /\ o[1] \in Nat /\ o[2] \in Nat /\ o[3] \in Nat
      /\ e[1] \in Nat /\ e[2] \in Nat /\ e[3] \in Nat
      /\ region[1] \in Nat \ {0} /\ region[2] \in Nat \ {0} /\ region[3] \in Nat \ {0}
      /\ src.row \in Nat /\ src.slice \in Nat
  BY DEF Triple, Pitch
<1> DEFINE row == RowPitch(src, region)
           slice == SlicePitch(src, region)
<1>2. /\ row = (IF src.row > 0 THEN src.row ELSE region[1])
      /\ slice = (IF src.slice > 0 THEN src.slice ELSE region[2] * row)
      /\ row \in Nat /\ row >= region[1] /\ slice \in Nat
      /\ \E rows \in Nat : rows >= region[2] /\ slice = rows * row
  BY Pitches
<1>3. PICK rows \in Nat : rows >= region[2] /\ slice = rows * row
  BY <1>2
<1> HIDE DEF row, slice
<1>4. row \in Nat \ {0} /\ slice \in Nat \ {0} /\ rows \in Nat \ {0}
  BY <1>1, <1>2, <1>3
<1> DEFINE Start(origin) == origin[3] * slice + origin[2] * row + origin[1]
           slice_size == (region[2] - 1) * row + region[1]
           extent == (region[3] - 1) * slice + slice_size
           dx(origin) == origin[1] % row
           dy(origin) == (origin[2] * row + origin[1]) % slice
           s == Start(o)
           t == Start(e)
<1>5. check_copy_overlap(o, e, region, src.row, src.slice) <=>
        ~ \/ t + extent <= s
          \/ s + extent <= t
          \/ InGap(dx(o), dx(e), region[1], row)
          \/ InGap(dy(o), dy(e), slice_size, slice)
  BY <1>2 DEF check_copy_overlap
<1>6. s \in Nat /\ t \in Nat /\ slice_size \in Nat /\ extent \in Nat
  <2>1. s \in Nat /\ t \in Nat
    BY <1>1, <1>4
  <2>2. region[2] - 1 \in Nat /\ region[3] - 1 \in Nat
    BY <1>1
  <2>3. slice_size \in Nat
    BY <1>1, <1>4, <2>2
  <2> HIDE DEF slice_size
  <2>4. extent \in Nat
    BY <1>4, <2>2, <2>3
  <2>. QED  BY <2>1, <2>3, <2>4
<1>7. ASSUME NEW origin \in Triple
      PROVE  /\ dx(origin) \in 0 .. row - 1
             /\ \E q \in Nat : Start(origin) = row * q + dx(origin)
             /\ dy(origin) \in 0 .. slice - 1
             /\ \E q \in Nat : Start(origin) = slice * q + dy(origin)
  <2>1. origin[1] \in Nat /\ origin[2] \in Nat /\ origin[3] \in Nat
    BY DEF Triple
  <2> DEFINE q == origin[1] \div row
             flat == origin[2] * row + origin[1]
             p == flat \div slice
  <2>2. q \in Nat /\ dx(origin) \in 0 .. row - 1 /\ origin[1] = row * q + dx(origin)
    BY <1>4, <2>1, Division
  <2>3. flat \in Nat
    BY <1>4, <2>1
  <2>4. Start(origin) = origin[3] * slice + flat
    BY <1>4, <2>1
  <2>5. dy(origin) = flat % slice
    OBVIOUS
  <2> HIDE DEF flat
  <2>6. p \in Nat /\ dy(origin) \in 0 .. slice - 1 /\ flat = slice * p + dy(origin)
    BY <1>4, <2>3, <2>5, Division
  <2>7. Start(origin) = row * (origin[3] * rows + origin[2] + q) + dx(origin)
    <3>1. Start(origin) = origin[3] * (rows * row) + origin[2] * row + origin[1]
      BY <1>3
    <3>2. q \in Nat /\ dx(origin) \in Int
      BY <2>2
    <3> HIDE DEF q, dx, Start
    <3>3. Start(origin) = origin[3] * (rows * row) + origin[2] * row + row * q + dx(origin)
      BY <1>4, <2>1, <2>2, <3>1, <3>2
    <3>. QED  BY <1>4, <2>1, <3>2, <3>3
  <2>8. origin[3] * rows + origin[2] + q \in Nat
    BY <1>4, <2>1, <2>2
  <2>9. Start(origin) = slice * (origin[3] + p) + dy(origin) /\ origin[3] + p \in Nat
    <3> HIDE DEF p, dy, Start
    <3>. QED  BY <1>4, <2>1, <2>4, <2>6
  <2>. QED  BY <2>2, <2>6, <2>7, <2>8, <2>9
<1> HIDE DEF dx, dy
<1>8. InGap(dx(o), dx(e), region[1], row) <=> ~ Near(t - s, row, region[1])
  <2>1. PICK qo \in Nat : s = row * qo + dx(o)
    BY <1>7
  <2>2. PICK qe \in Nat : t = row * qe + dx(e)
    BY <1>7
  <2>3. dx(o) \in 0 .. row - 1 /\ dx(e) \in 0 .. row - 1 /\ region[1] \in Nat
    BY <1>1, <1>7
  <2> HIDE DEF s, t
  <2>. QED  BY <1>4, <1>6, <2>1, <2>2, <2>3, GapOfRemainders
<1>9. InGap(dy(o), dy(e), slice_size, slice) <=> ~ Near(t - s, slice, slice_size)
  <2>1. PICK qo \in Nat : s = slice * qo + dy(o)
    BY <1>7
  <2>2. PICK qe \in Nat : t = slice * qe + dy(e)
    BY <1>7
  <2>3. dy(o) \in 0 .. slice - 1 /\ dy(e) \in 0 .. slice - 1
    BY <1>7
  <2> HIDE DEF s, t, slice_size
  <2>. QED  BY <1>4, <1>6, <2>1, <2>2, <2>3, GapOfRemainders
<1> DEFINE distance == t - s
           Apart == ApartBy(distance, region[1], region[2], region[3], row, slice)
<1>10. distance \in Int
  <2> HIDE DEF s, t
  <2>. QED  BY <1>6
<1>11. Bytes(o, src, region) \cap Bytes(e, dst, region) # {} <=> Apart
  <2>1. /\ row = RowPitch(src, region) /\ row = RowPitch(dst, region)
        /\ slice = SlicePitch(src, region) /\ slice = SlicePitch(dst, region)
    BY DEF row, slice
  <2>2. distance = (e[3] * slice + e[2] * row + e[1]) - (o[3] * slice + o[2] * row + o[1])
    OBVIOUS
  <2> HIDE DEF distance
  <2>. QED  BY <1>2, <1>10, <2>1, <2>2, SharedBytes
<1>12. Apart <=> /\ distance < extent /\ - distance < extent
                 /\ Near(distance, row, region[1]) /\ Near(distance, slice, slice_size)
  <2>1. slice_size = (region[2] - 1) * row + region[1]
    OBVIOUS
  <2>2. extent = (region[3] - 1) * slice + slice_size
    OBVIOUS
  <2> HIDE DEF distance, slice_size, extent
  <2>3. ASSUME Apart
        PROVE  /\ distance < extent /\ - distance < extent
               /\ Near(distance, row, region[1]) /\ Near(distance, slice, slice_size)
    <3>2. row \in Nat /\ rows \in Nat /\ slice \in Nat /\ slice = rows * row
      BY <1>3, <1>4
    <3>3. /\ distance < (region[3] - 1) * slice + slice_size
          /\ - distance < (region[3] - 1) * slice + slice_size
          /\ Near(distance, row, region[1]) /\ Near(distance, slice, slice_size)
      BY <1>1, <1>6, <1>10, <2>1, <2>3, <3>2, RegionInDistance
    <3>. QED  BY <2>2, <3>3
  <2>4. ASSUME distance < extent, - distance < extent,
               Near(distance, row, region[1]), Near(distance, slice, slice_size)
        PROVE  Apart
    <3>1. /\ distance < (region[3] - 1) * slice + slice_size
          /\ - distance < (region[3] - 1) * slice + slice_size
      BY <2>2, <2>4
    <3>2. /\ row \in Nat /\ rows \in Nat /\ slice \in Nat /\ slice = rows * row
          /\ row >= region[1] /\ rows >= region[2]
      BY <1>2, <1>3
    <3>. QED  BY <1>1, <1>6, <1>10, <2>1, <2>4, <3>1, <3>2, DistanceInRegion
  <2>. QED  BY <2>3, <2>4
<1>13. /\ t + extent <= s <=> ~ (- distance < extent)
       /\ s + extent <= t <=> ~ (distance < extent)
  <2> HIDE DEF s, t, extent
  <2>. QED  BY <1>6
<1> HIDE DEF Apart, s, t, extent, slice_size
<1>14. /\ InGap(dx(o), dx(e), region[1], row) <=> ~ Near(distance, row, region[1])
       /\ InGap(dy(o), dy(e), slice_size, slice) <=> ~ Near(distance, slice, slice_size)
  BY <1>8, <1>9
<1> HIDE DEF distance
<1>. QED  BY <1>5, <1>11, <1>12, <1>13, <1>14

-----------------------------------------------------------------------------
(***************************************************************************)
(* Calls and their answers.                                                *)
(***************************************************************************)

\* An answer has the name of the call that made it.
LEMMA CallNames ==
    /\ clGetLayerInfo => answer'.call = "clGetLayerInfo"
    /\ clInitLayer => answer'.call = "clInitLayer"
    /\ clGetPlatformIDs_wrap => answer'.call = "clGetPlatformIDs"
    /\ clCreateContext_wrap => answer'.call = "clCreateContext"
    /\ clCreateContextFromType_wrap => answer'.call = "clCreateContextFromType"
    /\ clGetGLContextInfoKHR_wrap => answer'.call = "clGetGLContextInfoKHR"
    /\ PlatformCall_wrap => answer'.call = "PlatformCall"
    /\ clCreateContext_layer => answer'.call = "clCreateContext"
    /\ clCreateSubDevices_layer => answer'.call = "clCreateSubDevices"
    /\ clEnqueueCopyBufferRect_layer => answer'.call = "clEnqueueCopyBufferRect"
    /\ clEnqueueSVMMemcpy_layer => answer'.call = "clEnqueueSVMMemcpy"
    /\ clEnqueueNDRangeKernel_layer => answer'.call = "clEnqueueNDRangeKernel"
    /\ clCreateSubBuffer_layer => answer'.call = "clCreateSubBuffer"
<1>1. clGetLayerInfo => answer'.call = "clGetLayerInfo"
  BY DEF clGetLayerInfo, Answer
<1>2. clInitLayer => answer'.call = "clInitLayer"
  BY DEF clInitLayer, Answer
<1>3. clGetPlatformIDs_wrap => answer'.call = "clGetPlatformIDs"
  BY DEF clGetPlatformIDs_wrap, IcdCall, Answer
<1>4. clCreateContext_wrap => answer'.call = "clCreateContext"
  BY DEF clCreateContext_wrap, IcdCall, Answer
<1>5. clCreateContextFromType_wrap => answer'.call = "clCreateContextFromType"
  BY DEF clCreateContextFromType_wrap, IcdCall, Answer
<1>6. clGetGLContextInfoKHR_wrap => answer'.call = "clGetGLContextInfoKHR"
  BY DEF clGetGLContextInfoKHR_wrap, IcdCall, Answer
<1>7. PlatformCall_wrap => answer'.call = "PlatformCall"
  BY DEF PlatformCall_wrap, IcdCall, Answer
<1>8. clCreateContext_layer => answer'.call = "clCreateContext"
  BY DEF clCreateContext_layer, Verified, Answer
<1>9. clCreateSubDevices_layer => answer'.call = "clCreateSubDevices"
  BY DEF clCreateSubDevices_layer, Verified, Answer
<1>10. clEnqueueCopyBufferRect_layer => answer'.call = "clEnqueueCopyBufferRect"
  BY DEF clEnqueueCopyBufferRect_layer, Verified, Answer
<1>11. clEnqueueSVMMemcpy_layer => answer'.call = "clEnqueueSVMMemcpy"
  BY DEF clEnqueueSVMMemcpy_layer, Verified, Answer
<1>12. clEnqueueNDRangeKernel_layer => answer'.call = "clEnqueueNDRangeKernel"
  BY DEF clEnqueueNDRangeKernel_layer, Verified, Answer
<1>13. clCreateSubBuffer_layer => answer'.call = "clCreateSubBuffer"
  BY DEF clCreateSubBuffer_layer, Verified, Answer
<1>. QED
  BY <1>1, <1>2, <1>3, <1>4, <1>5, <1>6, <1>7, <1>8, <1>9, <1>10, <1>11, <1>12, <1>13

\* The call that a step makes, by the name in its answer.
LEMMA CallOfAnswer ==
    ASSUME Next
    PROVE  /\ answer'.call = "clCreateContext" =>
                \/ world.layer = "ocl_icd_compat" /\ clCreateContext_wrap
                \/ world.layer = "param_verification" /\ clCreateContext_layer
           /\ answer'.call = "clCreateSubDevices" =>
                world.layer = "param_verification" /\ clCreateSubDevices_layer
           /\ answer'.call = "clEnqueueCopyBufferRect" => clEnqueueCopyBufferRect_layer
           /\ answer'.call = "clEnqueueSVMMemcpy" => clEnqueueSVMMemcpy_layer
           /\ answer'.call = "clEnqueueNDRangeKernel" => clEnqueueNDRangeKernel_layer
           /\ answer'.call = "clCreateSubBuffer" => clCreateSubBuffer_layer
BY CallNames DEF Next, IcdCalls, VerifiedCalls

\* What the answer of a verified call says of the violation, if any.
LEMMA VerifiedAnswer ==
    ASSUME NEW call, NEW arguments, NEW violation, Verified(call, arguments, violation)
    PROVE  /\ answer'.call = call
           /\ answer'.arguments = arguments
           /\ answer'.result = Forwarded("none") <=> violation = "none"
           /\ answer'.result.outcome = "crashed" => violation = "crash"
           /\ violation # "crash" => answer'.result.with = violation
           /\ world' = world
<1>1. answer' = [call |-> call, arguments |-> arguments,
                 result |-> IF violation = "crash" THEN Crashed
                            ELSE IF violation = "none" \/ settings.transparent
                            THEN Forwarded(violation) ELSE Refused(violation)]
  BY DEF Verified, Answer
<1>2. CASE violation = "crash"
  BY <1>1, <1>2 DEF Crashed, Forwarded, Verified
<1>3. CASE violation # "crash" /\ (violation = "none" \/ settings.transparent)
  BY <1>1, <1>3 DEF Forwarded, Verified
<1>4. CASE violation # "crash" /\ ~ (violation = "none" \/ settings.transparent)
  BY <1>1, <1>4 DEF Forwarded, Refused, Verified
<1>. QED  BY <1>2, <1>3, <1>4

-----------------------------------------------------------------------------
(***************************************************************************)
(* clEnqueueSVMMemcpy.                                                     *)
(***************************************************************************)

\* Two ranges of memory overlap exactly if they share a byte.
LEMMA RangesShareByte ==
    ASSUME NEW dst \in Nat, NEW src \in Nat, NEW size \in Nat
    PROVE  svm_copy_overlap(dst, src, size) <=>
              \E byte \in dst .. dst + size - 1 : src <= byte /\ byte < src + size
<1>1. ASSUME svm_copy_overlap(dst, src, size)
      PROVE  \E byte \in dst .. dst + size - 1 : src <= byte /\ byte < src + size
  <2>1. CASE src <= dst
    <3>1. dst \in dst .. dst + size - 1 /\ src <= dst /\ dst < src + size
      BY <1>1, <2>1 DEF svm_copy_overlap
    <3>. QED  BY <3>1
  <2>2. CASE dst < src
    <3>1. src \in dst .. dst + size - 1 /\ src <= src /\ src < src + size
      BY <1>1, <2>2 DEF svm_copy_overlap
    <3>. QED  BY <3>1
  <2>. QED  BY <2>1, <2>2
<1>2. ASSUME NEW byte \in dst .. dst + size - 1, src <= byte, byte < src + size
      PROVE  svm_copy_overlap(dst, src, size)
  BY <1>2 DEF svm_copy_overlap
<1>. QED  BY <1>1, <1>2

LEMMA SvmMemcpyExact ==
    ASSUME clEnqueueSVMMemcpy_layer
    PROVE  SvmOverlapExact'
<1>1. PICK r \in Ranges, objects \in {"none", "CL_INVALID_COMMAND_QUEUE"},
           events \in {"none", "CL_INVALID_EVENT_WAIT_LIST"} :
        Verified("clEnqueueSVMMemcpy", [range |-> r],
                 clEnqueueSVMMemcpy_violation(objects, r.dst, r.src, r.size, events))
  BY DEF clEnqueueSVMMemcpy_layer
<1> DEFINE violation == clEnqueueSVMMemcpy_violation(objects, r.dst, r.src, r.size, events)
           shared == \E byte \in r.dst .. r.dst + r.size - 1 : r.src <= byte /\ byte < r.src + r.size
<1>2. /\ violation # "crash"
      /\ violation = "none" => ~ shared
      /\ violation = "CL_MEM_COPY_OVERLAP" => shared
  <2>1. CASE objects # "none" \/ events # "none" \/ r.dst = NULL \/ r.src = NULL
    BY <2>1 DEF clEnqueueSVMMemcpy_violation
  <2>2. CASE objects = "none" /\ events = "none" /\ r.dst # NULL /\ r.src # NULL
    <3>1. r.dst \in Nat /\ r.src \in Nat /\ r.size \in Nat
      BY <2>2, RegionsAssumption
    <3>2. svm_copy_overlap(r.dst, r.src, r.size) <=> shared
      BY <3>1, RangesShareByte
    <3>3. violation = IF svm_copy_overlap(r.dst, r.src, r.size) THEN "CL_MEM_COPY_OVERLAP" ELSE "none"
      BY <2>2 DEF clEnqueueSVMMemcpy_violation
    <3> HIDE DEF shared, violation
    <3>. QED  BY <3>2, <3>3
  <2>. QED  BY <2>1, <2>2
<1>3. /\ answer'.arguments = [range |-> r]
      /\ answer'.result = Forwarded("none") => violation = "none"
      /\ answer'.result.with = violation
  BY <1>1, <1>2, VerifiedAnswer
<1>4. answer'.arguments.range = r
  BY <1>3
<1> HIDE DEF violation
<1>. QED  BY <1>2, <1>3, <1>4 DEF SvmOverlapExact, Accepted

\* A copy of memory is refused for an overlap exactly if some byte of it is
\* both read and written (check_copy_overlap in list_violation.cpp).
THEOREM LayerSvmOverlapExact == Spec => []SvmOverlapExact
<1>1. Init => SvmOverlapExact
  BY DEF Init, SvmOverlapExact
<1>2. SvmOverlapExact /\ [Next]_vars => SvmOverlapExact'
  <2> SUFFICES ASSUME SvmOverlapExact, [Next]_vars
               PROVE  SvmOverlapExact'
    OBVIOUS
  <2>1. CASE Next
    <3>1. CASE answer'.call = "clEnqueueSVMMemcpy"
      BY <2>1, <3>1, CallOfAnswer, SvmMemcpyExact
    <3>2. CASE answer'.call # "clEnqueueSVMMemcpy"
      BY <3>2 DEF SvmOverlapExact
    <3>. QED  BY <3>1, <3>2
  <2>2. CASE UNCHANGED vars
    BY <2>2 DEF vars, SvmOverlapExact, Accepted
  <2>. QED  BY <2>1, <2>2
<1>. QED  BY <1>1, <1>2, PTL DEF Spec

-----------------------------------------------------------------------------
(***************************************************************************)
(* clEnqueueCopyBufferRect.                                                *)
(***************************************************************************)

LEMMA CopyBufferRectExact ==
    ASSUME clEnqueueCopyBufferRect_layer
    PROVE  RectOverlapExact'
<1>1. PICK r \in Rectangles, same_buffer \in BOOLEAN,
           objects \in {"none", "CL_INVALID_COMMAND_QUEUE"},
           events \in {"none", "CL_INVALID_EVENT_WAIT_LIST"} :
        Verified("clEnqueueCopyBufferRect", [rectangle |-> r, same_buffer |-> same_buffer],
                 clEnqueueCopyBufferRect_violation(objects, same_buffer, r.src_origin, r.dst_origin,
                                                   r.region, r.src, r.dst, events))
  BY DEF clEnqueueCopyBufferRect_layer
<1> DEFINE violation ==
             clEnqueueCopyBufferRect_violation(objects, same_buffer, r.src_origin, r.dst_origin,
                                               r.region, r.src, r.dst, events)
           share == Bytes(r.src_origin, r.src, r.region) \cap Bytes(r.dst_origin, r.dst, r.region) # {}
           tested == check_copy_overlap(r.src_origin, r.dst_origin, r.region, r.src.row, r.src.slice)
\* A call that gets as far as the test on the overlap.
           passed == /\ objects = "none" /\ events = "none"
                     /\ NULL \notin {r.src_origin, r.dst_origin, r.region}
                     /\ \A n \in 1 .. 3 : r.region[n] # 0
                     /\ \A pitch \in {r.src, r.dst} :
                          /\ ~ row_pitch_violation(pitch.row, r.region)
                          /\ ~ slice_pitch_violation(pitch.row, pitch.slice, r.region)
                     /\ same_buffer => /\ RowPitch(r.src, r.region) = RowPitch(r.dst, r.region)
                                       /\ SlicePitch(r.src, r.region) = SlicePitch(r.dst, r.region)
<1>2. /\ violation # "crash"
      /\ violation = "none" => passed /\ ~ tested
      /\ violation = "CL_MEM_COPY_OVERLAP" => passed /\ tested
  <2> HIDE DEF tested
  <2>1. CASE objects # "none"
    BY <2>1 DEF clEnqueueCopyBufferRect_violation
  <2>2. CASE objects = "none" /\ (NULL \in {r.src_origin, r.dst_origin, r.region}
                                 \/ \E n \in 1 .. 3 : r.region[n] = 0)
    BY <2>2 DEF clEnqueueCopyBufferRect_violation
  <2>3. CASE /\ objects = "none" /\ NULL \notin {r.src_origin, r.dst_origin, r.region}
             /\ \A n \in 1 .. 3 : r.region[n] # 0
    <3>1. violation # "CL_INVALID_VALUE" =>
            /\ \A pitch \in {r.src, r.dst} :
                  /\ ~ row_pitch_violation(pitch.row, r.region)
                  /\ ~ slice_pitch_violation(pitch.row, pitch.slice, r.region)
            /\ same_buffer => /\ RowPitch(r.src, r.region) = RowPitch(r.dst, r.region)
                              /\ SlicePitch(r.src, r.region) = SlicePitch(r.dst, r.region)
      BY <2>3 DEF clEnqueueCopyBufferRect_violation
    <3>2. \/ violation = "CL_INVALID_VALUE"
          \/ events # "none" /\ violation = events
          \/ events = "none" /\ violation = IF tested THEN "CL_MEM_COPY_OVERLAP" ELSE "none"
      BY <2>3 DEF clEnqueueCopyBufferRect_violation, tested
    <3> HIDE DEF violation
    <3>. QED  BY <2>3, <3>1, <3>2
  <2>. QED  BY <2>1, <2>2, <2>3
<1>3. ASSUME passed, same_buffer
      PROVE  tested <=> share
  <2>1. /\ r.src_origin \in Triple /\ r.dst_origin \in Triple /\ r.region \in Triple
        /\ r.src \in Pitch
    BY <1>3, RegionsAssumption
  <2>2. /\ \A n \in 1 .. 3 : r.region[n] # 0
        /\ ~ row_pitch_violation(r.src.row, r.region)
        /\ ~ slice_pitch_violation(r.src.row, r.src.slice, r.region)
        /\ RowPitch(r.src, r.region) = RowPitch(r.dst, r.region)
        /\ SlicePitch(r.src, r.region) = SlicePitch(r.dst, r.region)
    BY <1>3
  <2>. QED  BY <2>1, <2>2, OverlapExact
<1> HIDE DEF violation, passed, tested
<1>4. /\ answer'.arguments = [rectangle |-> r, same_buffer |-> same_buffer]
      /\ answer'.result = Forwarded("none") => violation = "none"
      /\ answer'.result.with = violation
  BY <1>1, <1>2, VerifiedAnswer DEF violation
<1>5. answer'.arguments.rectangle = r /\ answer'.arguments.same_buffer = same_buffer
  BY <1>4
<1>6. /\ answer'.result = Forwarded("none") /\ same_buffer => ~ share
      /\ same_buffer /\ answer'.result.with = "CL_MEM_COPY_OVERLAP" => share
  BY <1>2, <1>3, <1>4
<1>. QED  BY <1>5, <1>6 DEF RectOverlapExact, Accepted

\* A copy of a rectangle within a buffer is refused for an overlap exactly if
\* some byte is both read and written, whatever the pitches
\* (check_copy_overlap in list_violation.cpp, after the checks of cl-avl.xml).
THEOREM LayerRectOverlapExact == Spec => []RectOverlapExact
<1>1. Init => RectOverlapExact
  BY DEF Init, RectOverlapExact, Accepted
<1>2. RectOverlapExact /\ [Next]_vars => RectOverlapExact'
  <2> SUFFICES ASSUME RectOverlapExact, [Next]_vars
               PROVE  RectOverlapExact'
    OBVIOUS
  <2>1. CASE Next
    <3>1. CASE answer'.call = "clEnqueueCopyBufferRect"
      BY <2>1, <3>1, CallOfAnswer, CopyBufferRectExact
    <3>2. CASE answer'.call # "clEnqueueCopyBufferRect"
      BY <3>2 DEF RectOverlapExact, Accepted
    <3>. QED  BY <3>1, <3>2
  <2>2. CASE UNCHANGED vars
    BY <2>2 DEF vars, RectOverlapExact, Accepted
  <2>. QED  BY <2>1, <2>2
<1>. QED  BY <1>1, <1>2, PTL DEF Spec

-----------------------------------------------------------------------------
(***************************************************************************)
(* clCreateContext.                                                        *)
(***************************************************************************)

\* The first and the last platform of a list without repeated names.
LEMMA OnePlatform ==
    ASSUME NEW properties, properties \in Seq(Range(properties)),
           ~ context_list_violation(properties), NamesPlatform(properties)
    PROVE  FirstPlatform(properties) = LastPlatform(properties)
<1> DEFINE ns == Positions(properties, "CL_CONTEXT_PLATFORM")
<1>1. PICK n \in ns : TRUE
  BY DEF NamesPlatform
<1>2. properties # NULL
  BY <1>1 DEF Positions
<1>3. ns = {n}
  BY <1>1, <1>2 DEF Positions, context_list_violation
<1>4. n \in Nat
  BY <1>1, <1>2 DEF Positions
<1> HIDE DEF ns
<1>5. (CHOOSE k \in ns : \A m \in ns : k <= m) = n
  BY <1>3, <1>4
<1>6. (CHOOSE k \in ns : \A m \in ns : m <= k) = n
  BY <1>3, <1>4
<1>. QED  BY <1>5, <1>6 DEF ns, FirstPlatform, LastPlatform

LEMMA CreateContextReads ==
    ASSUME clCreateContext_layer
    PROVE  ReadersAgree'
<1>1. PICK properties \in PropertyLists, known \in SUBSET (Pids \cup {NULL}),
           devices \in {NULL, <<>>, <<"available">>, <<"available", "unavailable">>, <<"invalid">>},
           notify \in BOOLEAN, user_data \in BOOLEAN :
        Verified("clCreateContext", [properties |-> properties],
                 clCreateContext_violation(properties, known, devices, notify, user_data))
  BY DEF clCreateContext_layer
<1>2. /\ answer'.arguments.properties = properties
      /\ answer'.result = Forwarded("none") =>
            clCreateContext_violation(properties, known, devices, notify, user_data) = "none"
  BY <1>1, VerifiedAnswer
<1>3. ASSUME answer'.result = Forwarded("none"), NamesPlatform(properties)
      PROVE  FirstPlatform(properties) = LastPlatform(properties)
  <2>1. ~ context_list_violation(properties)
    BY <1>2, <1>3 DEF clCreateContext_violation
  <2>2. properties # NULL
    BY <1>3 DEF NamesPlatform, Positions
  <2>. QED  BY <1>3, <2>1, <2>2, ListsAssumption, OnePlatform
<1>. QED  BY <1>2, <1>3 DEF ReadersAgree, Accepted

\* In a list of context properties that param_verification accepts, the first
\* platform, which ocl_icd_compat reads, is the last, which object_lifetime
\* reads.
THEOREM LayerReadersAgree == Spec => []ReadersAgree
<1>1. Init => ReadersAgree
  BY DEF Init, ReadersAgree, Accepted
<1>2. ReadersAgree /\ [Next]_vars => ReadersAgree'
  <2> SUFFICES ASSUME ReadersAgree, [Next]_vars
               PROVE  ReadersAgree'
    OBVIOUS
  <2>1. CASE Next
    <3>1. CASE answer'.call = "clCreateContext" /\ world.layer = "param_verification"
      BY <2>1, <3>1, CallOfAnswer, CreateContextReads
    <3>2. CASE answer'.call # "clCreateContext"
      BY <3>2 DEF ReadersAgree, Accepted
    <3>3. CASE answer'.call = "clCreateContext" /\ world.layer # "param_verification"
      <4>1. clCreateContext_wrap
        BY <2>1, <3>3, CallOfAnswer
      <4>2. world' = world
        BY <4>1 DEF clCreateContext_wrap, IcdCall
      <4>. QED  BY <3>3, <4>2 DEF ReadersAgree, Accepted
    <3>. QED  BY <3>1, <3>2, <3>3
  <2>2. CASE UNCHANGED vars
    BY <2>2 DEF vars, ReadersAgree, Accepted
  <2>. QED  BY <2>1, <2>2
<1>. QED  BY <1>1, <1>2, PTL DEF Spec

-----------------------------------------------------------------------------
(***************************************************************************)
(* clCreateSubBuffer.                                                      *)
(***************************************************************************)

LEMMA EightTimes ==
    ASSUME NEW a \in Nat, NEW p \in Nat \ {0}, a % p = 0
    PROVE  (a * 8) % p = 0
<1> DEFINE q == a \div p
<1>1. q \in Nat /\ a = p * q
  BY Division
<1>2. a * 8 = p * (q * 8) + 0 /\ a * 8 \in Nat /\ q * 8 \in Int /\ 0 \in 0 .. p - 1
  BY <1>1
<1> HIDE DEF q
<1>. QED  BY <1>2, RemainderIs

LEMMA CreateSubBufferWithin ==
    ASSUME clCreateSubBuffer_layer
    PROVE  SubBufferWithinBuffer'
<1>1. PICK a \in SubBuffers :
        Verified("clCreateSubBuffer", [request |-> a],
                 clCreateSubBuffer_violation(a.buffer, a.flags, a.type, a.region))
  BY DEF clCreateSubBuffer_layer
<1>2. /\ answer'.arguments.request = a
      /\ answer'.result = Forwarded("none") =>
            clCreateSubBuffer_violation(a.buffer, a.flags, a.type, a.region) = "none"
  BY <1>1, VerifiedAnswer
<1> DEFINE buffer_access == Access(a.buffer.flags, "READ_ONLY", "WRITE_ONLY", "READ_WRITE")
           buffer_host == a.buffer.flags \cap {"HOST_READ_ONLY", "HOST_WRITE_ONLY", "HOST_NO_ACCESS"}
<1>3. ASSUME answer'.result = Forwarded("none")
      PROVE  /\ a.region.origin + a.region.size < SIZE_RANGE =>
                  a.region.origin .. a.region.origin + a.region.size \subseteq 0 .. a.buffer.size
             /\ a.region.size > 0
             /\ \E align \in a.buffer.aligns : (a.region.origin * 8) % align = 0
             /\ buffer_access # {} =>
                  Access(a.flags, "READ_ONLY", "WRITE_ONLY", "READ_WRITE") \subseteq buffer_access
             /\ buffer_host # {} =>
                  a.flags \cap {"HOST_READ_ONLY", "HOST_WRITE_ONLY"} \subseteq buffer_host
  <2>1. /\ a.buffer # NULL /\ a.region # NULL
        /\ ~ access_violation(a.buffer.flags, a.flags)
        /\ ~ region_violation(a.region, a.buffer)
        /\ a.region.size # 0
        /\ ~ alignment_violation(a.region, a.buffer)
    BY <1>2, <1>3 DEF clCreateSubBuffer_violation
  <2>2. /\ a.region.origin \in Nat /\ a.region.size \in Nat /\ a.buffer.size \in Nat
        /\ a.buffer.aligns \subseteq Nat \ {0} /\ SIZE_RANGE \in Nat \ {0}
    BY <2>1, SubBuffersAssumption, SizeAssumption
  <2>3. ASSUME a.region.origin + a.region.size < SIZE_RANGE
        PROVE  a.region.origin .. a.region.origin + a.region.size \subseteq 0 .. a.buffer.size
    <3> DEFINE end == a.region.origin + a.region.size
    <3>1. end \in Nat /\ end = SIZE_RANGE * 0 + end /\ end \in 0 .. SIZE_RANGE - 1
      BY <2>2, <2>3
    <3>2. end % SIZE_RANGE = end
      <4> HIDE DEF end
      <4>. QED  BY <2>2, <3>1, RemainderIs
    <3>3. end <= a.buffer.size
      BY <2>1, <2>2, <3>1, <3>2 DEF region_violation, as_size_t
    <3>. QED  BY <2>2, <3>3
  <2>4. \E align \in a.buffer.aligns : (a.region.origin * 8) % align = 0
    BY <2>1, <2>2, EightTimes DEF alignment_violation
  <2>5. buffer_access # {} =>
          Access(a.flags, "READ_ONLY", "WRITE_ONLY", "READ_WRITE") \subseteq buffer_access
    BY <2>1 DEF Access, access_violation
  <2>6. buffer_host # {} => a.flags \cap {"HOST_READ_ONLY", "HOST_WRITE_ONLY"} \subseteq buffer_host
    BY <2>1 DEF access_violation
  <2>. QED  BY <2>1, <2>2, <2>3, <2>4, <2>5, <2>6
<1>. QED  BY <1>2, <1>3 DEF SubBufferWithinBuffer, Accepted

\* A sub-buffer that passes lies in its buffer, has some bytes, an alignment
\* and no access that the buffer does not give (access_violation and the
\* tests of cl-avl.xml on a region).
THEOREM LayerSubBufferWithinBuffer == Spec => []SubBufferWithinBuffer
<1>1. Init => SubBufferWithinBuffer
  BY DEF Init, SubBufferWithinBuffer, Accepted
<1>2. SubBufferWithinBuffer /\ [Next]_vars => SubBufferWithinBuffer'
  <2> SUFFICES ASSUME SubBufferWithinBuffer, [Next]_vars
               PROVE  SubBufferWithinBuffer'
    OBVIOUS
  <2>1. CASE Next
    <3>1. CASE answer'.call = "clCreateSubBuffer"
      BY <2>1, <3>1, CallOfAnswer, CreateSubBufferWithin
    <3>2. CASE answer'.call # "clCreateSubBuffer"
      BY <3>2 DEF SubBufferWithinBuffer, Accepted
    <3>. QED  BY <3>1, <3>2
  <2>2. CASE UNCHANGED vars
    BY <2>2 DEF vars, SubBufferWithinBuffer, Accepted
  <2>. QED  BY <2>1, <2>2
<1>. QED  BY <1>1, <1>2, PTL DEF Spec

-----------------------------------------------------------------------------
(***************************************************************************)
(* clCreateSubDevices.                                                     *)
(***************************************************************************)

\* Below the width of cl_uint a number is not changed, above it it is not kept.
LEMMA NarrowIsSame ==
    ASSUME NEW value \in Nat, value < UINT_RANGE
    PROVE  as_cl_uint(value) = value
<1>1. UINT_RANGE \in Nat \ {0} /\ value = UINT_RANGE * 0 + value
  BY PartitionsAssumption
<1>2. value \in 0 .. UINT_RANGE - 1
  BY <1>1
<1>3. value % UINT_RANGE = value
  BY <1>1, <1>2, RemainderIs
<1>. QED  BY <1>3 DEF as_cl_uint

\* The counts of a list are what stands in front of its first zero.
LEMMA CountsOfList ==
    ASSUME NEW param \in Seq(Int), NEW some \in DOMAIN param, param[some] = 0
    PROVE  /\ Counts(param) \in Seq(Int)
           /\ Len(Counts(param)) < Len(param)
           /\ \A n \in 1 .. Len(Counts(param)) :
                Counts(param)[n] = param[n] /\ Counts(param)[n] # 0
<1> DEFINE first == CHOOSE n \in DOMAIN param : param[n] = 0 /\ \A m \in 1 .. n - 1 : param[m] # 0
           zeros == {n \in DOMAIN param : param[n] = 0}
<1>1. zeros \in SUBSET Nat /\ zeros # {}
  OBVIOUS
<1>2. PICK n \in zeros : \A m \in zeros : n <= m
  BY <1>1, SmallestElement
<1>3. \A m \in 1 .. n - 1 : m \in DOMAIN param /\ ~ (n <= m)
  BY <1>2
<1>4. \A m \in 1 .. n - 1 : param[m] # 0
  BY <1>2, <1>3
<1>5. /\ first \in 1 .. Len(param)
      /\ \A m \in 1 .. first - 1 : param[m] # 0
  <2>1. n \in DOMAIN param /\ param[n] = 0 /\ DOMAIN param = 1 .. Len(param)
    BY <1>2
  <2> HIDE DEF zeros
  <2>. QED  BY <1>4, <2>1
<1> HIDE DEF first
<1>6. Counts(param) = SubSeq(param, 1, first - 1)
  BY DEF Counts, first
<1>7. /\ SubSeq(param, 1, first - 1) \in Seq(Int)
      /\ Len(SubSeq(param, 1, first - 1)) = first - 1
      /\ \A m \in 1 .. first - 1 : SubSeq(param, 1, first - 1)[m] = param[m]
  BY <1>5
<1>. QED  BY <1>5, <1>6, <1>7

\* Adding up the counts one after the other, and comparing after each, decides
\* whether their sum is in the device: none of the sums wraps around.
LEMMA CountsAddedUp ==
    ASSUME NEW counts \in Seq(Int), NEW cu \in Nat, cu < UINT_RANGE,
           \A n \in 1 .. Len(counts) : counts[n] > 0 /\ counts[n] + cu < UINT_RANGE
    PROVE  /\ (\A n \in 1 .. Len(counts) : curr_cu(counts, n) <= cu) <=> SumFunction(counts) <= cu
           /\ Len(counts) <= SumFunction(counts)
<1> DEFINE len == Len(counts)
           sum(n) == SumFunctionOnSet(counts, 1 .. n)
           P == {n \in Nat : sum(n) <= cu}
<1>1. len \in Nat /\ (\A n \in 1 .. len : counts[n] \in Nat \ {0}) /\ UINT_RANGE \in Nat
  BY PartitionsAssumption
<1>2. SumFunction(counts) = sum(len)
  BY DEF SumFunction
<1>3. /\ \A n \in 0 .. len : sum(n) \in Int
      /\ sum(0) = 0
      /\ \A n \in 1 .. len : sum(n) = counts[n] + sum(n - 1)
  <2>1. \A n \in 1 .. len : counts[n] \in Int
    BY <1>1
  <2> HIDE DEF len
  <2>. QED  BY <1>1, <2>1, PartialSums
<1>4. \A n \in 0 .. len : n <= sum(n) /\ sum(n) <= sum(len)
  <2> HIDE DEF len
  <2>. QED  BY <1>1, PositiveSums
<1>5. \A n \in 0 .. len : sum(n) < UINT_RANGE => curr_cu(counts, n) = sum(n)
  <2> SUFFICES ASSUME NEW n \in 0 .. len, sum(n) < UINT_RANGE
               PROVE  curr_cu(counts, n) = sum(n)
    OBVIOUS
  <2>1. sum(n) \in Nat
    BY <1>3, <1>4
  <2>2. curr_cu(counts, n) = as_cl_uint(sum(n))
    BY DEF curr_cu
  <2> HIDE DEF sum
  <2>. QED  BY <2>1, <2>2, NarrowIsSame
<1> HIDE DEF sum
<1>6. ASSUME \A n \in 1 .. len : curr_cu(counts, n) <= cu
      PROVE  sum(len) <= cu
  <2>1. 0 \in P
    BY <1>3
  <2>2. ASSUME NEW n \in 1 .. len, n - 1 \in P
        PROVE  n \in P
    <3>1. sum(n) = counts[n] + sum(n - 1) /\ sum(n - 1) <= cu /\ sum(n - 1) \in Int
      BY <1>3, <2>2
    <3>2. sum(n) < UINT_RANGE
      BY <1>1, <3>1
    <3>. QED  BY <1>5, <1>6, <3>2
  <2> HIDE DEF P
  <2>3. 0 .. len \subseteq P
    BY <1>1, <2>1, <2>2, UpTo
  <2>. QED  BY <1>1, <2>3 DEF P
<1>7. ASSUME sum(len) <= cu
      PROVE  \A n \in 1 .. len : curr_cu(counts, n) <= cu
  <2> SUFFICES ASSUME NEW n \in 1 .. len
               PROVE  curr_cu(counts, n) <= cu
    OBVIOUS
  <2>1. sum(n) \in Int /\ sum(len) \in Int /\ sum(n) <= sum(len)
    BY <1>1, <1>3, <1>4
  <2>2. sum(n) <= cu /\ sum(n) < UINT_RANGE
    BY <1>1, <1>7, <2>1
  <2>. QED  BY <1>5, <2>2
<1>8. len <= sum(len)
  BY <1>1, <1>4
<1> HIDE DEF len
<1>. QED  BY <1>2, <1>6, <1>7, <1>8 DEF len

\* A partition into equal parts.
LEMMA EqualPartition ==
    ASSUME NEW param \in Seq(Int) \ {<<>>}, NEW device, device.cu \in Nat,
           param[1] + device.cu < UINT_RANGE,
           NEW num_devices \in Nat, NEW out_devices \in BOOLEAN, NEW room,
           room = IF out_devices THEN num_devices ELSE UINT_RANGE
    PROVE  Fits(param, device, room, "EQUALLY") <=>
               /\ ~ partition_violation("EQUALLY", param)
               /\ ~ partition_device_violation("EQUALLY", param, device.cu, device.sd)
               /\ ~ (out_devices /\ partition_room_violation("EQUALLY", param, device.cu, device.sd,
                                                            num_devices))
<1> DEFINE cu == device.cu
           size == param[1]
<1>1. size \in Int /\ cu \in Nat /\ UINT_RANGE \in Nat
  BY PartitionsAssumption
<1>2. /\ partition_violation("EQUALLY", param) <=> size = 0 \/ param[2] # 0
      /\ partition_device_violation("EQUALLY", param, cu, device.sd) <=> equally_violation(param, cu)
      /\ partition_room_violation("EQUALLY", param, cu, device.sd, num_devices) <=>
            equally_violation(param, cu) \/ cu \div size > num_devices
  BY DEF partition_violation, partition_device_violation, partition_room_violation
<1>3. Fits(param, device, room, "EQUALLY") <=>
        size \in 1 .. cu /\ param[2] = 0 /\ cu \div size <= room
  BY DEF Fits
<1>4. CASE size <= 0
  BY <1>1, <1>2, <1>3, <1>4 DEF equally_violation
<1>5. CASE size > 0
  <2>1. as_cl_uint(size) = size
    <3>1. size \in Nat /\ size < UINT_RANGE
      BY <1>1, <1>5
    <3>. QED  BY <3>1, NarrowIsSame
  <2>2. equally_violation(param, cu) <=> size > cu \/ param[2] # 0
    BY <1>1, <1>5, <2>1 DEF equally_violation
  <2>3. cu \div size \in Nat /\ cu \div size <= cu
    <3> DEFINE q == cu \div size
               rest == cu % size
    <3>1. size \in Nat \ {0}
      BY <1>1, <1>5
    <3> HIDE DEF cu, size
    <3>2. q \in Nat /\ rest \in 0 .. size - 1 /\ cu = size * q + rest
      BY <1>1, <3>1, Division
    <3> HIDE DEF q, rest
    <3>3. q <= size * q /\ size * q \in Nat
      BY <3>1, <3>2
    <3>4. q <= cu
      BY <1>1, <3>1, <3>2, <3>3
    <3>. QED  BY <3>2, <3>4 DEF q
  <2>4. ~ out_devices => cu \div size <= room
    BY <1>1, <1>5, <2>3
  <2>5. out_devices => room = num_devices
    OBVIOUS
  <2>6. size \in 1 .. cu <=> ~ (size > cu)
    BY <1>1, <1>5
  <2>7. cu \div size <= num_devices <=> ~ (cu \div size > num_devices)
    BY <2>3
  <2>8. ~ (size = 0)
    BY <1>1, <1>5
  <2> HIDE DEF size
  <2>9. partition_room_violation("EQUALLY", param, cu, device.sd, num_devices) <=>
          equally_violation(param, cu) \/ ~ (cu \div size <= num_devices)
    BY <1>2, <2>7
  <2>. QED  BY <1>2, <1>3, <2>2, <2>4, <2>5, <2>6, <2>8, <2>9, Zenon
<1>. QED  BY <1>1, <1>4, <1>5

\* A partition by counts.
LEMMA CountsPartition ==
    ASSUME NEW param \in Seq(Int), NEW device, device.cu \in Nat, device.sd \in Nat,
           \A n \in DOMAIN param : param[n] + device.cu < UINT_RANGE,
           NEW some \in DOMAIN param, param[some] = 0,
           NEW num_devices \in Nat, NEW out_devices \in BOOLEAN, NEW room,
           room = IF out_devices THEN num_devices ELSE UINT_RANGE
    PROVE  Fits(param, device, room, "BY_COUNTS") <=>
               /\ ~ partition_violation("BY_COUNTS", param)
               /\ ~ partition_device_violation("BY_COUNTS", param, device.cu, device.sd)
               /\ ~ (out_devices /\ partition_room_violation("BY_COUNTS", param, device.cu, device.sd,
                                                            num_devices))
<1> DEFINE cu == device.cu
           sd == device.sd
           counts == Counts(param)
           len == Len(counts)
           added == \A n \in 1 .. len : curr_cu(counts, n) <= cu
           positive == \A n \in 1 .. len : counts[n] > 0
<1>1. cu \in Nat /\ sd \in Nat /\ UINT_RANGE \in Nat /\ cu < UINT_RANGE
  BY PartitionsAssumption
<1>2. /\ counts \in Seq(Int) /\ len \in Nat /\ DOMAIN counts = 1 .. len
      /\ \A n \in 1 .. len : counts[n] \in Int \ {0} /\ counts[n] + cu < UINT_RANGE
  <2>1. /\ counts \in Seq(Int) /\ len < Len(param)
        /\ \A n \in 1 .. len : counts[n] = param[n] /\ counts[n] # 0
    BY CountsOfList
  <2>2. \A n \in 1 .. len : n \in DOMAIN param
    BY <2>1
  <2> HIDE DEF counts
  <2>. QED  BY <2>1, <2>2
<1>3. /\ partition_violation("BY_COUNTS", param) <=> NotClosed(param)
      /\ partition_device_violation("BY_COUNTS", param, cu, sd) <=>
            counts_violation(param, cu, sd) \/ len > cu
      /\ partition_room_violation("BY_COUNTS", param, cu, sd, num_devices) <=>
            counts_violation(param, cu, sd) \/ len > num_devices
  BY DEF partition_violation, partition_device_violation, partition_room_violation
<1>4. Fits(param, device, room, "BY_COUNTS") <=>
        ~ NotClosed(param) /\ positive /\ SumFunction(counts) <= cu /\ len <= sd /\ len <= room
  BY <1>2 DEF Fits
<1>5. counts_violation(param, cu, sd) <=>
        NotClosed(param) \/ ~ (positive /\ added /\ len <= sd)
  <2>1. counts_violation(param, cu, sd) <=>
          NotClosed(param) \/ \E n \in 1 .. len : counts[n] < 0 \/ curr_cu(counts, n) > cu \/ n > sd
    BY <1>2 DEF counts_violation
  <2>2. \A n \in 1 .. len : curr_cu(counts, n) \in Int
    <3>1. (\A n \in 1 .. len : counts[n] \in Int) /\ UINT_RANGE \in Nat \ {0}
      BY <1>2, PartitionsAssumption
    <3>2. \A n \in 0 .. len : SumFunctionOnSet(counts, 1 .. n) \in Int
      BY <1>2, <3>1, PartialSums
    <3> HIDE DEF counts, len
    <3>. QED  BY <1>2, <3>1, <3>2 DEF curr_cu, as_cl_uint
  <2>3. (\E n \in 1 .. len : n > sd) <=> len > sd
    BY <1>1, <1>2
  <2>4. positive <=> \A n \in 1 .. len : ~ (counts[n] < 0)
    BY <1>2
  <2>5. added <=> \A n \in 1 .. len : ~ (curr_cu(counts, n) > cu)
    <3> HIDE DEF counts, len
    <3>. QED  BY <1>1, <2>2
  <2>6. len <= sd <=> ~ (len > sd)
    BY <1>1, <1>2
  <2> HIDE DEF counts, len, cu, sd, added, positive
  <2>. QED  BY <2>1, <2>3, <2>4, <2>5, <2>6, Zenon
<1>6. positive => (added <=> SumFunction(counts) <= cu) /\ len <= SumFunction(counts)
  BY <1>1, <1>2, CountsAddedUp
<1>7. SumFunction(counts) \in Int
  <2>1. (\A n \in 1 .. len : counts[n] \in Int) /\ len \in 0 .. len
    BY <1>2
  <2>2. SumFunctionOnSet(counts, 1 .. len) \in Int
    BY <1>2, <2>1, PartialSums
  <2>. QED  BY <1>2, <2>2 DEF SumFunction
<1> HIDE DEF cu, sd, counts, len, added, positive
<1>. QED  BY <1>1, <1>2, <1>3, <1>4, <1>5, <1>6, <1>7 DEF cu, sd

LEMMA SubDevicesExact ==
    ASSUME world.layer = "param_verification", clCreateSubDevices_layer
    PROVE  PartitionExact'
<1>1. PICK device \in Limits \cup {NULL}, p \in Partitions, num_devices \in 0 .. 2,
           out_devices \in BOOLEAN :
        Verified("clCreateSubDevices",
                 [device |-> device, partition |-> p, num_devices |-> num_devices,
                  out_devices |-> out_devices],
                 clCreateSubDevices_violation(device, p.scheme, p.param, num_devices, out_devices))
  BY DEF clCreateSubDevices_layer
<1> DEFINE violation == clCreateSubDevices_violation(device, p.scheme, p.param, num_devices, out_devices)
           arguments == [device |-> device, partition |-> p, num_devices |-> num_devices,
                         out_devices |-> out_devices]
           room == IF out_devices THEN num_devices ELSE UINT_RANGE
           near == /\ p.scheme \in {"EQUALLY", "BY_COUNTS"}
                   /\ \A n \in DOMAIN p.param : p.param[n] + device.cu < UINT_RANGE
<1>2. ASSUME device # NULL, near
      PROVE  violation = "none" <=> Fits(p.param, device, room, p.scheme)
  <2>1. /\ device.cu \in Nat /\ device.sd \in Nat /\ num_devices \in Nat
        /\ p.param \in Seq(Int) \ {<<>>}
    BY <1>2, PartitionsAssumption
  <2>2. violation = "none" <=>
          /\ ~ partition_violation(p.scheme, p.param)
          /\ ~ partition_device_violation(p.scheme, p.param, device.cu, device.sd)
          /\ ~ (out_devices /\ partition_room_violation(p.scheme, p.param, device.cu, device.sd,
                                                       num_devices))
    BY <1>2 DEF clCreateSubDevices_violation
  <2>3. CASE p.scheme = "EQUALLY"
    <3>1. p.param[1] + device.cu < UINT_RANGE
      BY <1>2, <2>1
    <3> HIDE DEF violation, near
    <3>. QED  BY <2>1, <2>2, <2>3, <3>1, EqualPartition
  <2>4. CASE p.scheme = "BY_COUNTS"
    <3>1. PICK some \in DOMAIN p.param : p.param[some] = 0
      BY <2>4, PartitionsAssumption
    <3>2. \A n \in DOMAIN p.param : p.param[n] + device.cu < UINT_RANGE
      BY <1>2
    <3>3. Fits(p.param, device, room, "BY_COUNTS") <=>
            /\ ~ partition_violation("BY_COUNTS", p.param)
            /\ ~ partition_device_violation("BY_COUNTS", p.param, device.cu, device.sd)
            /\ ~ (out_devices /\ partition_room_violation("BY_COUNTS", p.param, device.cu, device.sd,
                                                         num_devices))
      BY <2>1, <3>1, <3>2, CountsPartition
    <3> HIDE DEF violation, near
    <3>. QED  BY <2>2, <2>4, <3>3
  <2>. QED  BY <1>2, <2>3, <2>4
<1>3. /\ answer'.call = "clCreateSubDevices" /\ answer'.arguments = arguments
      /\ answer'.result = Forwarded("none") <=> violation = "none"
      /\ world'.layer = "param_verification"
  BY <1>1, VerifiedAnswer
<1>4. /\ answer'.arguments.device = device /\ answer'.arguments.partition = p
      /\ answer'.arguments.num_devices = num_devices /\ answer'.arguments.out_devices = out_devices
  BY <1>3
<1>5. Accepted("clCreateSubDevices")' => answer'.result = Forwarded("none")
  BY DEF Accepted
<1>6. answer' # None /\ answer'.result = Forwarded("none") => Accepted("clCreateSubDevices")'
  BY <1>3 DEF Accepted
<1> HIDE DEF violation, arguments
<1>. QED  BY <1>2, <1>3, <1>4, <1>5, <1>6 DEF PartitionExact

\* The three versions of the partition check (list_violation.cpp), adding up in
\* cl_uint, accept exactly the partitions that fit into the device and the array.
THEOREM LayerPartitionExact == Spec => []PartitionExact
<1>1. Init => PartitionExact
  BY DEF Init, PartitionExact
<1>2. PartitionExact /\ [Next]_vars => PartitionExact'
  <2> SUFFICES ASSUME PartitionExact, [Next]_vars
               PROVE  PartitionExact'
    OBVIOUS
  <2>1. CASE Next
    <3>1. CASE answer'.call = "clCreateSubDevices"
      BY <2>1, <3>1, CallOfAnswer, SubDevicesExact
    <3>2. CASE answer'.call # "clCreateSubDevices"
      BY <3>2 DEF PartitionExact
    <3>. QED  BY <3>1, <3>2
  <2>2. CASE UNCHANGED vars
    BY <2>2 DEF vars, PartitionExact, Accepted
  <2>. QED  BY <2>1, <2>2
<1>. QED  BY <1>1, <1>2, PTL DEF Spec

-----------------------------------------------------------------------------
(***************************************************************************)
(* clEnqueueNDRangeKernel.                                                 *)
(***************************************************************************)

\* The remainders end the process only at a local size of zero, or for want of
\* a global size.
LEMMA RemaindersCrash ==
    ASSUME NEW version, NEW queue, NEW kernel, NEW work_dim \in Nat, NEW global, NEW local,
           non_uniform_violation(version, queue, kernel, work_dim, global, local) = "crash"
    PROVE  global = NULL \/ \E n \in 1 .. work_dim : local[n] = 0
<1> DEFINE dims == 1 .. work_dim
           divides(n) == local[n] # 0 /\ global[n] % local[n] = 0
           odd == {n \in dims : ~ divides(n)}
           least == CHOOSE n \in dims : ~ divides(n) /\ \A m \in 1 .. n - 1 : divides(m)
<1>1. SUFFICES ASSUME global # NULL
               PROVE  \E n \in dims : local[n] = 0
  OBVIOUS
<1>2. /\ ~ \A n \in dims : divides(n)
      /\ local[least] = 0
  BY <1>1 DEF non_uniform_violation
<1>3. odd \in SUBSET Nat /\ odd # {}
  BY <1>2
<1>4. PICK first \in odd : \A n \in odd : first <= n
  BY <1>3, SmallestElement
<1>5. ASSUME NEW m \in 1 .. first - 1
      PROVE  divides(m)
  <2>1. m \in dims /\ ~ (first <= m)
    BY <1>4
  <2> HIDE DEF divides
  <2>. QED  BY <1>4, <2>1
<1>6. first \in dims /\ ~ divides(first)
  BY <1>4
<1> HIDE DEF divides
<1>7. least \in dims
  BY <1>5, <1>6
<1>. QED  BY <1>2, <1>7

LEMMA EnqueueSurvives ==
    ASSUME clEnqueueNDRangeKernel_layer
    PROVE  ChecksSurvive'
<1>1. PICK a \in Enqueues, stack_is_zero \in BOOLEAN :
        Verified("clEnqueueNDRangeKernel", [enqueue |-> a, stack_is_zero |-> stack_is_zero],
                 clEnqueueNDRangeKernel_violation(a, stack_is_zero))
  BY DEF clEnqueueNDRangeKernel_layer
<1>2. /\ answer'.arguments = [enqueue |-> a, stack_is_zero |-> stack_is_zero]
      /\ answer'.result.outcome = "crashed" =>
            clEnqueueNDRangeKernel_violation(a, stack_is_zero) = "crash"
  BY <1>1, VerifiedAnswer
<1>3. answer'.arguments.enqueue = a /\ answer'.arguments.stack_is_zero = stack_is_zero
  BY <1>2
<1>4. ASSUME clEnqueueNDRangeKernel_violation(a, stack_is_zero) = "crash"
      PROVE  \/ ~ stack_is_zero
             \/ \E n \in 1 .. a.work_dim : a.local[n] = 0
             \/ a.global = NULL /\ a.version >= 201
  <2> DEFINE uniform == non_uniform_violation(a.version, a.queue, a.kernel, a.work_dim, a.global, a.local)
             waits == event_list_violation(a.queue, a.num_events, a.events)
  <2>1. waits # "crash"
    BY DEF event_list_violation
  <2>2. SUFFICES ASSUME stack_is_zero
                 PROVE  \/ \E n \in 1 .. a.work_dim : a.local[n] = 0
                        \/ a.global = NULL /\ a.version >= 201
    OBVIOUS
  <2>3. uniform = "crash" /\ ~ global_size_violation(a.version, a.work_dim, a.global)
    <3> HIDE DEF uniform, waits
    <3>. QED  BY <1>4, <2>1, <2>2 DEF clEnqueueNDRangeKernel_violation, uniform, waits
  <2>4. a.work_dim \in Nat /\ a.version \in Nat
    BY EnqueuesAssumption
  <2>5. a.global = NULL \/ \E n \in 1 .. a.work_dim : a.local[n] = 0
    BY <2>3, <2>4, RemaindersCrash
  <2>6. a.global = NULL => a.version >= 201
    BY <2>3, <2>4 DEF global_size_violation
  <2>. QED  BY <2>5, <2>6
<1>. QED  BY <1>2, <1>3, <1>4 DEF ChecksSurvive

\* No other step of any layer ends the process.
LEMMA OthersSurvive ==
    ASSUME Next, ~ clEnqueueNDRangeKernel_layer
    PROVE  answer'.result.outcome # "crashed"
<1>1. clGetLayerInfo => answer'.result.outcome # "crashed"
  BY DEF clGetLayerInfo, Answer, Refused, Answered
<1>2. clInitLayer => answer'.result.outcome # "crashed"
  BY DEF clInitLayer, Answer, Refused, Answered
<1>3. clGetPlatformIDs_wrap => answer'.result.outcome # "crashed"
  BY DEF clGetPlatformIDs_wrap, IcdCall, Answer, clGetPlatformIDs, Refused, Answered, Undefined
<1>4. clCreateContext_wrap => answer'.result.outcome # "crashed"
  BY DEF clCreateContext_wrap, IcdCall, Answer, clCreateContext, platform_named, RefusedThrough,
         Refused, Forwarded, Undefined
<1>5. clCreateContextFromType_wrap => answer'.result.outcome # "crashed"
  BY DEF clCreateContextFromType_wrap, IcdCall, Answer, clCreateContextFromType, platform_named,
         RefusedThrough, Refused, Forwarded, Undefined
<1>6. clGetGLContextInfoKHR_wrap => answer'.result.outcome # "crashed"
  BY DEF clGetGLContextInfoKHR_wrap, IcdCall, Answer, clGetGLContextInfoKHR, platform_named,
         Refused, Forwarded, Undefined
<1>7. PlatformCall_wrap => answer'.result.outcome # "crashed"
  BY DEF PlatformCall_wrap, IcdCall, Answer, Forwarded
<1>8. ASSUME clCreateContext_layer
      PROVE  answer'.result.outcome # "crashed"
  <2>1. PICK properties \in PropertyLists, known \in SUBSET (Pids \cup {NULL}),
             devices \in {NULL, <<>>, <<"available">>, <<"available", "unavailable">>, <<"invalid">>},
             notify \in BOOLEAN, user_data \in BOOLEAN :
          Verified("clCreateContext", [properties |-> properties],
                   clCreateContext_violation(properties, known, devices, notify, user_data))
    BY <1>8 DEF clCreateContext_layer
  <2>2. clCreateContext_violation(properties, known, devices, notify, user_data) # "crash"
    BY DEF clCreateContext_violation
  <2>. QED  BY <2>1, <2>2, VerifiedAnswer
<1>9. ASSUME clCreateSubDevices_layer
      PROVE  answer'.result.outcome # "crashed"
  <2>1. PICK device \in Limits \cup {NULL}, p \in Partitions, num_devices \in 0 .. 2,
             out_devices \in BOOLEAN :
          Verified("clCreateSubDevices",
                   [device |-> device, partition |-> p, num_devices |-> num_devices,
                    out_devices |-> out_devices],
                   clCreateSubDevices_violation(device, p.scheme, p.param, num_devices, out_devices))
    BY <1>9 DEF clCreateSubDevices_layer
  <2>2. clCreateSubDevices_violation(device, p.scheme, p.param, num_devices, out_devices) # "crash"
    BY DEF clCreateSubDevices_violation
  <2>. QED  BY <2>1, <2>2, VerifiedAnswer
<1>10. ASSUME clEnqueueCopyBufferRect_layer
       PROVE  answer'.result.outcome # "crashed"
  <2>1. PICK r \in Rectangles, same_buffer \in BOOLEAN,
             objects \in {"none", "CL_INVALID_COMMAND_QUEUE"},
             events \in {"none", "CL_INVALID_EVENT_WAIT_LIST"} :
          Verified("clEnqueueCopyBufferRect", [rectangle |-> r, same_buffer |-> same_buffer],
                   clEnqueueCopyBufferRect_violation(objects, same_buffer, r.src_origin, r.dst_origin,
                                                     r.region, r.src, r.dst, events))
    BY <1>10 DEF clEnqueueCopyBufferRect_layer
  <2>2. clEnqueueCopyBufferRect_violation(objects, same_buffer, r.src_origin, r.dst_origin,
                                          r.region, r.src, r.dst, events) # "crash"
    BY DEF clEnqueueCopyBufferRect_violation
  <2>. QED  BY <2>1, <2>2, VerifiedAnswer
<1>11. ASSUME clEnqueueSVMMemcpy_layer
       PROVE  answer'.result.outcome # "crashed"
  <2>1. PICK r \in Ranges, objects \in {"none", "CL_INVALID_COMMAND_QUEUE"},
             events \in {"none", "CL_INVALID_EVENT_WAIT_LIST"} :
          Verified("clEnqueueSVMMemcpy", [range |-> r],
                   clEnqueueSVMMemcpy_violation(objects, r.dst, r.src, r.size, events))
    BY <1>11 DEF clEnqueueSVMMemcpy_layer
  <2>2. clEnqueueSVMMemcpy_violation(objects, r.dst, r.src, r.size, events) # "crash"
    BY DEF clEnqueueSVMMemcpy_violation
  <2>. QED  BY <2>1, <2>2, VerifiedAnswer
<1>12. ASSUME clCreateSubBuffer_layer
       PROVE  answer'.result.outcome # "crashed"
  <2>1. PICK a \in SubBuffers :
          Verified("clCreateSubBuffer", [request |-> a],
                   clCreateSubBuffer_violation(a.buffer, a.flags, a.type, a.region))
    BY <1>12 DEF clCreateSubBuffer_layer
  <2>2. clCreateSubBuffer_violation(a.buffer, a.flags, a.type, a.region) # "crash"
    BY DEF clCreateSubBuffer_violation
  <2>. QED  BY <2>1, <2>2, VerifiedAnswer
<1>. QED
  BY <1>1, <1>2, <1>3, <1>4, <1>5, <1>6, <1>7, <1>8, <1>9, <1>10, <1>11, <1>12
     DEF Next, IcdCalls, VerifiedCalls

\* No check ends the process, but for work-groups without items, a null global
\* size from version 2.1 on, and a length read into half of an uninitialised
\* word (non_uniform_work_group and the test on the devices of a program).
THEOREM LayerChecksSurvive == Spec => []ChecksSurvive
<1>1. Init => ChecksSurvive
  BY DEF Init, ChecksSurvive
<1>2. ChecksSurvive /\ [Next]_vars => ChecksSurvive'
  <2> SUFFICES ASSUME ChecksSurvive, [Next]_vars
               PROVE  ChecksSurvive'
    OBVIOUS
  <2>1. CASE Next
    <3>1. CASE clEnqueueNDRangeKernel_layer
      BY <3>1, EnqueueSurvives
    <3>2. CASE ~ clEnqueueNDRangeKernel_layer
      BY <2>1, <3>2, OthersSurvive DEF ChecksSurvive
    <3>. QED  BY <3>1, <3>2
  <2>2. CASE UNCHANGED vars
    BY <2>2 DEF vars, ChecksSurvive
  <2>. QED  BY <2>1, <2>2
<1>. QED  BY <1>1, <1>2, PTL DEF Spec

\* The sizes of a group that no check refuses, if the largest sizes of the device
\* have a product at all: the product of the group's sizes has not wrapped around.
LEMMA GroupWithinLimit ==
    ASSUME NEW kernel, NEW queue, NEW work_dim \in Nat, NEW local, local # NULL,
           \A n \in 1 .. work_dim : local[n] \in SizeT /\ queue.device.max_sizes[n] \in SizeT,
           ~ group_size_violation(kernel, work_dim, local),
           ~ item_size_violation(queue, work_dim, local),
           Product(queue.device.max_sizes, work_dim) < SIZE_RANGE
    PROVE  ~ (Product(local, work_dim) > kernel.group_size)
<1> DEFINE T == 1 .. work_dim
           sizes == queue.device.max_sizes
<1>1. SIZE_RANGE \in Nat \ {0}
  BY SizeAssumption
<1>2. ASSUME NEW n \in T
      PROVE  local[n] \in Nat /\ sizes[n] \in Nat /\ local[n] <= sizes[n]
  <2>1. local[n] \in Nat /\ sizes[n] \in Nat
    BY <1>1 DEF SizeT
  <2>2. ~ (sizes[n] < local[n])
    BY DEF item_size_violation
  <2>. QED  BY <2>1, <2>2
<1>3. IsFiniteSet(T)
  BY FS_Interval
<1> HIDE DEF T, sizes
<1>4. /\ ProductOnSet(local, T) \in Nat /\ ProductOnSet(sizes, T) \in Nat
      /\ ProductOnSet(local, T) <= ProductOnSet(sizes, T)
  BY <1>2, <1>3, ProductGrows
<1>5. Product(local, work_dim) = ProductOnSet(local, T) /\ Product(sizes, work_dim) = ProductOnSet(sizes, T)
  BY DEF Product, ProductOnSet, T
<1>6. Product(local, work_dim) \in 0 .. SIZE_RANGE - 1
  <2>1. Product(sizes, work_dim) < SIZE_RANGE
    BY DEF sizes
  <2>. QED  BY <1>1, <1>4, <1>5, <2>1
<1>7. as_size_t(Product(local, work_dim)) = Product(local, work_dim)
  <2> DEFINE product == Product(local, work_dim)
  <2>1. product \in 0 .. SIZE_RANGE - 1 /\ product \in Nat
    BY <1>1, <1>6
  <2> HIDE DEF product
  <2>2. product = SIZE_RANGE * 0 + product
    BY <1>1, <2>1
  <2>3. product % SIZE_RANGE = product
    BY <1>1, <2>1, <2>2, RemainderIs
  <2>. QED  BY <2>3 DEF as_size_t, product
<1>. QED  BY <1>7 DEF group_size_violation

\* Groups that must be uniform tile the range if the remainders are zero.
LEMMA GroupsTile ==
    ASSUME NEW a, a.work_dim \in Nat, a.local # NULL, MustBeUniform(a.version, a.queue.device),
           a.global # NULL => \A n \in 1 .. a.work_dim : a.global[n] \in SizeT,
           \A n \in 1 .. a.work_dim : a.local[n] \in SizeT,
           non_uniform_violation(a.version, a.queue, a.kernel, a.work_dim, a.global, a.local) = "none"
    PROVE  \E groups \in [1 .. a.work_dim -> SizeT] :
              \A n \in 1 .. a.work_dim : groups[n] * a.local[n] = a.global[n]
<1> DEFINE groups == [n \in 1 .. a.work_dim |-> a.global[n] \div a.local[n]]
           dims == 1 .. a.work_dim
           divides(n) == a.local[n] # 0 /\ a.global[n] % a.local[n] = 0
           odd == CHOOSE n \in dims : ~ divides(n) /\ \A m \in 1 .. n - 1 : divides(m)
<1>1. a.global # NULL /\ \A n \in dims : divides(n)
  <2>1. non_uniform_violation(a.version, a.queue, a.kernel, a.work_dim, a.global, a.local) =
          IF \E n \in dims : a.kernel.required[n] \notin {0, a.local[n]} THEN "CL_INVALID_WORK_GROUP_SIZE"
          ELSE IF a.global = NULL THEN "crash"
          ELSE IF \A n \in dims : divides(n) THEN "none"
          ELSE IF a.local[odd] = 0 THEN "crash"
          ELSE "CL_INVALID_WORK_GROUP_SIZE"
    BY DEF non_uniform_violation
  <2> HIDE DEF dims, divides, odd
  <2>. QED  BY <2>1
<1>2. ASSUME NEW n \in dims
      PROVE  /\ a.global[n] \div a.local[n] \in SizeT
             /\ (a.global[n] \div a.local[n]) * a.local[n] = a.global[n]
  <2>1. SIZE_RANGE \in Nat \ {0} /\ a.global[n] \in SizeT /\ a.local[n] \in SizeT /\ divides(n)
    BY <1>1, SizeAssumption
  <2>2. a.global[n] \in Nat /\ a.local[n] \in Nat \ {0} /\ a.global[n] % a.local[n] = 0
    BY <2>1 DEF SizeT
  <2> DEFINE x == a.global[n]
             p == a.local[n]
             q == x \div p
  <2>3. q \in Nat /\ x = p * q + (x % p)
    <3> HIDE DEF x, p
    <3>1. x \in Nat /\ p \in Nat \ {0}
      BY <2>2 DEF x, p
    <3>. QED  BY <3>1, Division
  <2>4. x = p * q /\ x < SIZE_RANGE /\ x \in Nat /\ p \in Nat \ {0}
    <3>1. x < SIZE_RANGE /\ x \in Nat /\ p \in Nat \ {0} /\ x % p = 0
      BY <2>1, <2>2 DEF SizeT
    <3> HIDE DEF x, p, q
    <3>2. p * q \in Int
      BY <2>3, <3>1
    <3>. QED  BY <2>3, <3>1, <3>2
  <2> HIDE DEF x, p, q
  <2>5. q <= p * q /\ q * p = p * q
    BY <2>3, <2>4
  <2>6. q \in SizeT /\ q * p = x
    BY <2>1, <2>3, <2>4, <2>5 DEF SizeT
  <2>. QED  BY <2>6 DEF x, p, q
<1>3. groups \in [dims -> SizeT] /\ \A n \in dims : groups[n] * a.local[n] = a.global[n]
  BY <1>2
<1> HIDE DEF groups
<1>. QED  BY <1>3

\* What an event list has in it when it passes.
LEMMA WaitsInContext ==
    ASSUME NEW queue, NEW num_events, NEW events,
           event_list_violation(queue, num_events, events) = "none"
    PROVE  \A n \in 1 .. num_events : events[n] = queue.context
BY DEF event_list_violation

LEMMA EnqueueFits ==
    ASSUME clEnqueueNDRangeKernel_layer
    PROVE  GroupsFit'
<1>1. PICK a \in Enqueues, stack_is_zero \in BOOLEAN :
        Verified("clEnqueueNDRangeKernel", [enqueue |-> a, stack_is_zero |-> stack_is_zero],
                 clEnqueueNDRangeKernel_violation(a, stack_is_zero))
  BY DEF clEnqueueNDRangeKernel_layer
<1>2. /\ answer'.arguments = [enqueue |-> a, stack_is_zero |-> stack_is_zero]
      /\ answer'.result = Forwarded("none") =>
            clEnqueueNDRangeKernel_violation(a, stack_is_zero) = "none"
  BY <1>1, VerifiedAnswer
<1>3. answer'.arguments.enqueue = a
  BY <1>2
<1> DEFINE dims == 1 .. a.work_dim
<1>4. ASSUME clEnqueueNDRangeKernel_violation(a, stack_is_zero) = "none"
      PROVE  /\ \A n \in 1 .. a.num_events : a.events[n] = a.kernel.context
             /\ a.local # NULL /\ Product(a.queue.device.max_sizes, a.work_dim) < SIZE_RANGE =>
                 /\ Product(a.local, a.work_dim) <= a.kernel.group_size
                 /\ MustBeUniform(a.version, a.queue.device) =>
                     \E groups \in [dims -> 0 .. SIZE_RANGE - 1] :
                         \A n \in dims : groups[n] * a.local[n] = a.global[n]
  <2> DEFINE uniform == non_uniform_violation(a.version, a.queue, a.kernel, a.work_dim, a.global, a.local)
             waits == event_list_violation(a.queue, a.num_events, a.events)
  <2>1. /\ a.queue # NULL /\ a.queue.context = a.kernel.context
        /\ ~ (a.work_dim > a.queue.device.max_dimensions)
        /\ ~ group_size_violation(a.kernel, a.work_dim, a.local)
        /\ uniform = "none" /\ a.kernel # NULL
        /\ ~ item_size_violation(a.queue, a.work_dim, a.local)
        /\ waits = "none"
    <3> HIDE DEF uniform, waits
    <3>. QED  BY <1>4 DEF clEnqueueNDRangeKernel_violation, uniform, waits
  <2>2. \A n \in 1 .. a.num_events : a.events[n] = a.kernel.context
    BY <2>1, WaitsInContext
  <2>3. /\ a.work_dim \in Nat
        /\ \A n \in dims : /\ a.queue.device.max_sizes[n] \in SizeT
                            /\ (a.global # NULL => a.global[n] \in SizeT)
                            /\ (a.local # NULL => a.local[n] \in SizeT)
    <3>1. a.work_dim \in Nat /\ a.queue.device.max_dimensions \in Nat
      BY <2>1, EnqueuesAssumption
    <3>2. \A n \in dims : n <= a.queue.device.max_dimensions
      BY <2>1, <3>1
    <3>. QED  BY <2>1, <3>1, <3>2, EnqueuesAssumption
  <2>4. ASSUME a.local # NULL, Product(a.queue.device.max_sizes, a.work_dim) < SIZE_RANGE
        PROVE  Product(a.local, a.work_dim) <= a.kernel.group_size
    <3>1. \A n \in 1 .. a.work_dim : a.local[n] \in SizeT /\ a.queue.device.max_sizes[n] \in SizeT
      BY <2>3, <2>4
    <3>2. ~ (Product(a.local, a.work_dim) > a.kernel.group_size)
      BY <2>1, <2>3, <2>4, <3>1, GroupWithinLimit
    <3>3. Product(a.local, a.work_dim) \in Int /\ a.kernel.group_size \in Nat
      <4>1. IsFiniteSet(1 .. a.work_dim) /\ \A n \in 1 .. a.work_dim : a.local[n] \in Int
        <5>1. IsFiniteSet(1 .. a.work_dim)
          BY <2>3, FS_Interval
        <5>2. SizeT \subseteq Int
          BY SizeAssumption DEF SizeT
        <5>. QED  BY <3>1, <5>1, <5>2
      <4>2. ProductOnSet(a.local, 1 .. a.work_dim) \in Int
        BY <4>1, ProductTakenApart
      <4>. QED  BY <2>1, <4>2, EnqueuesAssumption DEF Product, ProductOnSet
    <3>. QED  BY <3>2, <3>3
  <2>5. ASSUME a.local # NULL, MustBeUniform(a.version, a.queue.device)
        PROVE  \E groups \in [dims -> SizeT] : \A n \in dims : groups[n] * a.local[n] = a.global[n]
    <3>1. \A n \in 1 .. a.work_dim : a.local[n] \in SizeT
      BY <2>3, <2>5
    <3>2. a.global # NULL => \A n \in 1 .. a.work_dim : a.global[n] \in SizeT
      BY <2>3
    <3>3. /\ a.work_dim \in Nat
          /\ non_uniform_violation(a.version, a.queue, a.kernel, a.work_dim, a.global, a.local) = "none"
      BY <2>1, <2>3
    <3> HIDE DEF uniform, dims
    <3>4. \E groups \in [1 .. a.work_dim -> SizeT] :
              \A n \in 1 .. a.work_dim : groups[n] * a.local[n] = a.global[n]
      BY <2>5, <3>1, <3>2, <3>3, GroupsTile
    <3>. QED  BY <3>4 DEF dims
  <2>. QED  BY <2>2, <2>4, <2>5 DEF SizeT
<1>. QED  BY <1>2, <1>3, <1>4 DEF GroupsFit, Accepted

\* An enqueue that passes fits the kernel's limit, tiles the range where it must,
\* and waits for events of its context: the product of the sizes is taken modulo
\* the range of size_t, but a product that wrapped around has a size that a later
\* check refuses (work_group_size and item sizes, cl-avl.xml and struct_violation.cpp).
THEOREM LayerGroupsFit == Spec => []GroupsFit
<1>1. Init => GroupsFit
  BY DEF Init, GroupsFit, Accepted
<1>2. GroupsFit /\ [Next]_vars => GroupsFit'
  <2> SUFFICES ASSUME GroupsFit, [Next]_vars
               PROVE  GroupsFit'
    OBVIOUS
  <2>1. CASE Next
    <3>1. CASE answer'.call = "clEnqueueNDRangeKernel"
      BY <2>1, <3>1, CallOfAnswer, EnqueueFits
    <3>2. CASE answer'.call # "clEnqueueNDRangeKernel"
      BY <3>2 DEF GroupsFit, Accepted
    <3>. QED  BY <3>1, <3>2
  <2>2. CASE UNCHANGED vars
    BY <2>2 DEF vars, GroupsFit, Accepted
  <2>. QED  BY <2>1, <2>2
<1>. QED  BY <1>1, <1>2, PTL DEF Spec

-----------------------------------------------------------------------------
(***************************************************************************)
(* Loading the settings.                                                   *)
(***************************************************************************)

\* The option of a key is the value of its last line in the file.
LEMMA FileOptions ==
    ASSUME NEW w \in Worlds, w.layer # "ocl_icd_compat",
           NEW key \in DOMAIN load_settings(w.env, w.fs)
    PROVE  load_settings(w.env, w.fs)[key] \in STRING
<1> DEFINE path == find_settings(w.env, w.fs)
           lines == IF IsRegular(w.fs, path) THEN w.fs[path].lines ELSE <<>>
           options == {n \in DOMAIN lines : lines[n] # NoOption}
           of(k) == {n \in options : lines[n].key = k}
<1>1. load_settings(w.env, w.fs) =
        [k \in {lines[n].key : n \in options} |-> lines[Max(of(k))].value]
  BY DEF load_settings
<1>2. lines \in Seq({NoOption} \cup [key : STRING \X STRING, value : STRING])
  BY SettingWorldsAssumption DEF IsRegular
<1> HIDE DEF lines
<1>3. PICK n \in options : lines[n].key = key
  BY <1>1
<1>4. of(key) \in SUBSET (1 .. Len(lines)) /\ of(key) # {} /\ Len(lines) \in Nat
  BY <1>2, <1>3
<1>5. Max(of(key)) \in of(key)
  BY <1>4, LargestElement
<1>6. lines[Max(of(key))] \in [key : STRING \X STRING, value : STRING]
  BY <1>2, <1>5
<1>. QED  BY <1>1, <1>6

\* What is loaded are settings.
LEMMA LoadsSettings ==
    ASSUME NEW w \in Worlds, w.layer # "ocl_icd_compat"
    PROVE  load(w.layer, w.env, w.fs) \in Settings
<1> DEFINE options == load_settings(w.env, w.fs)
           get(name, out) == get_option(w.env, options, w.layer, name, out)
<1>1. load(w.layer, w.env, w.fs) = [log_type |-> get("log_sink", "stderr"),
                                   log_filename |-> get("log_filename", ""),
                                   transparent |-> get("transparent", FALSE)]
  BY DEF load, DefaultSettings
<1>2. \A key \in DOMAIN options : options[key] \in STRING
  BY FileOptions
<1>3. \A key \in Keys(w.layer) : w.env.option[key] \in {NULL} \cup STRING
  BY SettingWorldsAssumption DEF Text
<1> HIDE DEF options
<1>4. get("log_sink", "stderr") \in {"stdout", "stderr", "file"}
  BY DEF get_option, parse, parse_log_sink
<1>5. get("log_filename", "") \in {""} \cup STRING
  <2> DEFINE key == <<w.layer, "log_filename">>
  <2>1. w.env.option[key] \in {NULL} \cup STRING
    BY <1>3 DEF Keys
  <2>2. \A option, out : parse("log_filename", option, out) = option
    BY DEF parse, parse_filename
  <2>3. CASE w.env.option[key] # NULL
    BY ZenonT(60), <2>1, <2>2, <2>3 DEF get_option
  <2>4. CASE w.env.option[key] = NULL
    <3>1. get("log_filename", "") = IF key \in DOMAIN options /\ options[key] # ""
                                   THEN options[key] ELSE ""
      BY <2>2, <2>4 DEF get_option
    <3> HIDE DEF get, key
    <3>2. CASE key \in DOMAIN options
      <4>1. options[key] \in STRING
        BY <1>2, <3>2
      <4>. QED  BY <3>1, <4>1
    <3>3. CASE key \notin DOMAIN options
      BY <3>1, <3>3
    <3>. QED  BY <3>2, <3>3
  <2>. QED  BY <2>3, <2>4
<1>6. get("transparent", FALSE) \in BOOLEAN
  <2>1. \A option : \A out \in BOOLEAN : parse("transparent", option, out) \in BOOLEAN
    BY DEF parse, parse_bool
  <2>. QED  BY <2>1 DEF get_option
<1>7. ASSUME NEW type \in {"stdout", "stderr", "file"}, NEW file \in {""} \cup STRING, NEW transparent \in BOOLEAN
      PROVE  [log_type |-> type, log_filename |-> file, transparent |-> transparent] \in Settings
  BY DEF Settings, DefaultSettings
<1> HIDE DEF get
<1>8. [log_type |-> get("log_sink", "stderr"), log_filename |-> get("log_filename", ""),
       transparent |-> get("transparent", FALSE)] \in Settings
  BY <1>4, <1>5, <1>6, <1>7
<1>. QED  BY <1>1, <1>8

\* What loading leaves behind for as long as the process lives: nothing that a
\* call does changes it.
Loaded ==
    /\ world \in Worlds
    /\ settings = None => log_stream = None
    /\ settings # None =>
        /\ world.layer # "ocl_icd_compat"
        /\ settings = load(world.layer, world.env, world.fs)
        /\ log_stream = init_output_stream(settings, world.writable)
    /\ icd # None =>
        /\ world.layer = "ocl_icd_compat"
        /\ icd \in init_platforms(world.env, world.driver)
    /\ icd = None \/ settings = None

\* Every process keeps what clInitLayer found (clInitLayer of utils.cpp's
\* layers and of ocl_icd_compat.c).
THEOREM LayerLoaded == Spec => []Loaded
<1>1. Init => Loaded
  BY DEF Init, Loaded
<1>2. Loaded /\ [Next]_vars => Loaded'
  <2> SUFFICES ASSUME Loaded, [Next]_vars
               PROVE  Loaded'
    OBVIOUS
  <2>1. CASE UNCHANGED <<world, settings, log_stream, icd>>
    BY <2>1 DEF Loaded
  <2>2. CASE clInitLayer
    <3>1. settings = None /\ log_stream = None /\ icd = None /\ world' = world
      BY <2>2 DEF clInitLayer, Initialised, Loaded
    <3>2. CASE settings' = settings /\ log_stream' = log_stream /\ icd' = icd
      BY <3>1, <3>2 DEF Loaded
    <3>3. CASE /\ world.layer = "ocl_icd_compat" /\ icd' \in init_platforms(world.env, world.driver)
               /\ settings' = settings /\ log_stream' = log_stream
      BY <3>1, <3>3 DEF Loaded
    <3>4. CASE /\ world.layer # "ocl_icd_compat" /\ settings' = load(world.layer, world.env, world.fs)
               /\ log_stream' = init_output_stream(settings', world.writable)
               /\ icd' = icd
      <4>1. settings' # None
        BY <3>4, LoadsSettings, NoneIsNoSetting DEF Loaded
      <4>. QED  BY <3>1, <3>4, <4>1 DEF Loaded
    <3>. QED  BY <2>2, <3>2, <3>3, <3>4 DEF clInitLayer
  <2>3. CASE clGetLayerInfo
    BY <2>1, <2>3 DEF clGetLayerInfo
  <2>4. CASE IcdCalls
    BY <2>1, <2>4 DEF IcdCalls, IcdCall, clGetPlatformIDs_wrap, clCreateContext_wrap,
       clCreateContextFromType_wrap, clGetGLContextInfoKHR_wrap, PlatformCall_wrap
  <2>5. CASE VerifiedCalls
    <3>1. ASSUME NEW call, NEW arguments, NEW violation, Verified(call, arguments, violation)
          PROVE  UNCHANGED <<world, settings, log_stream, icd>>
      BY <3>1 DEF Verified
    <3>2. CASE clCreateContext_layer
      BY <2>1, <3>1, <3>2 DEF clCreateContext_layer
    <3>3. CASE clCreateSubDevices_layer
      BY <2>1, <3>1, <3>3 DEF clCreateSubDevices_layer
    <3>4. CASE clEnqueueCopyBufferRect_layer
      BY <2>1, <3>1, <3>4 DEF clEnqueueCopyBufferRect_layer
    <3>5. CASE clEnqueueSVMMemcpy_layer
      BY <2>1, <3>1, <3>5 DEF clEnqueueSVMMemcpy_layer
    <3>6. CASE clEnqueueNDRangeKernel_layer
      BY <2>1, <3>1, <3>6 DEF clEnqueueNDRangeKernel_layer
    <3>7. CASE clCreateSubBuffer_layer
      BY <2>1, <3>1, <3>7 DEF clCreateSubBuffer_layer
    <3>. QED  BY <2>5, <3>2, <3>3, <3>4, <3>5, <3>6, <3>7 DEF VerifiedCalls
  <2>6. CASE UNCHANGED vars
    BY <2>1, <2>6 DEF vars
  <2>. QED  BY <2>2, <2>3, <2>4, <2>5, <2>6 DEF Next
<1>. QED  BY <1>1, <1>2, PTL DEF Spec

\* Where a layer logs is a stream, or a file that it could open
\* (init_output_stream).
LEMMA StreamIsOpen ==
    ASSUME Loaded, settings # None
    PROVE  /\ settings \in Settings
           /\ log_stream \in {"stdout", "stderr"} \cup world.writable
<1>1. settings \in Settings
  BY LoadsSettings DEF Loaded
<1>. QED  BY <1>1 DEF Loaded, init_output_stream, Settings

-----------------------------------------------------------------------------
(***************************************************************************)
(* Loading the platforms.                                                  *)
(***************************************************************************)

\* The list of the driver, in another order or not, as sort_platforms leaves it.
Order(sorted, picds, order) ==
    /\ order \in Injection(DOMAIN picds, DOMAIN picds)
    /\ sorted = [n \in DOMAIN picds |-> picds[order[n]]]

LEMMA SortingReorders ==
    ASSUME NEW w \in Worlds, w.layer = "ocl_icd_compat",
           NEW sorted \in sort_platforms(w.env, w.driver.picds)
    PROVE  /\ DOMAIN w.driver.picds = 1 .. Len(w.driver.picds) /\ Len(w.driver.picds) \in Nat
           /\ \E order : Order(sorted, w.driver.picds, order)
           /\ w.env.OCL_ICD_PLATFORM_SORT # "none" =>
                \A m, n \in DOMAIN w.driver.picds : m < n => ~ cmp_platforms(sorted[n], sorted[m])
<1> DEFINE picds == w.driver.picds
           D == DOMAIN picds
<1>1. picds \in Seq(Range(picds))
  BY IcdWorldsAssumption
<1> HIDE DEF picds
<1>2. D = 1 .. Len(picds) /\ Len(picds) \in Nat
  BY <1>1
<1>3. CASE sorted = picds /\ (Len(picds) <= 1 \/ w.env.OCL_ICD_PLATFORM_SORT = "none")
  <2> DEFINE same == [n \in D |-> n]
  <2>1. same \in Injection(D, D)
    BY DEF Injection, IsInjective
  <2>2. picds = [n \in D |-> picds[n]]
    BY <1>1
  <2>3. picds = [n \in D |-> picds[same[n]]]
    BY <2>2
  <2>4. Order(sorted, picds, same)
    BY <1>3, <2>1, <2>3 DEF Order
  <2>5. Len(picds) <= 1 => \A m, n \in D : ~ (m < n)
    BY <1>2
  <2> HIDE DEF same
  <2>. QED  BY <1>2, <1>3, <2>4, <2>5 DEF picds
<1>4. CASE sorted \in Sorted(picds)
  <2>1. PICK order \in {f \in [D -> D] : \A m, n \in D : f[m] = f[n] => m = n} :
            sorted = [n \in D |-> picds[order[n]]]
    BY <1>4 DEF Sorted
  <2>2. \A m, n \in D : m < n => ~ cmp_platforms(sorted[n], sorted[m])
    BY <1>4 DEF Sorted
  <2>3. Order(sorted, picds, order)
    BY <2>1 DEF Order, Injection, IsInjective
  <2>. QED  BY <1>2, <2>2, <2>3 DEF picds
<1>. QED  BY <1>3, <1>4 DEF sort_platforms, picds

\* Every platform keeps a place.
LEMMA OrderIsOnto ==
    ASSUME NEW picds, DOMAIN picds = 1 .. Len(picds), Len(picds) \in Nat,
           NEW sorted, NEW order, Order(sorted, picds, order)
    PROVE  \A n \in DOMAIN picds : \E m \in DOMAIN picds : sorted[m] = picds[n]
<1> DEFINE D == DOMAIN picds
<1>1. IsFiniteSet(D)
  BY FS_Interval
<1>2. order \in Injection(D, D)
  BY DEF Order
<1> HIDE DEF D
<1>3. order \in Surjection(D, D)
  BY <1>1, <1>2, FS_Injection
<1>4. \A n \in D : \E m \in D : order[m] = n
  BY <1>3 DEF Surjection
<1>. QED  BY <1>4 DEF Order, D

\* The list that init_platforms leaves: none, or that of the driver reordered.
LEMMA PlatformList ==
    ASSUME NEW w \in Worlds, w.layer = "ocl_icd_compat",
           NEW found \in init_platforms(w.env, w.driver)
    PROVE  \/ found = NoPlatforms
           \/ found = [platforms |-> Freed, num_platforms |-> Len(w.driver.picds), default_id |-> NULL]
           \/ \E sorted \in sort_platforms(w.env, w.driver.picds) :
                 found = [platforms |-> [n \in DOMAIN sorted |-> sorted[n].pid],
                          num_platforms |-> Len(sorted),
                          default_id |-> set_default_id(w.env, sorted)]
<1>1. CASE w.driver.fails = "clGetPlatformIDs" \/ w.driver.picds = <<>>
  BY <1>1 DEF init_platforms
<1>2. CASE w.driver.fails = "calloc" /\ w.driver.picds # <<>>
  <2>1. found = [NoPlatforms EXCEPT !.platforms = Freed, !.num_platforms = Len(w.driver.picds)]
    BY <1>2 DEF init_platforms
  <2>. QED  BY <2>1 DEF NoPlatforms
<1>3. CASE ~ (w.driver.fails = "clGetPlatformIDs" \/ w.driver.picds = <<>>) /\ w.driver.fails # "calloc"
  BY <1>3 DEF init_platforms
<1>. QED  BY <1>1, <1>2, <1>3

\* A list that was reordered is as long as the driver's, has the same platforms,
\* and its default is one of them.
LEMMA ReorderedPlatforms ==
    ASSUME NEW w \in Worlds, w.layer = "ocl_icd_compat",
           NEW sorted \in sort_platforms(w.env, w.driver.picds)
    PROVE  LET picds == w.driver.picds
           IN  /\ DOMAIN sorted = 1 .. Len(picds) /\ Len(sorted) = Len(picds) /\ Len(picds) \in Nat
               /\ \A n \in DOMAIN sorted : \E k \in DOMAIN picds : sorted[n] = picds[k]
               /\ \A k \in DOMAIN picds : \E n \in DOMAIN sorted : sorted[n] = picds[k]
               /\ \/ set_default_id(w.env, sorted) = NULL
                  \/ \E n \in DOMAIN sorted : set_default_id(w.env, sorted) = sorted[n].pid
               /\ w.env.OCL_ICD_DEFAULT_PLATFORM = NULL /\ Len(picds) > 0 =>
                    set_default_id(w.env, sorted) = sorted[1].pid
<1> DEFINE picds == w.driver.picds
<1>1. DOMAIN picds = 1 .. Len(picds) /\ Len(picds) \in Nat
  BY SortingReorders
<1>2. PICK order : Order(sorted, picds, order)
  BY SortingReorders
<1> HIDE DEF picds
<1>3. order \in [DOMAIN picds -> DOMAIN picds] /\ sorted = [n \in DOMAIN picds |-> picds[order[n]]]
  BY <1>2 DEF Order, Injection
<1>4. sorted \in Seq(Range(picds)) /\ DOMAIN sorted = DOMAIN picds /\ Len(sorted) = Len(picds)
  <2>1. \A n \in DOMAIN picds : picds[order[n]] \in Range(picds)
    BY <1>3 DEF Range
  <2>. QED  BY <1>1, <1>3, <2>1
<1>5. \A n \in DOMAIN sorted : \E k \in DOMAIN picds : sorted[n] = picds[k]
  BY <1>3
<1>6. \A k \in DOMAIN picds : \E n \in DOMAIN sorted : sorted[n] = picds[k]
  BY SMTT(30), <1>1, <1>2, <1>4, OrderIsOnto
<1>7. \/ set_default_id(w.env, sorted) = NULL
      \/ \E n \in DOMAIN sorted : set_default_id(w.env, sorted) = sorted[n].pid
  <2> DEFINE num == IF w.env.OCL_ICD_DEFAULT_PLATFORM = NULL THEN 0 ELSE w.env.OCL_ICD_DEFAULT_PLATFORM
  <2>1. set_default_id(w.env, sorted) =
          IF num \in 0 .. Len(sorted) - 1 THEN sorted[num + 1].pid ELSE NULL
    BY DEF set_default_id
  <2> HIDE DEF num
  <2>2. num \in 0 .. Len(sorted) - 1 => num + 1 \in DOMAIN sorted
    BY <1>1, <1>4
  <2>. QED  BY <2>1, <2>2
<1>8. w.env.OCL_ICD_DEFAULT_PLATFORM = NULL /\ Len(picds) > 0 =>
        set_default_id(w.env, sorted) = sorted[1].pid
  BY <1>1, <1>4 DEF set_default_id
<1>. QED  BY <1>1, <1>4, <1>5, <1>6, <1>7, <1>8 DEF picds

\* What is loaded has its type (the static state of the layers).
THEOREM LayerTypeCorrect == Spec => []TypeOK
<1>1. Loaded => TypeOK
  <2> SUFFICES ASSUME Loaded
               PROVE  TypeOK
    OBVIOUS
  <2>1. settings = None \/ /\ settings.log_type \in {"stdout", "stderr", "file"}
                           /\ settings.transparent \in BOOLEAN
    BY StreamIsOpen DEF Settings
  <2>2. (settings = None) = (log_stream = None)
    <3>1. settings # None => log_stream # None
      BY StreamIsOpen, NoneIsNoSetting, SettingWorldsAssumption DEF Loaded
    <3>. QED  BY <3>1 DEF Loaded
  <2>3. icd # None => /\ icd.num_platforms \in 0 .. Len(world.driver.picds)
                      /\ icd.platforms = Freed \/ Len(icd.platforms) = icd.num_platforms
    <3> SUFFICES ASSUME icd # None
                 PROVE  /\ icd.num_platforms \in 0 .. Len(world.driver.picds)
                        /\ icd.platforms = Freed \/ Len(icd.platforms) = icd.num_platforms
      OBVIOUS
    <3>1. world \in Worlds /\ world.layer = "ocl_icd_compat" /\ icd \in init_platforms(world.env, world.driver)
      BY DEF Loaded
    <3>2. Len(world.driver.picds) \in Nat
      <4>1. world.driver.picds \in Seq(Range(world.driver.picds))
        BY <3>1, IcdWorldsAssumption
      <4>. QED  BY <4>1
    <3>3. CASE icd = NoPlatforms
      BY <3>2, <3>3 DEF NoPlatforms
    <3>4. CASE icd.platforms = Freed /\ icd.num_platforms = Len(world.driver.picds)
      BY <3>2, <3>4
    <3>5. ASSUME NEW sorted \in sort_platforms(world.env, world.driver.picds),
                 icd = [platforms |-> [n \in DOMAIN sorted |-> sorted[n].pid],
                        num_platforms |-> Len(sorted),
                        default_id |-> set_default_id(world.env, sorted)]
          PROVE  /\ icd.num_platforms \in 0 .. Len(world.driver.picds)
                 /\ Len(icd.platforms) = icd.num_platforms
      <4>1. DOMAIN sorted = 1 .. Len(sorted) /\ Len(sorted) = Len(world.driver.picds)
        BY <3>1, ReorderedPlatforms
      <4>2. icd.platforms = [n \in 1 .. Len(sorted) |-> sorted[n].pid] /\ icd.num_platforms = Len(sorted)
        BY <3>5, <4>1
      <4>3. Len(icd.platforms) = Len(sorted)
        BY <3>2, <4>1, <4>2
      <4>. QED  BY <3>2, <4>1, <4>2, <4>3
    <3>6. \/ icd = NoPlatforms
          \/ icd = [platforms |-> Freed, num_platforms |-> Len(world.driver.picds), default_id |-> NULL]
          \/ \E sorted \in sort_platforms(world.env, world.driver.picds) :
                icd = [platforms |-> [n \in DOMAIN sorted |-> sorted[n].pid],
                       num_platforms |-> Len(sorted),
                       default_id |-> set_default_id(world.env, sorted)]
      BY <3>1, PlatformList
    <3>7. CASE icd = [platforms |-> Freed, num_platforms |-> Len(world.driver.picds), default_id |-> NULL]
      BY <3>4, <3>7
    <3>. QED  BY <3>3, <3>5, <3>6, <3>7
  <2>4. icd = None \/ settings = None
    BY DEF Loaded
  <2>. QED  BY <2>1, <2>2, <2>3, <2>4 DEF TypeOK
<1>. QED  BY <1>1, LayerLoaded, PTL

\* What check_platform finds is a platform of the driver, and so is the default.
LEMMA ListedPlatforms ==
    ASSUME Loaded, icd # None
    PROVE  /\ icd.platforms # Freed => \A pid : check_platform(icd, pid) => pid \in Pids
           /\ icd.default_id # NULL =>
                /\ icd.default_id \in Pids
                /\ NULL # <<[name |-> "CL_CONTEXT_PLATFORM", value |-> icd.default_id]>>
<1>1. /\ world \in Worlds /\ world.layer = "ocl_icd_compat"
      /\ icd \in init_platforms(world.env, world.driver)
  BY DEF Loaded
<1>2. CASE icd = NoPlatforms
  BY <1>2 DEF NoPlatforms, check_platform
<1>3. CASE icd = [platforms |-> Freed, num_platforms |-> Len(world.driver.picds), default_id |-> NULL]
  BY <1>3
<1>4. ASSUME NEW sorted \in sort_platforms(world.env, world.driver.picds),
             icd = [platforms |-> [n \in DOMAIN sorted |-> sorted[n].pid],
                    num_platforms |-> Len(sorted),
                    default_id |-> set_default_id(world.env, sorted)]
      PROVE  /\ \A pid : check_platform(icd, pid) => pid \in Pids
             /\ icd.default_id # NULL =>
                  /\ icd.default_id \in Pids
                  /\ NULL # <<[name |-> "CL_CONTEXT_PLATFORM", value |-> icd.default_id]>>
  <2>1. icd.platforms = [n \in DOMAIN sorted |-> sorted[n].pid]
        /\ icd.default_id = set_default_id(world.env, sorted)
    BY <1>4
  <2>2. \A n \in DOMAIN sorted : \E k \in DOMAIN world.driver.picds : sorted[n] = world.driver.picds[k]
    BY <1>1, ReorderedPlatforms
  <2>3. \A n \in DOMAIN sorted : sorted[n].pid \in Pids
    BY <2>2 DEF Pids
  <2>4. \/ icd.default_id = NULL
        \/ \E n \in DOMAIN sorted : icd.default_id = sorted[n].pid
    BY <1>1, <2>1, ReorderedPlatforms
  <2>5. \A pid \in Pids : NULL # <<[name |-> "CL_CONTEXT_PLATFORM", value |-> pid]>>
    BY <1>1, IcdWorldsAssumption DEF Pids
  <2>6. \A pid : check_platform(icd, pid) => pid \in Pids
    BY <2>1, <2>3 DEF check_platform
  <2>. QED  BY <2>3, <2>4, <2>5, <2>6
<1>. QED  BY <1>1, <1>2, <1>3, <1>4, PlatformList

\* A list that is forwarded because its platform was looked up.
LEMMA NamedPlatform ==
    ASSUME Loaded, icd # None, NEW properties, NEW refusal, NamesPlatform(properties),
           platform_named(icd, properties, refusal, Forwarded(properties)).outcome = "forwarded",
           refusal.outcome # "forwarded"
    PROVE  /\ platform_named(icd, properties, refusal, Forwarded(properties)).with = properties
           /\ FirstPlatform(properties) \in Pids
<1>1. /\ icd.platforms # Freed
      /\ check_platform(icd, FirstPlatform(properties))
      /\ platform_named(icd, properties, refusal, Forwarded(properties)) = Forwarded(properties)
  BY DEF platform_named, Undefined
<1>. QED  BY <1>1, ListedPlatforms DEF Forwarded

\* What a call of the compatibility layer answers.
LEMMA IcdAnswer ==
    ASSUME NEW call, NEW arguments, NEW result, IcdCall(call, arguments, result)
    PROVE  answer'.call = call /\ answer'.result = result /\ world' = world /\ icd' = icd
BY DEF IcdCall, Answer

LEMMA IcdCallsReported ==
    ASSUME Loaded, icd # None, IcdCalls
    PROVE  OnlyReportedPlatforms'
<1> DEFINE result == answer'.result
           properties == answer'.result.with
<1>1. ASSUME NEW errcode_ret
      PROVE  RefusedThrough(errcode_ret).outcome # "forwarded"
  BY DEF RefusedThrough, Refused, Undefined
<1>2. icd' = icd /\ world' = world
  BY IcdAnswer DEF IcdCalls, clGetPlatformIDs_wrap, clCreateContext_wrap,
     clCreateContextFromType_wrap, clGetGLContextInfoKHR_wrap, PlatformCall_wrap
<1>3. Pids' = Pids
  BY <1>2 DEF Pids
<1>4. CASE clGetPlatformIDs_wrap
  <2>1. result.outcome # "forwarded"
    BY <1>4, IcdAnswer DEF clGetPlatformIDs_wrap, clGetPlatformIDs, Refused, Answered, Undefined
  <2>. QED  BY <2>1 DEF OnlyReportedPlatforms
<1>5. CASE PlatformCall_wrap
  <2>1. PICK platform \in Pids \cup {NULL} :
            IcdCall("PlatformCall", [platform |-> platform],
                    Forwarded(select_platform_id(icd, platform)))
    BY <1>5 DEF PlatformCall_wrap
  <2>2. answer'.call = "PlatformCall" /\ result = Forwarded(select_platform_id(icd, platform))
    BY <2>1, IcdAnswer
  <2>3. result.with \in Pids \cup {icd.default_id}
    BY <2>2 DEF Forwarded, select_platform_id
  <2>. QED  BY <1>2, <1>3, <2>2, <2>3 DEF OnlyReportedPlatforms
<1>6. SUFFICES ASSUME result.outcome = "forwarded", ~ PlatformCall_wrap, ~ clGetPlatformIDs_wrap
               PROVE  /\ answer'.call # "PlatformCall"
                      /\ \/ /\ answer'.call \in {"clCreateContext", "clGetGLContextInfoKHR"}
                            /\ ~ NamesPlatform(properties)
                         \/ NamesPlatform(properties) /\ FirstPlatform(properties) \in Pids
  BY <1>2, <1>3, <1>4, <1>5 DEF OnlyReportedPlatforms
<1>7. CASE clCreateContext_wrap
  <2>1. PICK list \in PropertyLists, errcode_ret \in BOOLEAN :
            IcdCall("clCreateContext", [properties |-> list], clCreateContext(icd, list, errcode_ret))
    BY <1>7 DEF clCreateContext_wrap
  <2>2. answer'.call = "clCreateContext" /\ result = clCreateContext(icd, list, errcode_ret)
    BY <2>1, IcdAnswer
  <2>3. CASE ~ NamesPlatform(list)
    BY <2>2, <2>3 DEF clCreateContext, Forwarded
  <2>4. CASE NamesPlatform(list)
    <3>1. result = platform_named(icd, list, RefusedThrough(errcode_ret), Forwarded(list))
      BY <2>2, <2>4 DEF clCreateContext
    <3>2. properties = list /\ FirstPlatform(list) \in Pids
      BY <1>1, <1>6, <2>4, <3>1, NamedPlatform
    <3>. QED  BY <2>2, <2>4, <3>2
  <2>. QED  BY <2>3, <2>4
<1>8. CASE clGetGLContextInfoKHR_wrap
  <2>1. PICK list \in PropertyLists :
            IcdCall("clGetGLContextInfoKHR", [properties |-> list], clGetGLContextInfoKHR(icd, list))
    BY <1>8 DEF clGetGLContextInfoKHR_wrap
  <2>2. answer'.call = "clGetGLContextInfoKHR" /\ result = clGetGLContextInfoKHR(icd, list)
    BY <2>1, IcdAnswer
  <2>3. CASE ~ NamesPlatform(list)
    BY <2>2, <2>3 DEF clGetGLContextInfoKHR, Forwarded
  <2>4. CASE NamesPlatform(list)
    <3>1. result = platform_named(icd, list, Refused("CL_INVALID_PLATFORM"), Forwarded(list))
      BY <2>2, <2>4 DEF clGetGLContextInfoKHR
    <3>2. Refused("CL_INVALID_PLATFORM").outcome # "forwarded"
      BY DEF Refused
    <3>3. properties = list /\ FirstPlatform(list) \in Pids
      BY <1>6, <2>4, <3>1, <3>2, NamedPlatform
    <3>. QED  BY <2>2, <2>4, <3>3
  <2>. QED  BY <2>3, <2>4
<1>9. CASE clCreateContextFromType_wrap
  <2>1. PICK list \in PropertyLists, errcode_ret \in BOOLEAN :
            IcdCall("clCreateContextFromType", [properties |-> list],
                    clCreateContextFromType(icd, list, errcode_ret))
    BY <1>9 DEF clCreateContextFromType_wrap
  <2>2. answer'.call = "clCreateContextFromType" /\ result = clCreateContextFromType(icd, list, errcode_ret)
    BY <2>1, IcdAnswer
  <2> DEFINE default == <<[name |-> "CL_CONTEXT_PLATFORM", value |-> icd.default_id]>>
  <2>3. \/ result = RefusedThrough(errcode_ret)
        \/ icd.default_id # NULL /\ result = Forwarded(default)
        \/ /\ NamesPlatform(list)
           /\ result = platform_named(icd, list, RefusedThrough(errcode_ret), Forwarded(list))
    BY <2>2 DEF clCreateContextFromType
  <2>4. CASE icd.default_id # NULL /\ result = Forwarded(default)
    <3>1. default # NULL /\ icd.default_id \in Pids
      BY <2>4, ListedPlatforms
    <3>2. Positions(default, "CL_CONTEXT_PLATFORM") = {1}
      BY <3>1 DEF Positions
    <3>3. (CHOOSE n \in {1} : \A m \in {1} : n <= m) = 1
      OBVIOUS
    <3>4. NamesPlatform(default) /\ FirstPlatform(default) = icd.default_id
      BY <3>2, <3>3 DEF NamesPlatform, FirstPlatform
    <3>5. properties = default
      BY <2>4 DEF Forwarded
    <3> HIDE DEF default
    <3>. QED  BY <2>2, <3>1, <3>4, <3>5
  <2>5. CASE /\ NamesPlatform(list)
             /\ result = platform_named(icd, list, RefusedThrough(errcode_ret), Forwarded(list))
    <3>1. properties = list /\ FirstPlatform(list) \in Pids
      BY <1>1, <1>6, <2>5, NamedPlatform
    <3>. QED  BY <2>2, <2>5, <3>1
  <2>. QED  BY <1>1, <1>6, <2>3, <2>4, <2>5
<1>. QED  BY <1>6, <1>7, <1>8, <1>9 DEF IcdCalls

\* Whatever goes down from the compatibility layer names a platform that the
\* driver reported, or no platform where that is legal (check_platform,
\* select_platform_id, clCreateContextFromType).
THEOREM LayerOnlyReportedPlatforms == Spec => []OnlyReportedPlatforms
<1>1. Init => OnlyReportedPlatforms
  BY DEF Init, OnlyReportedPlatforms
<1>2. Loaded /\ OnlyReportedPlatforms /\ [Next]_vars => OnlyReportedPlatforms'
  <2> SUFFICES ASSUME Loaded, OnlyReportedPlatforms, [Next]_vars
               PROVE  OnlyReportedPlatforms'
    OBVIOUS
  <2>1. CASE UNCHANGED vars
    BY <2>1 DEF vars, OnlyReportedPlatforms, Pids
  <2>2. CASE clGetLayerInfo
    <3>1. answer'.result.outcome # "forwarded"
      BY <2>2 DEF clGetLayerInfo, Answer, Refused, Answered
    <3>. QED  BY <3>1 DEF OnlyReportedPlatforms
  <2>3. CASE clInitLayer
    <3>1. answer'.result.outcome # "forwarded"
      BY <2>3 DEF clInitLayer, Answer, Refused, Answered
    <3>. QED  BY <3>1 DEF OnlyReportedPlatforms
  <2>4. CASE FirstCall /\ world.layer = "ocl_icd_compat" /\ IcdCalls
    <3>1. icd # None
      BY <2>4 DEF FirstCall, Initialised, Loaded
    <3>. QED  BY <2>4, <3>1, IcdCallsReported
  <2>5. CASE FirstCall /\ world.layer = "param_verification" /\ VerifiedCalls
    <3>1. icd = None
      BY <2>5 DEF Loaded
    <3>2. ASSUME NEW call, NEW arguments, NEW violation, Verified(call, arguments, violation)
          PROVE  icd' = icd
      BY <3>2 DEF Verified
    <3>3. icd' = icd
      BY <2>5, <3>2 DEF VerifiedCalls, clCreateContext_layer, clCreateSubDevices_layer,
         clEnqueueCopyBufferRect_layer, clEnqueueSVMMemcpy_layer, clEnqueueNDRangeKernel_layer,
         clCreateSubBuffer_layer
    <3>. QED  BY <3>1, <3>3 DEF OnlyReportedPlatforms
  <2>. QED  BY <2>1, <2>2, <2>3, <2>4, <2>5 DEF Next
<1>. QED  BY <1>1, <1>2, LayerLoaded, PTL DEF Spec

\* A number of two digits is as large as its first, then its second digit is.
LEMMA TwoDigits ==
    ASSUME NEW a \in Nat, NEW b \in Nat, NEW base \in Nat,
           NEW c \in 0 .. base - 1, NEW d \in 0 .. base - 1,
           a > b \/ (a = b /\ c >= d)
    PROVE  a * base + c >= b * base + d /\ (a > b => a * base + c > b * base + d)
<1>1. CASE a > b
  <2>1. a * base >= b * base + base
    BY <1>1
  <2>2. a * base \in Int /\ b * base \in Int
    OBVIOUS
  <2>. QED  BY <2>1, <2>2
<1>2. CASE a = b /\ c >= d
  <2>1. a * base \in Int
    OBVIOUS
  <2>. QED  BY <1>2, <2>1
<1>. QED  BY <1>1, <1>2

\* A platform that another does not go before is worth as much.
LEMMA OrderIsWorth ==
    ASSUME NEW m, NEW n,
           {m.ngpus, m.ncpus, m.ndevs} \subseteq 0 .. Many - 1,
           {n.ngpus, n.ncpus, n.ndevs} \subseteq 0 .. Many - 1,
           ~ cmp_platforms(n, m)
    PROVE  (m.ngpus * Many + m.ncpus) * Many + m.ndevs >= (n.ngpus * Many + n.ncpus) * Many + n.ndevs
<1> DEFINE a == m.ngpus * Many + m.ncpus
           b == n.ngpus * Many + n.ncpus
<1>1. /\ m.ngpus \in 0 .. Many - 1 /\ m.ncpus \in 0 .. Many - 1 /\ m.ndevs \in 0 .. Many - 1
      /\ n.ngpus \in 0 .. Many - 1 /\ n.ncpus \in 0 .. Many - 1 /\ n.ndevs \in 0 .. Many - 1
      /\ m.ngpus \in Nat /\ m.ncpus \in Nat /\ n.ngpus \in Nat /\ n.ncpus \in Nat /\ Many \in Nat
  BY ManyAssumption
<1>2. a \in Nat /\ b \in Nat
  BY <1>1
<1>3. \/ m.ngpus > n.ngpus
      \/ m.ngpus = n.ngpus /\ m.ncpus > n.ncpus
      \/ m.ngpus = n.ngpus /\ m.ncpus = n.ncpus /\ m.ndevs >= n.ndevs
  BY <1>1 DEF cmp_platforms
<1>4. CASE m.ngpus > n.ngpus
  <2>1. a > b
    BY <1>1, <1>4, TwoDigits
  <2> HIDE DEF a, b
  <2>2. a * Many + m.ndevs >= b * Many + n.ndevs
    BY <1>1, <1>2, <2>1, TwoDigits
  <2>. QED  BY <2>2 DEF a, b
<1>5. CASE m.ngpus = n.ngpus /\ m.ncpus > n.ncpus
  <2>1. a > b
    BY <1>1, <1>5
  <2> HIDE DEF a, b
  <2>2. a * Many + m.ndevs >= b * Many + n.ndevs
    BY <1>1, <1>2, <2>1, TwoDigits
  <2>. QED  BY <2>2 DEF a, b
<1>6. CASE m.ngpus = n.ngpus /\ m.ncpus = n.ncpus /\ m.ndevs >= n.ndevs
  <2>1. a = b
    BY <1>6
  <2> HIDE DEF a, b
  <2>2. a * Many + m.ndevs >= b * Many + n.ndevs
    BY <1>1, <1>2, <1>6, <2>1, TwoDigits
  <2>. QED  BY <2>2 DEF a, b
<1>. QED  BY <1>3, <1>4, <1>5, <1>6

LEMMA DefaultIsBest ==
    ASSUME Loaded, icd # None, icd.platforms \notin {Freed, <<>>}
    PROVE  /\ {icd.platforms[n] : n \in DOMAIN icd.platforms} = Pids
           /\ Len(icd.platforms) = Len(world.driver.picds)
           /\ world.env.OCL_ICD_PLATFORM_SORT # "none" =>
                \A m, n \in DOMAIN icd.platforms :
                    m < n => Worth(icd.platforms[m]) >= Worth(icd.platforms[n])
           /\ world.env.OCL_ICD_DEFAULT_PLATFORM = NULL => icd.default_id = icd.platforms[1]
<1> DEFINE picds == world.driver.picds
<1>1. /\ world \in Worlds /\ world.layer = "ocl_icd_compat"
      /\ icd \in init_platforms(world.env, world.driver)
  BY DEF Loaded
<1>2. PICK sorted \in sort_platforms(world.env, picds) :
          icd = [platforms |-> [n \in DOMAIN sorted |-> sorted[n].pid],
                 num_platforms |-> Len(sorted),
                 default_id |-> set_default_id(world.env, sorted)]
  <2>1. icd # NoPlatforms
    BY DEF NoPlatforms
  <2>2. icd # [platforms |-> Freed, num_platforms |-> Len(world.driver.picds), default_id |-> NULL]
    OBVIOUS
  <2>. QED  BY <1>1, <2>1, <2>2, PlatformList
<1>3. /\ DOMAIN sorted = 1 .. Len(picds) /\ Len(picds) \in Nat
      /\ \A n \in DOMAIN sorted : \E k \in DOMAIN picds : sorted[n] = picds[k]
      /\ \A k \in DOMAIN picds : \E n \in DOMAIN sorted : sorted[n] = picds[k]
      /\ world.env.OCL_ICD_DEFAULT_PLATFORM = NULL /\ Len(picds) > 0 =>
            set_default_id(world.env, sorted) = sorted[1].pid
  BY <1>1, ReorderedPlatforms
<1>4. /\ icd.platforms = [n \in 1 .. Len(picds) |-> sorted[n].pid]
      /\ icd.default_id = set_default_id(world.env, sorted)
  BY <1>2, <1>3
<1>5. DOMAIN icd.platforms = 1 .. Len(picds) /\ Len(icd.platforms) = Len(picds)
  BY <1>3, <1>4
<1>6. Len(picds) > 0
  <2>1. SUFFICES ASSUME Len(picds) = 0
                 PROVE  FALSE
    BY <1>3
  <2>2. icd.platforms = <<>>
    BY <1>4, <1>5, <2>1
  <2>. QED  BY <2>2
<1>7. {icd.platforms[n] : n \in DOMAIN icd.platforms} = Pids
  <2>1. Pids = {picds[k].pid : k \in DOMAIN picds}
    BY DEF Pids
  <2>2. {icd.platforms[n] : n \in DOMAIN icd.platforms} = {sorted[n].pid : n \in DOMAIN sorted}
    BY <1>3, <1>4, <1>5
  <2>3. ASSUME NEW pid \in Pids
        PROVE  pid \in {sorted[n].pid : n \in DOMAIN sorted}
    <3>1. PICK k \in DOMAIN picds : pid = picds[k].pid
      BY <2>1
    <3>. QED  BY <1>3, <3>1
  <2>4. ASSUME NEW n \in DOMAIN sorted
        PROVE  sorted[n].pid \in Pids
    BY <1>3, <2>1
  <2>. QED  BY <2>2, <2>3, <2>4
<1>8. ASSUME NEW k \in DOMAIN picds
      PROVE  /\ Worth(picds[k].pid) = (picds[k].ngpus * Many + picds[k].ncpus) * Many + picds[k].ndevs
             /\ {picds[k].ngpus, picds[k].ncpus, picds[k].ndevs} \subseteq 0 .. Many - 1
  <2>1. \A n \in DOMAIN picds : picds[n].pid = picds[k].pid => n = k
    BY <1>1, IcdWorldsAssumption
  <2>2. (CHOOSE n \in DOMAIN picds : picds[n].pid = picds[k].pid) = k
    BY <2>1
  <2>3. {picds[k].ngpus, picds[k].ncpus, picds[k].ndevs} \subseteq 0 .. Many - 1
    BY <1>1, IcdWorldsAssumption
  <2>. QED  BY <2>2, <2>3 DEF Worth
<1>9. ASSUME world.env.OCL_ICD_PLATFORM_SORT # "none",
             NEW m \in DOMAIN icd.platforms, NEW n \in DOMAIN icd.platforms, m < n
      PROVE  Worth(icd.platforms[m]) >= Worth(icd.platforms[n])
  <2>1. ~ cmp_platforms(sorted[n], sorted[m])
    BY <1>1, <1>5, <1>9, SortingReorders
  <2>2. PICK k \in DOMAIN picds : sorted[m] = picds[k]
    BY <1>3, <1>5
  <2>3. PICK l \in DOMAIN picds : sorted[n] = picds[l]
    BY <1>3, <1>5
  <2>4. icd.platforms[m] = picds[k].pid /\ icd.platforms[n] = picds[l].pid
    BY <1>4, <1>5, <2>2, <2>3
  <2>5. ~ cmp_platforms(picds[l], picds[k])
    BY <2>1, <2>2, <2>3
  <2>6. (picds[k].ngpus * Many + picds[k].ncpus) * Many + picds[k].ndevs
            >= (picds[l].ngpus * Many + picds[l].ncpus) * Many + picds[l].ndevs
    BY <1>8, <2>5, OrderIsWorth
  <2>. QED  BY <1>8, <2>4, <2>6
<1>10. world.env.OCL_ICD_DEFAULT_PLATFORM = NULL => icd.default_id = icd.platforms[1]
  <2>1. icd.platforms[1] = sorted[1].pid
    BY <1>3, <1>4, <1>6
  <2>. QED  BY <1>3, <1>4, <1>6, <2>1
<1>. QED  BY <1>5, <1>7, <1>9, <1>10

\* The list of platforms is that of the driver, the most capable first unless
\* sorting is off, and its first is the default unless the user names another
\* (init_platforms with cmp_platforms).
THEOREM LayerDefaultPlatformIsBest == Spec => []DefaultPlatformIsBest
<1>1. Loaded => DefaultPlatformIsBest
  BY DefaultIsBest DEF DefaultPlatformIsBest
<1>. QED  BY <1>1, LayerLoaded, PTL

-----------------------------------------------------------------------------
(***************************************************************************)
(* The precedence of the sources of a setting.                             *)
(***************************************************************************)

LinesAt(fs, path) == IF IsRegular(fs, path) THEN fs[path].lines ELSE <<>>

\* The options depend on the lines of the file that is found, ...
LEMMA SameOptions ==
    ASSUME NEW env, NEW fs, NEW other_env, NEW other_fs,
           LinesAt(fs, find_settings(env, fs)) =
              LinesAt(other_fs, find_settings(other_env, other_fs))
    PROVE  load_settings(env, fs) = load_settings(other_env, other_fs)
BY DEF load_settings, LinesAt

\* ... and a setting on the options and on its variable.
LEMMA SettingOf ==
    ASSUME NEW layer, NEW env, NEW fs, NEW name \in {"log_sink", "log_filename", "transparent"}
    PROVE  load(layer, env, fs)[Field(name)] =
              get_option(env, load_settings(env, fs), layer, name, DefaultSettings[Field(name)])
<1> DEFINE get(n, out) == get_option(env, load_settings(env, fs), layer, n, out)
<1>1. load(layer, env, fs) = [log_type |-> get("log_sink", DefaultSettings.log_type),
                              log_filename |-> get("log_filename", DefaultSettings.log_filename),
                              transparent |-> get("transparent", DefaultSettings.transparent)]
  BY DEF load
<1> HIDE DEF get
<1>2. /\ load(layer, env, fs).log_type = get("log_sink", DefaultSettings.log_type)
      /\ load(layer, env, fs).log_filename = get("log_filename", DefaultSettings.log_filename)
      /\ load(layer, env, fs).transparent = get("transparent", DefaultSettings.transparent)
  BY <1>1
<1>3. CASE name = "log_sink"
  <2>1. Field(name) = "log_type"
    BY <1>3 DEF Field
  <2>. QED  BY <1>2, <1>3, <2>1 DEF get
<1>4. CASE name = "log_filename"
  <2>1. Field(name) = "log_filename"
    BY <1>4 DEF Field
  <2>. QED  BY <1>2, <1>4, <2>1 DEF get
<1>5. CASE name = "transparent"
  <2>1. Field(name) = "transparent"
    BY <1>5 DEF Field
  <2>. QED  BY <1>2, <1>5, <2>1 DEF get
<1>. QED  BY <1>3, <1>4, <1>5

\* The environment of a process that loads a layer with settings.
LEMMA EnvironmentOf ==
    ASSUME NEW w \in Worlds, w.layer # "ocl_icd_compat"
    PROVE  w.env \in [XDG_DATA_HOME : Text, HOME : Text, OPENCL_LAYERS_SETTINGS_PATH : Text,
                      option : [Keys(w.layer) -> Text]]
BY SettingWorldsAssumption

\* Nothing but the file of OPENCL_LAYERS_SETTINGS_PATH is read if that exists.
LEMMA PathAlone ==
    ASSUME Loaded, settings # None, world.env.OPENCL_LAYERS_SETTINGS_PATH \in DOMAIN world.fs
    PROVE  settings = LoadedFrom([world.env EXCEPT !.XDG_DATA_HOME = NULL, !.HOME = NULL],
                                 [path \in UnderPath |-> world.fs[path]])
<1> DEFINE env == [world.env EXCEPT !.XDG_DATA_HOME = NULL, !.HOME = NULL]
           fs == [path \in UnderPath |-> world.fs[path]]
           named == world.env.OPENCL_LAYERS_SETTINGS_PATH
           inside == named \o "/cl_layer_settings.txt"
<1>1. world.env \in [XDG_DATA_HOME : Text, HOME : Text, OPENCL_LAYERS_SETTINGS_PATH : Text,
                     option : [Keys(world.layer) -> Text]]
  BY EnvironmentOf DEF Loaded
<1>2. env.OPENCL_LAYERS_SETTINGS_PATH = named /\ env.option = world.env.option
  BY <1>1
<1>3. \A path \in {named, inside} :
        /\ path \in DOMAIN fs <=> path \in DOMAIN world.fs
        /\ path \in DOMAIN fs => fs[path] = world.fs[path]
  BY DEF UnderPath
<1> HIDE DEF env, fs
<1>4. \A path \in {named, inside} :
        /\ IsRegular(fs, path) <=> IsRegular(world.fs, path)
        /\ LinesAt(fs, path) = LinesAt(world.fs, path)
  BY <1>3 DEF IsRegular, LinesAt
<1>5. /\ find_settings(world.env, world.fs) = IF IsRegular(world.fs, named) THEN named ELSE inside
      /\ find_settings(env, fs) = IF IsRegular(fs, named) THEN named ELSE inside
  <2>1. named \in DOMAIN world.fs /\ named \in DOMAIN fs
    BY <1>3
  <2>. QED  BY <1>2, <2>1 DEF find_settings
<1>6. find_settings(env, fs) = find_settings(world.env, world.fs)
      /\ find_settings(env, fs) \in {named, inside}
  BY <1>4, <1>5
<1>7. load_settings(env, fs) = load_settings(world.env, world.fs)
  <2>1. LinesAt(fs, find_settings(env, fs)) = LinesAt(world.fs, find_settings(world.env, world.fs))
    BY <1>4, <1>6
  <2>. QED  BY <2>1, SameOptions
<1>8. \A options, name, out : get_option(env, options, world.layer, name, out) =
                                get_option(world.env, options, world.layer, name, out)
  BY <1>2 DEF get_option
<1>9. load(world.layer, env, fs) = load(world.layer, world.env, world.fs)
  BY <1>7, <1>8 DEF load
<1>. QED  BY <1>9 DEF Loaded, LoadedFrom, env, fs

\* A value with a meaning makes the setting, one without leaves it.
LEMMA MeaningDecides ==
    ASSUME NEW name \in {"log_sink", "log_filename", "transparent"}, NEW value, NEW out
    PROVE  /\ Meaningful(name, value) => \A other : parse(name, value, out) = parse(name, value, other)
           /\ ~ Meaningful(name, value) => parse(name, value, out) = out
<1>1. CASE name = "log_sink"
  BY <1>1 DEF Meaningful, parse, parse_log_sink
<1>2. CASE name = "log_filename"
  BY <1>2 DEF Meaningful, parse, parse_filename
<1>3. CASE name = "transparent"
  <2>1. \A o : parse(name, value, o) = parse_bool(value, o)
    BY <1>3 DEF parse
  <2>2. Meaningful(name, value) <=> parse_bool(value, TRUE) = parse_bool(value, FALSE)
    BY <1>3 DEF Meaningful
  <2>3. CASE value \in {"on", "y", "yes", "1", "true"}
    BY <2>1, <2>2, <2>3 DEF parse_bool
  <2>4. CASE value \in {"off", "n", "no", "0", "false"}
    <3>1. value \notin {"on", "y", "yes", "1", "true"}
      BY <2>4
    <3>. QED  BY <2>1, <2>2, <2>4, <3>1 DEF parse_bool
  <2>5. CASE value \notin {"on", "y", "yes", "1", "true"} \cup {"off", "n", "no", "0", "false"}
    <3>1. \A o : parse_bool(value, o) = o
      BY <2>5 DEF parse_bool
    <3>2. parse_bool(value, TRUE) = TRUE /\ parse_bool(value, FALSE) = FALSE
      BY <3>1
    <3>3. parse_bool(value, TRUE) # parse_bool(value, FALSE)
      BY <3>2
    <3>4. ~ Meaningful(name, value)
      BY <2>2, <3>3
    <3>. QED  BY <2>1, <3>1, <3>4
  <2>. QED  BY <2>3, <2>4, <2>5
<1>. QED  BY <1>1, <1>2, <1>3

LEMMA VariableDecides ==
    ASSUME Loaded, settings # None, NEW name \in {"log_sink", "log_filename", "transparent"},
           world.env.option[Option(name)] # NULL
    PROVE  settings[Field(name)] =
              (IF Meaningful(name, world.env.option[Option(name)]) THEN LoadedFrom(world.env, <<>>)
               ELSE LoadedFrom(Without(Option(name)), world.fs))[Field(name)]
<1> DEFINE key == Option(name)
           value == world.env.option[key]
           default == DefaultSettings[Field(name)]
           from_file(options) == IF key \in DOMAIN options /\ options[key] # ""
                                 THEN parse(name, options[key], default) ELSE default
           options == load_settings(world.env, world.fs)
           without == Without(key)
<1>1. settings[Field(name)] = parse(name, value, from_file(options))
  <2>1. settings[Field(name)] = get_option(world.env, options, world.layer, name, default)
    BY SettingOf DEF Loaded
  <2>. QED  BY <2>1 DEF get_option, Option
<1>2. CASE Meaningful(name, value)
  <2>1. LoadedFrom(world.env, <<>>)[Field(name)] =
            parse(name, value, from_file(load_settings(world.env, <<>>)))
    <3>1. LoadedFrom(world.env, <<>>)[Field(name)] =
              get_option(world.env, load_settings(world.env, <<>>), world.layer, name, default)
      BY SettingOf DEF LoadedFrom
    <3>. QED  BY <3>1 DEF get_option, Option
  <2> HIDE DEF from_file, value, options
  <2>. QED  BY <1>1, <1>2, <2>1, MeaningDecides DEF value
<1>3. CASE ~ Meaningful(name, value)
  <2>1. /\ without.XDG_DATA_HOME = world.env.XDG_DATA_HOME
        /\ without.HOME = world.env.HOME
        /\ without.OPENCL_LAYERS_SETTINGS_PATH = world.env.OPENCL_LAYERS_SETTINGS_PATH
        /\ without.option[key] = NULL
    <3>1. world.env \in [XDG_DATA_HOME : Text, HOME : Text, OPENCL_LAYERS_SETTINGS_PATH : Text,
                         option : [Keys(world.layer) -> Text]]
      BY EnvironmentOf DEF Loaded
    <3>2. key \in Keys(world.layer)
      BY DEF Option, Keys
    <3>. QED  BY <3>1, <3>2 DEF Without
  <2> HIDE DEF without
  <2>2. find_settings(without, world.fs) = find_settings(world.env, world.fs)
    BY <2>1 DEF find_settings, platform_settings
  <2>3. load_settings(without, world.fs) = options
    BY <2>2, SameOptions
  <2>4. LoadedFrom(without, world.fs)[Field(name)] = from_file(options)
    <3>1. LoadedFrom(without, world.fs)[Field(name)] =
              get_option(without, options, world.layer, name, default)
      BY <2>3, SettingOf DEF LoadedFrom
    <3>. QED  BY <2>1, <3>1 DEF get_option, Option
  <2> HIDE DEF from_file, value, options
  <2>. QED  BY <1>1, <1>3, <2>4, MeaningDecides DEF value, without
<1>. QED  BY <1>2, <1>3

\* Nothing weaker reaches a setting: not the places of the platform if
\* OPENCL_LAYERS_SETTINGS_PATH names something, no file if the environment gives
\* the option a meaning, and not the environment otherwise (find_settings,
\* load_settings and get_option in utils).
THEOREM LayerSettingsByPrecedence == Spec => []SettingsByPrecedence
<1>1. Loaded => SettingsByPrecedence
  BY PathAlone, VariableDecides DEF SettingsByPrecedence
<1>. QED  BY <1>1, LayerLoaded, PTL

=============================================================================
