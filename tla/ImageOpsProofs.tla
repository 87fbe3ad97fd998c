--------------------------- MODULE ImageOpsProofs ---------------------------
(***************************************************************************)
(* Proofs about what the image threads compute, for frames of any size and *)
(* content: the opening of the mask, the search for blobs and their        *)
(* removal, and the center of mass give exactly what they are to compute.  *)
(* OpsInv is inductive.                                                  *)
(***************************************************************************)
EXTENDS ImageOps, SequenceTheorems, FiniteSetTheorems, WellFoundedInduction, TLAPS

\* A set of natural numbers has a least element.
LEMMA LeastNat ==
    ASSUME NEW T, T \subseteq Nat, T # {}
    PROVE  \E x \in T : \A y \in T : x <= y
<1>1. PICK x \in T : \A y \in T : ~(<<y, x>> \in OpToRel(<, Nat))
  BY NatLessThanWellFounded, WFMin, Zenon
<1>2. \A y \in T : ~(y < x)
  BY <1>1 DEF OpToRel
<1>3. QED BY <1>2

-----------------------------------------------------------------------------
(* Blobs.  The hull of a set is the least superset within the mask that    *)
(* has all its neighbors; the blob that is grown from a pixel is the hull  *)
(* of that pixel.                                                          *)

Grow(mask, S) == S \cup {q \in mask : Beside(q) \cap S # {}}
Closed(mask, S) == \A q \in mask : Beside(q) \cap S # {} => q \in S
Hull(mask, S) ==
    {q \in mask : \A T \in SUBSET mask : S \subseteq T /\ Closed(mask, T) => q \in T}
IsGrown(mask, g) ==
    g = [S \in SUBSET mask |-> IF Grow(mask, S) = S THEN S ELSE g[Grow(mask, S)]]

\* Growing adds to a set, and nothing more when it is closed.
LEMMA GrowFacts ==
    ASSUME NEW mask, NEW S \in SUBSET mask
    PROVE  /\ Grow(mask, S) \in SUBSET mask
           /\ S \subseteq Grow(mask, S)
           /\ Grow(mask, S) = S <=> Closed(mask, S)
  BY DEF Grow, Closed

\* The hull of a set is its least closed superset within the mask.
LEMMA HullFacts ==
    ASSUME NEW mask, NEW S \in SUBSET mask
    PROVE  /\ Hull(mask, S) \in SUBSET mask
           /\ S \subseteq Hull(mask, S)
           /\ Closed(mask, Hull(mask, S))
           /\ \A T \in SUBSET mask :
                 S \subseteq T /\ Closed(mask, T) => Hull(mask, S) \subseteq T
<1>1. /\ Hull(mask, S) \in SUBSET mask
      /\ S \subseteq Hull(mask, S)
      /\ \A T \in SUBSET mask :
            S \subseteq T /\ Closed(mask, T) => Hull(mask, S) \subseteq T
  BY DEF Hull
<1>2. ASSUME NEW q \in mask, Beside(q) \cap Hull(mask, S) # {}
      PROVE  q \in Hull(mask, S)
  <2>1. ASSUME NEW T \in SUBSET mask, S \subseteq T, Closed(mask, T)
        PROVE  q \in T
    BY <1>1, <1>2, <2>1 DEF Closed
  <2>2. QED BY <2>1 DEF Hull
<1>3. QED BY <1>1, <1>2 DEF Closed

\* Growing a set by one layer leaves its hull as it is.
LEMMA HullGrown ==
    ASSUME NEW mask, NEW S \in SUBSET mask
    PROVE  /\ Hull(mask, Grow(mask, S)) = Hull(mask, S)
           /\ Grow(mask, S) = S => Hull(mask, S) = S
<1>1. \A T \in SUBSET mask :
         Closed(mask, T) => (S \subseteq T <=> Grow(mask, S) \subseteq T)
  BY DEF Grow, Closed
<1>2. Hull(mask, Grow(mask, S)) = Hull(mask, S)
  BY <1>1 DEF Hull
<1>3. Grow(mask, S) = S => Hull(mask, S) = S
  BY GrowFacts, HullFacts
<1>4. QED BY <1>2, <1>3

\* What grows until nothing is added ends at the hull.
LEMMA GrownIsHull ==
    ASSUME NEW mask, IsFiniteSet(mask), NEW g, IsGrown(mask, g), NEW S \in SUBSET mask
    PROVE  g[S] = Hull(mask, S)
<1> DEFINE Left(U) == Cardinality(mask \ U)
           Bad == {U \in SUBSET mask : g[U] # Hull(mask, U)}
<1>1. \A U \in SUBSET mask : Left(U) \in Nat
  BY FS_Difference, FS_CardinalityType
<1>2. SUFFICES ASSUME Bad # {} PROVE FALSE
  OBVIOUS
<1>3. PICK U \in Bad : \A V \in Bad : Left(U) <= Left(V)
  <2>1. {Left(V) : V \in Bad} \subseteq Nat /\ {Left(V) : V \in Bad} # {}
    BY <1>1, <1>2
  <2>2. PICK n \in {Left(V) : V \in Bad} : \A m \in {Left(V) : V \in Bad} : n <= m
    BY <2>1, LeastNat
  <2>3. QED BY <2>2
<1> DEFINE T == Grow(mask, U)
<1>4. T \in SUBSET mask /\ U \subseteq T
  BY GrowFacts
<1>5. g[U] = IF T = U THEN U ELSE g[T]
  BY DEF IsGrown
<1>6. T # U
  BY <1>5, HullGrown
<1>7. Left(T) < Left(U)
  <2>1. /\ IsFiniteSet(mask \ U) /\ mask \ T \in SUBSET (mask \ U)
        /\ mask \ T # mask \ U
    BY <1>4, <1>6, FS_Difference
  <2>2. Left(T) <= Left(U) /\ Left(T) # Left(U)
    BY <2>1, FS_Subset
  <2>3. QED BY <1>1, <1>4, <2>2
<1>8. T \notin Bad
  BY <1>1, <1>3, <1>4, <1>7
<1>9. g[T] = Hull(mask, T)
  BY <1>4, <1>8
<1>10. QED
  BY <1>5, <1>6, <1>9, HullGrown

\* The recursion of Blob has a solution, and so Blob is the hull of its pixel.
LEMMA BlobIsHull ==
    ASSUME NEW mask, IsFiniteSet(mask), NEW p \in mask
    PROVE  Blob(p, mask) = Hull(mask, {p})
<1> DEFINE h == [S \in SUBSET mask |-> Hull(mask, S)]
           g == CHOOSE f : IsGrown(mask, f)
<1>1. IsGrown(mask, h)
  <2>1. \A S \in SUBSET mask :
           h[S] = IF Grow(mask, S) = S THEN S ELSE h[Grow(mask, S)]
    BY GrowFacts, HullGrown
  <2>2. QED BY <2>1 DEF IsGrown
<1>2. IsGrown(mask, g)
  BY <1>1
<1>3. g[{p}] = Hull(mask, {p})
  BY <1>2, GrownIsHull
<1>4. Blob(p, mask) = g[{p}]
  BY DEF Blob, Grow, IsGrown
<1>5. QED BY <1>3, <1>4

\* The blob of p is a part of the mask, it contains p and the neighbors of its
\* pixels, and every set that does contains the blob.
LEMMA BlobFacts ==
    ASSUME NEW mask, IsFiniteSet(mask), NEW p \in mask
    PROVE  /\ p \in Blob(p, mask) /\ Blob(p, mask) \in SUBSET mask
           /\ Closed(mask, Blob(p, mask))
           /\ \A T \in SUBSET mask :
                 p \in T /\ Closed(mask, T) => Blob(p, mask) \subseteq T
<1> PICK S \in SUBSET mask : S = {p}
  OBVIOUS
<1>1. Blob(p, mask) = Hull(mask, S)
  BY BlobIsHull
<1>2. /\ Hull(mask, S) \in SUBSET mask /\ S \subseteq Hull(mask, S)
      /\ Closed(mask, Hull(mask, S))
      /\ \A T \in SUBSET mask :
            S \subseteq T /\ Closed(mask, T) => Hull(mask, S) \subseteq T
  BY HullFacts
<1>3. QED BY <1>1, <1>2

\* Neighbors are neighbors of each other.
LEMMA BesideSymmetric ==
    ASSUME NEW p \in Pixels, NEW q \in Pixels, q \in Beside(p)
    PROVE  p \in Beside(q)
  BY ImageAssumption DEF Beside, Pixels

\* Blobs do not overlap.
LEMMA BlobOfMember ==
    ASSUME NEW mask \in SUBSET Pixels, IsFiniteSet(mask), NEW p \in mask,
           NEW q \in Blob(p, mask)
    PROVE  Blob(q, mask) = Blob(p, mask)
<1>1. q \in mask
  BY BlobFacts
<1>2. Blob(q, mask) \subseteq Blob(p, mask)
  BY <1>1, BlobFacts
<1> DEFINE T == Blob(p, mask) \ Blob(q, mask)
<1>3. Closed(mask, T)
  <2> SUFFICES ASSUME NEW r \in mask, NEW s \in T, s \in Beside(r)
               PROVE  r \in T
    BY DEF Closed
  <2>1. r \in Blob(p, mask) /\ s \in mask
    BY BlobFacts DEF Closed
  <2>2. r \in Beside(s)
    BY <2>1, BesideSymmetric
  <2>3. r \in Blob(q, mask) => s \in Blob(q, mask)
    BY <1>1, <2>1, <2>2, BlobFacts DEF Closed
  <2>4. QED BY <2>1, <2>3
<1>4. p \in Blob(q, mask)
  <2> SUFFICES ASSUME p \notin Blob(q, mask) PROVE FALSE
    OBVIOUS
  <2>1. T \in SUBSET mask /\ p \in T
    BY BlobFacts
  <2>2. q \in T
    BY <1>3, <2>1, BlobFacts
  <2>3. QED BY <1>1, <2>2, BlobFacts
<1>5. Blob(p, mask) \subseteq Blob(q, mask)
  BY <1>1, <1>4, BlobFacts
<1>6. QED BY <1>2, <1>5

-----------------------------------------------------------------------------
(* Threshold, erosion and dilation.                                        *)

\* The largest and the smallest of three channels.
LEMMA Extremes ==
    ASSUME NEW r \in Channel, NEW g \in Channel, NEW b \in Channel
    PROVE  /\ Max({r, g, b}) \in {r, g, b} /\ \A y \in {r, g, b} : Max({r, g, b}) >= y
           /\ Min({r, g, b}) \in {r, g, b} /\ \A y \in {r, g, b} : Min({r, g, b}) <= y
<1>1. \E x \in {r, g, b} : \A y \in {r, g, b} : x >= y
  BY DEF Channel
<1>2. \E x \in {r, g, b} : \A y \in {r, g, b} : x <= y
  BY DEF Channel
<1>3. Max({r, g, b}) \in {r, g, b} /\ \A y \in {r, g, b} : Max({r, g, b}) >= y
  BY <1>1, Zenon DEF Max
<1>4. Min({r, g, b}) \in {r, g, b} /\ \A y \in {r, g, b} : Min({r, g, b}) <= y
  BY <1>2, Zenon DEF Min
<1>5. QED BY <1>3, <1>4

\* The thresholds in hue, saturation and value, in terms of the channels.
LEMMA GreenIs ==
    ASSUME NEW r \in Channel, NEW g \in Channel, NEW b \in Channel
    PROVE  Green(r, g, b) <=> LooksGreen(<<r, g, b>>)
<1>1. PICK v \in {r, g, b} : v = Max({r, g, b}) /\ v >= r /\ v >= g /\ v >= b
  BY Extremes
<1>2. PICK m \in {r, g, b} : m = Min({r, g, b}) /\ m <= r /\ m <= g /\ m <= b
  BY Extremes
<1>3. r \in 0 .. 255 /\ g \in 0 .. 255 /\ b \in 0 .. 255
  BY DEF Channel
<1>4. PICK c \in 0 .. 255 : c = v - m
  <2>1. v \in 0 .. 255 /\ m \in 0 .. 255 /\ m <= v
    BY <1>1, <1>2, <1>3
  <2>2. QED BY <2>1
<1> DEFINE hsv == rgb_to_hsv(r, g, b)
<1>5. hsv.v = v /\ hsv.c = c
  BY <1>1, <1>2, <1>4 DEF rgb_to_hsv
<1>6. LooksGreen(<<r, g, b>>) <=>
         /\ g >= 26 /\ g > r /\ g >= b
         /\ \/ b >= r /\ 4 * (g - r) >= g
            \/ b < r /\ 2 * (r - b) <= g - b /\ 4 * (g - b) >= g
  BY DEF LooksGreen
<1>7. CASE c = 0
  BY <1>1, <1>2, <1>3, <1>4, <1>5, <1>6, <1>7 DEF Green
<1>8. CASE c # 0 /\ v = r
  <2>1. hsv.h = IF g < b THEN g - b + 6 * c ELSE g - b
    BY <1>1, <1>2, <1>4, <1>8 DEF rgb_to_hsv
  <2>2. ~Green(r, g, b)
    <3> HIDE DEF hsv
    <3>1. ~(2 * hsv.h >= 3 * c /\ hsv.h <= 3 * c)
      BY <1>1, <1>2, <1>3, <1>4, <1>8, <2>1
    <3>2. QED BY <1>5, <3>1 DEF Green, hsv
  <2>3. QED BY <1>1, <1>3, <1>6, <1>8, <2>2
<1>9. CASE c # 0 /\ v # r /\ v = g
  <2>1. hsv.h = b - r + 2 * c
    BY <1>1, <1>2, <1>4, <1>9 DEF rgb_to_hsv
  <2>2. Green(r, g, b) <=> /\ 2 * (b - r + 2 * c) >= 3 * c
                           /\ b - r + 2 * c <= 3 * c
                           /\ 4 * c >= g /\ 10 * g >= 255
    BY <1>5, <1>9, <2>1 DEF Green
  <2>3. CASE b >= r
    <3>1. m = r
      BY <1>1, <1>2, <1>3, <1>4, <1>9, <2>3
    <3>2. c = g - r
      BY <1>4, <1>9, <3>1
    <3>3. QED BY <1>1, <1>3, <1>6, <1>9, <2>2, <2>3, <3>2
  <2>4. CASE b < r
    <3>1. m = b
      BY <1>1, <1>2, <1>3, <1>9, <2>4
    <3>2. c = g - b
      BY <1>4, <1>9, <3>1
    <3>3. QED BY <1>1, <1>3, <1>6, <1>9, <2>2, <2>4, <3>2
  <2>5. QED BY <1>3, <2>3, <2>4
<1>10. CASE c # 0 /\ v # r /\ v # g
  <2>1. hsv.h = r - g + 4 * c
    BY <1>1, <1>2, <1>4, <1>10 DEF rgb_to_hsv
  <2>2. ~Green(r, g, b)
    <3> HIDE DEF hsv
    <3>1. g < m + c /\ m <= r
      BY <1>1, <1>2, <1>3, <1>4, <1>10
    <3>2. r - g + 4 * c > 3 * c
      BY <1>3, <1>4, <3>1
    <3>3. ~(hsv.h <= 3 * c)
      BY <1>3, <2>1, <3>2
    <3>4. QED BY <1>5, <3>3 DEF Green, hsv
  <2>3. QED BY <1>1, <1>3, <1>6, <1>10, <2>2
<1>11. QED BY <1>7, <1>8, <1>9, <1>10

\* The color of a pixel.
LEMMA DataType ==
    ASSUME frame \in Frames, NEW p \in Pixels
    PROVE  data(p) \in Color
<1>1. frame.color \in Color
  BY ImageAssumption
<1>2. QED BY <1>1, ImageAssumption DEF data

\* The mask after the threshold holds the pixels that look green.
LEMMA ThresholdIs ==
    ASSUME frame \in Frames
    PROVE  Threshold = {p \in Pixels : LooksGreen(data(p))}
<1> SUFFICES ASSUME NEW p \in Pixels
             PROVE  Green(data(p)[1], data(p)[2], data(p)[3]) <=> LooksGreen(data(p))
  BY DEF Threshold
<1>1. PICK r \in Channel, g \in Channel, b \in Channel : data(p) = <<r, g, b>>
  BY DataType DEF Color
<1>2. QED BY <1>1, GreenIs

\* A block around an inner pixel lies inside.
LEMMA BlockInside ==
    ASSUME NEW p \in Interior
    PROVE  Block(p) \subseteq Pixels /\ p \in Pixels
  BY ImageAssumption DEF Block, Interior, Pixels

\* Erosion, then dilation.
LEMMA OpeningIs ==
    ASSUME frame \in Frames
    PROVE  /\ dilate_mask(erode_mask(Threshold)) = Opened
           /\ Opened \subseteq Interior
<1>1. \A c \in Interior :
         Block(c) \subseteq Threshold <=> \A q \in Block(c) : LooksGreen(data(q))
  BY ThresholdIs, BlockInside
<1>2. QED
  BY <1>1 DEF dilate_mask, erode_mask, Opened

-----------------------------------------------------------------------------
(* The center of mass.                                                     *)

Pick(s) == CHOOSE x \in s : TRUE
Added(f, i, s) == IF s = {} THEN 0 ELSE Pick(s)[i] + f[s \ {Pick(s)}]
IsSum(S, i, f) == f = [s \in SUBSET S |-> Added(f, i, s)]

\* The recursion of a sum over a finite set has a solution: one for the sets of
\* up to n elements gives one for the sets of up to n + 1.
LEMMA SumExists ==
    ASSUME NEW S, IsFiniteSet(S), NEW i, \A p \in S : p[i] \in Int
    PROVE  \E f \in [SUBSET S -> Int] : IsSum(S, i, f)
<1> DEFINE Upto(n) == \E f \in [SUBSET S -> Int] :
                         \A s \in SUBSET S : Cardinality(s) <= n => f[s] = Added(f, i, s)
<1>1. \A s \in SUBSET S : /\ IsFiniteSet(s) /\ Cardinality(s) \in Nat
                          /\ Cardinality(s) <= Cardinality(S)
                          /\ Cardinality(s) = 0 <=> s = {}
  BY FS_Subset, FS_CardinalityType, FS_EmptySet
<1>2. ASSUME NEW s \in SUBSET S, s # {}
      PROVE  /\ Pick(s) \in s /\ s \ {Pick(s)} \in SUBSET S
             /\ Cardinality(s \ {Pick(s)}) = Cardinality(s) - 1
  <2>1. Pick(s) \in s
    BY <1>2 DEF Pick
  <2>2. QED BY <1>1, <2>1, FS_RemoveElement
<1>3. Upto(0)
  <2> DEFINE f == [s \in SUBSET S |-> 0]
  <2>1. \A s \in SUBSET S : Cardinality(s) <= 0 => f[s] = Added(f, i, s)
    BY <1>1 DEF Added
  <2>2. f \in [SUBSET S -> Int]
    OBVIOUS
  <2> HIDE DEF f
  <2>3. QED BY <2>1, <2>2
<1>4. ASSUME NEW n \in Nat, Upto(n)
      PROVE  Upto(n + 1)
  <2>1. PICK f \in [SUBSET S -> Int] :
           \A s \in SUBSET S : Cardinality(s) <= n => f[s] = Added(f, i, s)
    BY <1>4
  <2> DEFINE g == [s \in SUBSET S |-> IF Cardinality(s) <= n THEN f[s] ELSE Added(f, i, s)]
  <2>2. \A s \in SUBSET S : Added(f, i, s) \in Int
    <3> SUFFICES ASSUME NEW s \in SUBSET S, s # {} PROVE Added(f, i, s) \in Int
      BY DEF Added
    <3>1. Pick(s)[i] \in Int /\ f[s \ {Pick(s)}] \in Int
      BY <1>2
    <3>2. QED BY <3>1 DEF Added
  <2>3. g \in [SUBSET S -> Int]
    BY <2>2
  <2>4. ASSUME NEW s \in SUBSET S, Cardinality(s) <= n + 1
        PROVE  g[s] = Added(g, i, s)
    <3>1. g[s] = Added(f, i, s)
      BY <2>1
    <3>2. CASE s = {}
      BY <3>1, <3>2 DEF Added
    <3>3. CASE s # {}
      <4>1. /\ s \ {Pick(s)} \in SUBSET S /\ Cardinality(s \ {Pick(s)}) <= n
        BY <1>1, <1>2, <2>4, <3>3
      <4>2. g[s \ {Pick(s)}] = f[s \ {Pick(s)}]
        BY <4>1
      <4> HIDE DEF g
      <4>3. QED BY <3>1, <3>3, <4>2 DEF Added
    <3>4. QED BY <3>2, <3>3
  <2> HIDE DEF g
  <2>5. QED BY <2>3, <2>4
<1> HIDE DEF Upto
<1>5. \A n \in Nat : Upto(n)
  <2> SUFFICES ASSUME {n \in Nat : ~Upto(n)} # {} PROVE FALSE
    OBVIOUS
  <2>1. PICK n \in {m \in Nat : ~Upto(m)} : \A m \in {k \in Nat : ~Upto(k)} : n <= m
    BY LeastNat
  <2>2. n # 0 /\ n - 1 \in Nat /\ ~(n <= n - 1)
    BY <1>3, <2>1
  <2>3. Upto(n - 1)
    BY <2>1, <2>2
  <2>4. Upto((n - 1) + 1)
    BY <1>4, <2>2, <2>3
  <2>5. QED BY <2>1, <2>4
<1>6. Upto(Cardinality(S))
  BY <1>5, FS_CardinalityType
<1>7. PICK f \in [SUBSET S -> Int] : \A s \in SUBSET S : f[s] = Added(f, i, s)
  BY <1>1, <1>6 DEF Upto
<1>8. QED BY <1>7 DEF IsSum

\* A sum lies between the bounds of its terms, times their number.
LEMMA SumBounds ==
    ASSUME NEW S, IsFiniteSet(S), NEW i, NEW lo \in Int, NEW hi \in Int,
           \A p \in S : p[i] \in lo .. hi
    PROVE  SumOver(S, i) \in lo * Cardinality(S) .. hi * Cardinality(S)
<1> DEFINE f == CHOOSE g : IsSum(S, i, g)
           Within(s) == f[s] \in lo * Cardinality(s) .. hi * Cardinality(s)
           Bad == {s \in SUBSET S : ~Within(s)}
<1>1. IsSum(S, i, f)
  <2>1. \A p \in S : p[i] \in Int
    OBVIOUS
  <2>2. \E g : IsSum(S, i, g)
    BY <2>1, SumExists
  <2>3. QED BY <2>2, Zenon
<1>2. SumOver(S, i) = f[S]
  BY DEF SumOver, FoldSet, MapThenFoldSet, IsSum, Added, Pick
<1> HIDE DEF f
<1>3. \A s \in SUBSET S : /\ IsFiniteSet(s) /\ Cardinality(s) \in Nat
                          /\ Cardinality(s) = 0 <=> s = {}
  BY FS_Subset, FS_CardinalityType, FS_EmptySet
<1>4. SUFFICES ASSUME Bad # {} PROVE FALSE
  BY <1>2
<1>5. PICK s \in Bad : \A t \in Bad : Cardinality(s) <= Cardinality(t)
  <2>1. {Cardinality(t) : t \in Bad} \subseteq Nat /\ {Cardinality(t) : t \in Bad} # {}
    BY <1>3, <1>4
  <2>2. PICK n \in {Cardinality(t) : t \in Bad} :
           \A m \in {Cardinality(t) : t \in Bad} : n <= m
    BY <2>1, LeastNat
  <2>3. QED BY <2>2
<1>6. f[s] = Added(f, i, s)
  BY <1>1 DEF IsSum
<1>7. s # {}
  <2> SUFFICES ASSUME s = {} PROVE FALSE
    OBVIOUS
  <2>1. f[s] = 0 /\ Cardinality(s) = 0
    BY <1>3, <1>6 DEF Added
  <2>2. QED BY <2>1
<1> DEFINE x == Pick(s)
           t == s \ {x}
<1>8. x \in s
  BY <1>7 DEF Pick
<1>9. PICK k \in Nat : k = Cardinality(t) /\ Cardinality(s) = k + 1
  BY <1>3, <1>8, FS_RemoveElement
<1>10. Within(t)
  <2>1. t \in SUBSET S /\ ~(Cardinality(s) <= Cardinality(t))
    BY <1>9
  <2>2. QED BY <1>5, <2>1
<1>11. f[s] = x[i] + f[t]
  BY <1>6, <1>7 DEF Added
<1>12. PICK a \in lo .. hi, b \in lo * k .. hi * k : f[s] = a + b
  BY <1>8, <1>9, <1>10, <1>11
<1>13. /\ lo * (k + 1) = lo * k + lo /\ hi * (k + 1) = hi * k + hi
       /\ lo * k \in Int /\ hi * k \in Int
  BY ONLY k \in Nat, lo \in Int, hi \in Int, SMT
<1>14. a + b \in lo * (k + 1) .. hi * (k + 1)
  BY <1>13
<1>15. QED BY <1>5, <1>9, <1>12, <1>14

\* Pixels are finitely many.
LEMMA PixelsFinite ==
    /\ IsFiniteSet(Pixels) /\ Cardinality(Pixels) = WIDTH * HEIGHT
    /\ \A S \in SUBSET Pixels : IsFiniteSet(S) /\ Cardinality(S) \in Nat
<1>1. /\ IsFiniteSet(0 .. WIDTH - 1) /\ Cardinality(0 .. WIDTH - 1) = WIDTH
      /\ IsFiniteSet(0 .. HEIGHT - 1) /\ Cardinality(0 .. HEIGHT - 1) = HEIGHT
  <2>1. ASSUME NEW n \in Nat \ {0}
        PROVE  IsFiniteSet(0 .. n - 1) /\ Cardinality(0 .. n - 1) = n
    <3>1. PICK m \in Int : m = n - 1
      OBVIOUS
    <3>2. IsFiniteSet(0 .. m) /\ Cardinality(0 .. m) = IF 0 > m THEN 0 ELSE m - 0 + 1
      BY FS_Interval
    <3>3. QED BY <3>1, <3>2
  <2>2. QED BY <2>1, ImageAssumption
<1>2. IsFiniteSet(Pixels) /\ Cardinality(Pixels) = WIDTH * HEIGHT
  <2>1. \A S, T : IsFiniteSet(S) /\ IsFiniteSet(T) =>
           IsFiniteSet(S \X T) /\ Cardinality(S \X T) = Cardinality(S) * Cardinality(T)
    BY FS_Product
  <2> PICK X, Y : X = 0 .. WIDTH - 1 /\ Y = 0 .. HEIGHT - 1
    OBVIOUS
  <2>2. Pixels = X \X Y
    BY DEF Pixels
  <2>3. /\ IsFiniteSet(X) /\ Cardinality(X) = WIDTH
        /\ IsFiniteSet(Y) /\ Cardinality(Y) = HEIGHT
    BY <1>1
  <2>4. QED BY ONLY <2>1, <2>2, <2>3
<1>3. QED BY <1>2, FS_Subset, FS_CardinalityType

\* A set of pixels has a first and a last one in either direction.
LEMMA Outermost ==
    ASSUME NEW S \in SUBSET Pixels, S # {}, NEW i \in {1, 2}
    PROVE  \E p, q \in S : \A r \in S : r[i] \in p[i] .. q[i]
<1> PICK N \in Nat : N = WIDTH + HEIGHT
  BY ImageAssumption
<1>1. \A r \in S : r[i] \in 0 .. N
  BY ImageAssumption DEF Pixels
<1>2. PICK p \in S : \A r \in S : p[i] <= r[i]
  <2>1. {r[i] : r \in S} \subseteq Nat /\ {r[i] : r \in S} # {}
    BY <1>1
  <2>2. PICK x \in {r[i] : r \in S} : \A y \in {r[i] : r \in S} : x <= y
    BY <2>1, LeastNat
  <2>3. QED BY <2>2
<1>3. PICK q \in S : \A r \in S : N - q[i] <= N - r[i]
  <2>1. {N - r[i] : r \in S} \subseteq Nat /\ {N - r[i] : r \in S} # {}
    BY <1>1
  <2>2. PICK x \in {N - r[i] : r \in S} : \A y \in {N - r[i] : r \in S} : x <= y
    BY <2>1, LeastNat
  <2>3. QED BY <2>2
<1>4. \A r \in S : r[i] \in p[i] .. q[i]
  BY <1>1, <1>2, <1>3
<1>5. QED BY <1>4

\* The center of mass of a mask whose border is black.
LEMMA ComIs ==
    ASSUME NEW S \in SUBSET Interior
    PROVE  /\ Com(S).x > 0 /\ Com(S).y > 0 <=> Cardinality(S) >= MIN_GREEN_PIXELS
           /\ Com(S) # NoCom =>
                /\ \E p, q \in S : Com(S).x \in p[1] * Com(S).count .. q[1] * Com(S).count
                /\ \E p, q \in S : Com(S).y \in p[2] * Com(S).count .. q[2] * Com(S).count
<1>1. S \in SUBSET Pixels /\ IsFiniteSet(S)
  BY BlockInside, PixelsFinite
<1>2. PICK n \in Nat : n = Cardinality(S)
  BY <1>1, PixelsFinite
<1>3. CASE n < MIN_GREEN_PIXELS
  BY <1>2, <1>3, ImageAssumption DEF Com, NoCom
<1>4. CASE n >= MIN_GREEN_PIXELS
  <2>1. Com(S) = [x |-> SumOver(S, 1), y |-> SumOver(S, 2), count |-> n]
    BY <1>2, <1>4 DEF Com
  <2>2. n > 0 /\ S # {}
    BY <1>2, <1>4, FS_EmptySet, ImageAssumption
  <2>3. ASSUME NEW i \in {1, 2}
        PROVE  /\ SumOver(S, i) \in Int /\ SumOver(S, i) > 0
               /\ \E p, q \in S : SumOver(S, i) \in p[i] * n .. q[i] * n
    <3>1. PICK p \in S, q \in S : \A r \in S : r[i] \in p[i] .. q[i]
      BY <1>1, <2>2, Outermost
    <3>2. PICK lo \in Nat, hi \in Nat : lo = p[i] /\ hi = q[i] /\ lo > 0
      BY ImageAssumption DEF Interior
    <3>3. \A r \in S : r[i] \in lo .. hi
      BY <3>1, <3>2
    <3>4. SumOver(S, i) \in lo * n .. hi * n
      BY <1>1, <1>2, <3>3, SumBounds
    <3>5. \A a, b \in Nat : a > 0 /\ b > 0 => a * b \in Int /\ a * b > 0
      BY SMT
    <3>6. lo * n \in Int /\ lo * n > 0
      BY <2>2, <3>2, <3>5
    <3>7. hi * n \in Int
      BY SMT
    <3>8. QED BY <3>2, <3>4, <3>6, <3>7
  <2>4. QED BY <1>2, <1>4, <2>1, <2>3
<1>5. QED BY <1>3, <1>4, <1>2, ImageAssumption

-----------------------------------------------------------------------------
(* The inductive invariant.                                                *)

\* The pixels with a label.
Labelled(l) == {p \in Pixels : label_map[p] = l}

\* A label that was given up belongs to one whole blob and has its size.
WholeBlob(l) ==
    /\ \E p \in opened : Labelled(l) = Blob(p, opened)
    /\ label_sizes[l] = Cardinality(Labelled(l))

\* The queue holds the pixels found of the blob of its first one, each once; the
\* neighbors of those that were taken out are among them.
SearchInv ==
    /\ Len(queue) > 0 /\ queue[1] \in opened
    /\ Labelled(current_label) = ToSet(queue)
    /\ ToSet(queue) \subseteq Blob(queue[1], opened)
    /\ \A i \in 1 .. queue_start : \A q \in opened :
          q \in Beside(queue[i]) => label_map[q] = current_label

BlobInv ==
    /\ green_mask = opened
    /\ current_label < MAX_LABELS
    /\ \A p \in Pixels : label_map[p] # 0 => p \in opened
    /\ \A p \in Pixels : label_map[p] <= current_label
    /\ \A l \in 1 .. current_label - 1 : WholeBlob(l)
    /\ pc = "scan" => Labelled(current_label) = {}
    /\ pc = "expand" => SearchInv

TypeInv ==
    /\ frame \in Frames
    /\ pc \in {"threshold", "dilate", "scan", "expand", "com", "done"}
    /\ green_mask \subseteq Pixels /\ temp_mask \subseteq Pixels
    /\ opened \subseteq Interior
    /\ label_map \in [Pixels -> 0 .. MAX_LABELS - 1]
    /\ label_sizes \in [0 .. MAX_LABELS - 1 -> Nat]
    /\ current_label \in 1 .. MAX_LABELS
    /\ queue \in Seq(Pixels) /\ IsInjective(queue)
    /\ queue_start \in 0 .. Len(queue)

PhaseInv ==
    /\ pc \in {"threshold", "dilate"} =>
          current_label = 1 /\ \A p \in Pixels : label_map[p] = 0
    /\ pc = "dilate" => temp_mask = erode_mask(Threshold)
    /\ pc = "scan" /\ current_label = 1 => green_mask = Opened
    /\ pc \in {"scan", "expand"} => BlobInv
    /\ pc \in {"com", "done"} => green_mask = Kept(opened)
    /\ pc = "done" => com = Com(green_mask)

OpsInv == TypeInv /\ PhaseInv

\* There is at least one label to give.
LEMMA LabelsNat == MAX_LABELS \in Nat /\ MAX_LABELS > 1
  BY ImageAssumption

\* A mask within the frame.
LEMMA OpenedFacts ==
    ASSUME opened \subseteq Interior
    PROVE  opened \in SUBSET Pixels /\ IsFiniteSet(opened)
  BY BlockInside, PixelsFinite

\* Of some pixels without a label one comes first in the order of the loops.
LEMMA FirstOfIn ==
    ASSUME NEW S \in SUBSET Pixels, S # {}
    PROVE  FirstOf(S) \in S
<1>1. PICK q \in S : \A r \in S : q[2] <= r[2]
  <2>1. PICK q \in S, u \in S : \A r \in S : r[2] \in q[2] .. u[2]
    BY Outermost
  <2>2. QED BY <2>1
<1> DEFINE Row == {r \in S : r[2] = q[2]}
<1>2. PICK p \in Row : \A r \in Row : p[1] <= r[1]
  <2>1. Row \in SUBSET Pixels /\ Row # {}
    BY <1>1
  <2>2. PICK p \in Row, u \in Row : \A r \in Row : r[1] \in p[1] .. u[1]
    BY <2>1, Outermost
  <2>3. QED BY <2>2
<1>3. ASSUME NEW r \in S \ {p}
      PROVE  Before(p, r)
  <2>1. /\ p[2] = q[2] /\ q[2] <= r[2] /\ (r[2] = q[2] => p[1] <= r[1])
    BY <1>1, <1>2
  <2>2. /\ p = <<p[1], p[2]>> /\ r = <<r[1], r[2]>>
        /\ p[1] \in Int /\ p[2] \in Int /\ r[1] \in Int /\ r[2] \in Int
    BY ImageAssumption DEF Pixels
  <2>3. p[1] # r[1] \/ p[2] # r[2]
    BY <2>2
  <2>4. QED BY <2>1, <2>2, <2>3 DEF Before
<1>4. \E x \in S : \A r \in S \ {x} : Before(x, r)
  BY <1>3
<1>5. QED BY <1>4 DEF FirstOf

\* A pixel is queued if it is in a set.
QueueIf(s, U, x) == s \o (IF x \in U THEN <<x>> ELSE <<>>)

\* If it is not in the queue yet, the queue stays without repetition.
LEMMA QueueOne ==
    ASSUME NEW s \in Seq(Pixels), IsInjective(s), NEW U, NEW x,
           x \in U => x \in Pixels /\ x \notin ToSet(s),
           NEW u, u = QueueIf(s, U, x)
    PROVE  /\ u \in Seq(Pixels) /\ IsInjective(u)
           /\ ToSet(u) = ToSet(s) \cup ({x} \cap U)
           /\ Len(u) >= Len(s)
           /\ \A i \in 1 .. Len(s) : u[i] = s[i]
<1>1. CASE x \notin U
  <2>1. u = s
    BY <1>1, ConcatEmptySeq DEF QueueIf
  <2>2. QED BY <1>1, <2>1
<1>2. CASE x \in U
  <2> PICK t : t = <<x>>
    OBVIOUS
  <2>1. t \in Seq(Pixels) /\ Len(t) = 1 /\ t[1] = x /\ u = s \o t
    BY <1>2 DEF QueueIf
  <2> PICK n \in Nat : n = Len(s)
    OBVIOUS
  <2>2. /\ u \in Seq(Pixels) /\ Len(u) = n + 1
        /\ \A i \in 1 .. n + 1 : u[i] = IF i <= n THEN s[i] ELSE t[i - n]
    BY <2>1, ConcatProperties
  <2>3. DOMAIN s = 1 .. n /\ DOMAIN u = 1 .. n + 1
    BY <2>2, LenProperties
  <2>4. (\A i \in 1 .. n : u[i] = s[i]) /\ u[n + 1] = x
    BY <2>1, <2>2
  <2>5. ToSet(u) = ToSet(s) \cup {x}
    BY <2>3, <2>4 DEF ToSet
  <2>6. \A i \in 1 .. n : s[i] # x
    BY <1>2, <2>3 DEF ToSet
  <2>7. IsInjective(u)
    BY <2>3, <2>4, <2>6 DEF IsInjective
  <2>8. QED BY <1>2, <2>2, <2>4, <2>5, <2>7
<1>3. QED BY <1>1, <1>2

\* A queue without repetition is as long as its pixels are many.
LEMMA QueueLength ==
    ASSUME NEW s \in Seq(Pixels), IsInjective(s)
    PROVE  Len(s) = Cardinality(ToSet(s)) /\ Len(s) <= WIDTH * HEIGHT
<1>1. Len(s) \in Nat /\ s \in [1 .. Len(s) -> Pixels] /\ DOMAIN s = 1 .. Len(s)
  BY LenProperties
<1>2. s \in Bijection(1 .. Len(s), ToSet(s))
  BY <1>1 DEF Bijection, Injection, Surjection, ToSet
<1>3. Cardinality(ToSet(s)) = Len(s)
  BY <1>1, <1>2, FS_CountingElements DEF ExistsBijection
<1>4. ToSet(s) \in SUBSET Pixels
  BY <1>1 DEF ToSet
<1>5. Cardinality(ToSet(s)) <= Cardinality(Pixels)
  BY <1>4, PixelsFinite, FS_Subset
<1>6. QED BY <1>3, <1>5, PixelsFinite

-----------------------------------------------------------------------------
(* The steps.                                                              *)

\* A frame is thresholded and eroded.
LEMMA ThresholdStep ==
    ASSUME OpsInv, ThresholdAndErode
    PROVE  OpsInv'
<1> USE DEF ThresholdAndErode, blobVars
<1>1. green_mask' \subseteq Pixels /\ temp_mask' \subseteq Pixels
  <2>1. Interior \subseteq Pixels
    BY BlockInside
  <2>2. QED BY <2>1 DEF Threshold, erode_mask
<1>2. TypeInv'
  BY <1>1 DEF OpsInv, TypeInv
<1>3. Threshold' = Threshold
  BY DEF Threshold, data
<1>4. temp_mask' = erode_mask(Threshold')
  BY <1>3
<1>5. PhaseInv'
  <2>1. pc' = "dilate" /\ current_label' = 1 /\ \A p \in Pixels : label_map'[p] = 0
    BY DEF OpsInv, PhaseInv
  <2>2. QED BY <1>4, <2>1 DEF PhaseInv
<1>6. QED BY <1>2, <1>5 DEF OpsInv

\* The eroded mask is dilated; what is left is what the opening is to leave.
LEMMA DilateStep ==
    ASSUME OpsInv, Dilate
    PROVE  OpsInv'
<1> USE DEF Dilate, blobVars
<1>1. green_mask' = Opened /\ Opened \subseteq Interior
  BY OpeningIs DEF OpsInv, TypeInv, PhaseInv
<1>2. Opened' = Opened
  BY DEF Opened, data
<1>3. Interior \subseteq Pixels
  BY BlockInside
<1>4. TypeInv'
  BY <1>1, <1>3 DEF OpsInv, TypeInv
<1>5. /\ pc' = "scan" /\ current_label' = 1 /\ \A p \in Pixels : label_map'[p] = 0
      /\ opened' = green_mask'
  BY DEF OpsInv, PhaseInv
<1>6. BlobInv'
  BY <1>5, LabelsNat DEF BlobInv, Labelled
<1>7. PhaseInv'
  BY <1>1, <1>2, <1>5, <1>6 DEF PhaseInv
<1>8. QED BY <1>4, <1>7 DEF OpsInv

\* The search begins at the first pixel without a label.
LEMMA StartBlobStep ==
    ASSUME OpsInv, StartBlob
    PROVE  OpsInv'
<1> USE DEF StartBlob
<1>1. TypeInv /\ BlobInv
  BY DEF OpsInv, PhaseInv
<1>2. IsFiniteSet(opened) /\ opened \in SUBSET Pixels
  BY <1>1, OpenedFacts DEF TypeInv
<1>3. PICK p \in Unlabelled :
         queue' = <<p>> /\ label_map' = [label_map EXCEPT ![p] = current_label]
  <2>1. Unlabelled \in SUBSET Pixels
    BY <1>1 DEF TypeInv, Unlabelled
  <2>2. QED BY <2>1, FirstOfIn
<1>4. p \in opened /\ p \in Pixels /\ label_map[p] = 0
  BY <1>1, <1>2 DEF BlobInv, Unlabelled
<1>5. current_label \in 1 .. MAX_LABELS - 1
  BY <1>1, LabelsNat DEF BlobInv, TypeInv
<1>6. /\ label_map' \in [Pixels -> 0 .. MAX_LABELS - 1]
      /\ \A q \in Pixels : label_map'[q] = IF q = p THEN current_label ELSE label_map[q]
  <2>1. label_map \in [Pixels -> 0 .. MAX_LABELS - 1]
    BY <1>1 DEF TypeInv
  <2>2. current_label \in 0 .. MAX_LABELS - 1
    BY <1>5, LabelsNat
  <2>3. QED BY <1>3, <1>4, <2>1, <2>2
<1>7. TypeInv'
  <2>1. queue' \in Seq(Pixels) /\ Len(queue') = 1 /\ IsInjective(queue')
    BY <1>3, <1>4 DEF IsInjective
  <2>2. QED BY <1>1, <1>6, <2>1 DEF TypeInv
<1>8. \A l \in 1 .. current_label - 1 : WholeBlob(l)'
  <2> SUFFICES ASSUME NEW l \in 1 .. current_label - 1 PROVE WholeBlob(l)'
    OBVIOUS
  <2>1. Labelled(l)' = Labelled(l)
    BY <1>4, <1>5, <1>6 DEF Labelled
  <2>2. WholeBlob(l)
    BY <1>1 DEF BlobInv
  <2>3. QED BY <2>1, <2>2 DEF WholeBlob
<1>9. SearchInv'
  <2>1. Labelled(current_label)' = {p}
    BY <1>1, <1>4, <1>6 DEF Labelled, BlobInv
  <2>2. ToSet(queue') = {p} /\ queue'[1] = p /\ Len(queue') = 1
    BY <1>3 DEF ToSet
  <2>3. p \in Blob(p, opened)
    BY <1>2, <1>4, BlobFacts
  <2>4. QED BY <1>4, <2>1, <2>2, <2>3 DEF SearchInv
<1>10. /\ \A q \in Pixels : label_map'[q] # 0 => q \in opened
       /\ \A q \in Pixels : label_map'[q] <= current_label
  BY <1>1, <1>4, <1>5, <1>6 DEF BlobInv
<1>11. BlobInv'
  BY <1>1, <1>8, <1>9, <1>10 DEF BlobInv
<1>12. PhaseInv'
  BY <1>11 DEF PhaseInv
<1>13. QED BY <1>7, <1>12 DEF OpsInv

\* The queue after a pixel was taken out: its neighbors without a label are
\* behind what was there.
LEMMA ExpandQueue ==
    ASSUME OpsInv, Expand
    PROVE  LET new == Beside(queue[queue_start + 1]) \cap Unlabelled
           IN  /\ queue' \in Seq(Pixels) /\ IsInjective(queue')
               /\ ToSet(queue') = ToSet(queue) \cup new
               /\ Len(queue') >= Len(queue)
               /\ \A i \in 1 .. Len(queue) : queue'[i] = queue[i]
               /\ label_map' = [p \in Pixels |-> IF p \in new THEN current_label
                                                 ELSE label_map[p]]
<1>1. TypeInv /\ BlobInv /\ SearchInv
  BY DEF OpsInv, PhaseInv, BlobInv, Expand
<1> PICK U : U = Unlabelled
  OBVIOUS
<1> PICK s : s = queue
  OBVIOUS
<1> PICK m : m = queue[queue_start + 1]
  OBVIOUS
<1> PICK n : n = neighbors(m)
  OBVIOUS
<1> PICK s1 : s1 = QueueIf(s, U, n[1])
  OBVIOUS
<1> PICK s2 : s2 = QueueIf(s1, U, n[2])
  OBVIOUS
<1> PICK s3 : s3 = QueueIf(s2, U, n[3])
  OBVIOUS
<1> PICK s4 : s4 = QueueIf(s3, U, n[4])
  OBVIOUS
<1>2. m \in Pixels
  BY <1>1, ElementOfSeq DEF Expand, TypeInv
<1>3. /\ Beside(m) = {n[1], n[2], n[3], n[4]} /\ {n[i] : i \in 1 .. 4} = Beside(m)
      /\ n[1] # n[2] /\ n[1] # n[3] /\ n[1] # n[4] /\ n[2] # n[3] /\ n[2] # n[4]
      /\ n[3] # n[4]
  <2>1. m[1] \in Int /\ m[2] \in Int
    BY <1>2, ImageAssumption DEF Pixels
  <2>2. /\ n[1] = <<m[1] - 1, m[2]>> /\ n[2] = <<m[1] + 1, m[2]>>
        /\ n[3] = <<m[1], m[2] - 1>> /\ n[4] = <<m[1], m[2] + 1>>
    BY DEF neighbors
  <2>3. Beside(m) = {n[1], n[2], n[3], n[4]}
    BY <2>2 DEF Beside
  <2>4. {n[i] : i \in 1 .. 4} = {n[1], n[2], n[3], n[4]}
    OBVIOUS
  <2>5. /\ n[1] # n[2] /\ n[1] # n[3] /\ n[1] # n[4] /\ n[2] # n[3] /\ n[2] # n[4]
        /\ n[3] # n[4]
    BY <2>1, <2>2
  <2>6. QED BY <2>3, <2>4, <2>5
<1>4. U \subseteq Pixels /\ U \cap ToSet(s) = {}
  <2>1. \A p \in ToSet(queue) : label_map[p] = current_label
    BY <1>1 DEF SearchInv, Labelled
  <2>2. U = {p \in green_mask : label_map[p] = 0} /\ current_label # 0
    BY <1>1 DEF Unlabelled, TypeInv
  <2>3. QED BY <1>1, <2>1, <2>2 DEF TypeInv
<1>5. s \in Seq(Pixels) /\ IsInjective(s)
  BY <1>1 DEF TypeInv
<1>6. /\ s1 \in Seq(Pixels) /\ IsInjective(s1)
      /\ ToSet(s1) = ToSet(s) \cup ({n[1]} \cap U)
      /\ Len(s1) >= Len(s) /\ \A i \in 1 .. Len(s) : s1[i] = s[i]
  <2>1. n[1] \in U => n[1] \in Pixels /\ n[1] \notin ToSet(s)
    BY <1>4
  <2>2. s1 = QueueIf(s, U, n[1])
    OBVIOUS
  <2>3. QED BY ONLY <1>5, <2>1, <2>2, QueueOne
<1>7. /\ s2 \in Seq(Pixels) /\ IsInjective(s2)
      /\ ToSet(s2) = ToSet(s1) \cup ({n[2]} \cap U)
      /\ Len(s2) >= Len(s1) /\ \A i \in 1 .. Len(s1) : s2[i] = s1[i]
  <2>1. n[2] \in U => n[2] \in Pixels /\ n[2] \notin ToSet(s1)
    BY <1>3, <1>4, <1>6
  <2>2. s2 = QueueIf(s1, U, n[2])
    OBVIOUS
  <2>3. QED BY ONLY <1>6, <2>1, <2>2, QueueOne
<1>8. /\ s3 \in Seq(Pixels) /\ IsInjective(s3)
      /\ ToSet(s3) = ToSet(s2) \cup ({n[3]} \cap U)
      /\ Len(s3) >= Len(s2) /\ \A i \in 1 .. Len(s2) : s3[i] = s2[i]
  <2>1. n[3] \in U => n[3] \in Pixels /\ n[3] \notin ToSet(s2)
    BY <1>3, <1>4, <1>6, <1>7
  <2>2. s3 = QueueIf(s2, U, n[3])
    OBVIOUS
  <2>3. QED BY ONLY <1>7, <2>1, <2>2, QueueOne
<1>9. /\ s4 \in Seq(Pixels) /\ IsInjective(s4)
      /\ ToSet(s4) = ToSet(s3) \cup ({n[4]} \cap U)
      /\ Len(s4) >= Len(s3) /\ \A i \in 1 .. Len(s3) : s4[i] = s3[i]
  <2>1. n[4] \in U => n[4] \in Pixels /\ n[4] \notin ToSet(s3)
    BY <1>3, <1>4, <1>6, <1>7, <1>8
  <2>2. s4 = QueueIf(s3, U, n[4])
    OBVIOUS
  <2>3. QED BY ONLY <1>8, <2>1, <2>2, QueueOne
<1>10. queue' = s4
  BY DEF Expand, QueueIf
<1>11. ToSet(s4) = ToSet(s) \cup (Beside(m) \cap U)
  <2>1. ToSet(s4) = ToSet(s) \cup ({n[1], n[2], n[3], n[4]} \cap U)
    BY ONLY <1>6, <1>7, <1>8, <1>9
  <2>2. QED BY <1>3, <2>1
<1>12. /\ Len(s4) >= Len(s)
       /\ \A i \in 1 .. Len(s) : s4[i] = s[i]
  <2>1. /\ Len(s) \in Nat /\ Len(s1) \in Nat /\ Len(s2) \in Nat /\ Len(s3) \in Nat
        /\ Len(s4) \in Nat
    BY <1>5, <1>6, <1>7, <1>8, <1>9, LenProperties
  <2> /\ Len(s1) >= Len(s) /\ Len(s2) >= Len(s1) /\ Len(s3) >= Len(s2)
      /\ Len(s4) >= Len(s3)
    BY <1>6, <1>7, <1>8, <1>9, Zenon
  <2>2. Len(s1) >= Len(s) /\ Len(s2) >= Len(s) /\ Len(s3) >= Len(s) /\ Len(s4) >= Len(s)
    BY ONLY <2>1, Len(s1) >= Len(s), Len(s2) >= Len(s1), Len(s3) >= Len(s2),
            Len(s4) >= Len(s3)
  <2>3. \A i \in 1 .. Len(s) : s2[i] = s[i]
    BY ONLY <2>1, <2>2, <1>6, <1>7
  <2>4. \A i \in 1 .. Len(s) : s3[i] = s[i]
    BY ONLY <2>1, <2>2, <2>3, <1>8
  <2>5. \A i \in 1 .. Len(s) : s4[i] = s[i]
    BY ONLY <2>1, <2>2, <2>4, <1>9
  <2>6. QED BY <2>2, <2>5
<1>13. label_map' = [p \in Pixels |-> IF p \in Beside(m) \cap U THEN current_label
                                      ELSE label_map[p]]
  BY <1>3 DEF Expand
<1>14. QED BY <1>9, <1>10, <1>11, <1>12, <1>13

\* One pixel of the queue is expanded.  A neighbor that has an older label would
\* make the expanded pixel part of that older blob.
LEMMA ExpandStep ==
    ASSUME OpsInv, Expand
    PROVE  OpsInv'
<1> PICK m : m = queue[queue_start + 1]
  OBVIOUS
<1> PICK new : new = Beside(m) \cap Unlabelled
  OBVIOUS
<1>1. TypeInv /\ BlobInv /\ SearchInv
  BY DEF OpsInv, PhaseInv, BlobInv, Expand
<1>2. /\ queue' \in Seq(Pixels) /\ IsInjective(queue')
      /\ ToSet(queue') = ToSet(queue) \cup new
      /\ Len(queue') >= Len(queue)
      /\ \A i \in 1 .. Len(queue) : queue'[i] = queue[i]
      /\ label_map' = [p \in Pixels |-> IF p \in new THEN current_label ELSE label_map[p]]
  BY ExpandQueue
<1>3. /\ pc = "expand" /\ queue_start < Len(queue) /\ queue_start' = queue_start + 1
      /\ UNCHANGED <<frame, pc, green_mask, temp_mask, label_sizes, current_label, com,
                     opened>>
  BY DEF Expand
<1>4. /\ IsFiniteSet(opened) /\ opened \in SUBSET Pixels /\ green_mask = opened
      /\ current_label \in 1 .. MAX_LABELS - 1
  BY <1>1, OpenedFacts, LabelsNat DEF TypeInv, BlobInv
<1>5. /\ Len(queue) \in Nat /\ Len(queue') \in Nat /\ queue_start \in Nat
      /\ DOMAIN queue = 1 .. Len(queue)
  BY <1>1, <1>2, LenProperties DEF TypeInv
<1>6. m \in ToSet(queue) /\ m \in Pixels /\ m \in opened /\ label_map[m] = current_label
  <2>1. m \in ToSet(queue)
    BY <1>3, <1>5 DEF ToSet
  <2>2. m \in Pixels /\ label_map[m] = current_label
    BY <1>1, <2>1 DEF SearchInv, Labelled
  <2>3. QED BY <1>1, <1>4, <2>1, <2>2 DEF BlobInv
<1>7. /\ new \subseteq opened /\ new \subseteq Pixels
      /\ \A p \in new : label_map[p] = 0 /\ p \in Beside(m)
  BY <1>4 DEF Unlabelled
<1>8. /\ label_map' \in [Pixels -> 0 .. MAX_LABELS - 1]
      /\ \A p \in Pixels : label_map'[p] = IF p \in new THEN current_label ELSE label_map[p]
  <2>1. label_map \in [Pixels -> 0 .. MAX_LABELS - 1]
    BY <1>1 DEF TypeInv
  <2>2. current_label \in 0 .. MAX_LABELS - 1
    BY <1>4, LabelsNat
  <2> PICK L : L = 0 .. MAX_LABELS - 1
    OBVIOUS
  <2>3. QED BY ONLY <1>2, <2>1, <2>2, L = 0 .. MAX_LABELS - 1
<1>9. TypeInv'
  <2>1. queue_start' \in 0 .. Len(queue')
    BY <1>2, <1>3, <1>5
  <2>2. QED BY <1>1, <1>2, <1>3, <1>8, <2>1 DEF TypeInv
<1>10. \A l \in 1 .. current_label - 1 : WholeBlob(l)'
  <2> SUFFICES ASSUME NEW l \in 1 .. current_label - 1 PROVE WholeBlob(l)'
    OBVIOUS
  <2>1. Labelled(l)' = Labelled(l)
    BY <1>4, <1>7, <1>8 DEF Labelled
  <2>2. WholeBlob(l)
    BY <1>1 DEF BlobInv
  <2>3. QED BY <1>3, <2>1, <2>2 DEF WholeBlob
<1>11. Labelled(current_label)' = ToSet(queue')
  <2>1. Labelled(current_label) = ToSet(queue)
    BY <1>1 DEF SearchInv
  <2>2. Labelled(current_label)' = Labelled(current_label) \cup new
    BY <1>3, <1>7, <1>8 DEF Labelled
  <2>3. QED BY <1>2, <2>1, <2>2
<1>12. ToSet(queue') \subseteq Blob(queue'[1], opened)
  <2>1. queue'[1] = queue[1] /\ queue[1] \in opened
    BY <1>1, <1>2, <1>5 DEF SearchInv
  <2>2. ToSet(queue) \subseteq Blob(queue[1], opened)
    BY <1>1 DEF SearchInv
  <2>3. \A p \in new : m \in Beside(p)
    BY <1>6, <1>7, BesideSymmetric
  <2>4. \A p \in new : p \in Blob(queue[1], opened)
    BY <1>4, <1>6, <1>7, <2>1, <2>2, <2>3, BlobFacts DEF Closed
  <2>5. QED BY <1>2, <2>1, <2>2, <2>4
<1>13. ASSUME NEW q \in opened, q \in Beside(m)
       PROVE  label_map'[q] = current_label
  <2>1. q \in Pixels /\ m \in Beside(q)
    BY <1>4, <1>6, <1>13, BesideSymmetric
  <2>2. CASE label_map[q] = 0
    BY <1>4, <1>8, <1>13, <2>1, <2>2 DEF Unlabelled
  <2>3. CASE label_map[q] = current_label
    BY <1>8, <2>1, <2>3
  <2>4. CASE label_map[q] # 0 /\ label_map[q] # current_label
    <3> PICK l : l = label_map[q]
      OBVIOUS
    <3>1. l \in 1 .. current_label - 1
      BY <1>1, <1>4, <2>1, <2>4 DEF BlobInv, TypeInv
    <3>2. PICK p \in opened : Labelled(l) = Blob(p, opened)
      BY <1>1, <3>1 DEF BlobInv, WholeBlob
    <3>3. q \in Blob(p, opened)
      BY <2>1, <3>2 DEF Labelled
    <3>4. m \in Blob(p, opened)
      BY <1>4, <1>6, <1>13, <3>3, BlobFacts DEF Closed
    <3>5. label_map[m] = l
      BY <3>2, <3>4 DEF Labelled
    <3>6. QED BY <1>6, <2>4, <3>5
  <2>5. QED BY <2>2, <2>3, <2>4
<1>14. SearchInv'
  <2>1. Len(queue') > 0 /\ queue'[1] \in opened'
    BY <1>1, <1>2, <1>3, <1>5 DEF SearchInv
  <2>2. ASSUME NEW i \in 1 .. queue_start', NEW q \in opened', q \in Beside(queue'[i])
        PROVE  label_map'[q] = current_label'
    <3>1. queue'[i] = queue[i]
      BY <1>2, <1>3, <1>5
    <3>2. CASE i = queue_start + 1
      BY <1>3, <1>13, <2>2, <3>1, <3>2
    <3>3. CASE i # queue_start + 1
      <4>1. i \in 1 .. queue_start
        BY <1>3, <1>5, <3>3
      <4>2. label_map[q] = current_label
        BY <1>1, <1>3, <2>2, <3>1, <4>1 DEF SearchInv
      <4>3. QED BY <1>3, <1>4, <1>8, <4>2
    <3>4. QED BY <3>2, <3>3
  <2>3. QED BY <1>3, <1>11, <1>12, <2>1, <2>2 DEF SearchInv
<1>15. /\ \A p \in Pixels : label_map'[p] # 0 => p \in opened
       /\ \A p \in Pixels : label_map'[p] <= current_label
  BY <1>1, <1>4, <1>7, <1>8 DEF BlobInv
<1>16. BlobInv'
  BY <1>1, <1>3, <1>10, <1>14, <1>15 DEF BlobInv
<1>17. PhaseInv'
  BY <1>3, <1>16 DEF PhaseInv
<1>18. QED BY <1>9, <1>17 DEF OpsInv

\* The blobs of a mask are finitely many.
LEMMA BlobsFinite ==
    ASSUME NEW mask, IsFiniteSet(mask)
    PROVE  /\ IsFiniteSet({Blob(p, mask) : p \in mask})
           /\ Cardinality({Blob(p, mask) : p \in mask}) \in Nat
<1> PICK B : B = {Blob(p, mask) : p \in mask}
  OBVIOUS
<1> DEFINE f == [p \in mask |-> Blob(p, mask)]
<1>1. f \in Surjection(mask, B)
  BY DEF Surjection
<1>2. IsFiniteSet(B)
  BY <1>1, FS_Surjection
<1>3. QED BY <1>2, FS_CardinalityType

\* Labels of whole blobs are as many as these blobs.
LEMMA LabelsApart ==
    ASSUME IsFiniteSet(opened), NEW k \in Nat,
           \A l \in 1 .. k : \E p \in opened : Labelled(l) = Blob(p, opened)
    PROVE  k <= Cardinality({Blob(p, opened) : p \in opened})
<1> PICK B : B = {Blob(p, opened) : p \in opened}
  OBVIOUS
<1> DEFINE f == [l \in 1 .. k |-> Labelled(l)]
<1>1. f \in [1 .. k -> B]
  OBVIOUS
<1>2. \A l \in 1 .. k : Labelled(l) # {}
  BY BlobFacts
<1>3. \A l, n \in 1 .. k : Labelled(l) = Labelled(n) => l = n
  BY <1>2 DEF Labelled
<1>4. f \in Injection(1 .. k, B)
  BY <1>1, <1>3 DEF Injection, IsInjective
<1>5. IsFiniteSet(B)
  BY BlobsFinite
<1>6. Cardinality(1 .. k) <= Cardinality(B)
  BY <1>4, <1>5, FS_Injection
<1>7. Cardinality(1 .. k) = k
  <2>1. Cardinality(1 .. k) = IF 1 > k THEN 0 ELSE k - 1 + 1
    BY FS_Interval
  <2>2. QED BY <2>1
<1>8. QED BY <1>6, <1>7

\* The queue is empty: all neighbors of what was found are among it, so the blob
\* is whole.  With all labels used there are at least that many blobs.
LEMMA EndBlobStep ==
    ASSUME OpsInv, EndBlob
    PROVE  OpsInv'
<1>1. TypeInv /\ BlobInv /\ SearchInv
  BY DEF OpsInv, PhaseInv, BlobInv, EndBlob
<1>2. /\ pc = "expand" /\ queue_start = Len(queue)
      /\ label_sizes' = [label_sizes EXCEPT ![current_label] = Len(queue)]
      /\ current_label' = current_label + 1
      /\ pc' = IF LabelsUsedUp THEN "com" ELSE "scan"
      /\ UNCHANGED <<frame, green_mask, temp_mask, label_map, queue, queue_start, com,
                     opened>>
  BY DEF EndBlob
<1>3. /\ IsFiniteSet(opened) /\ opened \in SUBSET Pixels /\ green_mask = opened
      /\ current_label \in 1 .. MAX_LABELS - 1
  BY <1>1, OpenedFacts, LabelsNat DEF TypeInv, BlobInv
<1> PICK first \in opened : first = queue[1]
  BY <1>1 DEF SearchInv
<1>4. Labelled(current_label) = Blob(first, opened)
  <2>1. Labelled(current_label) \in SUBSET opened
    BY <1>1, <1>3 DEF Labelled, BlobInv
  <2>2. first \in Labelled(current_label)
    <3>1. DOMAIN queue = 1 .. Len(queue) /\ Len(queue) \in Nat
      BY <1>1, LenProperties DEF TypeInv
    <3>2. first \in ToSet(queue)
      BY <1>1, <3>1 DEF SearchInv, ToSet
    <3>3. QED BY <1>1, <3>2 DEF SearchInv
  <2>3. Closed(opened, Labelled(current_label))
    <3> SUFFICES ASSUME NEW q \in opened, NEW r \in Labelled(current_label), r \in Beside(q)
                 PROVE  q \in Labelled(current_label)
      BY DEF Closed
    <3>1. PICK i \in 1 .. Len(queue) : r = queue[i]
      BY <1>1, LenProperties DEF TypeInv, SearchInv, ToSet
    <3>2. q \in Pixels /\ r \in Pixels
      BY <1>3, <2>1
    <3>3. q \in Beside(r)
      BY <3>2, BesideSymmetric
    <3>4. label_map[q] = current_label
      BY <1>1, <1>2, <3>1, <3>3 DEF SearchInv
    <3>5. QED BY <3>2, <3>4 DEF Labelled
  <2>4. Blob(first, opened) \subseteq Labelled(current_label)
    BY <1>3, <2>1, <2>2, <2>3, BlobFacts
  <2>5. QED BY <1>1, <2>4 DEF SearchInv
<1>5. Len(queue) = Cardinality(Labelled(current_label)) /\ Len(queue) \in Nat
  BY <1>1, QueueLength, LenProperties DEF TypeInv, SearchInv
<1>6. /\ label_sizes' \in [0 .. MAX_LABELS - 1 -> Nat]
      /\ \A l \in 0 .. MAX_LABELS - 1 :
            label_sizes'[l] = IF l = current_label THEN Len(queue) ELSE label_sizes[l]
  <2>1. current_label \in 0 .. MAX_LABELS - 1
    BY <1>3, LabelsNat
  <2>2. label_sizes \in [0 .. MAX_LABELS - 1 -> Nat]
    BY <1>1 DEF TypeInv
  <2>3. QED BY <1>2, <1>5, <2>1, <2>2
<1>7. TypeInv'
  <2>1. current_label' \in 1 .. MAX_LABELS
    BY <1>2, <1>3, LabelsNat
  <2>2. QED BY <1>1, <1>2, <1>6, <2>1 DEF TypeInv
<1>8. \A l \in 1 .. current_label : WholeBlob(l)'
  <2> SUFFICES ASSUME NEW l \in 1 .. current_label PROVE WholeBlob(l)'
    OBVIOUS
  <2>1. Labelled(l)' = Labelled(l)
    BY <1>2 DEF Labelled
  <2>2. l \in 0 .. MAX_LABELS - 1
    BY <1>3, LabelsNat
  <2>3. CASE l = current_label
    BY <1>2, <1>4, <1>5, <1>6, <2>1, <2>2, <2>3 DEF WholeBlob
  <2>4. CASE l # current_label
    <3>1. l \in 1 .. current_label - 1
      BY <1>3, <2>4
    <3>2. WholeBlob(l)
      BY <1>1, <3>1 DEF BlobInv
    <3>3. QED BY <1>2, <1>6, <2>1, <2>2, <2>4, <3>2 DEF WholeBlob
  <2>5. QED BY <2>3, <2>4
<1>9. CASE LabelsUsedUp
  <2>1. current_label = MAX_LABELS - 1
    BY <1>3, <1>9, LabelsNat DEF LabelsUsedUp
  <2>2. \A l \in 1 .. current_label : \E p \in opened : Labelled(l) = Blob(p, opened)
    BY <1>2, <1>8 DEF WholeBlob, Labelled
  <2>3. MAX_LABELS - 1 <= Cardinality({Blob(p, opened) : p \in opened})
    BY <1>3, <2>1, <2>2, LabelsNat, LabelsApart
  <2>4. Kept(opened) = opened
    <3>1. Cardinality({Blob(p, opened) : p \in opened}) >= MAX_LABELS - 1
      BY <1>3, <2>3, BlobsFinite, LabelsNat
    <3>2. QED BY <3>1 DEF Kept
  <2>5. green_mask' = Kept(opened') /\ pc' = "com"
    BY <1>2, <1>3, <1>9, <2>4
  <2>6. PhaseInv'
    BY <2>5 DEF PhaseInv
  <2>7. QED BY <1>7, <2>6 DEF OpsInv
<1>10. CASE ~LabelsUsedUp
  <2>1. current_label' < MAX_LABELS /\ current_label' # 1 /\ current_label' - 1 = current_label
    BY <1>2, <1>3, <1>10, LabelsNat DEF LabelsUsedUp
  <2>2. \A p \in Pixels : label_map[p] \in Nat /\ label_map[p] <= current_label
    BY <1>1 DEF BlobInv, TypeInv
  <2>3. Labelled(current_label)' = {} /\ \A p \in Pixels : label_map'[p] <= current_label'
    BY <1>2, <1>3, <2>2 DEF Labelled
  <2>4. pc' = "scan"
    BY <1>2, <1>10
  <2>5. BlobInv'
    BY <1>1, <1>2, <1>8, <2>1, <2>3, <2>4 DEF BlobInv
  <2>6. PhaseInv'
    BY <2>1, <2>4, <2>5 DEF PhaseInv
  <2>7. QED BY <1>7, <2>6 DEF OpsInv
<1>11. QED BY <1>9, <1>10

\* When every pixel of the mask has a label, the labels are those of all blobs.
LEMMA AllLabelled ==
    ASSUME TypeInv, BlobInv, Unlabelled = {}, NEW p \in opened
    PROVE  /\ label_map[p] \in 1 .. current_label
           /\ label_map[p] # current_label \/ pc # "scan"
           /\ label_map[p] < current_label =>
                 /\ Labelled(label_map[p]) = Blob(p, opened)
                 /\ label_sizes[label_map[p]] = Cardinality(Blob(p, opened))
<1>1. p \in Pixels /\ IsFiniteSet(opened) /\ opened \in SUBSET Pixels
  BY OpenedFacts DEF TypeInv
<1>2. label_map[p] # 0
  BY <1>1 DEF BlobInv, Unlabelled
<1>3. label_map[p] \in 1 .. current_label
  BY <1>1, <1>2 DEF TypeInv, BlobInv
<1>4. label_map[p] # current_label \/ pc # "scan"
  BY <1>1 DEF BlobInv, Labelled
<1>5. ASSUME label_map[p] < current_label
      PROVE  /\ Labelled(label_map[p]) = Blob(p, opened)
             /\ label_sizes[label_map[p]] = Cardinality(Blob(p, opened))
  <2> PICK l : l = label_map[p]
    OBVIOUS
  <2>1. l \in 1 .. current_label - 1
    BY <1>3, <1>5 DEF TypeInv
  <2>2. WholeBlob(l)
    BY <2>1 DEF BlobInv
  <2>3. PICK q \in opened : Labelled(l) = Blob(q, opened)
    BY <2>2 DEF WholeBlob
  <2>4. p \in Blob(q, opened)
    BY <1>1, <2>3 DEF Labelled
  <2>5. Blob(p, opened) = Blob(q, opened)
    BY <1>1, <2>4, BlobOfMember
  <2>6. QED BY <2>2, <2>3, <2>5 DEF WholeBlob
<1>6. QED BY <1>3, <1>4, <1>5

\* All pixels have labels and the labels have the sizes of their blobs: the small
\* ones go.
LEMMA RemoveSmallStep ==
    ASSUME OpsInv, RemoveSmall
    PROVE  OpsInv'
<1> USE DEF RemoveSmall, blobVars
<1>1. TypeInv /\ BlobInv
  BY DEF OpsInv, PhaseInv
<1>2. /\ IsFiniteSet(opened) /\ opened \in SUBSET Pixels /\ green_mask = opened
      /\ current_label \in 1 .. MAX_LABELS - 1
  BY <1>1, OpenedFacts, LabelsNat DEF TypeInv, BlobInv
<1> PICK B : B = {Blob(p, opened) : p \in opened}
  OBVIOUS
<1>3. \A p \in opened : /\ label_map[p] \in 1 .. current_label - 1
                        /\ Labelled(label_map[p]) = Blob(p, opened)
                        /\ label_sizes[label_map[p]] = Cardinality(Blob(p, opened))
  <2> SUFFICES ASSUME NEW p \in opened
               PROVE  /\ label_map[p] \in 1 .. current_label - 1
                      /\ Labelled(label_map[p]) = Blob(p, opened)
                      /\ label_sizes[label_map[p]] = Cardinality(Blob(p, opened))
    OBVIOUS
  <2>1. label_map[p] \in 1 .. current_label /\ label_map[p] # current_label
    BY <1>1, AllLabelled
  <2>2. label_map[p] < current_label /\ label_map[p] \in 1 .. current_label - 1
    BY <1>2, <2>1
  <2>3. QED BY <1>1, <2>2, AllLabelled
<1>4. Cardinality(B) \in Nat /\ Cardinality(B) < MAX_LABELS - 1
  <2> PICK k \in Nat : k = current_label - 1
    BY <1>2
  <2> DEFINE f == [l \in 1 .. k |-> Labelled(l)]
  <2>1. f \in [1 .. k -> B]
    BY <1>1 DEF BlobInv, WholeBlob
  <2>2. \A b \in B : \E l \in 1 .. k : f[l] = b
    BY <1>3
  <2>3. f \in Surjection(1 .. k, B)
    BY <2>1, <2>2 DEF Surjection
  <2>4. IsFiniteSet(1 .. k) /\ Cardinality(1 .. k) = IF 1 > k THEN 0 ELSE k - 1 + 1
    <3>1. 1 \in Int /\ k \in Int
      OBVIOUS
    <3>2. QED BY ONLY <3>1, FS_Interval
  <2>5. Cardinality(B) <= Cardinality(1 .. k)
    BY <2>3, <2>4, FS_Surjection
  <2>6. Cardinality(1 .. k) = k
    BY <2>4
  <2>7. Cardinality(B) \in Nat
    BY <1>2, BlobsFinite
  <2>8. QED BY <1>2, <2>5, <2>6, <2>7, LabelsNat
<1>5. Kept(opened) = UNION {b \in B : Cardinality(b) >= MinSize}
  <2>1. ~(Cardinality(B) >= MAX_LABELS - 1)
    BY <1>4, LabelsNat
  <2>2. QED BY <2>1 DEF Kept
<1>6. green_mask' = {p \in opened : Cardinality(Blob(p, opened)) >= MinSize}
  BY <1>2, <1>3
<1>7. \A p, q \in opened : p \in Blob(q, opened) => Blob(p, opened) = Blob(q, opened)
  BY <1>2, BlobOfMember
<1>8. \A p \in opened : p \in Blob(p, opened) /\ Blob(p, opened) \in SUBSET opened
  BY <1>2, BlobFacts
<1>9. green_mask' = Kept(opened)
  <2>1. ASSUME NEW p \in green_mask'
        PROVE  p \in Kept(opened)
    BY <1>5, <1>6, <1>8
  <2>2. ASSUME NEW p \in Kept(opened)
        PROVE  p \in green_mask'
    <3>1. PICK q \in opened : p \in Blob(q, opened) /\ Cardinality(Blob(q, opened)) >= MinSize
      BY <1>5
    <3>2. p \in opened
      BY <1>8, <3>1
    <3>3. Blob(p, opened) = Blob(q, opened)
      BY <1>7, <3>1, <3>2
    <3>4. QED BY <1>6, <3>1, <3>2, <3>3
  <2>3. QED BY <2>1, <2>2
<1>10. TypeInv'
  BY <1>1 DEF TypeInv
<1>11. PhaseInv'
  BY <1>9 DEF PhaseInv
<1>12. QED BY <1>10, <1>11 DEF OpsInv

\* The center of mass of the mask that is left.
LEMMA ComStep ==
    ASSUME OpsInv, calculate_com
    PROVE  OpsInv'
<1> USE DEF calculate_com, blobVars
<1>1. TypeInv'
  BY DEF OpsInv, TypeInv
<1>2. PhaseInv'
  BY DEF OpsInv, PhaseInv
<1>3. QED BY <1>1, <1>2 DEF OpsInv

-----------------------------------------------------------------------------
\* A frame was pulled.
LEMMA InitInv == Init => OpsInv
<1> SUFFICES ASSUME Init PROVE OpsInv
  OBVIOUS
<1>1. label_map \in [Pixels -> 0 .. MAX_LABELS - 1] /\ \A p \in Pixels : label_map[p] = 0
  BY LabelsNat DEF Init
<1>2. label_sizes \in [0 .. MAX_LABELS - 1 -> Nat]
  BY DEF Init
<1>3. current_label \in 1 .. MAX_LABELS
  BY LabelsNat DEF Init
<1>4. queue \in Seq(Pixels) /\ IsInjective(queue) /\ queue_start \in 0 .. Len(queue)
  BY DEF Init, IsInjective
<1>5. TypeInv
  BY <1>1, <1>2, <1>3, <1>4 DEF Init, TypeInv
<1>6. PhaseInv
  BY <1>1 DEF Init, PhaseInv
<1>7. QED BY <1>5, <1>6 DEF OpsInv

\* What is computed of a frame is what it is to be, step by step
\* (green_mask.c:274-294, com_calculator.c:15-43).
THEOREM OpsInvariant == Spec => []OpsInv
<1>1. OpsInv /\ [Next]_vars => OpsInv'
  <2> SUFFICES ASSUME OpsInv, [Next]_vars PROVE OpsInv'
    OBVIOUS
  <2>1. CASE UNCHANGED vars
    <3>1. TypeInv'
      BY <2>1 DEF OpsInv, TypeInv, vars
    <3>2. Threshold' = Threshold /\ Opened' = Opened
      BY <2>1 DEF Threshold, Opened, data, vars
    <3>3. BlobInv => BlobInv'
      <4>1. \A l : Labelled(l)' = Labelled(l)
        BY <2>1 DEF Labelled, vars
      <4>2. Labelled(current_label)' = Labelled(current_label)
        BY <2>1 DEF Labelled, vars
      <4>3. \A l : WholeBlob(l) => WholeBlob(l)'
        BY <2>1, <4>1 DEF WholeBlob, vars
      <4>4. SearchInv => SearchInv'
        BY <2>1, <4>2 DEF SearchInv, vars
      <4>5. QED BY <2>1, <4>2, <4>3, <4>4 DEF BlobInv, vars
    <3>4. PhaseInv'
      BY <2>1, <3>2, <3>3 DEF OpsInv, PhaseInv, vars
    <3>5. QED BY <3>1, <3>4 DEF OpsInv
  <2>2. QED
    BY <2>1, ThresholdStep, DilateStep, StartBlobStep, ExpandStep, EndBlobStep,
       RemoveSmallStep, ComStep DEF Next
<1>2. QED
  BY <1>1, InitInv, PTL DEF Spec

\* The queue of filter_small_blobs stays within its array, and the labels within
\* label_sizes (green_mask.c:76-135).
THEOREM QueueAndLabelsFit == Spec => []ImageTypeOK
<1>1. OpsInv => ImageTypeOK
  <2> SUFFICES ASSUME TypeInv PROVE ImageTypeOK
    BY DEF OpsInv
  <2>1. Len(queue) <= WIDTH * HEIGHT /\ queue_start <= Len(queue)
    BY QueueLength DEF TypeInv
  <2>2. QED BY <2>1 DEF TypeInv, ImageTypeOK
<1>2. QED
  BY <1>1, OpsInvariant, PTL

\* Threshold, erosion and dilation keep the inner pixels that lie in a green
\* block (green_mask.c:274-293).
THEOREM OpeningAlwaysExact == Spec => []OpeningExact
<1>1. OpsInv => OpeningExact
  BY DEF OpsInv, PhaseInv, OpeningExact
<1>2. QED
  BY <1>1, OpsInvariant, PTL

\* filter_small_blobs removes the small blobs, and nothing where it has run out
\* of labels (green_mask.c:76-135).
THEOREM FilterAlwaysExact == Spec => []FilterExact
<1>1. OpsInv => FilterExact
  BY DEF OpsInv, PhaseInv, FilterExact
<1>2. QED
  BY <1>1, OpsInvariant, PTL

\* What is kept is part of what was there.
LEMMA KeptInside ==
    ASSUME TypeInv
    PROVE  Kept(opened) \in SUBSET Interior
<1>1. IsFiniteSet(opened) /\ opened \subseteq Interior
  BY OpenedFacts DEF TypeInv
<1>2. \A p \in opened : Blob(p, opened) \in SUBSET opened
  BY <1>1, BlobFacts
<1>3. QED BY <1>1, <1>2 DEF Kept

\* A frame has a center of mass that the control loop accepts if and only if
\* enough of it is green, and it lies among the green pixels
\* (com_calculator.c:15-43, main.c:155).
THEOREM ComAlwaysAccepted == Spec => []ComAccepted
<1>1. OpsInv => ComAccepted
  <2> SUFFICES ASSUME OpsInv, pc = "done" PROVE ComAccepted
    BY DEF ComAccepted
  <2> PICK S : S = Kept(opened)
    OBVIOUS
  <2>1. com = Com(S) /\ S \in SUBSET Interior
    BY KeptInside DEF OpsInv, PhaseInv
  <2>2. QED BY <2>1, ComIs DEF ComAccepted
<1>2. QED
  BY <1>1, OpsInvariant, PTL
=============================================================================
