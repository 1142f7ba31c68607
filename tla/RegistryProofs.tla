--------------------------- MODULE RegistryProofs ---------------------------
(***************************************************************************)
(* Proofs about Registry, for any devices, names, measurements and writes. *)
(* First the air quality index over every concentration: it stays on its   *)
(* scale, more of both pollutants never gives a better index, and the      *)
(* dashboard computes the same.  Then what is shown carries the index of   *)
(* its concentrations, so the scale is sound; a status changes only by an  *)
(* authorized request; the two ways to tell places apart agree.            *)
(***************************************************************************)
EXTENDS Registry, FiniteSetTheorems, TLAPS

-----------------------------------------------------------------------------
(* From the search in the table to linear pieces.                          *)

\* The band found is the first one whose top reaches the concentration, and
\* the last one above them all.
LEMMA SixBands ==
  ASSUME NEW bands, DOMAIN bands = 1..6, Len(bands) = 6, \A i \in 1..6 : bands[i][2] \in Int,
         NEW c \in Int
  PROVE  Band(c, bands) = IF c <= bands[1][2] THEN bands[1]
                          ELSE IF c <= bands[2][2] THEN bands[2]
                          ELSE IF c <= bands[3][2] THEN bands[3]
                          ELSE IF c <= bands[4][2] THEN bands[4]
                          ELSE IF c <= bands[5][2] THEN bands[5] ELSE bands[6]
<1> DEFINE First(i) == c <= bands[i][2] /\ \A j \in 1..(i - 1) : c > bands[j][2]
           K == IF c <= bands[1][2] THEN 1 ELSE IF c <= bands[2][2] THEN 2
                ELSE IF c <= bands[3][2] THEN 3 ELSE IF c <= bands[4][2] THEN 4
                ELSE IF c <= bands[5][2] THEN 5 ELSE 6
<1>1. K \in 1..6 /\ \A j \in 1..(K - 1) : c > bands[j][2]
  <2>1. \A i \in 1..6 : i = 1 \/ i = 2 \/ i = 3 \/ i = 4 \/ i = 5 \/ i = 6
    OBVIOUS
  <2>2. K \in 1..6
    OBVIOUS
  <2>3. SUFFICES ASSUME NEW j \in 1..(K - 1) PROVE c > bands[j][2]
    BY <2>2
  <2>4. j \in 1..6 /\ j < K
    BY <2>2
  <2> QED BY <2>1, <2>4
<1>2. CASE \E i \in 1..6 : c <= bands[i][2]
  <2>1. First(K)
    <3>1. c <= bands[K][2]
      <4>1. \A i \in 1..6 : i = 1 \/ i = 2 \/ i = 3 \/ i = 4 \/ i = 5 \/ i = 6
        OBVIOUS
      <4> QED BY <1>2, <4>1
    <3> QED BY <1>1, <3>1
  <2>2. ASSUME NEW i \in 1..6, First(i) PROVE i = K
    <3> HIDE DEF K
    <3>1. CASE i < K
      <4>1. i \in 1..(K - 1)
        BY <1>1, <3>1
      <4> QED BY <1>1, <2>2, <4>1
    <3>2. CASE K < i
      <4>1. K \in 1..(i - 1)
        BY <1>1, <3>2
      <4> QED BY <1>1, <2>1, <2>2, <4>1
    <3> QED BY <1>1, <3>1, <3>2
  <2> HIDE DEF K
  <2>3. (CHOOSE i \in 1..6 : First(i)) = K
    BY <1>1, <2>1, <2>2
  <2>4. Band(c, bands) = bands[K]
    BY <1>2, <2>3 DEF Band
  <2> QED BY <2>4 DEF K
<1>3. CASE ~\E i \in 1..6 : c <= bands[i][2]
  <2>1. Band(c, bands) = bands[6]
    BY <1>3 DEF Band
  <2> QED BY <1>3, <2>1
<1> QED BY <1>2, <1>3

\* The six linear pieces of PM2.5, in tenths.
LEMMA Pm25Pieces ==
  ASSUME NEW c \in Nat
  PROVE  SubIndex(c, Pm25Breakpoints) =
           IF c <= 90 THEN (100 * c + 90) \div 180
           ELSE IF c <= 354 THEN 51 + (98 * c - 98 * 91 + 263) \div 526
           ELSE IF c <= 554 THEN 101 + (98 * c - 98 * 355 + 199) \div 398
           ELSE IF c <= 1254 THEN 151 + (98 * c - 98 * 555 + 699) \div 1398
           ELSE IF c <= 2254 THEN 201 + (198 * c - 198 * 1255 + 999) \div 1998
           ELSE 301 + (398 * (IF c > 3254 THEN 3254 ELSE c) - 398 * 2255 + 999) \div 1998
<1> DEFINE T == Pm25Breakpoints
<1>1. /\ DOMAIN T = 1..6 /\ Len(T) = 6
      /\ T[1] = <<0, 90, 0, 50>> /\ T[2] = <<91, 354, 51, 100>> /\ T[3] = <<355, 554, 101, 150>>
      /\ T[4] = <<555, 1254, 151, 200>> /\ T[5] = <<1255, 2254, 201, 300>>
      /\ T[6] = <<2255, 3254, 301, 500>>
  BY DEF Pm25Breakpoints
<1>2. /\ T[1][2] = 90 /\ T[2][2] = 354 /\ T[3][2] = 554 /\ T[4][2] = 1254
      /\ T[5][2] = 2254 /\ T[6][2] = 3254
  BY <1>1
<1>3. \A i \in 1..6 : T[i][2] \in Int
  BY <1>2
<1> HIDE DEF T
<1>4. Band(c, T) = IF c <= 90 THEN T[1] ELSE IF c <= 354 THEN T[2] ELSE IF c <= 554 THEN T[3]
                   ELSE IF c <= 1254 THEN T[4] ELSE IF c <= 2254 THEN T[5] ELSE T[6]
  <2>1. c \in Int /\ DOMAIN T = 1..6 /\ Len(T) = 6
    BY <1>1
  <2>2. Band(c, T) = IF c <= T[1][2] THEN T[1] ELSE IF c <= T[2][2] THEN T[2]
                     ELSE IF c <= T[3][2] THEN T[3] ELSE IF c <= T[4][2] THEN T[4]
                     ELSE IF c <= T[5][2] THEN T[5] ELSE T[6]
    BY <1>3, <2>1, SixBands
  <2> QED BY <1>2, <2>2
<1> QED BY <1>1, <1>4 DEF SubIndex, Round, T

\* The six linear pieces of PM10, in whole ug/m3.
LEMMA Pm10Pieces ==
  ASSUME NEW c \in Nat
  PROVE  SubIndex(c, Pm10Breakpoints) =
           IF c <= 54 THEN (100 * c + 54) \div 108
           ELSE IF c <= 154 THEN 51 + (98 * c - 98 * 55 + 99) \div 198
           ELSE IF c <= 254 THEN 101 + (98 * c - 98 * 155 + 99) \div 198
           ELSE IF c <= 354 THEN 151 + (98 * c - 98 * 255 + 99) \div 198
           ELSE IF c <= 424 THEN 201 + (198 * c - 198 * 355 + 69) \div 138
           ELSE 301 + (398 * (IF c > 604 THEN 604 ELSE c) - 398 * 425 + 179) \div 358
<1> DEFINE T == Pm10Breakpoints
<1>1. /\ DOMAIN T = 1..6 /\ Len(T) = 6
      /\ T[1] = <<0, 54, 0, 50>> /\ T[2] = <<55, 154, 51, 100>> /\ T[3] = <<155, 254, 101, 150>>
      /\ T[4] = <<255, 354, 151, 200>> /\ T[5] = <<355, 424, 201, 300>>
      /\ T[6] = <<425, 604, 301, 500>>
  BY DEF Pm10Breakpoints
<1>2. /\ T[1][2] = 54 /\ T[2][2] = 154 /\ T[3][2] = 254 /\ T[4][2] = 354
      /\ T[5][2] = 424 /\ T[6][2] = 604
  BY <1>1
<1>3. \A i \in 1..6 : T[i][2] \in Int
  BY <1>2
<1> HIDE DEF T
<1>4. Band(c, T) = IF c <= 54 THEN T[1] ELSE IF c <= 154 THEN T[2] ELSE IF c <= 254 THEN T[3]
                   ELSE IF c <= 354 THEN T[4] ELSE IF c <= 424 THEN T[5] ELSE T[6]
  <2>1. c \in Int /\ DOMAIN T = 1..6 /\ Len(T) = 6
    BY <1>1
  <2>2. Band(c, T) = IF c <= T[1][2] THEN T[1] ELSE IF c <= T[2][2] THEN T[2]
                     ELSE IF c <= T[3][2] THEN T[3] ELSE IF c <= T[4][2] THEN T[4]
                     ELSE IF c <= T[5][2] THEN T[5] ELSE T[6]
    BY <1>3, <2>1, SixBands
  <2> QED BY <1>2, <2>2
<1> QED BY <1>1, <1>4 DEF SubIndex, Round, T

\* No concentration leaves the scale, and a higher one gives no lower index.
LEMMA Pm25Monotone ==
  ASSUME NEW c \in Nat, NEW d \in Nat, c <= d
  PROVE  /\ SubIndex(c, Pm25Breakpoints) \in 0..500
         /\ SubIndex(c, Pm25Breakpoints) <= SubIndex(d, Pm25Breakpoints)
<1> DEFINE V(x) == SubIndex(x, Pm25Breakpoints)
<1>1. /\ \A x \in Nat : x <= 90 => V(x) \in 0..50
      /\ \A x, y \in Nat : x <= y /\ x <= 90 /\ y <= 90 => V(x) <= V(y)
  <2>1. \A x \in Nat : x <= 90 => V(x) = (100 * x + 90) \div 180
    BY Pm25Pieces
  <2> HIDE DEF V
  <2> QED BY <2>1
<1>2. /\ \A x \in Nat : x > 90 /\ x <= 354 => V(x) \in 51..100
      /\ \A x, y \in Nat : x <= y /\ x > 90 /\ x <= 354 /\ y > 90 /\ y <= 354 => V(x) <= V(y)
  <2>1. \A x \in Nat : x > 90 /\ x <= 354 => V(x) = 51 + (98 * x - 98 * 91 + 263) \div 526
    BY Pm25Pieces
  <2> HIDE DEF V
  <2> QED BY <2>1
<1>3. /\ \A x \in Nat : x > 354 /\ x <= 554 => V(x) \in 101..150
      /\ \A x, y \in Nat : x <= y /\ x > 354 /\ x <= 554 /\ y > 354 /\ y <= 554 => V(x) <= V(y)
  <2>1. \A x \in Nat : x > 354 /\ x <= 554 => V(x) = 101 + (98 * x - 98 * 355 + 199) \div 398
    BY Pm25Pieces
  <2> HIDE DEF V
  <2> QED BY <2>1
<1>4. /\ \A x \in Nat : x > 554 /\ x <= 1254 => V(x) \in 151..200
      /\ \A x, y \in Nat : x <= y /\ x > 554 /\ x <= 1254 /\ y > 554 /\ y <= 1254 => V(x) <= V(y)
  <2>1. \A x \in Nat : x > 554 /\ x <= 1254 => V(x) = 151 + (98 * x - 98 * 555 + 699) \div 1398
    BY Pm25Pieces
  <2> HIDE DEF V
  <2> QED BY <2>1
<1>5. /\ \A x \in Nat : x > 1254 /\ x <= 2254 => V(x) \in 201..300
      /\ \A x, y \in Nat : x <= y /\ x > 1254 /\ x <= 2254 /\ y > 1254 /\ y <= 2254 => V(x) <= V(y)
  <2>1. \A x \in Nat : x > 1254 /\ x <= 2254 => V(x) = 201 + (198 * x - 198 * 1255 + 999) \div 1998
    BY Pm25Pieces
  <2> HIDE DEF V
  <2> QED BY <2>1
<1>6. /\ \A x \in Nat : x > 2254 => V(x) \in 301..500
      /\ \A x, y \in Nat : x <= y /\ x > 2254 /\ y > 2254 => V(x) <= V(y)
  <2>1. \A x \in Nat : x > 2254 => V(x) = 301 + (398 * (IF x > 3254 THEN 3254 ELSE x) - 398 * 2255 + 999) \div 1998
    BY Pm25Pieces
  <2> HIDE DEF V
  <2> QED BY <2>1
<1> HIDE DEF V
<1>7. /\ c <= 90 => V(c) \in Int /\ 0 <= V(c) /\ V(c) <= 50
      /\ c > 90 /\ c <= 354 => V(c) \in Int /\ 51 <= V(c) /\ V(c) <= 100
      /\ c > 354 /\ c <= 554 => V(c) \in Int /\ 101 <= V(c) /\ V(c) <= 150
      /\ c > 554 /\ c <= 1254 => V(c) \in Int /\ 151 <= V(c) /\ V(c) <= 200
      /\ c > 1254 /\ c <= 2254 => V(c) \in Int /\ 201 <= V(c) /\ V(c) <= 300
      /\ c > 2254 => V(c) \in Int /\ 301 <= V(c) /\ V(c) <= 500
  BY <1>1, <1>2, <1>3, <1>4, <1>5, <1>6
<1>8. /\ d <= 90 => V(d) \in Int /\ 0 <= V(d) /\ V(d) <= 50
      /\ d > 90 /\ d <= 354 => V(d) \in Int /\ 51 <= V(d) /\ V(d) <= 100
      /\ d > 354 /\ d <= 554 => V(d) \in Int /\ 101 <= V(d) /\ V(d) <= 150
      /\ d > 554 /\ d <= 1254 => V(d) \in Int /\ 151 <= V(d) /\ V(d) <= 200
      /\ d > 1254 /\ d <= 2254 => V(d) \in Int /\ 201 <= V(d) /\ V(d) <= 300
      /\ d > 2254 => V(d) \in Int /\ 301 <= V(d) /\ V(d) <= 500
  BY <1>1, <1>2, <1>3, <1>4, <1>5, <1>6
<1>9. /\ c <= 90 /\ d <= 90 => V(c) <= V(d)
      /\ c > 90 /\ c <= 354 /\ d > 90 /\ d <= 354 => V(c) <= V(d)
      /\ c > 354 /\ c <= 554 /\ d > 354 /\ d <= 554 => V(c) <= V(d)
      /\ c > 554 /\ c <= 1254 /\ d > 554 /\ d <= 1254 => V(c) <= V(d)
      /\ c > 1254 /\ c <= 2254 /\ d > 1254 /\ d <= 2254 => V(c) <= V(d)
      /\ c > 2254 /\ d > 2254 => V(c) <= V(d)
  BY <1>1, <1>2, <1>3, <1>4, <1>5, <1>6
<1>10. V(c) \in 0..500 /\ V(c) <= V(d)
  BY <1>7, <1>8, <1>9
<1> QED BY <1>10 DEF V

LEMMA Pm10Monotone ==
  ASSUME NEW c \in Nat, NEW d \in Nat, c <= d
  PROVE  /\ SubIndex(c, Pm10Breakpoints) \in 0..500
         /\ SubIndex(c, Pm10Breakpoints) <= SubIndex(d, Pm10Breakpoints)
<1> DEFINE V(x) == SubIndex(x, Pm10Breakpoints)
<1>1. /\ \A x \in Nat : x <= 54 => V(x) \in 0..50
      /\ \A x, y \in Nat : x <= y /\ x <= 54 /\ y <= 54 => V(x) <= V(y)
  <2>1. \A x \in Nat : x <= 54 => V(x) = (100 * x + 54) \div 108
    BY Pm10Pieces
  <2> HIDE DEF V
  <2>2. \A x \in Nat : x <= 54 => (100 * x + 54) \div 108 \in 0..50
    OBVIOUS
  <2>3. \A x, y \in Nat : x <= y => (100 * x + 54) \div 108 <= (100 * y + 54) \div 108
    OBVIOUS
  <2> QED BY <2>1, <2>2, <2>3
<1>2. /\ \A x \in Nat : x > 54 /\ x <= 154 => V(x) \in 51..100
      /\ \A x, y \in Nat : x <= y /\ x > 54 /\ x <= 154 /\ y > 54 /\ y <= 154 => V(x) <= V(y)
  <2>1. \A x \in Nat : x > 54 /\ x <= 154 => V(x) = 51 + (98 * x - 98 * 55 + 99) \div 198
    BY Pm10Pieces
  <2> HIDE DEF V
  <2> QED BY <2>1
<1>3. /\ \A x \in Nat : x > 154 /\ x <= 254 => V(x) \in 101..150
      /\ \A x, y \in Nat : x <= y /\ x > 154 /\ x <= 254 /\ y > 154 /\ y <= 254 => V(x) <= V(y)
  <2>1. \A x \in Nat : x > 154 /\ x <= 254 => V(x) = 101 + (98 * x - 98 * 155 + 99) \div 198
    BY Pm10Pieces
  <2> HIDE DEF V
  <2> QED BY <2>1
<1>4. /\ \A x \in Nat : x > 254 /\ x <= 354 => V(x) \in 151..200
      /\ \A x, y \in Nat : x <= y /\ x > 254 /\ x <= 354 /\ y > 254 /\ y <= 354 => V(x) <= V(y)
  <2>1. \A x \in Nat : x > 254 /\ x <= 354 => V(x) = 151 + (98 * x - 98 * 255 + 99) \div 198
    BY Pm10Pieces
  <2> HIDE DEF V
  <2> QED BY <2>1
<1>5. /\ \A x \in Nat : x > 354 /\ x <= 424 => V(x) \in 201..300
      /\ \A x, y \in Nat : x <= y /\ x > 354 /\ x <= 424 /\ y > 354 /\ y <= 424 => V(x) <= V(y)
  <2>1. \A x \in Nat : x > 354 /\ x <= 424 => V(x) = 201 + (198 * x - 198 * 355 + 69) \div 138
    BY Pm10Pieces
  <2> HIDE DEF V
  <2> QED BY <2>1
<1>6. /\ \A x \in Nat : x > 424 => V(x) \in 301..500
      /\ \A x, y \in Nat : x <= y /\ x > 424 /\ y > 424 => V(x) <= V(y)
  <2>1. \A x \in Nat : x > 424 => V(x) = 301 + (398 * (IF x > 604 THEN 604 ELSE x) - 398 * 425 + 179) \div 358
    BY Pm10Pieces
  <2> HIDE DEF V
  <2> QED BY <2>1
<1> HIDE DEF V
<1>7. /\ c <= 54 => V(c) \in Int /\ 0 <= V(c) /\ V(c) <= 50
      /\ c > 54 /\ c <= 154 => V(c) \in Int /\ 51 <= V(c) /\ V(c) <= 100
      /\ c > 154 /\ c <= 254 => V(c) \in Int /\ 101 <= V(c) /\ V(c) <= 150
      /\ c > 254 /\ c <= 354 => V(c) \in Int /\ 151 <= V(c) /\ V(c) <= 200
      /\ c > 354 /\ c <= 424 => V(c) \in Int /\ 201 <= V(c) /\ V(c) <= 300
      /\ c > 424 => V(c) \in Int /\ 301 <= V(c) /\ V(c) <= 500
  BY <1>1, <1>2, <1>3, <1>4, <1>5, <1>6
<1>8. /\ d <= 54 => V(d) \in Int /\ 0 <= V(d) /\ V(d) <= 50
      /\ d > 54 /\ d <= 154 => V(d) \in Int /\ 51 <= V(d) /\ V(d) <= 100
      /\ d > 154 /\ d <= 254 => V(d) \in Int /\ 101 <= V(d) /\ V(d) <= 150
      /\ d > 254 /\ d <= 354 => V(d) \in Int /\ 151 <= V(d) /\ V(d) <= 200
      /\ d > 354 /\ d <= 424 => V(d) \in Int /\ 201 <= V(d) /\ V(d) <= 300
      /\ d > 424 => V(d) \in Int /\ 301 <= V(d) /\ V(d) <= 500
  BY <1>1, <1>2, <1>3, <1>4, <1>5, <1>6
<1>9. /\ c <= 54 /\ d <= 54 => V(c) <= V(d)
      /\ c > 54 /\ c <= 154 /\ d > 54 /\ d <= 154 => V(c) <= V(d)
      /\ c > 154 /\ c <= 254 /\ d > 154 /\ d <= 254 => V(c) <= V(d)
      /\ c > 254 /\ c <= 354 /\ d > 254 /\ d <= 354 => V(c) <= V(d)
      /\ c > 354 /\ c <= 424 /\ d > 354 /\ d <= 424 => V(c) <= V(d)
      /\ c > 424 /\ d > 424 => V(c) <= V(d)
  BY <1>1, <1>2, <1>3, <1>4, <1>5, <1>6
<1>10. V(c) \in 0..500 /\ V(c) <= V(d)
  BY <1>7, <1>8, <1>9
<1> QED BY <1>10 DEF V

-----------------------------------------------------------------------------
\* What of a concentration counts: nothing below zero, whole ug/m3 of PM10.
LEMMA Counted ==
  ASSUME NEW c \in Int, NEW d \in Int, c <= d
  PROVE  /\ NonNegative(c) \in Nat /\ NonNegative(c) \div 10 \in Nat
         /\ NonNegative(d) \in Nat /\ NonNegative(d) \div 10 \in Nat
         /\ NonNegative(c) <= NonNegative(d)
         /\ NonNegative(c) \div 10 <= NonNegative(d) \div 10
<1>1. /\ NonNegative(c) \in Nat /\ NonNegative(d) \in Nat
      /\ NonNegative(c) <= NonNegative(d)
  BY DEF NonNegative
<1>2. \A m, n \in Nat : m <= n => /\ m \div 10 \in Nat /\ n \div 10 \in Nat
                                 /\ m \div 10 <= n \div 10
  OBVIOUS
<1> QED BY <1>1, <1>2

(* Every reading has an index on the scale of 0 to 500, whatever the       *)
(* sensor reports: below zero and above the table included (aqi.ts:37-67). *)
THEOREM AqiOnScale ==
  ASSUME NEW pm25 \in Int, NEW pm10 \in Int
  PROVE  CalculateAqi(pm25, pm10) \in 0..500
<1>1. /\ NonNegative(pm25) \in Nat /\ NonNegative(pm25) <= NonNegative(pm25)
      /\ NonNegative(pm10) \div 10 \in Nat
      /\ NonNegative(pm10) \div 10 <= NonNegative(pm10) \div 10
  BY Counted
<1>2. SubIndex(NonNegative(pm25), Pm25Breakpoints) \in 0..500
  BY <1>1, Pm25Monotone
<1>3. SubIndex(NonNegative(pm10) \div 10, Pm10Breakpoints) \in 0..500
  BY <1>1, Pm10Monotone
<1> QED BY <1>2, <1>3 DEF CalculateAqi, Larger

(* More of both pollutants never gives a better index, across every border *)
(* of the bands (aqi.ts:31-49).                                            *)
THEOREM AqiMonotone ==
  ASSUME NEW a25 \in Int, NEW a10 \in Int, NEW b25 \in Int, NEW b10 \in Int,
         a25 <= b25, a10 <= b10
  PROVE  CalculateAqi(a25, a10) <= CalculateAqi(b25, b10)
<1> DEFINE P(x) == SubIndex(NonNegative(x), Pm25Breakpoints)
           Q(x) == SubIndex(NonNegative(x) \div 10, Pm10Breakpoints)
<1>1. /\ NonNegative(a25) \in Nat /\ NonNegative(b25) \in Nat
      /\ NonNegative(a25) <= NonNegative(b25)
      /\ NonNegative(a10) \div 10 \in Nat /\ NonNegative(b10) \div 10 \in Nat
      /\ NonNegative(a10) \div 10 <= NonNegative(b10) \div 10
  BY Counted
<1>2. P(a25) \in Int /\ P(b25) \in Int /\ P(a25) <= P(b25)
  <2>1. P(a25) \in 0..500 /\ P(a25) <= P(b25)
    BY <1>1, Pm25Monotone
  <2>2. P(b25) \in 0..500
    <3>1. NonNegative(b25) <= NonNegative(b25)
      BY <1>1
    <3> QED BY <1>1, <3>1, Pm25Monotone
  <2> QED BY <2>1, <2>2
<1>3. Q(a10) \in Int /\ Q(b10) \in Int /\ Q(a10) <= Q(b10)
  <2>1. Q(a10) \in 0..500 /\ Q(a10) <= Q(b10)
    BY <1>1, Pm10Monotone
  <2>2. Q(b10) \in 0..500
    <3>1. NonNegative(b10) \div 10 <= NonNegative(b10) \div 10
      BY <1>1
    <3> QED BY <1>1, <3>1, Pm10Monotone
  <2> QED BY <2>1, <2>2
<1>4. CalculateAqi(a25, a10) = Larger(P(a25), Q(a10)) /\ CalculateAqi(b25, b10) = Larger(P(b25), Q(b10))
  BY DEF CalculateAqi
<1> HIDE DEF P, Q
<1> QED BY <1>2, <1>3, <1>4 DEF Larger

(* The dashboard's own tables and arithmetic give every pair of            *)
(* concentrations the index the server gives it (dashboard lib/aqi.ts).    *)
THEOREM ScalesAgree ==
  ASSUME NEW pm25 \in Int, NEW pm10 \in Int
  PROVE  ParticlesToAqi(pm25, pm10) = CalculateAqi(pm25, pm10)
<1>1. DashboardPm25 = Pm25Breakpoints /\ DashboardPm10 = Pm10Breakpoints
  BY DEF DashboardPm25, Pm25Breakpoints, DashboardPm10, Pm10Breakpoints
<1> QED BY <1>1 DEF ParticlesToAqi, Pm25ToAqi, Pm10ToAqi, CalculateAqi

-----------------------------------------------------------------------------
(* The readings in the cache and on the dashboard.                         *)
Rated(r) == \/ r = NoReading
            \/ /\ r.time \in Int /\ r.pm25 \in Int /\ r.pm10 \in Int
               /\ r.aqi = CalculateAqi(r.pm25, r.pm10)

ReadingsRated ==
  /\ redis \in [Devices -> {redis[d] : d \in Devices}]
  /\ latest \in [Devices -> {latest[d] : d \in Devices}]
  /\ clock \in Int
  /\ \A d \in Devices : Rated(redis[d]) /\ Rated(latest[d])

\* A new reading carries the index of what was measured.
LEMMA NewReadingRated ==
  ASSUME NEW d \in Devices, NEW p \in Particles[d], clock \in Int
  PROVE  Rated(ReadingOf(p)) /\ ReadingOf(p).time = clock
<1>1. p[1] \in Int /\ p[2] \in Int
  BY RegistryAssumption
<1> QED BY <1>1 DEF ReadingOf, Rated

LEMMA RatedStep == ReadingsRated /\ [Next]_vars => ReadingsRated'
<1> SUFFICES ASSUME ReadingsRated, [Next]_vars PROVE ReadingsRated'
  OBVIOUS
<1>1. CASE UNCHANGED <<redis, latest>> /\ clock' \in Int
  BY <1>1 DEF ReadingsRated
<1>2. ASSUME NEW d \in Devices, NEW pushed \in BOOLEAN, Land(d, pushed)
      PROVE  ReadingsRated'
  <2>1. PICK p \in Particles[d] :
          /\ redis' = [redis EXCEPT ![d] = ReadingOf(p)]
          /\ latest' \in {latest, [latest EXCEPT ![d] = ReadingOf(p)]}
    BY <1>2 DEF Land, Applied
  <2>2. clock' = clock
    BY <1>2 DEF Land
  <2>3. Rated(ReadingOf(p))
    BY NewReadingRated DEF ReadingsRated
  <2>4. \A e \in Devices : /\ redis'[e] \in {redis[e], ReadingOf(p)}
                           /\ latest'[e] \in {latest[e], ReadingOf(p)}
    BY <2>1 DEF ReadingsRated
  <2>5. /\ redis' \in [Devices -> {redis'[e] : e \in Devices}]
        /\ latest' \in [Devices -> {latest'[e] : e \in Devices}]
    BY <2>1 DEF ReadingsRated
  <2> QED BY <2>2, <2>3, <2>4, <2>5 DEF ReadingsRated, Rated
<1>3. CASE Load \/ SyncLatest
  <2>1. redis' = redis /\ clock' = clock
    BY <1>3 DEF Load, SyncLatest, server
  <2>2. \E f : latest' = [d \in Devices |-> f[d]]
    BY <1>3 DEF Load, SyncLatest
  <2>3. \A d \in Devices : latest'[d] \in {NoReading, redis[d], latest[d]}
    BY <1>3 DEF Load, SyncLatest
  <2>4. latest' \in [Devices -> {latest'[d] : d \in Devices}]
    BY <2>2
  <2> QED BY <2>1, <2>3, <2>4 DEF ReadingsRated, Rated
<1>4. CASE ClockTick
  BY <1>1, <1>4 DEF ClockTick, store, ReadingsRated
<1>5. CASE \/ Admin \/ Seed \/ ViewTick \/ QueuedRefresh \/ UNCHANGED vars
           \/ \E synced \in BOOLEAN : Refresh(synced)
           \/ \E list \in lists : ListArrives(list) \/ ListFails(list)
  <2>1. UNCHANGED <<redis, latest, clock>>
    BY <1>5 DEF Admin, Create, Update, Retire, Seed, Write, ViewTick, QueuedRefresh, Refresh,
                ListArrives, ListFails, vars, server, store
  <2> QED BY <1>1, <2>1 DEF ReadingsRated
<1> QED BY <1>2, <1>3, <1>4, <1>5 DEF Next, Dashboard

(* Of two readings shown the one with more of both pollutants never shows  *)
(* the better index, and the dashboard's charts use the same scale.        *)
THEOREM ScaleIsSound == Spec => []ScaleSound
<1>1. Init => ReadingsRated
  BY DEF Init, ReadingsRated, Rated
<1>2. ReadingsRated => ScaleSound
  <2> SUFFICES ASSUME ReadingsRated, NEW d \in Devices, NEW e \in Devices,
                      latest[d] # NoReading, latest[e] # NoReading
               PROVE  /\ latest[d].pm25 <= latest[e].pm25 /\ latest[d].pm10 <= latest[e].pm10
                           => latest[d].aqi <= latest[e].aqi
                      /\ ParticlesToAqi(latest[d].pm25, latest[d].pm10) = latest[d].aqi
    BY DEF ScaleSound
  <2>1. /\ latest[d].pm25 \in Int /\ latest[d].pm10 \in Int
        /\ latest[d].aqi = CalculateAqi(latest[d].pm25, latest[d].pm10)
        /\ latest[e].pm25 \in Int /\ latest[e].pm10 \in Int
        /\ latest[e].aqi = CalculateAqi(latest[e].pm25, latest[e].pm10)
    BY DEF ReadingsRated, Rated
  <2> QED BY <2>1, AqiMonotone, ScalesAgree
<1> QED BY <1>1, <1>2, RatedStep, PTL DEF Spec

-----------------------------------------------------------------------------
(* The status of a sensor.                                                 *)
\* Every row of the table is a sensor with a status of the contract.
TableInv == table \in [Devices -> Sensor \cup {NoSensor}]

\* Seeding keeps the status of every sensor that is registered.
LEMMA SeedKeepsStatus ==
  ASSUME TableInv, Seed, NEW d \in Devices, table[d] # NoSensor
  PROVE  table'[d].status = table[d].status /\ table'[d].isActive = table[d].isActive
<1>1. table'[d] \in {table[d], [table[d] EXCEPT !.place = SeedPlace]}
  BY DEF Seed, Write, Seeded
<1>2. table[d] \in Sensor
  BY DEF TableInv
<1> QED BY <1>1, <1>2 DEF Sensor

\* What a request makes of a row.
LEMMA RowsAreSensors == \A r \in Requests : Row(r) \in Sensor
<1> SUFFICES ASSUME NEW r \in Requests PROVE Row(r) \in Sensor
  OBVIOUS
<1>1. (r.status = "active") \in BOOLEAN
  OBVIOUS
<1> QED BY <1>1 DEF Requests, Row, Sensor

LEMMA TableStep == TableInv /\ [Next]_vars => TableInv'
<1> SUFFICES ASSUME TableInv, [Next]_vars PROVE TableInv'
  OBVIOUS
<1>1. ASSUME NEW d \in Devices, NEW s \in Sensor, Write([table EXCEPT ![d] = s])
      PROVE  TableInv'
  BY <1>1 DEF Write, TableInv
<1>2. ASSUME NEW d \in Devices, NEW key \in {"dev-admin-key", "secret"},
             Create(d, key) \/ Update(d, key)
      PROVE  TableInv'
  <2>1. PICK r \in Requests : Write([table EXCEPT ![d] = Row(r)])
    BY <1>2 DEF Create, Update
  <2> QED BY <1>1, <2>1, RowsAreSensors
<1>3. ASSUME NEW d \in Devices, NEW key \in {"dev-admin-key", "secret"}, Retire(d, key)
      PROVE  TableInv'
  <2>1. table[d] \in Sensor /\ "retired" \in Statuses
    BY <1>3, RegistryAssumption DEF Retire, TableInv
  <2>2. WithStatus(table[d], "retired") \in Sensor
    BY <2>1 DEF Sensor, WithStatus
  <2> QED BY <1>1, <1>3, <2>2 DEF Retire
<1>4. CASE Seed
  <2>1. "active" \in Statuses /\ SeedPlace \in Names
    BY RegistryAssumption
  <2>2. ASSUME NEW d \in Devices PROVE Seeded(table[d], SeedPlace) \in Sensor
    BY <2>1 DEF Seeded, TableInv, Sensor
  <2>3. table' = [d \in Devices |-> IF d \in Fixtures THEN Seeded(table[d], SeedPlace)
                                                      ELSE table[d]]
    BY <1>4 DEF Seed, Write
  <2> QED BY <2>2, <2>3 DEF TableInv
<1>5. CASE \/ ClockTick \/ Dashboard \/ UNCHANGED vars
           \/ \E d \in Devices, pushed \in BOOLEAN : Land(d, pushed)
  BY <1>5 DEF ClockTick, Dashboard, Load, ViewTick, QueuedRefresh, SyncLatest, Refresh,
              ListArrives, ListFails, Land, vars, server, TableInv
<1> QED BY <1>2, <1>3, <1>4, <1>5 DEF Next, Admin

(* Only an authorized request changes the status of a registered sensor;   *)
(* seeding again never does.                                               *)
THEOREM StatusChangesByAdmin == Spec => StatusByAdmin
<1> DEFINE Claim == \A d \in Devices :
              table[d] # NoSensor /\ <<table'[d].status, table'[d].isActive>> #
                                     <<table[d].status, table[d].isActive>>
              => env.key # "none" /\ ~(env.prod /\ env.key = "dev-admin-key") /\ ~Seed
<1>1. Init => TableInv
  BY DEF Init, TableInv
<1>2. TableInv /\ [Next]_vars => [Claim]_vars
  <2> SUFFICES ASSUME TableInv, Next, NEW d \in Devices, table[d] # NoSensor,
                      <<table'[d].status, table'[d].isActive>> #
                        <<table[d].status, table[d].isActive>>
               PROVE  env.key # "none" /\ ~(env.prod /\ env.key = "dev-admin-key") /\ ~Seed
    OBVIOUS
  <2>1. ~Seed
    BY SeedKeepsStatus
  <2>2. table' # table
    OBVIOUS
  <2>3. Admin
    BY <2>1, <2>2 DEF Next, ClockTick, Dashboard, Load, ViewTick, QueuedRefresh, SyncLatest,
                      Refresh, ListArrives, ListFails, Land, server
  <2> QED BY <2>1, <2>3 DEF Admin, Create, Update, Retire, Authorized
<1> QED BY <1>1, <1>2, TableStep, PTL DEF Spec, StatusByAdmin

-----------------------------------------------------------------------------
(* Places.                                                                 *)

(* The history the API serves for a place covers the sensors the dashboard *)
(* groups under it.                                                        *)
THEOREM PlacesAgreeAlways == Spec => []PlacesAgree
<1>1. PlacesAgree
  <2> SUFFICES ASSUME listed = table,
                      \A d \in Registered(table) : table[d].place = NoPlace
                                                   \/ table[d].place.word # "",
                      NEW d \in Registered(listed), listed[d].place # NoPlace
               PROVE  Scope(listed[d].place) = Group(Slugify(listed[d].place))
    BY DEF PlacesAgree
  <2>1. ASSUME NEW e \in Devices, table[e].isActive PROVE e \in Registered(table)
    <3>1. ~NoSensor.isActive
      BY DEF NoSensor
    <3>2. table[e] # NoSensor
      BY <2>1, <3>1
    <3> QED BY <3>2 DEF Registered
  <2>2. \A e \in Registered(table) : table[e].place # NoPlace =>
          /\ Slugify(table[e].place) = table[e].place.word
          /\ PlaceKey(table[e].place) = table[e].place.word
    BY DEF Slugify, PlaceKey
  <2>3. \A e \in Devices : e \in Scope(table[d].place) <=>
          /\ table[e].isActive /\ table[e].place # NoPlace
          /\ table[e].place.word = table[d].place.word
    BY DEF Scope, Active, PlaceKey
  <2>4. \A e \in Devices : e \in Group(Slugify(table[d].place)) <=>
          /\ table[e].isActive /\ table[e].place # NoPlace
          /\ table[e].place.word = table[d].place.word
    BY <2>1, <2>2 DEF Group
  <2>5. /\ Scope(table[d].place) \subseteq Devices
        /\ Group(Slugify(table[d].place)) \subseteq Devices
    BY DEF Scope, Active, Group, Registered
  <2>6. Scope(table[d].place) = Group(Slugify(table[d].place))
    BY <2>3, <2>4, <2>5
  <2> QED BY <2>6
<1> QED BY <1>1, PTL

-----------------------------------------------------------------------------
(* Types.                                                                  *)
ReadingsTyped ==
  /\ clock \in 0..MaxTime
  /\ redis \in [Devices -> Reading \cup {NoReading}]
  /\ latest \in [Devices -> Reading \cup {NoReading}]

ListsTyped ==
  /\ listed \in [Devices -> Sensor \cup {NoSensor}]
  /\ lists \subseteq [Devices -> Sensor \cup {NoSensor}]
  /\ IsFiniteSet(lists) /\ Cardinality(lists) <= MaxLists

CountsTyped ==
  /\ env \in Environments
  /\ now \in Int /\ skew \in Skews \cup {0}
  /\ unknown \subseteq Devices /\ queued \in BOOLEAN /\ ready \in BOOLEAN
  /\ changes \in 0..MaxChanges

\* A reading that lands has an index on the scale and the time of the server.
LEMMA NewReadingTyped ==
  ASSUME NEW d \in Devices, NEW p \in Particles[d], clock \in 0..MaxTime
  PROVE  ReadingOf(p) \in Reading
<1>1. p[1] \in Int /\ p[2] \in Int
  BY RegistryAssumption
<1>2. CalculateAqi(p[1], p[2]) \in 0..500
  BY <1>1, AqiOnScale
<1> QED BY <1>1, <1>2 DEF ReadingOf, Reading

LEMMA ReadingsTypedStep == ReadingsTyped /\ [Next]_vars => ReadingsTyped'
<1> SUFFICES ASSUME ReadingsTyped, [Next]_vars PROVE ReadingsTyped'
  OBVIOUS
<1>1. ASSUME NEW d \in Devices, NEW pushed \in BOOLEAN, Land(d, pushed)
      PROVE  ReadingsTyped'
  <2>1. PICK p \in Particles[d] :
          /\ redis' = [redis EXCEPT ![d] = ReadingOf(p)]
          /\ latest' \in {latest, [latest EXCEPT ![d] = ReadingOf(p)]}
    BY <1>1 DEF Land, Applied
  <2>2. clock' = clock /\ ReadingOf(p) \in Reading
    BY <1>1, NewReadingTyped DEF Land, ReadingsTyped
  <2> QED BY <2>1, <2>2 DEF ReadingsTyped
<1>2. CASE Load \/ SyncLatest
  <2>1. redis' = redis /\ clock' = clock
    BY <1>2 DEF Load, SyncLatest, server
  <2>2. latest' \in [Devices -> Reading \cup {NoReading}]
    BY <1>2 DEF Load, SyncLatest, ReadingsTyped
  <2> QED BY <2>1, <2>2 DEF ReadingsTyped
<1>3. CASE ClockTick
  <2>1. clock < MaxTime /\ clock' = clock + 1 /\ UNCHANGED <<redis, latest>>
    BY <1>3 DEF ClockTick, store
  <2>2. clock' \in 0..MaxTime
    BY <2>1, RegistryAssumption DEF ReadingsTyped
  <2> QED BY <2>1, <2>2 DEF ReadingsTyped
<1>4. CASE UNCHANGED <<redis, latest, clock>>
  BY <1>4 DEF ReadingsTyped
<1> QED BY <1>1, <1>2, <1>3, <1>4 DEF Next, Dashboard, Admin, Create, Update, Retire, Seed, Write,
           ViewTick, QueuedRefresh, Refresh, ListArrives, ListFails, vars, server, store

\* No more lists are asked for than MaxLists, and each is a table there was.
LEMMA ListsTypedStep == TableInv /\ ListsTyped /\ [Next]_vars => ListsTyped'
<1> SUFFICES ASSUME TableInv, ListsTyped, [Next]_vars PROVE ListsTyped'
  OBVIOUS
<1>1. CASE QueuedRefresh \/ \E synced \in BOOLEAN : Refresh(synced)
  <2>1. /\ lists' = lists \cup {table} /\ Cardinality(lists \cup {table}) <= MaxLists
        /\ listed' = listed
    BY <1>1 DEF QueuedRefresh, Refresh, AskList
  <2>2. IsFiniteSet(lists \cup {table})
    BY FS_AddElement DEF ListsTyped
  <2> QED BY <2>1, <2>2 DEF ListsTyped, TableInv
<1>2. ASSUME NEW list \in lists, ListArrives(list) \/ ListFails(list) PROVE ListsTyped'
  <2>1. lists' = lists \ {list} /\ listed' \in {listed, list}
    BY <1>2 DEF ListArrives, ListFails, Shown, store
  <2>2. lists \ {list} \subseteq lists
    OBVIOUS
  <2>3. IsFiniteSet(lists \ {list}) /\ Cardinality(lists \ {list}) <= Cardinality(lists)
    BY <2>2, FS_Subset DEF ListsTyped
  <2>4. /\ Cardinality(lists \ {list}) \in Nat /\ Cardinality(lists) \in Nat
        /\ MaxLists \in Nat
    BY <2>3, FS_CardinalityType, RegistryAssumption DEF ListsTyped
  <2>5. Cardinality(lists \ {list}) <= MaxLists
    BY <2>3, <2>4 DEF ListsTyped
  <2> QED BY <2>1, <2>3, <2>5 DEF ListsTyped
<1>3. CASE Load
  <2>1. lists' = lists /\ listed' = table
    BY <1>3 DEF Load
  <2> QED BY <2>1 DEF ListsTyped, TableInv
<1>4. CASE UNCHANGED <<listed, lists>>
  BY <1>4 DEF ListsTyped
<1> QED BY <1>1, <1>2, <1>3, <1>4 DEF Next, Dashboard, Admin, Create, Update, Retire, Seed, Write,
           ClockTick, Land, ViewTick, SyncLatest, vars, store

LEMMA CountsTypedStep == ReadingsTyped /\ CountsTyped /\ [Next]_vars => CountsTyped'
<1> SUFFICES ASSUME ReadingsTyped, CountsTyped, [Next]_vars PROVE CountsTyped'
  OBVIOUS
<1>1. clock \in Int /\ skew \in Int /\ now \in Int /\ Skews \subseteq Int
  BY RegistryAssumption DEF ReadingsTyped, CountsTyped
<1>2. changes' \in 0..MaxChanges
  <2>1. changes' = changes \/ (changes < MaxChanges /\ changes' = changes + 1)
    BY DEF Next, Dashboard, Admin, Create, Update, Retire, Seed, Write, ClockTick, Land, Load,
           ViewTick, QueuedRefresh, Refresh, ListArrives, ListFails, SyncLatest, vars
  <2> QED BY <2>1, RegistryAssumption DEF CountsTyped
<1>3. env' = env
  BY DEF Next, Dashboard, Admin, Create, Update, Retire, Seed, Write, ClockTick, Land, Load,
         ViewTick, QueuedRefresh, Refresh, ListArrives, ListFails, SyncLatest, vars, server
<1>4. ASSUME NEW d \in Devices, NEW pushed \in BOOLEAN, Land(d, pushed)
      PROVE  CountsTyped'
  <2>1. /\ now' \in {now, Larger(now, clock + skew)} /\ skew' = skew
        /\ unknown' \in {unknown, unknown \cup {d}} /\ ready' = ready
    BY <1>4 DEF Land
  <2>2. queued' \in BOOLEAN
    BY <1>4 DEF Land
  <2>3. Larger(now, clock + skew) \in Int
    BY <1>1 DEF Larger
  <2> QED BY <1>1, <1>2, <1>3, <2>1, <2>2, <2>3 DEF CountsTyped
<1>5. CASE Load \/ ViewTick \/ SyncLatest
  <2>1. /\ skew' \in {0, skew} /\ now' = clock + skew' /\ ready' \in {ready, TRUE}
        /\ UNCHANGED <<unknown, queued>>
    BY <1>5 DEF Load, ViewTick, SyncLatest
  <2>2. skew' \in Int /\ now' \in Int
    BY <1>1, <2>1
  <2> QED BY <1>2, <1>3, <2>1, <2>2 DEF CountsTyped
<1>6. CASE QueuedRefresh \/ \E synced \in BOOLEAN : Refresh(synced)
  <2>1. /\ skew' \in {0, skew} /\ now' = now /\ ready' = ready
        /\ unknown' \in {{}, unknown} /\ queued' \in {queued, FALSE}
    BY <1>6 DEF QueuedRefresh, Refresh
  <2> QED BY <1>2, <1>3, <2>1 DEF CountsTyped
<1>7. CASE UNCHANGED <<now, skew, unknown, queued, ready>>
  BY <1>2, <1>3, <1>7 DEF CountsTyped
<1> QED BY <1>4, <1>5, <1>6, <1>7 DEF Next, Dashboard, Admin, Create, Update, Retire, Seed, Write,
           ClockTick, ListArrives, ListFails, vars, store

(* Every variable of the registry, the cache and the dashboard keeps its   *)
(* type: indices stay on the scale, every list that arrives was a table of *)
(* whole rows, and no more requests are in flight than the bound.          *)
THEOREM TypesHold == Spec => []TypeOK
<1> DEFINE IInv == TableInv /\ ReadingsTyped /\ ListsTyped /\ CountsTyped
<1>1. Init => IInv
  <2> SUFFICES ASSUME Init PROVE IInv
    OBVIOUS
  <2>1. MaxTime \in Nat /\ MaxLists \in Nat /\ MaxChanges \in Nat /\ Skews \subseteq Int
    BY RegistryAssumption
  <2>2. IsFiniteSet({}) /\ Cardinality({}) = 0
    BY FS_EmptySet
  <2>3. TableInv /\ ReadingsTyped
    BY <2>1 DEF Init, TableInv, ReadingsTyped
  <2>4. ListsTyped
    BY <2>1, <2>2 DEF Init, ListsTyped
  <2>5. CountsTyped
    <3>1. changes \in 0..MaxChanges
      BY <2>1 DEF Init
    <3>2. env \in Environments /\ now \in Int /\ skew \in Skews \cup {0}
      BY DEF Init
    <3>3. unknown \subseteq Devices /\ queued \in BOOLEAN /\ ready \in BOOLEAN
      BY DEF Init
    <3> QED BY <3>1, <3>2, <3>3 DEF CountsTyped
  <2> QED BY <2>3, <2>4, <2>5
<1>2. IInv /\ [Next]_vars => IInv'
  BY TableStep, ReadingsTypedStep, ListsTypedStep, CountsTypedStep
<1>3. IInv => TypeOK
  BY DEF TableInv, ReadingsTyped, ListsTyped, CountsTyped, TypeOK
<1> QED BY <1>1, <1>2, <1>3, PTL DEF Spec
=============================================================================
