-------------------------------- MODULE Aqi --------------------------------
(***************************************************************************)
(* The air quality index, twice: as the server computes it for every       *)
(* reading (packages/domain/src/aqi.ts) and as the dashboard computes it   *)
(* for hourly means (apps/dashboard/src/lib/aqi.ts).  Concentrations are   *)
(* in tenths of ug/m3, rounded down: both sides look at no finer digit.    *)
(* A breakpoint is <<cLow, cHigh, iLow, iHigh>>; the bounds of PM2.5 are   *)
(* in tenths, those of PM10 in whole ug/m3.                                *)
(***************************************************************************)
EXTENDS Integers, Sequences

Pm25Breakpoints == << <<0, 90, 0, 50>>, <<91, 354, 51, 100>>, <<355, 554, 101, 150>>,
                      <<555, 1254, 151, 200>>, <<1255, 2254, 201, 300>>,
                      <<2255, 3254, 301, 500>> >>
Pm10Breakpoints == << <<0, 54, 0, 50>>, <<55, 154, 51, 100>>, <<155, 254, 101, 150>>,
                      <<255, 354, 151, 200>>, <<355, 424, 201, 300>>,
                      <<425, 604, 301, 500>> >>

\* Math.round of n / d for a positive d: halves go up.
Round(n, d) == (2 * n + d) \div (2 * d)

\* The first band whose top reaches c, or the last one.
Band(c, table) ==
  IF \E i \in DOMAIN table : c <= table[i][2]
  THEN table[CHOOSE i \in DOMAIN table :
               c <= table[i][2] /\ \A j \in 1..(i - 1) : c > table[j][2]]
  ELSE table[Len(table)]

\* Mutant: a concentration above the top band is extrapolated.
SubIndexUncapped(c, table) ==
  LET b == Band(c, table)
  IN  b[3] + Round((b[4] - b[3]) * (c - b[1]), b[2] - b[1])

\* subIndex: linear within the band, clamped to it.
SubIndex(c, table) ==
  LET b  == Band(c, table)
      cc == IF c < b[1] THEN b[1] ELSE IF c > b[2] THEN b[2] ELSE c
  IN  b[3] + Round((b[4] - b[3]) * (cc - b[1]), b[2] - b[1])

NonNegative(c) == IF c < 0 THEN 0 ELSE c
Larger(a, b) == IF a >= b THEN a ELSE b

Category(aqi) == CASE aqi <= 50  -> "good"
                   [] aqi > 50  /\ aqi <= 100 -> "moderate"
                   [] aqi > 100 /\ aqi <= 150 -> "unhealthy-sensitive"
                   [] aqi > 150 /\ aqi <= 200 -> "unhealthy"
                   [] aqi > 200 /\ aqi <= 300 -> "very-unhealthy"
                   [] aqi > 300 -> "hazardous"

\* calculateAqi: the worse of the two pollutants.
CalculateAqi(pm25, pm10) ==
  Larger(SubIndex(NonNegative(pm25), Pm25Breakpoints),
         SubIndex(NonNegative(pm10) \div 10, Pm10Breakpoints))

-----------------------------------------------------------------------------
(* The dashboard's copy.                                                   *)
\* Mutant: the breakpoints of 2012, of a longer table.
Dashboard2012 == << <<0, 120, 0, 50>>, <<121, 354, 51, 100>>, <<355, 554, 101, 150>>,
                    <<555, 1504, 151, 200>>, <<1505, 2504, 201, 300>>,
                    <<2505, 3504, 301, 400>>, <<3505, 5004, 401, 500>> >>

DashboardPm25 == << <<0, 90, 0, 50>>, <<91, 354, 51, 100>>, <<355, 554, 101, 150>>,
                    <<555, 1254, 151, 200>>, <<1255, 2254, 201, 300>>,
                    <<2255, 3254, 301, 500>> >>
DashboardPm10 == << <<0, 54, 0, 50>>, <<55, 154, 51, 100>>, <<155, 254, 101, 150>>,
                    <<255, 354, 151, 200>>, <<355, 424, 201, 300>>,
                    <<425, 604, 301, 500>> >>

Pm25ToAqi(pm25) == SubIndex(NonNegative(pm25), DashboardPm25)
Pm10ToAqi(pm10) == SubIndex(NonNegative(pm10) \div 10, DashboardPm10)

ParticlesToAqi(pm25, pm10) == Larger(Pm25ToAqi(pm25), Pm10ToAqi(pm10))

\* AQI_CATEGORIES, <<min, max>> of levels 1 to 6.
Levels == << <<0, 50>>, <<51, 100>>, <<101, 150>>, <<151, 200>>, <<201, 300>>, <<301, 500>> >>
LevelOf(aqi) ==
  IF \E i \in DOMAIN Levels : aqi <= Levels[i][2]
  THEN CHOOSE i \in DOMAIN Levels : aqi <= Levels[i][2] /\ \A j \in 1..(i - 1) : aqi > Levels[j][2]
  ELSE Len(Levels)
=============================================================================
