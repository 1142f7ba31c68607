------------------------------- MODULE Codec -------------------------------
(***************************************************************************)
(* The bytes on the air, seen from both ends: what the firmware packs      *)
(* (firmware/core/aq_payload.c, aq_config_calibrate) and what the server   *)
(* makes of them (packages/telemetry-codec, the reading contract and the   *)
(* filter of ingestion).  Values are integers in the units of the wire:    *)
(* ug/m3 x10, degrees C x100, % x100, hPa, mV.                             *)
(***************************************************************************)
EXTENDS NodeConfig

PayloadLength  == 13
PayloadVersion == 1
PresentPm      == 16
PresentEnv     == 32

Clamp(v, lo, hi) == IF v < lo THEN lo ELSE IF v > hi THEN hi ELSE v

\* Mutant: a value past the wire's range wraps around.
ClampU16Wraps(v) == v % 65536

ClampU16(v) == Clamp(v, 0, U16Max)
ClampI16(v) == Clamp(v, -Int16Max - 1, Int16Max)

-----------------------------------------------------------------------------
(* The node: readings are [pm, env, pm25, pm10, temperature, humidity,     *)
(* pressure, batteryMv], pm and env telling which groups were measured.    *)
Calibrate(cfg, r) ==
  [r EXCEPT !.pm25 = IF r.pm THEN IF @ + cfg.pm < 0 THEN 0 ELSE @ + cfg.pm ELSE @,
            !.temperature = IF r.env THEN @ + cfg.temp ELSE @]

Presence(r) == (IF r.pm THEN PresentPm ELSE 0) + (IF r.env THEN PresentEnv ELSE 0)

\* aq_payload_encode; encodeUplink of the server's codec packs the same bytes.
PayloadEncode(r) ==
  LET pm25 == ClampU16(r.pm25)
      pm10 == ClampU16(r.pm10)
      temp == FromInt16(ClampI16(r.temperature))
      hum  == ClampU16(r.humidity)
      pres == ClampU16(r.pressure)
  IN  <<Lo(pm25), Hi(pm25), Lo(pm10), Hi(pm10), Lo(temp), Hi(temp), Lo(hum), Hi(hum),
        Lo(pres), Hi(pres), Lo(r.batteryMv), Hi(r.batteryMv), PayloadVersion + Presence(r)>>

-----------------------------------------------------------------------------
(* The server: decodeUplink throws unless Decodable.                       *)
Version(bytes) == bytes[13] % 16
Decodable(bytes) == Len(bytes) >= PayloadLength /\ Version(bytes) <= PayloadVersion

\* Version 0 predates the presence bits: everything is taken for present.
DecodeUplink(bytes) ==
  [pm   |-> Version(bytes) = 0 \/ (bytes[13] \div PresentPm) % 2 = 1,
   env  |-> Version(bytes) = 0 \/ (bytes[13] \div PresentEnv) % 2 = 1,
   pm25 |-> U16At(bytes, 1), pm10 |-> U16At(bytes, 3),
   temperature |-> ToInt16(U16At(bytes, 5)), humidity |-> U16At(bytes, 7),
   pressure |-> U16At(bytes, 9), batteryMv |-> U16At(bytes, 11)]

\* SensorReadingSchema: the ranges a reading must lie in to be stored.
Contract(d) == /\ d.pm25 \in U16 /\ d.pm10 \in U16
               /\ d.temperature >= -4000 /\ d.temperature <= 8500
               /\ d.humidity <= 10000
               /\ d.pressure >= 300 /\ d.pressure <= 1100

\* What handleUplink does with a telemetry payload.
Verdict(bytes) ==
  IF ~Decodable(bytes) THEN "error"
  ELSE LET d == DecodeUplink(bytes) IN
       IF ~d.pm /\ ~d.env THEN "heartbeat"
       ELSE IF ~d.pm \/ ~d.env THEN "incomplete"
       ELSE IF ~Contract(d) THEN "error"
       ELSE "stored"

-----------------------------------------------------------------------------
(* Config commands [command, value] and reports, on the server's side.     *)
Opcode == [setInterval |-> CmdSetInterval, setPmOffset |-> CmdSetPmOffset,
           setTempOffset |-> CmdSetTempOffset]
Limits == [setInterval   |-> <<120, 21600>>,
           setPmOffset   |-> <<-500, 500>>,
           setTempOffset |-> <<-1000, 1000>>]

\* assertDownlinkInRange: encodeDownlink refuses anything else.
InRange(cmd) == cmd.value >= Limits[cmd.command][1] /\ cmd.value <= Limits[cmd.command][2]

EncodeDownlink(cmd) ==
  LET v == FromInt16(cmd.value) IN <<Opcode[cmd.command], Lo(v), Hi(v)>>

Known(bytes) == Len(bytes) >= 3 /\ \E c \in DOMAIN Opcode : Opcode[c] = bytes[1]

DecodeDownlink(bytes) ==
  LET u == U16At(bytes, 2)
      c == CHOOSE n \in DOMAIN Opcode : Opcode[n] = bytes[1]
  IN  [command |-> c, value |-> IF c = "setInterval" THEN u ELSE ToInt16(u)]

ReportVersion == 1

ReadableReport(bytes) ==
  Len(bytes) >= 9 /\ bytes[1] = ReportVersion /\ bytes[2] <= ResultMalformed

\* decodeConfigReport: what the server believes of a node's settings.
DecodeReport(bytes) ==
  [lastResult |-> bytes[2], lastCommand |-> bytes[3], interval |-> U16At(bytes, 4),
   pm |-> ToInt16(U16At(bytes, 6)), temp |-> ToInt16(U16At(bytes, 8))]
=============================================================================
