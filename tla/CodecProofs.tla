---------------------------- MODULE CodecProofs ----------------------------
(***************************************************************************)
(* The two ends of the air agree, for every value: what the server decodes *)
(* is what the firmware packed, and every command the server sends or      *)
(* refuses is judged the same way by the node.                             *)
(***************************************************************************)
EXTENDS Codec, ConfigProofs

-----------------------------------------------------------------------------
(* Readings.                                                               *)
\* What the firmware packs: any measured values, a battery voltage of 16 bits.
Measurement == [pm: BOOLEAN, env: BOOLEAN, pm25: Int, pm10: Int, temperature: Int,
                humidity: Int, pressure: Int, batteryMv: U16]

\* clamp_u16 and clamp_i16 saturate into their ranges and keep what is in them.
LEMMA ClampRanges ==
  ASSUME NEW v \in Int
  PROVE  /\ ClampU16(v) \in U16 /\ ClampI16(v) \in Int16
         /\ v \in U16 => ClampU16(v) = v
         /\ v \in Int16 => ClampI16(v) = v
<1>1. ClampU16(v) = IF v < 0 THEN 0 ELSE IF v > 65535 THEN 65535 ELSE v
  BY NumericLimits DEF ClampU16, Clamp
<1>2. ClampI16(v) = IF v < -32768 THEN -32768 ELSE IF v > 32767 THEN 32767 ELSE v
  BY NumericLimits DEF ClampI16, Clamp
<1> QED BY <1>1, <1>2, U16Range, Int16Range

\* The version nibble and the presence bits share the last byte.
LEMMA FlagsRoundTrip ==
  ASSUME NEW r \in Measurement
  PROVE  LET b == PayloadVersion + Presence(r)
         IN  /\ b \in Byte /\ b % 16 = 1
             /\ r.pm <=> (b \div PresentPm) % 2 = 1
             /\ r.env <=> (b \div PresentEnv) % 2 = 1
<1>1. r.pm \in BOOLEAN /\ r.env \in BOOLEAN
  BY DEF Measurement
<1>2. /\ 1 \in Byte /\ 17 \in Byte /\ 33 \in Byte /\ 49 \in Byte
      /\ 1 % 16 = 1 /\ 17 % 16 = 1 /\ 33 % 16 = 1 /\ 49 % 16 = 1
  BY DEF Byte
<1>3. /\ (1 \div 16) % 2 = 0 /\ (17 \div 16) % 2 = 1
      /\ (33 \div 16) % 2 = 0 /\ (49 \div 16) % 2 = 1
      /\ (1 \div 32) % 2 = 0 /\ (17 \div 32) % 2 = 0
      /\ (33 \div 32) % 2 = 1 /\ (49 \div 32) % 2 = 1
  OBVIOUS
<1>4. PayloadVersion + Presence(r) =
        IF r.pm THEN IF r.env THEN 49 ELSE 17 ELSE IF r.env THEN 33 ELSE 1
  BY <1>1 DEF Presence, PayloadVersion, PresentPm, PresentEnv
<1> QED BY <1>1, <1>2, <1>3, <1>4 DEF PresentPm, PresentEnv

\* A payload is thirteen bytes, whatever was measured.
LEMMA UplinkBytes ==
  ASSUME NEW r \in Measurement
  PROVE  PayloadEncode(r) \in [1..PayloadLength -> Byte]
<1> DEFINE a == ClampU16(r.pm25)
           b == ClampU16(r.pm10)
           t == FromInt16(ClampI16(r.temperature))
           h == ClampU16(r.humidity)
           p == ClampU16(r.pressure)
           m == r.batteryMv
           f == PayloadVersion + Presence(r)
<1>1. a \in U16 /\ b \in U16 /\ h \in U16 /\ p \in U16 /\ m \in U16
  BY ClampRanges DEF Measurement
<1>2. t \in U16
  BY ClampRanges, U16OfInt16 DEF Measurement
<1>3. f \in Byte
  BY FlagsRoundTrip
<1>4. PayloadEncode(r) = <<Lo(a), Hi(a), Lo(b), Hi(b), Lo(t), Hi(t), Lo(h), Hi(h),
                           Lo(p), Hi(p), Lo(m), Hi(m), f>>
  BY DEF PayloadEncode
<1> HIDE DEF a, b, t, h, p, m, f
<1>5. /\ Lo(a) \in Byte /\ Hi(a) \in Byte /\ Lo(b) \in Byte /\ Hi(b) \in Byte
      /\ Lo(t) \in Byte /\ Hi(t) \in Byte /\ Lo(h) \in Byte /\ Hi(h) \in Byte
      /\ Lo(p) \in Byte /\ Hi(p) \in Byte /\ Lo(m) \in Byte /\ Hi(m) \in Byte
  BY <1>1, <1>2, BytesOfU16
<1> QED BY <1>3, <1>4, <1>5 DEF PayloadLength

(* The server decodes from a payload what the firmware packed into it, up  *)
(* to the saturation of the fields (aq_payload.c:4-32, index.ts:48-77).    *)
THEOREM UplinkRoundTrip ==
  ASSUME NEW r \in Measurement
  PROVE  /\ Decodable(PayloadEncode(r))
         /\ Version(PayloadEncode(r)) = PayloadVersion
         /\ DecodeUplink(PayloadEncode(r)) =
              [pm |-> r.pm, env |-> r.env,
               pm25 |-> ClampU16(r.pm25), pm10 |-> ClampU16(r.pm10),
               temperature |-> ClampI16(r.temperature),
               humidity |-> ClampU16(r.humidity), pressure |-> ClampU16(r.pressure),
               batteryMv |-> r.batteryMv]
<1> DEFINE a == ClampU16(r.pm25)
           b == ClampU16(r.pm10)
           t == FromInt16(ClampI16(r.temperature))
           h == ClampU16(r.humidity)
           p == ClampU16(r.pressure)
           m == r.batteryMv
           f == PayloadVersion + Presence(r)
           bytes == PayloadEncode(r)
<1>1. a \in U16 /\ b \in U16 /\ h \in U16 /\ p \in U16 /\ m \in U16
  BY ClampRanges DEF Measurement
<1>2. t \in U16 /\ ToInt16(t) = ClampI16(r.temperature)
  BY ClampRanges, U16OfInt16 DEF Measurement
<1>3. bytes = <<Lo(a), Hi(a), Lo(b), Hi(b), Lo(t), Hi(t), Lo(h), Hi(h), Lo(p), Hi(p),
                Lo(m), Hi(m), f>>
  BY DEF PayloadEncode
<1>4. /\ f % 16 = 1
      /\ r.pm <=> (f \div PresentPm) % 2 = 1
      /\ r.env <=> (f \div PresentEnv) % 2 = 1
  BY FlagsRoundTrip
<1>5. /\ U16At(bytes, 1) = a /\ U16At(bytes, 3) = b /\ U16At(bytes, 5) = t
      /\ U16At(bytes, 7) = h /\ U16At(bytes, 9) = p /\ U16At(bytes, 11) = m
  <2> HIDE DEF a, b, t, h, p, m, f, bytes
  <2> QED BY <1>1, <1>2, <1>3, BytesOfU16 DEF U16At
<1>6. Len(bytes) = 13 /\ bytes[13] = f
  <2> HIDE DEF a, b, t, h, p, m, f, bytes
  <2> QED BY <1>3
<1>7. Version(bytes) = 1
  <2> HIDE DEF f, bytes
  <2> QED BY <1>4, <1>6 DEF Version
<1>8. Decodable(bytes)
  <2> HIDE DEF f, bytes
  <2> QED BY <1>6, <1>7 DEF Decodable, PayloadLength, PayloadVersion
<1>9. r.pm \in BOOLEAN /\ r.env \in BOOLEAN
  BY DEF Measurement
<1>10. DecodeUplink(bytes).pm = r.pm /\ DecodeUplink(bytes).env = r.env
  <2> HIDE DEF f, bytes
  <2> QED BY <1>4, <1>6, <1>7, <1>9 DEF DecodeUplink
<1>11. DecodeUplink(bytes) =
         [pm |-> DecodeUplink(bytes).pm, env |-> DecodeUplink(bytes).env,
          pm25 |-> a, pm10 |-> b, temperature |-> ToInt16(t), humidity |-> h,
          pressure |-> p, batteryMv |-> m]
  <2> HIDE DEF a, b, t, h, p, m, bytes
  <2> QED BY <1>5 DEF DecodeUplink
<1> QED BY <1>2, <1>7, <1>8, <1>10, <1>11 DEF PayloadVersion

-----------------------------------------------------------------------------
(* Commands.                                                               *)
Command == [command: DOMAIN Opcode, value: Int]

LEMMA CommandNames ==
  /\ DOMAIN Opcode = {"setInterval", "setPmOffset", "setTempOffset"}
  /\ Opcode["setInterval"] = 1 /\ Opcode["setPmOffset"] = 2 /\ Opcode["setTempOffset"] = 3
  /\ Limits["setInterval"] = <<120, 21600>>
  /\ Limits["setPmOffset"] = <<-500, 500>>
  /\ Limits["setTempOffset"] = <<-1000, 1000>>
BY DEF Opcode, Limits, CmdSetInterval, CmdSetPmOffset, CmdSetTempOffset

\* assertDownlinkInRange, spelled out.
LEMMA InRangeFacts ==
  ASSUME NEW cmd \in Command
  PROVE  /\ cmd.command = "setInterval" => (InRange(cmd) <=> cmd.value >= 120 /\ cmd.value <= 21600)
         /\ cmd.command = "setPmOffset" => (InRange(cmd) <=> cmd.value >= -500 /\ cmd.value <= 500)
         /\ cmd.command = "setTempOffset" => (InRange(cmd) <=> cmd.value >= -1000 /\ cmd.value <= 1000)
BY CommandNames DEF InRange, Command

\* A buffer starts with a known opcode for the server exactly when the node
\* takes it for a well-formed command.
LEMMA KnownIsWellFormed ==
  ASSUME NEW bytes \in Seq(Byte)
  PROVE  Known(bytes) <=> WellFormed(bytes)
BY CommandNames DEF Known, WellFormed, CmdSetInterval, CmdSetPmOffset, CmdSetTempOffset

\* What decodeDownlink makes of a known command.
LEMMA Decoded ==
  ASSUME NEW bytes \in Seq(Byte), Known(bytes)
  PROVE  LET d == DecodeDownlink(bytes)
             u == U16At(bytes, 2)
         IN  /\ d \in Command /\ u \in U16
             /\ bytes[1] = 1 => d = [command |-> "setInterval", value |-> u]
             /\ bytes[1] = 2 => d = [command |-> "setPmOffset", value |-> ToInt16(u)]
             /\ bytes[1] = 3 => d = [command |-> "setTempOffset", value |-> ToInt16(u)]
             /\ bytes[1] \in {1, 2, 3}
<1> DEFINE u == U16At(bytes, 2)
           c == CHOOSE n \in DOMAIN Opcode : Opcode[n] = bytes[1]
<1>1. u \in U16
  BY BytesAtAreU16 DEF Known
<1>2. u \in Int /\ ToInt16(u) \in Int
  BY <1>1, Int16OfU16, U16Range, Int16Range
<1>3. bytes[1] \in {1, 2, 3}
  BY CommandNames DEF Known
<1>4. c \in DOMAIN Opcode /\ Opcode[c] = bytes[1]
  BY DEF Known
<1>5. /\ bytes[1] = 1 => c = "setInterval"
      /\ bytes[1] = 2 => c = "setPmOffset"
      /\ bytes[1] = 3 => c = "setTempOffset"
  BY <1>4, CommandNames
<1>6. DecodeDownlink(bytes) =
        [command |-> c, value |-> IF c = "setInterval" THEN u ELSE ToInt16(u)]
  BY DEF DecodeDownlink
<1> HIDE DEF u, c
<1>7. DecodeDownlink(bytes) \in Command
  BY <1>2, <1>4, <1>6 DEF Command
<1> QED BY <1>1, <1>3, <1>5, <1>6, <1>7, CommandNames DEF u

(* The two sides draw the line in the same place: a node applies a command *)
(* exactly when the server's codec would have sent it                      *)
(* (aq_downlink.c:22-46, index.ts:117-186).                                *)
THEOREM LimitsAgree ==
  ASSUME NEW bytes \in Seq(Byte), NEW c \in Config
  PROVE  ApplyResult(bytes, c) = ResultApplied <=> Known(bytes) /\ InRange(DecodeDownlink(bytes))
<1>1. CASE ~Known(bytes)
  BY <1>1, KnownIsWellFormed, ResultsDiffer DEF ApplyResult
<1>2. CASE Known(bytes)
  <2> DEFINE u == U16At(bytes, 2)
             d == DecodeDownlink(bytes)
  <2>1. WellFormed(bytes) /\ bytes[1] \in {1, 2, 3} /\ d \in Command /\ u \in U16
    BY <1>2, KnownIsWellFormed, Decoded
  <2>2. ApplyResult(bytes, c) = ResultApplied <=> Valid(Commanded(bytes, c))
    BY <2>1, ResultsDiffer DEF ApplyResult
  <2>3. /\ c.interval \in Int /\ 120 <= c.interval /\ c.interval <= 21600
        /\ c.pm \in Int /\ -500 <= c.pm /\ c.pm <= 500
        /\ c.temp \in Int /\ -1000 <= c.temp /\ c.temp <= 1000
    <3>1. /\ IntervalMin \in Int /\ IntervalMax \in Int
          /\ PmOffsetMax \in Int /\ TempOffsetMax \in Int
      BY NumericLimits
    <3>2. /\ c.interval \in Int /\ IntervalMin <= c.interval /\ c.interval <= IntervalMax
          /\ c.pm \in Int /\ -PmOffsetMax <= c.pm /\ c.pm <= PmOffsetMax
          /\ c.temp \in Int /\ -TempOffsetMax <= c.temp /\ c.temp <= TempOffsetMax
      BY <3>1 DEF Config
    <3> QED BY <3>2, NumericLimits
  <2>4. c \in RawConfig
    BY ConfigIsRaw
  <2>5. ToInt16(u) \in Int /\ u \in Int
    BY <2>1, Int16OfU16, Int16Range, U16Range
  <2>6. CASE bytes[1] = 1
    <3>1. Commanded(bytes, c) = [c EXCEPT !.interval = u]
      BY <2>6 DEF Commanded, CmdSetInterval, CmdSetPmOffset, CmdSetTempOffset
    <3>2. d.command = "setInterval" /\ d.value = u
      BY <1>2, <2>6, Decoded
    <3> HIDE DEF u, d
    <3>3. Valid(Commanded(bytes, c)) <=> u >= 120 /\ u <= 21600
      BY <2>3, <2>4, <2>5, <3>1, NumericLimits DEF Valid, RawConfig
    <3> QED BY <1>2, <2>1, <2>2, <3>2, <3>3, InRangeFacts DEF d
  <2>7. CASE bytes[1] = 2
    <3>1. Commanded(bytes, c) = [c EXCEPT !.pm = ToInt16(u)]
      BY <2>7 DEF Commanded, CmdSetInterval, CmdSetPmOffset, CmdSetTempOffset
    <3>2. d.command = "setPmOffset" /\ d.value = ToInt16(u)
      BY <1>2, <2>7, Decoded
    <3> HIDE DEF u, d
    <3>3. Valid(Commanded(bytes, c)) <=> ToInt16(u) >= -500 /\ ToInt16(u) <= 500
      BY <2>3, <2>4, <2>5, <3>1, NumericLimits DEF Valid, RawConfig
    <3> QED BY <1>2, <2>1, <2>2, <3>2, <3>3, InRangeFacts DEF d
  <2>8. CASE bytes[1] = 3
    <3>1. Commanded(bytes, c) = [c EXCEPT !.temp = ToInt16(u)]
      BY <2>8 DEF Commanded, CmdSetInterval, CmdSetPmOffset, CmdSetTempOffset
    <3>2. d.command = "setTempOffset" /\ d.value = ToInt16(u)
      BY <1>2, <2>8, Decoded
    <3> HIDE DEF u, d
    <3>3. Valid(Commanded(bytes, c)) <=> ToInt16(u) >= -1000 /\ ToInt16(u) <= 1000
      BY <2>3, <2>4, <2>5, <3>1, NumericLimits DEF Valid, RawConfig
    <3> QED BY <1>2, <2>1, <2>2, <3>2, <3>3, InRangeFacts DEF d
  <2> QED BY <2>1, <2>6, <2>7, <2>8
<1> QED BY <1>1, <1>2

(* A command the server sends is read back as it was meant: three bytes,   *)
(* negative offsets included (index.ts:148-186).                           *)
THEOREM DownlinkRoundTrip ==
  ASSUME NEW cmd \in Command, InRange(cmd)
  PROVE  /\ EncodeDownlink(cmd) \in Seq(Byte) /\ Known(EncodeDownlink(cmd))
         /\ DecodeDownlink(EncodeDownlink(cmd)) = cmd
<1> DEFINE v == FromInt16(cmd.value)
           bytes == EncodeDownlink(cmd)
<1>1. /\ cmd.command \in {"setInterval", "setPmOffset", "setTempOffset"} /\ cmd.value \in Int
      /\ cmd = [command |-> cmd.command, value |-> cmd.value]
  BY CommandNames DEF Command
<1>2. v \in U16 /\ IF cmd.command = "setInterval" THEN v = cmd.value ELSE ToInt16(v) = cmd.value
  BY <1>1, InRangeFacts, U16Range, Int16Range DEF FromInt16, ToInt16
<1>3. bytes = <<Opcode[cmd.command], Lo(v), Hi(v)>>
  BY DEF EncodeDownlink
<1>4. Opcode[cmd.command] \in {1, 2, 3} /\ Opcode[cmd.command] \in Byte
  BY <1>1, CommandNames DEF Byte
<1>5. Lo(v) \in Byte /\ Hi(v) \in Byte /\ Lo(v) + 256 * Hi(v) = v
  BY <1>2, BytesOfU16
<1> HIDE DEF v, bytes
<1>6. bytes \in Seq(Byte) /\ Len(bytes) = 3 /\ bytes[1] = Opcode[cmd.command]
  BY <1>3, <1>4, <1>5
<1>7. U16At(bytes, 2) = v
  BY <1>3, <1>5 DEF U16At
<1>8. Known(bytes)
  BY <1>1, <1>6, CommandNames DEF Known
<1>9. DecodeDownlink(bytes) = [command |-> cmd.command, value |-> cmd.value]
  BY <1>1, <1>2, <1>6, <1>7, <1>8, CommandNames, Decoded
<1> QED BY <1>1, <1>6, <1>8, <1>9 DEF bytes

(* What the server believes of a node after a report is what the node runs *)
(* with (aq_config_report_encode, index.ts:188-254).                       *)
THEOREM ReportRoundTrip ==
  ASSUME NEW st \in RawState
  PROVE  /\ ReadableReport(ReportEncode(st))
         /\ DecodeReport(ReportEncode(st)) =
              [lastResult |-> st.lastResult, lastCommand |-> st.lastCmd,
               interval |-> st.cfg.interval, pm |-> st.cfg.pm, temp |-> st.cfg.temp]
<1> DEFINE p == FromInt16(st.cfg.pm)
           t == FromInt16(st.cfg.temp)
           n == st.cfg.interval
           report == ReportEncode(st)
<1>1. st.cfg \in RawConfig /\ st.lastResult \in Int /\ st.lastResult <= ResultMalformed
  BY ResultsDiffer DEF RawState
<1>2. /\ p \in U16 /\ t \in U16 /\ n \in U16
      /\ ToInt16(p) = st.cfg.pm /\ ToInt16(t) = st.cfg.temp
  BY <1>1, U16OfInt16 DEF RawConfig
<1>3. report = <<1, st.lastResult, st.lastCmd, Lo(n), Hi(n), Lo(p), Hi(p), Lo(t), Hi(t)>>
  BY DEF ReportEncode
<1> HIDE DEF p, t, n, report
<1>4. U16At(report, 4) = n /\ U16At(report, 6) = p /\ U16At(report, 8) = t
  BY <1>2, <1>3, BytesOfU16 DEF U16At
<1>5. Len(report) = 9 /\ report[1] = 1 /\ report[2] = st.lastResult /\ report[3] = st.lastCmd
  BY <1>3
<1>6. ReadableReport(report)
  BY <1>1, <1>5 DEF ReadableReport, ReportVersion
<1>7. DecodeReport(report) =
        [lastResult |-> st.lastResult, lastCommand |-> st.lastCmd, interval |-> n,
         pm |-> ToInt16(p), temp |-> ToInt16(t)]
  BY <1>4, <1>5 DEF DecodeReport
<1> QED BY <1>2, <1>6, <1>7 DEF report, n
=============================================================================
