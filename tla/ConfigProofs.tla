---------------------------- MODULE ConfigProofs ----------------------------
(***************************************************************************)
(* What the operators of NodeConfig do, for every value: the byte          *)
(* encodings are inverses of each other, every command and every load      *)
(* keeps the settings in range.  The proofs about Node, Codec and          *)
(* Simulator build on these lemmas.                                        *)
(***************************************************************************)
EXTENDS NodeConfig, TLAPS

-----------------------------------------------------------------------------
(* The byte encodings.                                                     *)

\* The numeric limits, for leaves in which the constants stay folded.
LEMMA NumericLimits ==
  /\ U16Max = 65535 /\ Int16Max = 32767
  /\ IntervalMin = 120 /\ IntervalMax = 21600
  /\ PmOffsetMax = 500 /\ TempOffsetMax = 1000
BY DEF U16Max, Int16Max, IntervalMin, IntervalMax, PmOffsetMax, TempOffsetMax

\* Membership in U16 as two inequalities: the interval itself stays opaque.
LEMMA U16Range == \A u : u \in U16 <=> u \in Int /\ 0 <= u /\ u <= 65535
<1>1. U16Max \in Int BY NumericLimits
<1>2. \A u : u \in U16 <=> u \in Int /\ 0 <= u /\ u <= U16Max
  BY <1>1 DEF U16
<1> QED BY <1>2, NumericLimits

\* Membership in Int16 as two inequalities.
LEMMA Int16Range ==
  \A n : n \in Int16 <=> n \in Int /\ -32768 <= n /\ n <= 32767
<1>1. Int16Max \in Int BY NumericLimits
<1>2. \A n : n \in Int16 <=> n \in Int /\ -Int16Max - 1 <= n /\ n <= Int16Max
  BY <1>1 DEF Int16
<1> QED BY <1>2, NumericLimits

\* Membership in Byte as two inequalities.
LEMMA ByteRange == \A b : b \in Byte <=> b \in Int /\ 0 <= b /\ b <= 255
BY DEF Byte

\* put_u16: the two bytes of a 16-bit value are bytes and add up to it.
LEMMA BytesOfU16 ==
  ASSUME NEW u \in U16
  PROVE  /\ Lo(u) \in Byte /\ Hi(u) \in Byte
         /\ Lo(u) + 256 * Hi(u) = u
<1>1. u \in Int /\ 0 <= u /\ u <= 65535
  BY U16Range
<1>2. /\ u % 256 \in Int /\ 0 <= u % 256 /\ u % 256 <= 255
      /\ u \div 256 \in Int /\ (u % 256) + 256 * (u \div 256) = u
  BY <1>1
<1>3. 0 <= u \div 256 /\ u \div 256 <= 255
  BY <1>1, <1>2
<1>4. Lo(u) = u % 256 /\ Hi(u) = u \div 256
  BY DEF Lo, Hi
<1> QED BY <1>2, <1>3, <1>4, ByteRange

\* rd_u16: two bytes make a 16-bit value, of which they are the two bytes.
LEMMA U16OfBytes ==
  ASSUME NEW a \in Byte, NEW b \in Byte
  PROVE  /\ a + 256 * b \in U16
         /\ Lo(a + 256 * b) = a
         /\ Hi(a + 256 * b) = b
BY U16Range DEF Byte, Lo, Hi

\* The cast to int16_t keeps its range, and the cast back undoes it.
LEMMA Int16OfU16 ==
  ASSUME NEW u \in U16
  PROVE  /\ ToInt16(u) \in Int16
         /\ FromInt16(ToInt16(u)) = u
BY U16Range, Int16Range DEF ToInt16, FromInt16

\* The cast from int16_t keeps its range, and the cast back undoes it.
LEMMA U16OfInt16 ==
  ASSUME NEW n \in Int16
  PROVE  /\ FromInt16(n) \in U16
         /\ ToInt16(FromInt16(n)) = n
BY U16Range, Int16Range DEF ToInt16, FromInt16

\* aq_config_valid decides membership in Config.
LEMMA ConfigFields ==
  ASSUME NEW c \in RawConfig
  PROVE  Valid(c) <=> c \in Config
<1>1. /\ IntervalMin \in Int /\ IntervalMax \in Int
      /\ PmOffsetMax \in Int /\ TempOffsetMax \in Int
  BY NumericLimits
<1>2. c.interval \in Int /\ c.pm \in Int /\ c.temp \in Int
  BY U16Range, Int16Range DEF RawConfig
<1> QED BY <1>1, <1>2 DEF Valid, Config, RawConfig

\* A configuration in range fits the fields of aq_config_t.
LEMMA ConfigIsRaw == Config \subseteq RawConfig
<1> SUFFICES ASSUME NEW c \in Config PROVE c \in RawConfig
  OBVIOUS
<1>1. /\ IntervalMin \in Int /\ IntervalMax \in Int
      /\ PmOffsetMax \in Int /\ TempOffsetMax \in Int
  BY NumericLimits
<1>2. /\ c.interval \in Int /\ IntervalMin <= c.interval /\ c.interval <= IntervalMax
      /\ c.pm \in Int /\ -PmOffsetMax <= c.pm /\ c.pm <= PmOffsetMax
      /\ c.temp \in Int /\ -TempOffsetMax <= c.temp /\ c.temp <= TempOffsetMax
  BY <1>1 DEF Config
<1>3. c.interval \in U16 /\ c.pm \in Int16 /\ c.temp \in Int16
  BY <1>2, NumericLimits, U16Range, Int16Range
<1> QED BY <1>3 DEF Config, RawConfig

-----------------------------------------------------------------------------
\* The defaults are in range, and the zeroes of an empty RTC RAM fit their fields.
LEMMA ZeroIsRaw ==
  /\ 0 \in U16 /\ 0 \in Int16 /\ 0 \in Byte
  /\ DefaultConfig \in Config
<1>1. 0 \in U16 /\ 0 \in Int16 /\ 0 \in Byte
  BY U16Range, Int16Range, ByteRange
<1>2. 300 \in U16
  BY U16Range
<1>3. DefaultConfig \in RawConfig
  BY <1>1, <1>2 DEF DefaultConfig, RawConfig
<1>4. Valid(DefaultConfig)
  BY NumericLimits DEF DefaultConfig, Valid
<1> QED BY <1>1, <1>3, <1>4, ConfigFields

\* rd_u16 inside a buffer of bytes.
LEMMA BytesAtAreU16 ==
  ASSUME NEW buf \in Seq(Byte), NEW i \in Nat \ {0}, i + 1 <= Len(buf)
  PROVE  /\ buf[i] \in Byte /\ buf[i + 1] \in Byte
         /\ U16At(buf, i) \in U16
         /\ Lo(U16At(buf, i)) = buf[i] /\ Hi(U16At(buf, i)) = buf[i + 1]
<1>1. buf[i] \in Byte /\ buf[i + 1] \in Byte
  BY ByteRange
<1> QED BY <1>1, U16OfBytes DEF U16At

\* What esp32_config_load makes of any bytes fits aq_config_t, or is NoConfig.
LEMMA DecodedIsRaw ==
  ASSUME NEW rec \in Seq(Byte)
  PROVE  RecordDecode(rec) = NoConfig \/ RecordDecode(rec) \in RawConfig
<1>1. CASE Len(rec) = 7
  <2>1. U16At(rec, 2) \in U16 /\ U16At(rec, 4) \in U16 /\ U16At(rec, 6) \in U16
    <3>1. 2 + 1 <= Len(rec) /\ 4 + 1 <= Len(rec) /\ 6 + 1 <= Len(rec)
      BY <1>1
    <3>2. 2 \in Nat \ {0} /\ 4 \in Nat \ {0} /\ 6 \in Nat \ {0}
      OBVIOUS
    <3> QED BY <3>1, <3>2, BytesAtAreU16
  <2>2. ToInt16(U16At(rec, 4)) \in Int16 /\ ToInt16(U16At(rec, 6)) \in Int16
    BY <2>1, Int16OfU16
  <2> QED BY <2>1, <2>2 DEF RecordDecode, RawConfig
<1>2. CASE Len(rec) # 7
  BY <1>2 DEF RecordDecode
<1> QED BY <1>1, <1>2

\* aq_state_init always yields a configuration in range, nothing pending.
LEMMA InitialState ==
  ASSUME NEW loaded, loaded = NoConfig \/ loaded \in RawConfig
  PROVE  /\ StateInit(loaded) \in RawState
         /\ StateInit(loaded).cfg \in Config
         /\ ~StateInit(loaded).pending
<1> DEFINE c == IF loaded # NoConfig /\ Valid(loaded) THEN loaded ELSE DefaultConfig
<1>1. c \in Config
  BY ZeroIsRaw, ConfigFields
<1>2. StateInit(loaded) =
        [cfg |-> c, pending |-> FALSE, lastCmd |-> 0, lastResult |-> ResultNone]
  BY DEF StateInit
<1>3. c \in RawConfig
  BY <1>1, ConfigIsRaw
<1> HIDE DEF c
<1> QED BY <1>1, <1>2, <1>3, ZeroIsRaw DEF RawState, ResultNone, ResultMalformed

\* aq_config_report_encode fills its payload with bytes.
LEMMA ReportIsBytes ==
  ASSUME NEW s \in RawState
  PROVE  ReportEncode(s) \in Seq(Byte)
<1> DEFINE p == FromInt16(s.cfg.pm)
           t == FromInt16(s.cfg.temp)
           n == s.cfg.interval
<1>1. s.cfg \in RawConfig /\ s.lastCmd \in Byte /\ s.lastResult \in 0..3
  BY DEF RawState, ResultNone, ResultMalformed
<1>2. p \in U16 /\ t \in U16 /\ n \in U16
  BY <1>1, U16OfInt16 DEF RawConfig
<1>3. /\ Lo(n) \in Byte /\ Hi(n) \in Byte /\ Lo(p) \in Byte /\ Hi(p) \in Byte
      /\ Lo(t) \in Byte /\ Hi(t) \in Byte
  BY <1>2, BytesOfU16
<1>4. 1 \in Byte /\ s.lastResult \in Byte
  BY <1>1, ByteRange
<1>5. ReportEncode(s) =
        <<1, s.lastResult, s.lastCmd, Lo(n), Hi(n), Lo(p), Hi(p), Lo(t), Hi(t)>>
  BY DEF ReportEncode
<1> HIDE DEF p, t, n
<1> QED BY <1>1, <1>3, <1>4, <1>5

-----------------------------------------------------------------------------
(* What a command does to the configuration.                               *)
LEMMA CommandedFacts ==
  ASSUME NEW buf \in Seq(Byte), WellFormed(buf), NEW c \in RawConfig
  PROVE  /\ Commanded(buf, c) \in RawConfig
         /\ Commanded(buf, Commanded(buf, c)) = Commanded(buf, c)
<1>1. U16At(buf, 2) \in U16 /\ ToInt16(U16At(buf, 2)) \in Int16
  BY BytesAtAreU16, Int16OfU16 DEF WellFormed
<1> DEFINE u == U16At(buf, 2)
<1> HIDE DEF u
<1>2. \A d : Commanded(buf, d) = CASE buf[1] = CmdSetInterval -> [d EXCEPT !.interval = u]
                                  [] buf[1] = CmdSetPmOffset -> [d EXCEPT !.pm = ToInt16(u)]
                                  [] buf[1] = CmdSetTempOffset -> [d EXCEPT !.temp = ToInt16(u)]
  BY DEF Commanded, u
<1>3. u \in U16 /\ ToInt16(u) \in Int16
  BY <1>1 DEF u
<1>4. CmdSetInterval = 1 /\ CmdSetPmOffset = 2 /\ CmdSetTempOffset = 3
  BY DEF CmdSetInterval, CmdSetPmOffset, CmdSetTempOffset
<1>5. CASE buf[1] = CmdSetInterval
  <2>1. \A d : Commanded(buf, d) = [d EXCEPT !.interval = u]
    BY <1>2, <1>4, <1>5
  <2> QED BY <1>3, <2>1 DEF RawConfig
<1>6. CASE buf[1] = CmdSetPmOffset
  <2>1. \A d : Commanded(buf, d) = [d EXCEPT !.pm = ToInt16(u)]
    BY <1>2, <1>4, <1>6
  <2> QED BY <1>3, <2>1 DEF RawConfig
<1>7. CASE buf[1] = CmdSetTempOffset
  <2>1. \A d : Commanded(buf, d) = [d EXCEPT !.temp = ToInt16(u)]
    BY <1>2, <1>4, <1>7
  <2> QED BY <1>3, <2>1 DEF RawConfig
<1> QED BY <1>5, <1>6, <1>7 DEF WellFormed

\* The four result codes.
LEMMA ResultsDiffer ==
  /\ ResultNone = 0 /\ ResultApplied = 1
  /\ ResultOutOfRange = 2 /\ ResultMalformed = 3
BY DEF ResultNone, ResultApplied, ResultOutOfRange, ResultMalformed

\* aq_downlink_apply keeps the configuration in range, and changes it only when it says so.
LEMMA ApplyFacts ==
  ASSUME NEW buf \in Seq(Byte), NEW c \in Config
  PROVE  /\ ApplyConfig(buf, c) \in Config
         /\ ApplyResult(buf, c) \in {ResultApplied, ResultOutOfRange, ResultMalformed}
<1>1. c \in RawConfig
  BY ConfigIsRaw
<1>2. WellFormed(buf) => Commanded(buf, c) \in RawConfig
  BY <1>1, CommandedFacts
<1>3. ApplyResult(buf, c) = ResultApplied => WellFormed(buf) /\ Valid(Commanded(buf, c))
  BY ResultsDiffer DEF ApplyResult
<1> QED BY <1>2, <1>3, ConfigFields DEF ApplyResult, ApplyConfig

\* What the state says of the last command: applying an applied command again
\* changes nothing, applying a rejected one would still be out of range.
Judged(cmd, s) ==
  /\ s.lastCmd = cmd[1]
  /\ s.lastResult # ResultNone
  /\ s.lastResult = ResultApplied => WellFormed(cmd) /\ Commanded(cmd, s.cfg) = s.cfg
  /\ s.lastResult = ResultOutOfRange => WellFormed(cmd) /\ ~Valid(Commanded(cmd, s.cfg))
  /\ s.lastResult = ResultMalformed => ~WellFormed(cmd)

\* aq_state_on_downlink keeps the state's type, and its verdict is the one Judged describes.
LEMMA DownlinkFacts ==
  ASSUME NEW s \in RawState, s.cfg \in Config, NEW fport \in Byte,
         NEW buf \in Seq(Byte), buf # <<>>
  PROVE  LET after == OnDownlink(s, fport, buf)
         IN  /\ after \in RawState
             /\ after.cfg \in Config
             /\ fport = DownlinkFPort => after.pending /\ Judged(buf, after)
             /\ fport # DownlinkFPort => after = s
             /\ ~Changed(s, after) => after.cfg = s.cfg
<1> DEFINE after == OnDownlink(s, fport, buf)
<1>1. CASE fport # DownlinkFPort
  BY <1>1 DEF OnDownlink
<1>2. CASE fport = DownlinkFPort
  <2>1. Len(buf) > 0 /\ buf[1] \in Byte
    OBVIOUS
  <2>2. after = [cfg |-> ApplyConfig(buf, s.cfg), pending |-> TRUE, lastCmd |-> buf[1],
                 lastResult |-> ApplyResult(buf, s.cfg)]
    BY <1>2, <2>1 DEF OnDownlink
  <2>3. ApplyConfig(buf, s.cfg) \in Config
    BY ApplyFacts
  <2>4. ApplyConfig(buf, s.cfg) \in RawConfig /\ s.cfg \in RawConfig
    BY <2>3, ConfigIsRaw
  <2>5. ApplyResult(buf, s.cfg) \in 1..3
    BY ApplyFacts, ResultsDiffer
  <2>6. after \in RawState
    BY <2>1, <2>2, <2>4, <2>5, ResultsDiffer DEF RawState
  <2>7. Judged(buf, after)
    <3>1. CASE ApplyResult(buf, s.cfg) = ResultApplied
      <4>1. WellFormed(buf) /\ ApplyConfig(buf, s.cfg) = Commanded(buf, s.cfg)
        BY <3>1, ResultsDiffer DEF ApplyResult, ApplyConfig
      <4>2. Commanded(buf, after.cfg) = after.cfg
        BY <2>2, <2>4, <4>1, CommandedFacts
      <4> QED BY <2>2, <3>1, <4>1, <4>2, ResultsDiffer DEF Judged
    <3>2. CASE ApplyResult(buf, s.cfg) # ResultApplied
      <4>1. after.cfg = s.cfg
        BY <2>2, <3>2 DEF ApplyConfig
      <4> QED BY <2>2, <2>5, <3>2, <4>1, ResultsDiffer DEF Judged, ApplyResult
    <3> QED BY <3>1, <3>2
  <2>8. ~Changed(s, after) => after.cfg = s.cfg
    BY <2>2, <2>4 DEF Changed, RawConfig
  <2> QED BY <1>2, <2>2, <2>3, <2>6, <2>7, <2>8
<1> QED BY <1>1, <1>2
=============================================================================
