----------------------------- MODULE NodeConfig -----------------------------
(***************************************************************************)
(* The decisions a node takes about its runtime configuration: what a      *)
(* downlink command does to it, what is kept in flash, what is reported.   *)
(* Pure operators over bytes, translated from the portable C core          *)
(* (firmware/core/aq_downlink.c, aq_config.c) and the NVS record of        *)
(* firmware/adapters/esp32/config_store_esp32.c.  Settings are integers in *)
(* the units of the wire: seconds, ug/m3 x10, degrees C x100.              *)
(***************************************************************************)
EXTENDS Integers, Sequences

Byte  == 0..255
U16Max   == 65535
Int16Max == 32767
U16   == 0..U16Max
Int16 == (-Int16Max - 1)..Int16Max

DownlinkFPort == 10
DataFPort     == 2
ReportFPort   == 11

CmdSetInterval   == 1
CmdSetPmOffset   == 2
CmdSetTempOffset == 3

IntervalMin   == 120
IntervalMax   == 21600
PmOffsetMax   == 500
TempOffsetMax == 1000

\* AQ_REPORT_DELAY_S: the gap before a wake that sends a report.
ReportDelay == 120

ResultNone       == 0
ResultApplied    == 1
ResultOutOfRange == 2
ResultMalformed  == 3

-----------------------------------------------------------------------------
(* Two's complement and little-endian pairs: rd_u16, put_u16, (int16_t).   *)
U16At(buf, i) == buf[i] + 256 * buf[i + 1]
ToInt16(u)    == IF u >= 32768 THEN u - 65536 ELSE u
\* Mutant: the sign is not folded into two's complement.
FromInt16Unwrapped(n) == n
FromInt16(n) == IF n < 0 THEN n + 65536 ELSE n
Lo(u)         == u % 256
Hi(u)         == u \div 256

-----------------------------------------------------------------------------
RawConfig == [interval: U16, pm: Int16, temp: Int16]

DefaultConfig == [interval |-> 300, pm |-> 0, temp |-> 0]

\* aq_config_valid
Valid(c) == /\ c.interval >= IntervalMin /\ c.interval <= IntervalMax
            /\ c.pm >= -PmOffsetMax      /\ c.pm <= PmOffsetMax
            /\ c.temp >= -TempOffsetMax  /\ c.temp <= TempOffsetMax

\* The configurations a node may run with.
Config == [interval: IntervalMin..IntervalMax,
           pm: -PmOffsetMax..PmOffsetMax,
           temp: -TempOffsetMax..TempOffsetMax]

\* The copy of the config a well-formed command writes its argument into.
Commanded(buf, cfg) ==
  CASE buf[1] = CmdSetInterval   -> [cfg EXCEPT !.interval = U16At(buf, 2)]
    [] buf[1] = CmdSetPmOffset   -> [cfg EXCEPT !.pm = ToInt16(U16At(buf, 2))]
    [] buf[1] = CmdSetTempOffset -> [cfg EXCEPT !.temp = ToInt16(U16At(buf, 2))]

WellFormed(buf) ==
  Len(buf) >= 3 /\ buf[1] \in {CmdSetInterval, CmdSetPmOffset, CmdSetTempOffset}

\* aq_downlink_apply: the result code and the configuration after it.
ApplyResult(buf, cfg) ==
  IF ~WellFormed(buf) THEN ResultMalformed
  ELSE IF Valid(Commanded(buf, cfg)) THEN ResultApplied ELSE ResultOutOfRange

ApplyConfig(buf, cfg) ==
  IF ApplyResult(buf, cfg) = ResultApplied THEN Commanded(buf, cfg) ELSE cfg

-----------------------------------------------------------------------------
(* The bookkeeping that survives deep sleep, aq_node_state_t: [cfg,        *)
(* pending, lastCmd, lastResult].                                          *)
RawState == [cfg: RawConfig, pending: BOOLEAN, lastCmd: Byte,
             lastResult: ResultNone..ResultMalformed]

\* aq_state_init.  NoConfig stands for the NULL of a load that failed.
NoConfig == [interval |-> -1, pm |-> 0, temp |-> 0]

\* Mutant: what was in flash is not validated.
StateInitUnchecked(loaded) ==
  [cfg |-> IF loaded # NoConfig THEN loaded ELSE DefaultConfig,
   pending |-> FALSE, lastCmd |-> 0, lastResult |-> ResultNone]

StateInit(loaded) ==
  [cfg |-> IF loaded # NoConfig /\ Valid(loaded) THEN loaded ELSE DefaultConfig,
   pending |-> FALSE, lastCmd |-> 0, lastResult |-> ResultNone]

\* Mutant: application data on any port is taken for a command.
OnDownlinkAnyPort(st, fport, buf) ==
  [cfg |-> ApplyConfig(buf, st.cfg), pending |-> TRUE,
   lastCmd |-> IF Len(buf) > 0 THEN buf[1] ELSE 0, lastResult |-> ApplyResult(buf, st.cfg)]

\* Mutant: only a command that was applied is confirmed.
OnDownlinkRejectsSilently(st, fport, buf) ==
  IF fport # DownlinkFPort THEN st
  ELSE [cfg |-> ApplyConfig(buf, st.cfg),
        pending |-> st.pending \/ ApplyResult(buf, st.cfg) = ResultApplied,
        lastCmd |-> IF Len(buf) > 0 THEN buf[1] ELSE 0,
        lastResult |-> ApplyResult(buf, st.cfg)]

\* aq_state_on_downlink: the state after, and whether it must be persisted.
OnDownlink(st, fport, buf) ==
  IF fport # DownlinkFPort THEN st
  ELSE [cfg |-> ApplyConfig(buf, st.cfg),
        pending |-> TRUE,
        lastCmd |-> IF Len(buf) > 0 THEN buf[1] ELSE 0,
        lastResult |-> ApplyResult(buf, st.cfg)]

\* Mutant: a new temperature offset is not seen as a change.
ChangedButTemp(before, after) == \/ before.cfg.interval # after.cfg.interval
                                 \/ before.cfg.pm # after.cfg.pm

Changed(before, after) == \/ before.cfg.interval # after.cfg.interval
                          \/ before.cfg.pm # after.cfg.pm
                          \/ before.cfg.temp # after.cfg.temp

\* aq_state_sleep_s
SleepSeconds(st) == IF st.pending THEN ReportDelay ELSE st.cfg.interval

\* Mutant: the two offsets change places.
ReportEncodeSwapped(st) ==
  LET pm == FromInt16(st.cfg.pm)
      temp == FromInt16(st.cfg.temp)
  IN  <<1, st.lastResult, st.lastCmd,
        Lo(st.cfg.interval), Hi(st.cfg.interval), Lo(temp), Hi(temp), Lo(pm), Hi(pm)>>

\* aq_config_report_encode
ReportEncode(st) ==
  LET pm == FromInt16(st.cfg.pm)
      temp == FromInt16(st.cfg.temp)
  IN  <<1, st.lastResult, st.lastCmd,
        Lo(st.cfg.interval), Hi(st.cfg.interval), Lo(pm), Hi(pm), Lo(temp), Hi(temp)>>

-----------------------------------------------------------------------------
(* The NVS record: a version byte and the three fields.                    *)
RecordVersion == 1

RecordEncode(cfg) ==
  LET pm == FromInt16(cfg.pm)
      temp == FromInt16(cfg.temp)
  IN  <<RecordVersion, Lo(cfg.interval), Hi(cfg.interval),
        Lo(pm), Hi(pm), Lo(temp), Hi(temp)>>

\* esp32_config_load once the partition is readable; <<>> is an absent record.
RecordDecode(rec) ==
  IF Len(rec) # 7 THEN NoConfig
  ELSE IF rec[1] # RecordVersion THEN NoConfig
  ELSE [interval |-> U16At(rec, 2), pm |-> ToInt16(U16At(rec, 4)),
        temp |-> ToInt16(U16At(rec, 6))]
=============================================================================
