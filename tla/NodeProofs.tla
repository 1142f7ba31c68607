----------------------------- MODULE NodeProofs -----------------------------
(***************************************************************************)
(* Proofs about Node: its safety properties hold for every set of          *)
(* downlinks, every flash content and any number of power cuts.  What the  *)
(* operators of NodeConfig do is in ConfigProofs; here are the inductive   *)
(* invariant IInv and the theorems it gives.                               *)
(***************************************************************************)
EXTENDS Node, ConfigProofs

-----------------------------------------------------------------------------
\* A cold boot reads back from flash exactly the settings that were saved.
LEMMA RecordRoundTrip ==
  ASSUME NEW c \in Config
  PROVE  /\ RecordEncode(c) \in Seq(Byte)
         /\ BootConfig(RecordEncode(c)) = c
<1> DEFINE p == FromInt16(c.pm)
           t == FromInt16(c.temp)
           rec == RecordEncode(c)
<1>1. c \in RawConfig
  BY ConfigIsRaw
<1>2. p \in U16 /\ t \in U16 /\ c.interval \in U16
  BY <1>1, U16OfInt16 DEF RawConfig
<1>3. rec = <<1, Lo(c.interval), Hi(c.interval), Lo(p), Hi(p), Lo(t), Hi(t)>>
  BY DEF RecordEncode, RecordVersion
<1>4. /\ Lo(c.interval) \in Byte /\ Hi(c.interval) \in Byte
      /\ Lo(p) \in Byte /\ Hi(p) \in Byte /\ Lo(t) \in Byte /\ Hi(t) \in Byte
  BY <1>2, BytesOfU16
<1>5. 1 \in Byte
  BY DEF Byte
<1>6. rec \in Seq(Byte)
  <2> HIDE DEF rec, p, t
  <2> QED BY <1>3, <1>4, <1>5
<1>7. U16At(rec, 2) = c.interval /\ U16At(rec, 4) = p /\ U16At(rec, 6) = t
  <2> HIDE DEF rec, p, t
  <2> QED BY <1>2, BytesOfU16, <1>3 DEF U16At
<1>8. Len(rec) = 7 /\ rec[1] = RecordVersion
  <2> HIDE DEF rec, p, t
  <2> QED BY <1>3 DEF RecordVersion
<1>9. RecordDecode(rec) = [interval |-> c.interval, pm |-> c.pm, temp |-> c.temp]
  BY <1>1, <1>7, <1>8, U16OfInt16 DEF RecordDecode, RawConfig
<1>10. RecordDecode(rec) = c
  BY <1>1, <1>9 DEF RawConfig
<1>11. Valid(c)
  BY <1>1, ConfigFields
<1>12. c # NoConfig
  BY <1>2, U16Range DEF NoConfig
<1> QED
  BY <1>6, <1>10, <1>11, <1>12 DEF BootConfig, StateInit

-----------------------------------------------------------------------------
(* The inductive invariant.  FlashAgrees speaks of a sleeping node; it is  *)
(* kept because flash agrees whenever no save is outstanding.  What a      *)
(* report will say is kept as what the state says of the command it is     *)
(* about: applying an applied command again changes nothing, applying a    *)
(* rejected one would still be out of range.                               *)
Awake == {"send", "handle", "save", "arm"}

StateKept == /\ pc \in Awake \cup {"asleep"} => haveState
             /\ pc = "off" => ~haveState

FlashInv == (haveState /\ pc # "save" /\ ~flashFailed) => BootConfig(nvs) = state.cfg

OwedInv == unconfirmed # <<>> => haveState /\ state.pending /\ Judged(unconfirmed, state)

DownInv == down.received => down.data # <<>>

IInv == /\ TypeOK /\ StateKept /\ ConfigInRange /\ FlashInv /\ OwedInv /\ DownInv

-----------------------------------------------------------------------------
\* The empty sequence is a sequence of bytes.
LEMMA EmptyIsBytes == <<>> \in Seq(Byte)
OBVIOUS

\* The uplinks and downlinks of Node have their types.
LEMMA NoFrames ==
  /\ NoFrame \in [fport: {0, DataFPort, ReportFPort}, payload: Seq(Byte)]
  /\ ReadingFrame \in [fport: {0, DataFPort, ReportFPort}, payload: Seq(Byte)]
  /\ \A s \in RawState :
       ReportFrame(s) \in [fport: {0, DataFPort, ReportFPort}, payload: Seq(Byte)]
  /\ NoDownlink \in [received: BOOLEAN, fport: Byte, data: Seq(Byte)]
<1> QED
  BY EmptyIsBytes, ReportIsBytes, ZeroIsRaw
     DEF NoFrame, ReadingFrame, ReportFrame, NoDownlink

\* RTC RAM as a boot leaves it has the type of s_state.
LEMMA ZeroStateIsRaw == ZeroState \in RawState
<1>1. ZeroState.cfg \in RawConfig
  BY ZeroIsRaw DEF ZeroState, RawConfig
<1> QED BY <1>1, ZeroIsRaw, ResultsDiffer DEF ZeroState, RawState

\* The invariant holds before the node is first powered.
LEMMA InitIInv == Init => IInv
<1> SUFFICES ASSUME Init PROVE IInv
  OBVIOUS
<1>1. nvs \in Seq(Byte) /\ cuts \in 0..MaxCuts
  BY FlashAssumption, MaxCutsAssumption DEF Init
<1>2. state \in RawState
  BY ZeroStateIsRaw DEF Init
<1>3. TypeOK
  BY <1>1, <1>2, EmptyIsBytes, NoFrames DEF Init, TypeOK
<1> QED
  BY <1>3
     DEF Init, IInv, StateKept, Awake, ConfigInRange, FlashInv, OwedInv, DownInv,
         NoDownlink

\* The three ways a wake fills the state it then runs with.
LEMMA ChooseUplinkIInv ==
  ASSUME IInv, pc = "start",
         NEW s \in RawState, s.cfg \in Config, NEW cold \in BOOLEAN,
         ChooseUplink(s, cold),
         nvs' \in Seq(Byte), flashFailed' \in BOOLEAN,
         ~flashFailed' => BootConfig(nvs') = s.cfg,
         unconfirmed # <<>> => s.pending /\ Judged(unconfirmed, s)
  PROVE  IInv'
<1> USE DEF ChooseUplink
<1>1. /\ state' \in RawState /\ state'.cfg = s.cfg
  BY DEF RawState
<1>2. TypeOK'
  BY <1>1, EmptyIsBytes, NoFrames DEF IInv, TypeOK
<1>3. FlashInv'
  BY <1>1 DEF FlashInv
<1>4. OwedInv'
  BY DEF OwedInv
<1>5. StateKept' /\ ConfigInRange' /\ DownInv'
  BY <1>1 DEF IInv, StateKept, Awake, ConfigInRange, DownInv
<1> QED BY <1>2, <1>3, <1>4, <1>5 DEF IInv

\* A send, whatever it brings back, keeps the invariant.
LEMMA AfterSendIInv ==
  ASSUME IInv, NEW d \in [received: BOOLEAN, fport: Byte, data: Seq(Byte)],
         d.received => d.data # <<>>, AfterSend(d)
  PROVE  IInv'
<1> USE DEF AfterSend
<1>1. haveState /\ haveState' = haveState
  BY DEF IInv, StateKept, Awake
<1>2. /\ state' \in RawState /\ state'.cfg = state.cfg
      /\ state'.lastCmd = state.lastCmd /\ state'.lastResult = state.lastResult
      /\ state.pending => state'.pending
  BY DEF IInv, TypeOK, RawState
<1>3. TypeOK'
  BY <1>2 DEF IInv, TypeOK
<1>4. OwedInv'
  <2> SUFFICES ASSUME unconfirmed' # <<>>
               PROVE  haveState' /\ state'.pending /\ Judged(unconfirmed', state')
    BY DEF OwedInv
  <2>1. unconfirmed' = unconfirmed
    OBVIOUS
  <2> QED BY <1>1, <1>2, <2>1 DEF IInv, OwedInv, Judged
<1>5. ConfigInRange' /\ FlashInv'
  BY <1>1, <1>2 DEF IInv, ConfigInRange, FlashInv, BootConfig
<1>6. StateKept' /\ DownInv'
  BY <1>1 DEF StateKept, DownInv
<1> QED BY <1>3, <1>4, <1>5, <1>6 DEF IInv

\* Every step of a wake, and every power cut, keeps the invariant.
LEMMA NextIInv == IInv /\ [Next]_vars => IInv'
<1> SUFFICES ASSUME IInv, [Next]_vars PROVE IInv'
  OBVIOUS
<1> USE DEF IInv
<1>1. CASE PowerOn
  BY <1>1 DEF PowerOn, TypeOK, StateKept, Awake, ConfigInRange, FlashInv, OwedInv,
              DownInv
<1>2. CASE TimerWake
  BY <1>2 DEF TimerWake, TypeOK, StateKept, Awake, ConfigInRange, FlashInv, OwedInv,
              DownInv
<1>3. CASE WarmStart
  <2>1. state \in RawState /\ state.cfg \in Config
    BY <1>3 DEF WarmStart, TypeOK, ConfigInRange
  <2> QED
    BY <1>3, <2>1, ChooseUplinkIInv DEF WarmStart, TypeOK, FlashInv, OwedInv
<1>4. CASE ColdStart
  <2> DEFINE s == StateInit(RecordDecode(nvs))
  <2>1. s \in RawState /\ s.cfg \in Config
    BY DecodedIsRaw, InitialState DEF TypeOK
  <2>2. unconfirmed = <<>>
    BY <1>4 DEF ColdStart, OwedInv
  <2>3. BootConfig(nvs') = s.cfg
    BY <1>4 DEF ColdStart, BootConfig
  <2>4. ChooseUplink(s, TRUE) /\ nvs' \in Seq(Byte) /\ flashFailed' = FALSE /\ pc = "start"
    BY <1>4 DEF ColdStart, TypeOK
  <2> HIDE DEF s
  <2> QED BY <2>1, <2>2, <2>3, <2>4, ChooseUplinkIInv
<1>5. CASE ColdStartErasing
  <2> DEFINE s == StateInit(NoConfig)
  <2>1. s \in RawState /\ s.cfg \in Config
    BY InitialState
  <2>2. unconfirmed = <<>>
    BY <1>5 DEF ColdStartErasing, OwedInv
  <2>3. RecordDecode(nvs') = NoConfig
    BY <1>5 DEF ColdStartErasing, RecordDecode
  <2>4. ChooseUplink(s, TRUE) /\ nvs' \in Seq(Byte) /\ flashFailed' = FALSE /\ pc = "start"
    BY <1>5, EmptyIsBytes DEF ColdStartErasing
  <2>5. BootConfig(nvs') = s.cfg
    BY <2>3 DEF BootConfig
  <2> HIDE DEF s
  <2> QED BY <2>1, <2>2, <2>4, <2>5, ChooseUplinkIInv
<1>6. CASE ColdStartUnreadable
  <2> DEFINE s == StateInit(NoConfig)
  <2>1. s \in RawState /\ s.cfg \in Config
    BY InitialState
  <2>2. unconfirmed = <<>>
    BY <1>6 DEF ColdStartUnreadable, OwedInv
  <2>3. ChooseUplink(s, TRUE) /\ nvs' \in Seq(Byte) /\ flashFailed' = TRUE /\ pc = "start"
    BY <1>6 DEF ColdStartUnreadable, TypeOK
  <2> HIDE DEF s
  <2> QED BY <2>1, <2>2, <2>3, ChooseUplinkIInv
<1>7. CASE SendNothingBack
  <2>1. NoDownlink.received = FALSE
    BY DEF NoDownlink
  <2> QED BY <1>7, <2>1, NoFrames, AfterSendIInv DEF SendNothingBack
<1>8. CASE SendAndReceive
  <2> PICK d \in Downlinks : AfterSend(Received(d))
    BY <1>8 DEF SendAndReceive
  <2>1. /\ Received(d) \in [received: BOOLEAN, fport: Byte, data: Seq(Byte)]
        /\ Received(d).data # <<>>
    BY DownlinksAssumption DEF Received
  <2> QED BY <2>1, AfterSendIInv
<1>9. CASE HandleDownlink
  <2> DEFINE after == OnDownlink(state, down.fport, down.data)
  <2>1. haveState /\ state \in RawState /\ state.cfg \in Config /\ haveState' = haveState
    BY <1>9 DEF HandleDownlink, StateKept, Awake, ConfigInRange, TypeOK
  <2>2. down.fport \in Byte /\ down.data \in Seq(Byte) /\ down.data # <<>>
    BY <1>9 DEF HandleDownlink, DownInv, TypeOK
  <2>3. /\ after \in RawState /\ after.cfg \in Config
        /\ down.fport = DownlinkFPort => after.pending /\ Judged(down.data, after)
        /\ down.fport # DownlinkFPort => after = state
        /\ ~Changed(state, after) => after.cfg = state.cfg
    BY <2>1, <2>2, DownlinkFacts
  <2>4. /\ state' = after
        /\ pc' = IF Changed(state, after) THEN "save" ELSE "arm"
        /\ unconfirmed' = IF down.fport = DownlinkFPort THEN down.data ELSE unconfirmed
        /\ UNCHANGED <<haveState, nvs, coldBoot, frame, down, timer, flashFailed, cuts>>
    BY <1>9 DEF HandleDownlink
  <2> HIDE DEF after
  <2>5. TypeOK'
    BY <2>2, <2>3, <2>4 DEF TypeOK
  <2>6. ConfigInRange' /\ StateKept' /\ DownInv'
    BY <2>1, <2>3, <2>4 DEF ConfigInRange, StateKept, DownInv
  <2>7. FlashInv'
    BY <1>9, <2>3, <2>4 DEF FlashInv, BootConfig, HandleDownlink
  <2>8. OwedInv'
    <3>1. CASE down.fport = DownlinkFPort
      BY <2>1, <2>3, <2>4, <3>1 DEF OwedInv
    <3>2. CASE down.fport # DownlinkFPort
      BY <2>1, <2>3, <2>4, <3>2 DEF OwedInv
    <3> QED BY <3>1, <3>2
  <2> QED BY <2>5, <2>6, <2>7, <2>8
<1>10. CASE NothingReceived
  BY <1>10 DEF NothingReceived, TypeOK, StateKept, Awake, ConfigInRange, FlashInv,
               OwedInv, DownInv
<1>11. CASE SaveConfig
  <2>1. haveState /\ state.cfg \in Config
    BY <1>11 DEF SaveConfig, StateKept, Awake, ConfigInRange
  <2>2. nvs' \in Seq(Byte) /\ BootConfig(nvs') = state'.cfg
    BY <1>11, <2>1, RecordRoundTrip DEF SaveConfig
  <2>3. TypeOK'
    BY <1>11, <2>2 DEF SaveConfig, TypeOK
  <2>4. StateKept' /\ ConfigInRange' /\ OwedInv' /\ DownInv'
    BY <1>11 DEF SaveConfig, StateKept, Awake, ConfigInRange, OwedInv, DownInv
  <2> QED BY <2>2, <2>3, <2>4 DEF FlashInv
<1>12. CASE SaveConfigFails
  <2>1. haveState /\ state.cfg \in Config
    BY <1>12 DEF SaveConfigFails, StateKept, Awake, ConfigInRange
  <2>2. nvs' \in Seq(Byte)
    BY <1>12, <2>1, EmptyIsBytes, RecordRoundTrip DEF SaveConfigFails, TypeOK
  <2>3. TypeOK'
    BY <1>12, <2>2 DEF SaveConfigFails, TypeOK
  <2>4. StateKept' /\ ConfigInRange' /\ OwedInv' /\ DownInv' /\ FlashInv'
    BY <1>12 DEF SaveConfigFails, StateKept, Awake, ConfigInRange, OwedInv, DownInv,
                 FlashInv
  <2> QED BY <2>3, <2>4
<1>13. CASE DeepSleep
  <2>1. haveState /\ state.cfg \in Config /\ haveState' = haveState /\ state' = state
    BY <1>13 DEF DeepSleep, StateKept, Awake, ConfigInRange
  <2>2. timer' \in IntervalMin..IntervalMax
    <3>1. timer' = ReportDelay \/ timer' = state.cfg.interval
      BY <1>13 DEF DeepSleep, SleepSeconds
    <3>2. ReportDelay \in IntervalMin..IntervalMax
      BY DEF ReportDelay, IntervalMin, IntervalMax
    <3> QED BY <2>1, <3>1, <3>2 DEF Config
  <2>3. timer' \in Nat
    BY <2>2, NumericLimits
  <2>4. TypeOK'
    BY <1>13, <2>3, NoFrames DEF DeepSleep, TypeOK
  <2>5. ConfigInRange' /\ FlashInv' /\ OwedInv'
    BY <1>13, <2>1, <2>2 DEF DeepSleep, ConfigInRange, FlashInv, OwedInv, BootConfig
  <2>6. StateKept' /\ DownInv'
    BY <1>13, <2>1 DEF DeepSleep, StateKept, DownInv, NoDownlink
  <2> QED BY <2>4, <2>5, <2>6
<1>14. CASE PowerCut
  <2>1. nvs' \in Seq(Byte)
    <3>1. CASE pc = "save"
      <4>1. state.cfg \in Config
        BY <3>1 DEF StateKept, Awake, ConfigInRange
      <4> QED BY <1>14, <3>1, <4>1, RecordRoundTrip DEF PowerCut, TypeOK
    <3>2. CASE pc # "save"
      BY <1>14, <3>2 DEF PowerCut, TypeOK
    <3> QED BY <3>1, <3>2
  <2>2. cuts' \in 0..MaxCuts
    BY <1>14, MaxCutsAssumption DEF PowerCut, TypeOK
  <2>3. TypeOK'
    BY <1>14, <2>1, <2>2, EmptyIsBytes, NoFrames, ZeroStateIsRaw DEF PowerCut, TypeOK
  <2>4. StateKept' /\ ConfigInRange' /\ FlashInv' /\ OwedInv' /\ DownInv'
    BY <1>14 DEF PowerCut, StateKept, Awake, ConfigInRange, FlashInv, OwedInv, DownInv,
                 NoDownlink
  <2> QED BY <2>3, <2>4
<1>15. CASE UNCHANGED vars
  BY <1>15 DEF vars, TypeOK, StateKept, Awake, ConfigInRange, FlashInv, OwedInv,
               DownInv, BootConfig
<1> QED
  BY <1>1, <1>2, <1>3, <1>4, <1>5, <1>6, <1>7, <1>8, <1>9, <1>10, <1>11, <1>12,
     <1>13, <1>14, <1>15 DEF Next, Step

-----------------------------------------------------------------------------
(* In every reachable state the invariant above holds: in particular every *)
(* variable has its type, whatever the server sends, whatever flash holds  *)
(* and wherever the power is cut.                                          *)
THEOREM InvariantHolds == Spec => []IInv
BY InitIInv, NextIInv, PTL DEF Spec

(* Every variable of Node keeps its type in every reachable state.         *)
THEOREM TypeCorrect == Spec => []TypeOK
<1>1. IInv => TypeOK
  BY DEF IInv
<1> QED BY <1>1, InvariantHolds, PTL

(* No command, no flash content and no power cut makes a node run with a   *)
(* setting out of range or sleep outside 120 s .. 6 h.                     *)
THEOREM RangeSafety == Spec => []ConfigInRange
<1>1. IInv => ConfigInRange
  BY DEF IInv
<1> QED BY <1>1, InvariantHolds, PTL

(* While flash works, what a sleeping node runs with is what a power cut   *)
(* would leave it with.                                                    *)
THEOREM FlashSafety == Spec => []FlashAgrees
<1>1. IInv => FlashAgrees
  BY DEF IInv, FlashInv, FlashAgrees, StateKept
<1> QED BY <1>1, InvariantHolds, PTL

\* Only a step that fills RTC RAM or finds it filled puts an uplink on its way.
LEMMA SendsCases ==
  ASSUME IInv, Next, NEW port, Sends(port)
  PROVE  \/ /\ ChooseUplink(state, FALSE) /\ haveState
         \/ ~haveState /\ unconfirmed = <<>>
<1>1. unconfirmed # <<>> => haveState
  BY DEF IInv, OwedInv
<1>2. CASE WarmStart
  BY <1>2 DEF WarmStart
<1>3. CASE ~haveState
  BY <1>1, <1>3
<1> QED
  BY <1>2, <1>3
     DEF Sends, Next, Step, PowerOn, TimerWake, ColdStart, ColdStartErasing,
         ColdStartUnreadable, SendNothingBack, SendAndReceive, AfterSend,
         HandleDownlink, NothingReceived, SaveConfig, SaveConfigFails, DeepSleep,
         PowerCut

(* A command is always reported before the next reading is sent.           *)
THEOREM ReportFirstHolds == Spec => ReportFirst
<1>1. IInv /\ [Next]_vars => [Sends(DataFPort) => unconfirmed = <<>>]_vars
  <2> SUFFICES ASSUME IInv, Next, Sends(DataFPort), unconfirmed # <<>>
               PROVE  FALSE
    OBVIOUS
  <2>1. ChooseUplink(state, FALSE) /\ state.pending
    BY SendsCases DEF IInv, OwedInv
  <2>2. frame'.fport = ReportFPort
    BY <2>1 DEF ChooseUplink, ReportFrame
  <2> QED BY <2>2 DEF Sends, ReportFPort, DataFPort
<1> QED BY <1>1, InvariantHolds, PTL DEF Spec, ReportFirst

\* A report holds the bytes of the commanded setting exactly when the setting has that value.
LEMMA SettingBytes ==
  ASSUME NEW s \in RawState, NEW cmd \in Seq(Byte), WellFormed(cmd)
  PROVE  LET at == SettingAt(cmd[1])
             report == ReportEncode(s)
         IN  /\ Commanded(cmd, s.cfg) = s.cfg =>
                  report[at] = cmd[2] /\ report[at + 1] = cmd[3]
             /\ report[at] = cmd[2] /\ report[at + 1] = cmd[3] =>
                  Commanded(cmd, s.cfg) = s.cfg
<1> DEFINE u == U16At(cmd, 2)
           p == FromInt16(s.cfg.pm)
           t == FromInt16(s.cfg.temp)
           n == s.cfg.interval
           report == ReportEncode(s)
<1>1. s.cfg \in RawConfig
  BY DEF RawState
<1>2. n \in U16 /\ p \in U16 /\ t \in U16 /\ ToInt16(p) = s.cfg.pm /\ ToInt16(t) = s.cfg.temp
  BY <1>1, U16OfInt16 DEF RawConfig
<1>3. 2 \in Nat \ {0} /\ 2 + 1 <= Len(cmd) /\ 2 + 1 = 3
  BY DEF WellFormed
<1>4. u \in U16 /\ Lo(u) = cmd[2] /\ Hi(u) = cmd[3] /\ FromInt16(ToInt16(u)) = u
  BY <1>3, BytesAtAreU16, Int16OfU16
<1>5. \A v \in U16 : Lo(v) = Lo(u) /\ Hi(v) = Hi(u) => v = u
  <2> TAKE v \in U16
  <2>1. Lo(v) + 256 * Hi(v) = v /\ Lo(u) + 256 * Hi(u) = u
    BY <1>4, BytesOfU16
  <2> QED BY <2>1
<1>6. /\ report[4] = Lo(n) /\ report[5] = Hi(n)
      /\ report[6] = Lo(p) /\ report[7] = Hi(p)
      /\ report[8] = Lo(t) /\ report[9] = Hi(t)
  <2>1. report = <<1, s.lastResult, s.lastCmd, Lo(n), Hi(n), Lo(p), Hi(p), Lo(t), Hi(t)>>
    BY DEF ReportEncode
  <2> HIDE DEF report, p, t, n
  <2> QED BY <2>1
<1>7. CmdSetInterval = 1 /\ CmdSetPmOffset = 2 /\ CmdSetTempOffset = 3
  BY DEF CmdSetInterval, CmdSetPmOffset, CmdSetTempOffset
<1>8. CASE cmd[1] = 1
  <2>1. Commanded(cmd, s.cfg) = [s.cfg EXCEPT !.interval = u]
    BY <1>7, <1>8 DEF Commanded
  <2>2. SettingAt(cmd[1]) = 4 /\ SettingAt(cmd[1]) + 1 = 5
    BY <1>8 DEF SettingAt
  <2>3. Commanded(cmd, s.cfg) = s.cfg <=> n = u
    <3> HIDE DEF u
    <3> QED BY <1>1, <2>1 DEF RawConfig
  <2> HIDE DEF u, n, report
  <2> QED BY <1>2, <1>4, <1>5, <1>6, <2>2, <2>3 DEF report
<1>9. CASE cmd[1] = 2
  <2>1. Commanded(cmd, s.cfg) = [s.cfg EXCEPT !.pm = ToInt16(u)]
    BY <1>7, <1>9 DEF Commanded
  <2>2. SettingAt(cmd[1]) = 6 /\ SettingAt(cmd[1]) + 1 = 7
    BY <1>9 DEF SettingAt
  <2>3. Commanded(cmd, s.cfg) = s.cfg <=> s.cfg.pm = ToInt16(u)
    <3> HIDE DEF u
    <3> QED BY <1>1, <2>1 DEF RawConfig
  <2>4. s.cfg.pm = ToInt16(u) <=> p = u
    BY <1>2, <1>4
  <2> HIDE DEF u, p, report
  <2> QED BY <1>2, <1>4, <1>5, <1>6, <2>2, <2>3, <2>4 DEF report
<1>10. CASE cmd[1] = 3
  <2>1. Commanded(cmd, s.cfg) = [s.cfg EXCEPT !.temp = ToInt16(u)]
    BY <1>7, <1>10 DEF Commanded
  <2>2. SettingAt(cmd[1]) = 8 /\ SettingAt(cmd[1]) + 1 = 9
    BY <1>10 DEF SettingAt
  <2>3. Commanded(cmd, s.cfg) = s.cfg <=> s.cfg.temp = ToInt16(u)
    <3> HIDE DEF u
    <3> QED BY <1>1, <2>1 DEF RawConfig
  <2>4. s.cfg.temp = ToInt16(u) <=> t = u
    BY <1>2, <1>4
  <2> HIDE DEF u, t, report
  <2> QED BY <1>2, <1>4, <1>5, <1>6, <2>2, <2>3, <2>4 DEF report
<1> QED BY <1>7, <1>8, <1>9, <1>10 DEF WellFormed

(* A report says of the last command exactly what became of it.            *)
THEOREM ConfirmationHolds == Spec => ConfirmationEchoes
<1> DEFINE Echo ==
      (Sends(ReportFPort) /\ unconfirmed # <<>>) =>
        LET report == frame'.payload
            at     == SettingAt(unconfirmed[1])
            same   == /\ report[at] = unconfirmed[2]
                      /\ report[at + 1] = unconfirmed[3]
        IN  /\ report[3] = unconfirmed[1]
            /\ report[2] = ResultApplied => WellFormed(unconfirmed) /\ same
            /\ report[2] = ResultOutOfRange => WellFormed(unconfirmed) /\ ~same
            /\ report[2] = ResultMalformed => ~WellFormed(unconfirmed)
            /\ report[2] # ResultNone
<1>1. IInv /\ [Next]_vars => [Echo]_vars
  <2> SUFFICES ASSUME IInv, Next, Sends(ReportFPort), unconfirmed # <<>> PROVE Echo
    OBVIOUS
  <2> DEFINE report == ReportEncode(state)
  <2>1. /\ ChooseUplink(state, FALSE) /\ state.pending
        /\ Judged(unconfirmed, state) /\ haveState
    BY SendsCases DEF IInv, OwedInv
  <2>2. frame'.payload = report
    BY <2>1 DEF ChooseUplink, ReportFrame
  <2>3. state \in RawState /\ state.cfg \in Config /\ unconfirmed \in Seq(Byte)
    BY <2>1 DEF IInv, TypeOK, ConfigInRange
  <2>4. report[2] = state.lastResult /\ report[3] = state.lastCmd
    BY DEF ReportEncode
  <2>5. state.cfg \in RawConfig /\ Valid(state.cfg)
    BY <2>3, ConfigIsRaw, ConfigFields
  <2> HIDE DEF report
  <2>6. CASE WellFormed(unconfirmed)
    <3> DEFINE at == SettingAt(unconfirmed[1])
               same == report[at] = unconfirmed[2] /\ report[at + 1] = unconfirmed[3]
    <3>1. same <=> Commanded(unconfirmed, state.cfg) = state.cfg
      BY <2>3, <2>6, SettingBytes DEF report
    <3> HIDE DEF at
    <3> QED BY <2>1, <2>2, <2>4, <2>5, <2>6, <3>1 DEF Judged, at
  <2>7. CASE ~WellFormed(unconfirmed)
    BY <2>1, <2>2, <2>4, <2>7 DEF Judged
  <2> QED BY <2>6, <2>7
<1> QED BY <1>1, InvariantHolds, PTL DEF Spec, ConfirmationEchoes

-----------------------------------------------------------------------------
(* The refinement of RemoteConfig.                                         *)
\* What a node runs with is its configuration in RTC RAM, if it has one.
LEMMA StartImplements ==
  ASSUME IInv, ~haveState, NEW s, NEW cold, ChooseUplink(s, cold), ~s.pending,
         s.cfg \in {BootConfig(nvs), DefaultConfig},
         BootConfig(nvs') \in {BootConfig(nvs), s.cfg}
  PROVE  RC!Next
<1>1. state'.cfg = s.cfg /\ haveState'
  BY DEF ChooseUplink
<1>2. unconfirmed = <<>> /\ unconfirmed' = unconfirmed
  BY DEF IInv, OwedInv, ChooseUplink
<1>3. RC!Start
  BY <1>1, <1>2 DEF RC!Start
<1> QED BY <1>3 DEF RC!Next

\* Every step of a wake is one of RemoteConfig's or changes nothing it sees.
LEMMA StepImplements == IInv /\ [Next]_vars => [RC!Next]_(RC!vars)
<1> SUFFICES ASSUME IInv, [Next]_vars PROVE [RC!Next]_(RC!vars)
  OBVIOUS
<1>0. state \in RawState
  BY DEF IInv, TypeOK
<1>1. haveState => state.cfg # NoConfig
  <2> SUFFICES ASSUME haveState PROVE state.cfg # NoConfig
    OBVIOUS
  <2>1. state.cfg \in RawConfig
    BY ConfigIsRaw DEF IInv, ConfigInRange
  <2> QED BY <2>1, U16Range DEF RawConfig, NoConfig
<1>2. CASE PowerOn \/ TimerWake \/ NothingReceived \/ DeepSleep \/ UNCHANGED vars
  BY <1>2 DEF PowerOn, TimerWake, NothingReceived, DeepSleep, vars, RC!vars
<1>3. CASE WarmStart
  <2>1. state'.cfg = state.cfg /\ haveState' = haveState /\ nvs' = nvs
    BY <1>0, <1>3 DEF WarmStart, ChooseUplink, RawState
  <2>2. unconfirmed' \in {unconfirmed, <<>>}
    BY <1>3 DEF WarmStart, ChooseUplink
  <2> QED BY <2>1, <2>2 DEF RC!Next, RC!Confirm, RC!vars
<1>4. CASE ColdStart
  <2>1. ~StateInit(RecordDecode(nvs)).pending
    BY DEF StateInit
  <2> QED BY <1>4, <2>1, StartImplements DEF ColdStart, BootConfig
<1>5. CASE ColdStartErasing
  <2>1. ~StateInit(NoConfig).pending /\ StateInit(NoConfig).cfg = DefaultConfig
    BY DEF StateInit
  <2>2. BootConfig(<<>>) = DefaultConfig
    BY DEF BootConfig, RecordDecode, StateInit
  <2> QED BY <1>5, <2>1, <2>2, StartImplements DEF ColdStartErasing
<1>6. CASE ColdStartUnreadable
  <2>1. ~StateInit(NoConfig).pending /\ StateInit(NoConfig).cfg = DefaultConfig
    BY DEF StateInit
  <2> QED BY <1>6, <2>1, StartImplements DEF ColdStartUnreadable
<1>7. CASE SendNothingBack \/ SendAndReceive
  <2>1. /\ state'.cfg = state.cfg /\ haveState' = haveState /\ nvs' = nvs
        /\ unconfirmed' = unconfirmed
    BY <1>0, <1>7 DEF SendNothingBack, SendAndReceive, AfterSend, RawState
  <2> QED BY <2>1 DEF RC!vars
<1>8. CASE HandleDownlink
  <2>1. haveState /\ state \in RawState /\ state.cfg \in Config
    BY <1>8 DEF HandleDownlink, IInv, TypeOK, StateKept, Awake, ConfigInRange
  <2>2. down.fport \in Byte /\ down.data \in Seq(Byte) /\ down.data # <<>>
    BY <1>8 DEF HandleDownlink, IInv, TypeOK, DownInv
  <2>3. /\ state'.cfg \in Config
        /\ down.fport # DownlinkFPort => state' = state
    BY <1>8, <2>1, <2>2, DownlinkFacts DEF HandleDownlink
  <2>4. haveState' /\ nvs' = nvs
    BY <1>8, <2>1 DEF HandleDownlink
  <2>5. CASE down.fport = DownlinkFPort
    <3>1. unconfirmed' # <<>>
      BY <1>8, <2>2, <2>5 DEF HandleDownlink
    <3>2. RC!Obey
      BY <1>1, <2>1, <2>3, <2>4, <3>1 DEF RC!Obey
    <3> QED BY <3>2 DEF RC!Next
  <2>6. CASE down.fport # DownlinkFPort
    BY <1>8, <2>1, <2>3, <2>4, <2>6 DEF HandleDownlink, RC!vars
  <2> QED BY <2>5, <2>6
<1>9. CASE SaveConfig \/ SaveConfigFails \/ PowerCut
  <2>1. pc = "save" => haveState /\ state.cfg \in Config
    BY DEF IInv, StateKept, Awake, ConfigInRange
  <2>2. pc = "save" => BootConfig(RecordEncode(state.cfg)) = state.cfg
    BY <2>1, RecordRoundTrip
  <2>3. BootConfig(<<>>) = DefaultConfig
    BY DEF BootConfig, RecordDecode, StateInit
  <2>4. CASE SaveConfig \/ SaveConfigFails
    <3>1. /\ pc = "save" /\ haveState' = haveState /\ state' = state
          /\ unconfirmed' = unconfirmed
      BY <2>4 DEF SaveConfig, SaveConfigFails
    <3>2. nvs' \in {nvs, <<>>, RecordEncode(state.cfg)}
      BY <2>4 DEF SaveConfig, SaveConfigFails
    <3>3. BootConfig(nvs') \in {BootConfig(nvs), DefaultConfig, state.cfg}
      BY <2>2, <2>3, <3>1, <3>2
    <3> QED BY <1>1, <2>1, <3>1, <3>3 DEF RC!Next, RC!Save, RC!vars
  <2>5. CASE PowerCut
    <3>1. ~haveState' /\ unconfirmed' = <<>>
      BY <2>5 DEF PowerCut
    <3>2. BootConfig(nvs') \in {BootConfig(nvs), state.cfg}
      BY <2>2, <2>5 DEF PowerCut
    <3>3. nvs' # nvs => haveState
      BY <2>1, <2>5 DEF PowerCut
    <3>4. CASE haveState
      BY <1>1, <3>1, <3>2, <3>4 DEF RC!Next, RC!Lose
    <3>5. CASE ~haveState
      <4>1. unconfirmed = <<>> /\ nvs' = nvs
        BY <3>3, <3>5 DEF IInv, OwedInv
      <4> QED BY <3>1, <3>5, <4>1 DEF RC!vars
    <3> QED BY <3>4, <3>5
  <2> QED BY <1>9, <2>4, <2>5
<1> QED
  BY <1>2, <1>3, <1>4, <1>5, <1>6, <1>7, <1>8, <1>9 DEF Next, Step

(* A node keeps its promises: its whole wake cycle implements RemoteConfig *)
(* for every set of downlinks, every flash content and any power cuts.     *)
THEOREM NodeImplementsRemoteConfig == Spec => ImplementsRemoteConfig
<1>1. Init => RC!Init
  <2> SUFFICES ASSUME Init PROVE RC!Init
    OBVIOUS
  <2>1. nvs \in Seq(Byte)
    BY FlashAssumption DEF Init
  <2>2. BootConfig(nvs) \in Config
    BY <2>1, DecodedIsRaw, InitialState DEF BootConfig
  <2> QED BY <2>2 DEF Init, RC!Init
<1> QED
  BY <1>1, StepImplements, InvariantHolds, PTL DEF Spec, ImplementsRemoteConfig, RC!Spec
=============================================================================
