-------------------------------- MODULE Node --------------------------------
(***************************************************************************)
(* One sensor node: app_main of firmware/src/main.cpp, run once per wake.  *)
(* A wake loads the configuration if RTC RAM holds none, sends a reading   *)
(* or a config report, applies the downlink that came back, writes a       *)
(* change to flash and goes to deep sleep.  The power can be cut between   *)
(* any two steps: RTC RAM is lost, flash is kept.                          *)
(*                                                                         *)
(* RTC RAM: state, haveState.  Flash: nvs.  RAM of one wake: coldBoot,     *)
(* frame, down.  History, read by no guard: flashFailed, unconfirmed.      *)
(***************************************************************************)
EXTENDS NodeConfig

CONSTANTS Downlinks,  \* what the server may send: [fport, data] records
          Flash,      \* records a node's NVS may hold when it is first powered
          MaxCuts     \* bound on the power cuts of one behaviour

\* rx_len > 0 is the condition under which a downlink is handed to the program.
ASSUME DownlinksAssumption ==
  Downlinks \subseteq [fport: Byte, data: Seq(Byte) \ {<<>>}]
ASSUME FlashAssumption == Flash \subseteq Seq(Byte)
ASSUME MaxCutsAssumption == MaxCuts \in Nat

VARIABLES
  pc,           \* where the wake stands
  haveState,    \* s_have_state: FALSE on every boot that is not a deep-sleep wake
  state,        \* s_state
  nvs,          \* the bytes stored under "aq"/"config"; <<>> is no record
  coldBoot,     \* this wake found no state in RTC RAM
  frame,        \* the uplink being sent
  down,         \* what the receive window brought
  timer,        \* the deep sleep the wake armed, in seconds
  flashFailed,  \* a load or save of the config failed since RTC RAM was filled
  unconfirmed,  \* the last config command, until a report of it is encoded
  cuts          \* power cuts so far

vars == <<pc, haveState, state, nvs, coldBoot, frame, down, timer,
          flashFailed, unconfirmed, cuts>>

-----------------------------------------------------------------------------
NoDownlink == [received |-> FALSE, fport |-> 0, data |-> <<>>]
Received(d) == [received |-> TRUE, fport |-> d.fport, data |-> d.data]

NoFrame == [fport |-> 0, payload |-> <<>>]
\* What the sensors measured is outside this module: a reading has no payload.
ReadingFrame == [fport |-> DataFPort, payload |-> <<>>]
ReportFrame(s) == [fport |-> ReportFPort, payload |-> ReportEncode(s)]

\* RTC RAM before app_main fills it: s_state is zero-initialised.
ZeroState == [cfg |-> [interval |-> 0, pm |-> 0, temp |-> 0],
              pending |-> FALSE, lastCmd |-> 0, lastResult |-> ResultNone]

\* What a cold boot would make of the bytes in flash.
BootConfig(rec) == StateInit(RecordDecode(rec)).cfg

TypeOK ==
  /\ pc \in {"off", "asleep", "start", "send", "handle", "save", "arm"}
  /\ haveState \in BOOLEAN
  /\ state \in RawState
  /\ nvs \in Seq(Byte)
  /\ coldBoot \in BOOLEAN
  /\ frame \in [fport: {0, DataFPort, ReportFPort}, payload: Seq(Byte)]
  /\ down \in [received: BOOLEAN, fport: Byte, data: Seq(Byte)]
  /\ timer \in Nat
  /\ flashFailed \in BOOLEAN
  /\ unconfirmed \in Seq(Byte)
  /\ cuts \in 0..MaxCuts

Init ==
  /\ pc = "off"
  /\ haveState = FALSE
  /\ state = ZeroState
  /\ nvs \in Flash
  /\ coldBoot = FALSE
  /\ frame = NoFrame
  /\ down = NoDownlink
  /\ timer = 0
  /\ flashFailed = FALSE
  /\ unconfirmed = <<>>
  /\ cuts = 0

-----------------------------------------------------------------------------
PowerOn ==
  /\ pc = "off"
  /\ pc' = "start"
  /\ UNCHANGED <<haveState, state, nvs, coldBoot, frame, down, timer,
                 flashFailed, unconfirmed, cuts>>

\* The deep-sleep timer: the chip restarts with RTC RAM kept.
TimerWake ==
  /\ pc = "asleep"
  /\ pc' = "start"
  /\ timer' = 0
  /\ UNCHANGED <<haveState, state, nvs, coldBoot, frame, down, flashFailed,
                 unconfirmed, cuts>>

\* Mutant: aq_state_report_done is not called.
ChooseUplinkKeepsPending(s, cold) ==
  /\ coldBoot' = cold
  /\ pc' = "send"
  /\ haveState' = TRUE
  /\ state' = s
  /\ frame' = IF s.pending THEN ReportFrame(s) ELSE ReadingFrame
  /\ unconfirmed' = IF s.pending THEN <<>> ELSE unconfirmed
  /\ UNCHANGED <<down, timer, cuts>>

\* The uplink this wake sends: a report that is due takes the reading's place
\* and is no longer pending before it is on the air.
ChooseUplink(s, cold) ==
  /\ coldBoot' = cold
  /\ pc' = "send"
  /\ haveState' = TRUE
  /\ IF s.pending
       THEN /\ frame' = ReportFrame(s)
            /\ state' = [s EXCEPT !.pending = FALSE]
            /\ unconfirmed' = <<>>
       ELSE /\ frame' = ReadingFrame
            /\ state' = s
            /\ UNCHANGED unconfirmed
  /\ UNCHANGED <<down, timer, cuts>>

WarmStart ==
  /\ pc = "start" /\ haveState
  /\ ChooseUplink(state, FALSE)
  /\ UNCHANGED <<nvs, flashFailed>>

\* esp32_config_load read the partition; it may hold no usable record.
ColdStart ==
  /\ pc = "start" /\ ~haveState
  /\ ChooseUplink(StateInit(RecordDecode(nvs)), TRUE)
  /\ flashFailed' = FALSE
  /\ UNCHANGED nvs

\* nvs_flash_init found the partition full or foreign, and erased it.
ColdStartErasing ==
  /\ pc = "start" /\ ~haveState
  /\ nvs' = <<>>
  /\ ChooseUplink(StateInit(NoConfig), TRUE)
  /\ flashFailed' = FALSE

\* The partition could not be opened or read: the defaults run.
ColdStartUnreadable ==
  /\ pc = "start" /\ ~haveState
  /\ ChooseUplink(StateInit(NoConfig), TRUE)
  /\ flashFailed' = TRUE
  /\ UNCHANGED nvs

\* The end of the if/else in app_main: a cold boot's first reading queues a report.
AfterSend(d) ==
  /\ pc = "send"
  /\ down' = d
  /\ state' = IF coldBoot /\ frame.fport = DataFPort
                THEN [state EXCEPT !.pending = TRUE] ELSE state
  /\ pc' = "handle"
  /\ UNCHANGED <<haveState, nvs, coldBoot, frame, timer, flashFailed,
                 unconfirmed, cuts>>

\* lorawan_send: no join, a radio error, or sent with nothing in RX1/RX2.
SendNothingBack == AfterSend(NoDownlink)

SendAndReceive == \E d \in Downlinks : AfterSend(Received(d))

\* handle_downlink up to the save.
HandleDownlink ==
  /\ pc = "handle" /\ down.received
  /\ LET after == OnDownlink(state, down.fport, down.data)
     IN  /\ state' = after
         /\ pc' = IF Changed(state, after) THEN "save" ELSE "arm"
  /\ unconfirmed' = IF down.fport = DownlinkFPort THEN down.data ELSE unconfirmed
  /\ UNCHANGED <<haveState, nvs, coldBoot, frame, down, timer, flashFailed, cuts>>

NothingReceived ==
  /\ pc = "handle" /\ ~down.received
  /\ pc' = "arm"
  /\ UNCHANGED <<haveState, state, nvs, coldBoot, frame, down, timer,
                 flashFailed, unconfirmed, cuts>>

SaveConfig ==
  /\ pc = "save"
  /\ nvs' = RecordEncode(state.cfg)
  /\ flashFailed' = FALSE
  /\ pc' = "arm"
  /\ UNCHANGED <<haveState, state, coldBoot, frame, down, timer, unconfirmed, cuts>>

\* esp32_config_save returned -1, before or after the record was replaced
\* (ensure_nvs may have erased it): only logged, the command stays applied.
SaveConfigFails ==
  /\ pc = "save"
  /\ nvs' \in {nvs, <<>>, RecordEncode(state.cfg)}
  /\ flashFailed' = TRUE
  /\ pc' = "arm"
  /\ UNCHANGED <<haveState, state, coldBoot, frame, down, timer, unconfirmed, cuts>>

DeepSleep ==
  /\ pc = "arm"
  /\ timer' = SleepSeconds(state)
  /\ pc' = "asleep"
  /\ coldBoot' = FALSE
  /\ frame' = NoFrame
  /\ down' = NoDownlink
  /\ UNCHANGED <<haveState, state, nvs, flashFailed, unconfirmed, cuts>>

\* A power cut or reset: RTC RAM goes back to its initialisers.  NVS replaces a
\* record atomically, so a save under way has happened or has not.
PowerCut ==
  /\ pc # "off" /\ cuts < MaxCuts
  /\ cuts' = cuts + 1
  /\ pc' = "off"
  /\ haveState' = FALSE
  /\ state' = ZeroState
  /\ nvs' \in IF pc = "save" THEN {nvs, RecordEncode(state.cfg)} ELSE {nvs}
  /\ coldBoot' = FALSE
  /\ frame' = NoFrame
  /\ down' = NoDownlink
  /\ timer' = 0
  /\ flashFailed' = FALSE
  /\ unconfirmed' = <<>>

-----------------------------------------------------------------------------
\* One instruction of app_main, or the timer that starts it.
Step == \/ PowerOn \/ TimerWake
        \/ WarmStart \/ ColdStart \/ ColdStartErasing \/ ColdStartUnreadable
        \/ SendNothingBack \/ SendAndReceive
        \/ HandleDownlink \/ NothingReceived
        \/ SaveConfig \/ SaveConfigFails
        \/ DeepSleep

Next == Step \/ PowerCut

Spec == Init /\ [][Next]_vars

\* app_main runs to its end and the timer expires; nothing makes a cut happen.
FairSpec == Spec /\ WF_vars(Step)

-----------------------------------------------------------------------------
(* The settings a running node uses are in range, whatever was in flash    *)
(* and whatever was commanded, and it never sleeps for less than the duty  *)
(* cycle allows nor for more than six hours (aq_state_init,                *)
(* aq_downlink_apply, aq_state_sleep_s).                                   *)
ConfigInRange ==
  /\ haveState => state.cfg \in Config
  /\ pc = "asleep" => timer \in IntervalMin..IntervalMax

(* Unless flash failed, a power cut while the node sleeps reverts nothing: *)
(* the next cold boot would load the settings now in use (handle_downlink  *)
(* saves only when aq_state_on_downlink says the config changed).          *)
FlashAgrees == (pc = "asleep" /\ ~flashFailed) => BootConfig(nvs) = state.cfg

Sends(port) == pc = "start" /\ pc' = "send" /\ frame'.fport = port

(* The wake after a config command sends its report: no reading goes out   *)
(* between a command, applied or rejected, and the report of it            *)
(* (aq_state_on_downlink, app_main).                                       *)
ReportFirst == [][Sends(DataFPort) => unconfirmed = <<>>]_vars

\* Where a report holds the setting a command names: its first byte.
SettingAt(cmd) == 2 + 2 * cmd

(* A report is about the last command received, byte for byte: it names    *)
(* its opcode, says "applied" only when the setting it commanded is now    *)
(* the one reported, and "out of range" only when it is not                *)
(* (aq_state_on_downlink, aq_config_report_encode).                        *)
ConfirmationEchoes ==
  [][(Sends(ReportFPort) /\ unconfirmed # <<>>) =>
       LET report == frame'.payload
           at     == SettingAt(unconfirmed[1])
           same   == /\ report[at] = unconfirmed[2]
                     /\ report[at + 1] = unconfirmed[3]
       IN  /\ report[3] = unconfirmed[1]
           /\ report[2] = ResultApplied => WellFormed(unconfirmed) /\ same
           /\ report[2] = ResultOutOfRange => WellFormed(unconfirmed) /\ ~same
           /\ report[2] = ResultMalformed => ~WellFormed(unconfirmed)
           /\ report[2] # ResultNone]_vars

(* Every config command is reported by a later wake, or forgotten in a     *)
(* power cut: it is never left pending for good.                           *)
Confirmed == unconfirmed # <<>> ~> unconfirmed = <<>>

(* Reports do not crowd out the readings: once nothing more is sent down,  *)
(* the node goes back to sending readings and keeps sending them           *)
(* (aq_state_report_done).                                                 *)
ReadingsResume == <>[](~down.received) => []<>(frame.fport = DataFPort)

RC == INSTANCE RemoteConfig
        WITH Settings <- Config, Default <- DefaultConfig, Off <- NoConfig,
             settings <- IF haveState THEN state.cfg ELSE NoConfig,
             saved <- BootConfig(nvs),
             owed <- unconfirmed # <<>>

(* The node keeps the promises of RemoteConfig: app_main with its wakes,   *)
(* radio, flash and power cuts changes the settings only by a command that *)
(* will be confirmed, or by a boot from what was saved.                    *)
ImplementsRemoteConfig == RC!Spec

(* firmware/README.md:80-82, :95: the node stores a command it applies, so *)
(* that it survives a power cut; when no confirmation comes, the command   *)
(* is sent again.  So a command the node reports as applied, in a wake     *)
(* with no flash error, is in flash when the node goes to sleep.           *)
AppliedIsDurable ==
  [][(pc = "handle" /\ pc' = "arm" /\ down.received /\ down.fport = DownlinkFPort
        /\ state'.lastResult = ResultApplied)
       => BootConfig(nvs') = state'.cfg]_vars
=============================================================================
