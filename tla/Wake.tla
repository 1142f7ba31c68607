-------------------------------- MODULE Wake --------------------------------
(***************************************************************************)
(* The hardware side of one wake of a node: the PMU's rails, the PMS7003   *)
(* behind its UART, the BME280 on the shared I2C bus, the battery, the     *)
(* LoRaWAN session in RTC RAM, and the network server at the other end     *)
(* (firmware/adapters/esp32/*.c, core/aq_node.c, the order of main.cpp).   *)
(* Which frame a wake sends and what a downlink does is module Node; here  *)
(* a warm wake may be one that sends a report, without sampling.           *)
(*                                                                         *)
(* Kept by the chips: fan, fifo, bme, rail.  RTC RAM: rtc.  RAM of one     *)
(* wake: ram, pc.  Server: lns, stored.  History: cutShort, lossy, cuts.   *)
(***************************************************************************)
EXTENDS Codec

CONSTANTS Calibrations, \* configurations the node may run with
          PmRaw,        \* ug/m3 the particle sensor may measure
          TempRaw,      \* degrees C x100 the climate sensor may measure
          MaxPolls,     \* status polls before the result is read anyway (50)
          MaxHunt,      \* attempts at finding a valid frame (128)
          MaxFifo,      \* frames the UART buffer holds (8)
          MaxFCnt,      \* bound on the uplinks of one session
          MaxCuts       \* bound on the power cuts of one behaviour

ASSUME MeasuresAssumption ==
  Calibrations \subseteq Config /\ PmRaw \subseteq Nat /\ TempRaw \subseteq Int
ASSUME BoundsAssumption ==
  /\ MaxPolls \in Nat /\ MaxHunt \in Nat \ {0} /\ MaxFifo \in Nat
  /\ MaxFCnt \in Nat \ {0} /\ MaxCuts \in Nat

VARIABLES pc, ram, fan, fifo, bme, rail, rtc, lns, stored, cfg, cutShort, lossy, cuts

chips   == <<fan, fifo, bme, rail>>
history == <<cutShort, lossy, cuts>>
vars    == <<pc, ram, chips, rtc, lns, stored, cfg, history>>

-----------------------------------------------------------------------------
\* No DevNonce and no session are kept; RadioLib then starts counting at 0.
BlankRtc == [session |-> 0, devNonce |-> 0, fcnt |-> 0]
\* Static variables as a boot finds them.
BlankRam == [cold |-> FALSE, pmu |-> FALSE, pm |-> "absent", env |-> "absent",
             tries |-> 0, frame |-> <<>>, meant |-> <<>>]
NothingStored == [bytes |-> <<>>, pm |-> "absent", env |-> "absent", meant |-> <<>>]

Quality == {"absent", "cold", "warm"}
Age     == {"absent", "reset", "old", "fresh"}
Stage   == {"off", "asleep", "boot", "sample", "warmup", "hunt", "bme", "poll", "battery",
            "radio", "send", "done"}

TypeOK ==
  /\ pc \in Stage
  /\ ram \in [cold: BOOLEAN, pmu: BOOLEAN, pm: Quality, env: Age, tries: 0..(MaxHunt + MaxPolls),
              frame: {<<>>} \cup [1..PayloadLength -> Byte] \cup {<<"report">>},
              meant: {<<>>} \cup (U16 \X U16 \X Int \X U16)]
  /\ fan \in {"unknown", "running", "asleep"}
  /\ fifo \in Seq({"cold", "warm", "torn"}) /\ Len(fifo) <= MaxFifo
  /\ bme \in [measuring: BOOLEAN, data: {"reset", "old", "fresh"}]
  /\ rail \in BOOLEAN
  /\ rtc \in [session: Nat, devNonce: Nat, fcnt: 0..MaxFCnt]
  /\ lns \in [used: SUBSET Nat, session: Nat, next: 0..MaxFCnt]
  /\ stored.pm \in Quality /\ stored.env \in Age
  /\ cfg \in Calibrations
  /\ cutShort \in BOOLEAN /\ lossy \in BOOLEAN /\ cuts \in 0..MaxCuts

Init ==
  /\ pc = "off" /\ ram = BlankRam
  /\ fan = "unknown" /\ fifo = <<>> /\ rail = FALSE
  /\ bme = [measuring |-> FALSE, data |-> "reset"]
  /\ rtc = BlankRtc
  /\ lns = [used |-> {}, session |-> 0, next |-> 0]
  /\ stored = NothingStored
  /\ cfg \in Calibrations
  /\ cutShort = FALSE /\ lossy = FALSE /\ cuts = 0

-----------------------------------------------------------------------------
(* Booting.  A particle sensor that gets power runs its fan on its own: it *)
(* is "unknown" to the node until the first command.                       *)
Boot ==
  /\ \/ pc = "off"
     \/ pc = "asleep" /\ rtc.fcnt < MaxFCnt
  /\ pc' = "boot"
  /\ ram' = [BlankRam EXCEPT !.cold = pc = "off"]
  /\ UNCHANGED <<chips, rtc, lns, stored, cfg, history>>

\* esp32_pmu_init: the handle exists unless the bus or the device cannot be
\* created; the rails come up unless a transaction fails, which is not noticed.
PmuInit ==
  /\ pc = "boot"
  /\ \E handle \in BOOLEAN, up \in {rail, TRUE} :
       /\ up # rail => handle
       /\ ram' = [ram EXCEPT !.pmu = handle]
       /\ rail' = up
  /\ UNCHANGED <<fan, fifo, bme, rtc, lns, stored, cfg, history>>
  /\ pc' = "sample"

\* A report that is due takes the reading's place; a cold boot has none.
SendReport ==
  /\ pc = "sample" /\ ~ram.cold
  /\ pc' = "radio"
  /\ ram' = [ram EXCEPT !.frame = <<"report">>]
  /\ UNCHANGED <<chips, rtc, lns, stored, cfg, history>>

-----------------------------------------------------------------------------
(* The particle sensor: esp32_read_pm.                                     *)
UartFails ==
  /\ pc = "sample"
  /\ pc' = "bme"
  /\ UNCHANGED <<ram, chips, rtc, lns, stored, cfg, history>>

PmsWake ==
  /\ pc = "sample"
  /\ pc' = "warmup"
  /\ fan' = "running" /\ fifo' = <<>>
  /\ UNCHANGED <<ram, bme, rail, rtc, lns, stored, cfg, history>>

\* The sensor streams a frame: before the air has been exchanged it is cold,
\* and one that is cut by the flush or garbled on the line is torn.
PmsFrame ==
  /\ pc \in {"warmup", "hunt"} /\ fan = "running" /\ Len(fifo) < MaxFifo
  /\ \E f \in {"torn", IF pc = "warmup" THEN "cold" ELSE "warm"} : fifo' = Append(fifo, f)
  /\ UNCHANGED <<pc, ram, fan, bme, rail, rtc, lns, stored, cfg, history>>

\* Mutant: what was buffered during the warm-up is not dropped.
WarmedUpUnflushed ==
  /\ pc = "warmup"
  /\ pc' = "hunt"
  /\ UNCHANGED <<ram, chips, rtc, lns, stored, cfg, history>>

WarmedUp ==
  /\ pc = "warmup"
  /\ pc' = "hunt"
  /\ fifo' = <<>>
  /\ UNCHANGED <<ram, fan, bme, rail, rtc, lns, stored, cfg, history>>

\* Mutant: the fan is put to sleep only after a successful read.
PmReadSleepsOnSuccess(quality) ==
  /\ pc' = "bme"
  /\ ram' = [ram EXCEPT !.pm = quality, !.tries = 0]
  /\ fan' = IF quality = "absent" THEN fan ELSE "asleep"
  /\ fifo' = <<>>

\* Whatever the read returned, the fan is put back to sleep.
PmRead(quality) ==
  /\ pc' = "bme"
  /\ ram' = [ram EXCEPT !.pm = quality, !.tries = 0]
  /\ fan' = "asleep"
  /\ fifo' = <<>>

\* A valid frame ends the hunt; a torn one is skipped while attempts are left.
Hunt ==
  /\ pc = "hunt" /\ fifo # <<>>
  /\ IF Head(fifo) # "torn" THEN PmRead(Head(fifo))
     ELSE IF ram.tries + 1 = MaxHunt THEN PmRead("absent")
     ELSE /\ ram' = [ram EXCEPT !.tries = @ + 1]
          /\ fifo' = Tail(fifo)
          /\ UNCHANGED <<pc, fan>>
  /\ UNCHANGED <<bme, rail, rtc, lns, stored, cfg, history>>

\* No byte for 1.5 s, or a frame that stops short.
HuntTimeout ==
  /\ pc = "hunt"
  /\ PmRead("absent")
  /\ UNCHANGED <<bme, rail, rtc, lns, stored, cfg, history>>

-----------------------------------------------------------------------------
(* The climate sensor: esp32_read_env.                                     *)
\* No bus, no chip, no calibration, or a write that fails.
BmeFails ==
  /\ pc \in {"bme", "poll"}
  /\ pc' = "battery"
  /\ UNCHANGED <<ram, chips, rtc, lns, stored, cfg, history>>

\* One forced measurement; the data registers keep the previous result.
BmeMeasure ==
  /\ pc = "bme"
  /\ pc' = "poll"
  /\ bme' = [measuring |-> TRUE, data |-> IF bme.data = "reset" THEN "reset" ELSE "old"]
  /\ UNCHANGED <<ram, fan, fifo, rail, rtc, lns, stored, cfg, history>>

ConversionDone ==
  /\ bme.measuring
  /\ bme' = [measuring |-> FALSE, data |-> "fresh"]
  /\ UNCHANGED <<pc, ram, fan, fifo, rail, rtc, lns, stored, cfg, history>>

\* Mutant: the status is read once and a busy chip is not waited for.
PollImpatient ==
  /\ pc = "poll"
  /\ pc' = "battery"
  /\ ram' = [ram EXCEPT !.env = bme.data]
  /\ UNCHANGED <<chips, rtc, lns, stored, cfg, history>>

\* Busy: ask again, up to MaxPolls times; then the registers are read as they are.
Poll ==
  /\ pc = "poll"
  /\ IF bme.measuring /\ ram.tries < MaxPolls
       THEN ram' = [ram EXCEPT !.tries = @ + 1] /\ UNCHANGED <<pc, cutShort>>
       ELSE /\ ram' = [ram EXCEPT !.env = bme.data]
            /\ pc' = "battery"
            /\ cutShort' = (cutShort \/ bme.measuring)
  /\ UNCHANGED <<chips, rtc, lns, stored, cfg, lossy, cuts>>

-----------------------------------------------------------------------------
\* What the sensors hand over: a group that failed is zeroed and not present.
Measured(pm, temp, batt) ==
  [pm |-> ram.pm # "absent", env |-> ram.env # "absent",
   pm25 |-> IF ram.pm # "absent" THEN 10 * pm ELSE 0,
   pm10 |-> IF ram.pm # "absent" THEN 10 * pm ELSE 0,
   temperature |-> IF ram.env # "absent" THEN temp ELSE 0,
   humidity |-> IF ram.env # "absent" THEN 5000 ELSE 0,
   pressure |-> IF ram.env # "absent" THEN 1013 ELSE 0,
   batteryMv |-> batt]

\* The battery's voltage comes from the PMU, or from the ADC, or is 0.
BatteryMv == (IF ram.pmu THEN {4100} ELSE {}) \cup {3700, 0}

Packed(pm, temp, batt) == PayloadEncode(Calibrate(cfg, Measured(pm, temp, batt)))

\* What a packed reading is meant to say, in the units of the wire.
Meant(pm, temp, batt) == <<Clamp(10 * pm + cfg.pm, 0, 65535), Clamp(10 * pm, 0, 65535),
                           temp + cfg.temp, batt>>

\* The rest of send_reading: battery, calibration, the payload.
PackReading ==
  /\ pc = "battery"
  /\ \E pm \in PmRaw, temp \in TempRaw, batt \in BatteryMv :
       ram' = [ram EXCEPT !.frame = Packed(pm, temp, batt), !.meant = Meant(pm, temp, batt)]
  /\ pc' = "radio"
  /\ UNCHANGED <<chips, rtc, lns, stored, cfg, history>>

-----------------------------------------------------------------------------
(* The radio: lorawan_join and lorawan_send.                               *)
\* radio.begin fails, as it must without its rail.
RadioFails ==
  /\ pc = "radio"
  /\ pc' = "done"
  /\ UNCHANGED <<ram, chips, rtc, lns, stored, cfg, history>>

Restore ==
  /\ pc = "radio" /\ rail /\ rtc.session # 0
  /\ pc' = "send"
  /\ UNCHANGED <<ram, chips, rtc, lns, stored, cfg, history>>

\* Mutant: the new session is not kept in RTC RAM.
KeptForgetful(nonce) == rtc

\* lorawan_save_state after a join: session, counters and the next DevNonce.
Kept(nonce) == [session |-> nonce + 1, devNonce |-> nonce + 1, fcnt |-> 0]

\* A Join Request with a DevNonce the server has seen is dropped.  A join that
\* gets no accept returns without saving the DevNonce it used.
Join(arrives, answered) ==
  /\ pc = "radio" /\ rail /\ rtc.session = 0
  /\ LET nonce == rtc.devNonce IN
       IF arrives /\ nonce \notin lns.used
       THEN /\ lns' = [used |-> lns.used \cup {nonce}, session |-> nonce + 1, next |-> 0]
            /\ IF answered
               THEN rtc' = Kept(nonce) /\ pc' = "send" /\ UNCHANGED lossy
               ELSE pc' = "done" /\ lossy' = TRUE /\ UNCHANGED rtc
       ELSE /\ pc' = "done"
            /\ UNCHANGED <<rtc, lns, lossy>>
  /\ UNCHANGED <<ram, chips, stored, cfg, cutShort, cuts>>

\* The network server takes a frame of its session with a counter it has not seen.
Accepts == rtc.session = lns.session /\ rtc.fcnt >= lns.next

Arrive ==
  IF ~Accepts THEN UNCHANGED <<lns, stored>>
  ELSE /\ lns' = [lns EXCEPT !.next = rtc.fcnt + 1]
       /\ stored' = IF ram.frame # <<"report">> /\ Verdict(ram.frame) = "stored"
                    THEN [bytes |-> ram.frame, pm |-> ram.pm, env |-> ram.env,
                          meant |-> ram.meant]
                    ELSE stored

\* Mutant: the frame counter is not kept after a send.
CountedNot == rtc

\* lorawan_save_state after a send.
Counted == [rtc EXCEPT !.fcnt = @ + 1]

\* sendReceive succeeds: the frame went out, and may get lost in the air.
SendOk ==
  /\ pc = "send"
  /\ rtc' = Counted
  /\ Arrive \/ UNCHANGED <<lns, stored>>
  /\ pc' = "done"
  /\ UNCHANGED <<ram, chips, cfg, history>>

\* sendReceive fails before or after the frame went out: nothing is saved.
SendFails ==
  /\ pc = "send"
  /\ Arrive \/ UNCHANGED <<lns, stored>>
  /\ pc' = "done"
  /\ UNCHANGED <<ram, chips, rtc, cfg, history>>

DeepSleep ==
  /\ pc = "done"
  /\ pc' = "asleep"
  /\ ram' = BlankRam
  /\ UNCHANGED <<chips, rtc, lns, stored, cfg, history>>

\* The power is cut: RTC RAM and the chips' state are gone.
PowerCut ==
  /\ pc # "off" /\ cuts < MaxCuts
  /\ pc' = "off" /\ ram' = BlankRam
  /\ fan' = "unknown" /\ fifo' = <<>> /\ rail' = FALSE
  /\ bme' = [measuring |-> FALSE, data |-> "reset"]
  /\ rtc' = BlankRtc
  /\ lossy' = (lossy \/ rtc.session # 0)
  /\ cuts' = cuts + 1
  /\ UNCHANGED <<lns, stored, cfg, cutShort>>

Sampling == \/ UartFails \/ PmsWake \/ WarmedUp \/ Hunt \/ HuntTimeout
            \/ BmeFails \/ BmeMeasure \/ Poll \/ PackReading
Sending  == \/ RadioFails \/ Restore \/ SendOk \/ SendFails
            \/ \E arrives, answered \in BOOLEAN : Join(arrives, answered)
Step     == Boot \/ PmuInit \/ SendReport \/ Sampling \/ Sending \/ DeepSleep
Chips    == PmsFrame \/ ConversionDone

Next == Step \/ Chips \/ PowerCut
Spec == Init /\ [][Next]_vars

\* A wake runs to its end and the timer wakes the node again; the rails come up,
\* and join requests reach the server and its answers the node, again and again.
Fairness ==
  /\ WF_vars(Step) /\ WF_vars(ConversionDone)
  /\ SF_vars(PmuInit /\ rail')
  /\ SF_vars(Join(TRUE, TRUE))
FairSpec == Spec /\ Fairness

-----------------------------------------------------------------------------
(* A stored reading's particles were measured after the warm-up: no frame  *)
(* from before it survives uart_flush_input (sensors_esp32.c:230), however *)
(* many torn frames the hunt skips.                                        *)
PmFresh == stored.pm # "cold"

(* A stored reading's climate values come from the measurement of its own  *)
(* wake, unless 50 polls were not enough (sensors_esp32.c:413), in which   *)
(* case the registers are read as they are.                                *)
EnvFresh == stored.env \in {"reset", "old"} => cutShort

(* A node that sleeps has put the fan to sleep, whatever became of the     *)
(* reads since its first command to it (sensors_esp32.c:225-232).          *)
FanAsleep == pc = "asleep" => fan # "running"

(* After a send that went well the next frame will be taken, although an   *)
(* earlier send may have failed after its frame arrived: "the next wake    *)
(* resumes cleanly" (lora_esp32.cpp:188-193).                              *)
ResumesCleanly == [][SendOk => Accepts']_vars

(* A node that has joined keeps its session over deep sleep and resumes it *)
(* (lora_esp32.cpp:118-131); without one the server has never heard it,    *)
(* unless a power cut or a lost Join Accept took the session away.         *)
SessionKept == lossy \/ (rtc.session = lns.session /\ (rtc.session = 0 => lns.used = {}))

(* What is stored is what was measured and calibrated, saturated to the    *)
(* wire's range, with both groups present (aq_payload.c, decodeUplink).    *)
StoredAsMeasured ==
  stored # NothingStored =>
    /\ stored.pm # "absent" /\ stored.env # "absent"
    /\ LET d == DecodeUplink(stored.bytes) IN
       <<d.pm25, d.pm10, d.temperature, d.batteryMv>> = stored.meant

-----------------------------------------------------------------------------
(* lora_esp32.cpp:111-113 says of the nonces and the session in RTC RAM    *)
(* "lost only on a full power cut, after which a fresh join is correct".   *)
Rejoins == rtc.session = 0 ~> rtc.session # 0
=============================================================================
