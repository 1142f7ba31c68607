----------------------------- MODULE WakeProofs -----------------------------
(***************************************************************************)
(* Proofs about Wake, for any number of polls, hunted frames, buffered     *)
(* frames, uplinks and power cuts, any measured values and calibrations.   *)
(* Five invariants: the fan and the UART buffer (PmInv), the climate       *)
(* registers (EnvInv), the LoRaWAN session at both ends (SessionInv), the  *)
(* bytes packed and stored (FrameInv), and the types with the bounds of    *)
(* the counters (WakeInv).                                                 *)
(***************************************************************************)
EXTENDS Wake, CodecProofs

-----------------------------------------------------------------------------
(* Records that actions update field by field keep their fields.            *)

RamShape == ram = [cold |-> ram.cold, pmu |-> ram.pmu, pm |-> ram.pm, env |-> ram.env,
                   tries |-> ram.tries, frame |-> ram.frame, meant |-> ram.meant]

LEMMA RamKeepsShape == Spec => []RamShape
<1>1. Init => RamShape
  BY DEF Init, BlankRam, RamShape
<1>2. RamShape /\ [Next]_vars => RamShape'
  <2> SUFFICES ASSUME RamShape, [Next]_vars PROVE RamShape'
    OBVIOUS
  <2>1. CASE Boot \/ DeepSleep \/ PowerCut
    BY <2>1 DEF Boot, DeepSleep, PowerCut, BlankRam, RamShape
  <2>4. CASE PmuInit \/ SendReport
    BY <2>4 DEF PmuInit, SendReport, RamShape
  <2>5. CASE Poll
    BY <2>5 DEF Poll, RamShape
  <2>6. CASE PackReading
    <3>1. PICK pm \in PmRaw, temp \in TempRaw, batt \in BatteryMv :
            ram' = [ram EXCEPT !.frame = Packed(pm, temp, batt), !.meant = Meant(pm, temp, batt)]
      BY <2>6 DEF PackReading
    <3> QED BY <3>1 DEF RamShape
  <2>2. CASE Hunt \/ HuntTimeout
    BY <2>2 DEF Hunt, HuntTimeout, PmRead, RamShape
  <2>3. CASE \/ UartFails \/ PmsWake \/ WarmedUp \/ BmeFails \/ BmeMeasure \/ Chips
             \/ Sending \/ UNCHANGED vars
    BY <2>3 DEF UartFails, PmsWake, WarmedUp, BmeFails, BmeMeasure, Chips, PmsFrame,
                ConversionDone, Sending, RadioFails, Restore, SendOk, SendFails, Join, vars,
                RamShape
  <2> QED BY <2>1, <2>2, <2>3, <2>4, <2>5, <2>6 DEF Next, Step, Sampling, Sending, Chips
<1> QED BY <1>1, <1>2, PTL DEF Spec

\* What packing a reading leaves alone.
LEMMA PackKeeps ==
  ASSUME RamShape, PackReading
  PROVE  /\ ram'.pm = ram.pm /\ ram'.env = ram.env /\ pc' = "radio"
         /\ fan' = fan /\ fifo' = fifo /\ bme' = bme /\ rtc' = rtc /\ lns' = lns
         /\ stored' = stored /\ cutShort' = cutShort /\ lossy' = lossy
<1>1. PICK pm \in PmRaw, temp \in TempRaw, batt \in BatteryMv :
        ram' = [ram EXCEPT !.frame = Packed(pm, temp, batt), !.meant = Meant(pm, temp, batt)]
  BY DEF PackReading
<1>2. ram'.pm = ram.pm /\ ram'.env = ram.env
  BY <1>1 DEF RamShape
<1>3. /\ pc' = "radio"
      /\ fan' = fan /\ fifo' = fifo /\ bme' = bme /\ rtc' = rtc /\ lns' = lns
      /\ stored' = stored /\ cutShort' = cutShort /\ lossy' = lossy
  BY DEF PackReading, chips, history
<1> QED BY <1>2, <1>3

-----------------------------------------------------------------------------
(* The particle sensor.                                                    *)

\* The fan runs only while this wake samples; once the warm-up is over no
\* frame from before it is buffered, read or stored.
PmInv ==
  /\ fan = "running" => pc \in {"warmup", "hunt"}
  /\ fifo \in Seq({"cold", "warm", "torn"})
  /\ pc = "hunt" => fifo \in Seq({"warm", "torn"})
  /\ ram.pm \in {"absent", "warm"}
  /\ stored.pm \in {"absent", "warm"}

LEMMA PmStep == RamShape /\ PmInv /\ [Next]_vars => PmInv'
<1> SUFFICES ASSUME RamShape, PmInv, [Next]_vars PROVE PmInv'
  OBVIOUS
<1> USE DEF PmInv
<1>1. CASE Boot \/ DeepSleep
  BY <1>1 DEF Boot, DeepSleep, chips, BlankRam
<1>10. CASE PmuInit \/ SendReport
  <2>1. ram'.pm = ram.pm
    BY <1>10 DEF PmuInit, SendReport, RamShape
  <2> QED BY <1>10, <2>1 DEF PmuInit, SendReport, chips
<1>9. CASE PackReading
  <2>1. pc' = "radio" /\ ram'.pm = ram.pm /\ fan' = fan /\ fifo' = fifo /\ stored' = stored
    BY <1>9, PackKeeps
  <2>2. pc = "battery"
    BY <1>9 DEF PackReading
  <2> QED BY <2>1, <2>2
<1>2. CASE UartFails \/ PmsWake \/ WarmedUp \/ PowerCut
  <2>1. <<>> \in Seq({"cold", "warm", "torn"}) /\ <<>> \in Seq({"warm", "torn"})
    OBVIOUS
  <2>2. CASE UartFails
    BY <2>2 DEF UartFails, chips
  <2>3. CASE PmsWake \/ WarmedUp
    BY <2>1, <2>3 DEF PmsWake, WarmedUp
  <2>4. CASE PowerCut
    BY <2>1, <2>4 DEF PowerCut, BlankRam
  <2> QED BY <1>2, <2>2, <2>3, <2>4
<1>3. CASE PmsFrame
  <2>1. PICK f \in {"torn", IF pc = "warmup" THEN "cold" ELSE "warm"} : fifo' = Append(fifo, f)
    BY <1>3 DEF PmsFrame
  <2>2. pc' = pc /\ fan' = fan /\ ram' = ram /\ stored' = stored
    BY <1>3 DEF PmsFrame
  <2>3. fifo' \in Seq({"cold", "warm", "torn"})
    BY <2>1
  <2>4. pc = "hunt" => fifo' \in Seq({"warm", "torn"})
    BY <2>1
  <2> QED BY <2>2, <2>3, <2>4
<1>4. CASE Hunt
  <2>1. /\ Head(fifo) \in {"warm", "torn"}
        /\ Tail(fifo) \in Seq({"warm", "torn"})
        /\ Tail(fifo) \in Seq({"cold", "warm", "torn"})
        /\ stored' = stored
    BY <1>4 DEF Hunt
  <2>2. CASE \E quality \in {"absent", "warm"} : PmRead(quality)
    BY <2>1, <2>2 DEF PmRead, RamShape
  <2>3. CASE /\ ram' = [ram EXCEPT !.tries = @ + 1]
             /\ fifo' = Tail(fifo)
             /\ UNCHANGED <<pc, fan>>
    <3>1. ram'.pm = ram.pm
      BY <2>3 DEF RamShape
    <3> QED BY <2>1, <2>3, <3>1
  <2> QED BY <1>4, <2>1, <2>2, <2>3 DEF Hunt
<1>5. CASE HuntTimeout
  BY <1>5 DEF HuntTimeout, PmRead, RamShape
<1>6. CASE BmeFails \/ BmeMeasure \/ Poll \/ ConversionDone
  BY <1>6 DEF BmeFails, BmeMeasure, Poll, ConversionDone, chips, RamShape
<1>7. CASE SendOk \/ SendFails
  BY <1>7 DEF SendOk, SendFails, Arrive, chips
<1>8. CASE \/ RadioFails \/ Restore \/ UNCHANGED vars
           \/ \E arrives, answered \in BOOLEAN : Join(arrives, answered)
  BY <1>8 DEF RadioFails, Restore, Join, chips, vars
<1> QED BY <1>1, <1>2, <1>3, <1>4, <1>5, <1>6, <1>7, <1>8, <1>9, <1>10
        DEF Next, Step, Sampling, Sending, Chips

LEMMA PmInvHolds == Spec => []PmInv
<1>1. Init => PmInv
  BY DEF Init, BlankRam, NothingStored, PmInv
<1> QED BY <1>1, PmStep, RamKeepsShape, PTL DEF Spec

(* A stored reading's particles were measured after the warm-up.           *)
THEOREM FreshParticles == Spec => []PmFresh
<1>1. PmInv => PmFresh
  BY DEF PmInv, PmFresh
<1> QED BY <1>1, PmInvHolds, PTL

(* A sleeping node has put the fan to sleep.                               *)
THEOREM FanSleeps == Spec => []FanAsleep
<1>1. PmInv => FanAsleep
  BY DEF PmInv, FanAsleep
<1> QED BY <1>1, PmInvHolds, PTL

-----------------------------------------------------------------------------
(* The climate sensor.                                                     *)

\* A poll waits for a measurement that runs or is done; registers that were
\* read too early are from a wait that was cut short.
EnvInv ==
  /\ pc = "poll" => bme.measuring \/ bme.data = "fresh"
  /\ ram.env \in {"reset", "old"} => cutShort
  /\ stored.env \in {"reset", "old"} => cutShort

LEMMA EnvStep == RamShape /\ EnvInv /\ [Next]_vars => EnvInv'
<1> SUFFICES ASSUME RamShape, EnvInv, [Next]_vars PROVE EnvInv'
  OBVIOUS
<1> USE DEF EnvInv
<1>1. CASE Boot \/ DeepSleep \/ PowerCut
  BY <1>1 DEF Boot, DeepSleep, PowerCut, chips, history, BlankRam
<1>9. CASE PmuInit \/ SendReport
  <2>1. ram'.env = ram.env
    BY <1>9 DEF PmuInit, SendReport, RamShape
  <2> QED BY <1>9, <2>1 DEF PmuInit, SendReport, chips, history
<1>8. CASE PackReading
  BY <1>8, PackKeeps
<1>2. CASE UartFails \/ PmsWake \/ WarmedUp \/ PmsFrame
  BY <1>2 DEF UartFails, PmsWake, WarmedUp, PmsFrame, chips, history
<1>3. CASE Hunt \/ HuntTimeout
  BY <1>3 DEF Hunt, HuntTimeout, PmRead, history, RamShape
<1>4. CASE BmeFails \/ BmeMeasure \/ ConversionDone
  BY <1>4 DEF BmeFails, BmeMeasure, ConversionDone, chips, history
<1>5. CASE Poll
  <2>1. CASE bme.measuring /\ ram.tries < MaxPolls
    BY <1>5, <2>1 DEF Poll, chips, RamShape
  <2>2. CASE ~(bme.measuring /\ ram.tries < MaxPolls)
    <3>1. /\ ram'.env = bme.data /\ pc' = "battery" /\ stored' = stored
          /\ cutShort' = (cutShort \/ bme.measuring)
      BY <1>5, <2>2 DEF Poll, RamShape
    <3>2. bme.data \in {"reset", "old"} => bme.measuring
      BY <1>5 DEF Poll
    <3> QED BY <3>1, <3>2
  <2> QED BY <2>1, <2>2
<1>6. CASE SendOk \/ SendFails
  BY <1>6 DEF SendOk, SendFails, Arrive, chips, history
<1>7. CASE \/ RadioFails \/ Restore \/ UNCHANGED vars
           \/ \E arrives, answered \in BOOLEAN : Join(arrives, answered)
  BY <1>7 DEF RadioFails, Restore, Join, chips, history, vars
<1> QED BY <1>1, <1>2, <1>3, <1>4, <1>5, <1>6, <1>7, <1>8, <1>9
        DEF Next, Step, Sampling, Sending, Chips

(* A stored reading's climate values are this wake's, unless the wait for  *)
(* them was cut short.                                                     *)
THEOREM FreshClimate == Spec => []EnvFresh
<1>1. Init => EnvInv
  BY DEF Init, BlankRam, NothingStored, EnvInv
<1>2. EnvInv => EnvFresh
  BY DEF EnvInv, EnvFresh
<1> QED BY <1>1, <1>2, EnvStep, RamKeepsShape, PTL DEF Spec

-----------------------------------------------------------------------------
(* The LoRaWAN session.                                                    *)

\* A session the node holds is the server's, and the server is at most one
\* frame ahead of it: the frame of a send that failed after it went out.
SessionInv ==
  /\ rtc \in [session: Nat, devNonce: Nat, fcnt: Nat]
  /\ lns \in [used: SUBSET Nat, session: Nat, next: Nat]
  /\ rtc.session # 0 => rtc.session = lns.session /\ lns.next <= rtc.fcnt + 1
  /\ pc = "send" => rtc.session # 0
  /\ SessionKept

\* What the server does with a frame: its counter passes the frame's, or not.
LEMMA ArriveFacts ==
  ASSUME SessionInv, rtc.session # 0, Arrive \/ lns' = lns
  PROVE  /\ lns' \in [used: SUBSET Nat, session: Nat, next: Nat]
         /\ lns'.session = lns.session /\ lns'.used = lns.used
         /\ lns'.next <= rtc.fcnt + 1
<1>1. CASE lns' = lns
  BY <1>1 DEF SessionInv
<1>2. CASE lns' = [lns EXCEPT !.next = rtc.fcnt + 1]
  BY <1>2 DEF SessionInv
<1> QED BY <1>1, <1>2 DEF Arrive

LEMMA SessionStep == SessionInv /\ [Next]_vars => SessionInv'
<1> SUFFICES ASSUME SessionInv, [Next]_vars PROVE SessionInv'
  OBVIOUS
<1>1. CASE UNCHANGED <<rtc, lns, lossy>> /\ pc' # "send"
  BY <1>1 DEF SessionInv, SessionKept
<1>2. CASE Restore \/ UNCHANGED vars
  <2>1. rtc' = rtc /\ lns' = lns /\ lossy' = lossy
    BY <1>2 DEF Restore, history, vars
  <2>2. pc' = "send" => rtc.session # 0
    BY <1>2 DEF Restore, vars, SessionInv
  <2> QED BY <2>1, <2>2 DEF SessionInv, SessionKept
<1>3. ASSUME NEW arrives \in BOOLEAN, NEW answered \in BOOLEAN, Join(arrives, answered)
      PROVE  SessionInv'
  <2> DEFINE nonce == rtc.devNonce
  <2>1. rtc.session = 0 /\ nonce \in Nat /\ nonce + 1 \in Nat \ {0}
    BY <1>3 DEF Join, SessionInv
  <2>2. CASE arrives /\ nonce \notin lns.used
    <3>1. lns' = [used |-> lns.used \cup {nonce}, session |-> nonce + 1, next |-> 0]
      BY <1>3, <2>2 DEF Join
    <3>2. lns' \in [used: SUBSET Nat, session: Nat, next: Nat]
      BY <2>1, <3>1 DEF SessionInv
    <3>3. CASE answered
      <4>1. rtc' = [session |-> nonce + 1, devNonce |-> nonce + 1, fcnt |-> 0]
        BY <1>3, <2>2, <3>3 DEF Join, Kept
      <4>2. rtc'.session = nonce + 1 /\ lns'.session = nonce + 1
            /\ lns'.next = 0 /\ rtc'.fcnt = 0
        BY <3>1, <4>1
      <4>3. rtc' \in [session: Nat, devNonce: Nat, fcnt: Nat]
        BY <2>1, <4>1
      <4> HIDE DEF nonce
      <4> QED BY <2>1, <3>2, <4>2, <4>3 DEF SessionInv, SessionKept
    <3>4. CASE ~answered
      <4>1. rtc' = rtc /\ lossy' /\ pc' = "done"
        BY <1>3, <2>2, <3>4 DEF Join
      <4> QED BY <2>1, <3>2, <4>1 DEF SessionInv, SessionKept
    <3> QED BY <3>3, <3>4
  <2>3. CASE ~(arrives /\ nonce \notin lns.used)
    <3>1. pc' = "done" /\ rtc' = rtc /\ lns' = lns /\ lossy' = lossy
      BY <1>3, <2>3 DEF Join
    <3> QED BY <3>1 DEF SessionInv, SessionKept
  <2> QED BY <2>2, <2>3
<1>4. CASE SendOk
  <2>1. /\ rtc.session # 0 /\ rtc' = [rtc EXCEPT !.fcnt = @ + 1]
        /\ pc' = "done" /\ lossy' = lossy /\ (Arrive \/ lns' = lns)
    BY <1>4 DEF SendOk, Counted, history, SessionInv
  <2>2. /\ rtc' \in [session: Nat, devNonce: Nat, fcnt: Nat]
        /\ rtc'.session = rtc.session /\ rtc'.fcnt = rtc.fcnt + 1
    BY <2>1 DEF SessionInv
  <2> QED BY <2>1, <2>2, ArriveFacts DEF SessionInv, SessionKept
<1>5. CASE SendFails
  <2>1. /\ rtc.session # 0 /\ rtc' = rtc
        /\ pc' = "done" /\ lossy' = lossy /\ (Arrive \/ lns' = lns)
    BY <1>5 DEF SendFails, history, SessionInv
  <2> QED BY <2>1, ArriveFacts DEF SessionInv, SessionKept
<1>6. CASE PowerCut
  <2>1. /\ rtc' = BlankRtc /\ lns' = lns /\ pc' = "off"
        /\ lossy' = (lossy \/ rtc.session # 0)
    BY <1>6 DEF PowerCut
  <2>2. rtc' \in [session: Nat, devNonce: Nat, fcnt: Nat] /\ rtc'.session = 0
    BY <2>1 DEF BlankRtc
  <2> QED BY <2>1, <2>2 DEF SessionInv, SessionKept
<1>7. CASE Boot \/ PmuInit \/ SendReport \/ Sampling \/ RadioFails \/ DeepSleep
  <2>1. UNCHANGED <<rtc, lns, lossy>> /\ pc' # "send"
    BY <1>7 DEF Boot, PmuInit, SendReport, Sampling, UartFails, PmsWake, WarmedUp, Hunt,
                HuntTimeout, PmRead, BmeFails, BmeMeasure, Poll, PackReading, RadioFails,
                DeepSleep, history
  <2> QED BY <1>1, <2>1
<1>8. CASE Chips
  <2>1. UNCHANGED <<pc, rtc, lns, lossy>>
    BY <1>8 DEF Chips, PmsFrame, ConversionDone, history
  <2> QED BY <2>1 DEF SessionInv, SessionKept
<1> QED BY <1>2, <1>3, <1>4, <1>5, <1>6, <1>7, <1>8 DEF Next, Step, Sending

LEMMA SessionInvHolds == Spec => []SessionInv
<1>1. Init => SessionInv
  BY DEF Init, BlankRtc, SessionInv, SessionKept
<1> QED BY <1>1, SessionStep, PTL DEF Spec

(* A joined node keeps its session, unless a power cut or a lost Join      *)
(* Accept takes it away.                                                   *)
THEOREM SessionSurvives == Spec => []SessionKept
<1>1. SessionInv => SessionKept
  BY DEF SessionInv
<1> QED BY <1>1, SessionInvHolds, PTL

(* After a send that went well the server takes the next frame, whatever   *)
(* became of the frames of earlier sends that failed.                      *)
THEOREM WakesResumeCleanly == Spec => ResumesCleanly
<1>1. SessionInv /\ [Next]_vars => [SendOk => Accepts']_vars
  <2> SUFFICES ASSUME SessionInv, SendOk PROVE Accepts'
    OBVIOUS
  <2>1. /\ rtc.session # 0 /\ rtc.session = lns.session
        /\ rtc' = [rtc EXCEPT !.fcnt = @ + 1] /\ (Arrive \/ lns' = lns)
    BY DEF SendOk, Counted, SessionInv
  <2>2. rtc'.session = rtc.session /\ rtc'.fcnt = rtc.fcnt + 1 /\ rtc.fcnt \in Nat
    BY <2>1 DEF SessionInv
  <2>3. lns'.session = lns.session /\ lns'.next <= rtc.fcnt + 1
    BY <2>1, ArriveFacts
  <2> QED BY <2>1, <2>2, <2>3 DEF Accepts
<1> QED BY <1>1, SessionInvHolds, PTL DEF Spec, ResumesCleanly

-----------------------------------------------------------------------------
(* What is stored was measured.                                            *)

Places == {"radio", "send", "done", "asleep", "off"}

\* A frame that the server will store says what it is meant to say.
Faithful(frame, pm, env, meant) ==
  Verdict(frame) = "stored" =>
    /\ pm # "absent" /\ env # "absent"
    /\ LET d == DecodeUplink(frame) IN
       <<d.pm25, d.pm10, d.temperature, d.batteryMv>> = meant

\* A reading is packed after the last value was read.
FrameInv ==
  /\ RamShape
  /\ cfg \in Config
  /\ \/ ram.frame = <<>> \/ ram.frame = <<"report">>
     \/ /\ pc \in Places
        /\ Faithful(ram.frame, ram.pm, ram.env, ram.meant)
  /\ StoredAsMeasured

\* Nothing is decoded from no bytes.
LEMMA EmptyIsNotStored == Verdict(<<>>) # "stored"
BY DEF Verdict, Decodable, PayloadLength

\* The offsets of a config are integers.
LEMMA OffsetsAreIntegers ==
  /\ \A v : v \in -PmOffsetMax..PmOffsetMax => v \in Int
  /\ \A v : v \in -TempOffsetMax..TempOffsetMax => v \in Int
BY NumericLimits

\* A reading as it is packed: what the server makes of it, if it stores it.
LEMMA PackedIsFaithful ==
  ASSUME RamShape, cfg \in Config,
         NEW pm \in PmRaw, NEW temp \in TempRaw, NEW batt \in BatteryMv
  PROVE  /\ Packed(pm, temp, batt) \in [1..PayloadLength -> Byte]
         /\ Meant(pm, temp, batt) \in U16 \X U16 \X Int \X U16
         /\ Faithful(Packed(pm, temp, batt), ram.pm, ram.env, Meant(pm, temp, batt))
<1> DEFINE n == Measured(pm, temp, batt)
           x == IF n.pm THEN IF n.pm25 + cfg.pm < 0 THEN 0 ELSE n.pm25 + cfg.pm ELSE n.pm25
           y == IF n.env THEN n.temperature + cfg.temp ELSE n.temperature
           r == Calibrate(cfg, n)
           b == PayloadEncode(r)
           got == DecodeUplink(b)
<1>1. pm \in Int /\ temp \in Int /\ batt \in U16 /\ cfg.pm \in Int /\ cfg.temp \in Int
  <2>1. pm \in Nat /\ temp \in Int
    BY MeasuresAssumption
  <2>2. batt \in {4100, 3700, 0}
    BY DEF BatteryMv
  <2>3. batt \in U16
    BY <2>2, U16Range
  <2>4. cfg.pm \in -PmOffsetMax..PmOffsetMax /\ cfg.temp \in -TempOffsetMax..TempOffsetMax
    BY DEF Config
  <2>5. cfg.pm \in Int /\ cfg.temp \in Int
    BY <2>4, OffsetsAreIntegers
  <2> QED BY <2>1, <2>3, <2>5
<1>2. /\ n \in Measurement
      /\ n.pm <=> ram.pm # "absent"
      /\ n.env <=> ram.env # "absent"
      /\ n.pm => n.pm25 = 10 * pm /\ n.pm10 = 10 * pm
      /\ n.env => n.temperature = temp
      /\ n.batteryMv = batt
  <2> DEFINE P == ram.pm # "absent"
             E == ram.env # "absent"
             v == IF P THEN 10 * pm ELSE 0
             t == IF E THEN temp ELSE 0
             h == IF E THEN 5000 ELSE 0
             g == IF E THEN 1013 ELSE 0
  <2>1. n = [pm |-> P, env |-> E, pm25 |-> v, pm10 |-> v, temperature |-> t,
             humidity |-> h, pressure |-> g, batteryMv |-> batt]
    BY DEF Measured
  <2>2. /\ P \in BOOLEAN /\ E \in BOOLEAN
        /\ v \in Int /\ t \in Int /\ h \in Int /\ g \in Int
    BY <1>1
  <2>3. /\ P <=> ram.pm # "absent"
        /\ E <=> ram.env # "absent"
        /\ P => v = 10 * pm
        /\ E => t = temp
    OBVIOUS
  <2> HIDE DEF n, P, E, v, t, h, g
  <2>4. n \in Measurement
    BY <1>1, <2>1, <2>2 DEF Measurement
  <2>5. /\ n.pm = P /\ n.env = E /\ n.pm25 = v /\ n.pm10 = v /\ n.temperature = t
        /\ n.batteryMv = batt
    BY <2>1
  <2> QED BY <2>3, <2>4, <2>5
<1> HIDE DEF n
<1>3. r = [n EXCEPT !.pm25 = x, !.temperature = y]
  BY DEF Calibrate
<1>4. x \in Int /\ y \in Int
  BY <1>1, <1>2 DEF Measurement
<1>5. /\ n.pm => x = IF 10 * pm + cfg.pm < 0 THEN 0 ELSE 10 * pm + cfg.pm
      /\ n.env => y = temp + cfg.temp
  BY <1>2
<1> HIDE DEF x, y, r
<1>6. /\ r \in Measurement
      /\ r.pm = n.pm /\ r.env = n.env /\ r.pm25 = x /\ r.pm10 = n.pm10
      /\ r.temperature = y /\ r.batteryMv = n.batteryMv
  BY <1>2, <1>3, <1>4 DEF Measurement
<1>7. /\ got.pm = r.pm /\ got.env = r.env /\ Version(b) = 1
      /\ got.pm25 = ClampU16(r.pm25) /\ got.pm10 = ClampU16(r.pm10)
      /\ got.temperature = ClampI16(r.temperature) /\ got.batteryMv = r.batteryMv
  BY <1>6, UplinkRoundTrip DEF PayloadVersion
<1>b. b \in [1..PayloadLength -> Byte]
  BY <1>6, UplinkBytes
<1>m. Meant(pm, temp, batt) \in U16 \X U16 \X Int \X U16
  <2>1. Clamp(10 * pm + cfg.pm, 0, 65535) \in U16 /\ Clamp(10 * pm, 0, 65535) \in U16
    BY <1>1, U16Range DEF Clamp
  <2>2. temp + cfg.temp \in Int
    BY <1>1
  <2> QED BY <1>1, <2>1, <2>2 DEF Meant
<1> SUFFICES ASSUME Verdict(b) = "stored"
             PROVE  /\ ram.pm # "absent" /\ ram.env # "absent"
                    /\ <<got.pm25, got.pm10, got.temperature, got.batteryMv>>
                         = Meant(pm, temp, batt)
  BY <1>b, <1>m DEF Faithful, Packed, n, r
<1>8. got.pm /\ got.env /\ Contract(got)
  BY DEF Verdict
<1> HIDE DEF got, b
<1>9. n.pm /\ n.env
  BY <1>6, <1>7, <1>8, Zenon
<1>10. got.pm10 = Clamp(10 * pm, 0, 65535)
  BY <1>2, <1>6, <1>7, <1>9, NumericLimits DEF ClampU16
<1>11. got.pm25 = Clamp(10 * pm + cfg.pm, 0, 65535)
  <2>1. got.pm25 = ClampU16(IF 10 * pm + cfg.pm < 0 THEN 0 ELSE 10 * pm + cfg.pm)
    BY <1>5, <1>6, <1>7, <1>9
  <2> QED BY <1>1, <2>1, NumericLimits DEF ClampU16, Clamp
<1>12. got.temperature = temp + cfg.temp
  <2>1. got.temperature >= -4000 /\ got.temperature <= 8500
    BY <1>8 DEF Contract
  <2>2. got.temperature = Clamp(temp + cfg.temp, -32768, 32767)
    BY <1>5, <1>6, <1>7, <1>9, NumericLimits DEF ClampI16
  <2> QED BY <1>1, <2>1, <2>2 DEF Clamp
<1> QED BY <1>2, <1>6, <1>7, <1>9, <1>10, <1>11, <1>12 DEF Meant

LEMMA FrameStep == FrameInv /\ RamShape' /\ [Next]_vars => FrameInv'
<1> SUFFICES ASSUME FrameInv, RamShape', [Next]_vars PROVE FrameInv'
  OBVIOUS
<1>0. cfg' = cfg
  BY DEF Next, Step, Boot, PmuInit, SendReport, Sampling, UartFails, PmsWake, WarmedUp, Hunt,
         HuntTimeout, BmeFails, BmeMeasure, Poll, PackReading, Sending, RadioFails, Restore,
         Join, SendOk, SendFails, DeepSleep, Chips, PmsFrame, ConversionDone, PowerCut, vars
<1>a. ASSUME stored' = stored PROVE StoredAsMeasured'
  BY <1>a DEF FrameInv, StoredAsMeasured
<1>1. CASE Boot \/ DeepSleep \/ PowerCut
  <2>1. ram'.frame = <<>> /\ stored' = stored
    BY <1>1 DEF Boot, DeepSleep, PowerCut, BlankRam
  <2> QED BY <1>0, <1>a, <2>1 DEF FrameInv
<1>2. CASE PmuInit \/ SendReport
  <2>1. /\ stored' = stored /\ pc \notin Places
        /\ ram'.frame = ram.frame \/ ram'.frame = <<"report">>
    BY <1>2 DEF PmuInit, SendReport, FrameInv, RamShape, Places
  <2> QED BY <1>0, <1>a, <2>1 DEF FrameInv
<1>3. CASE Hunt \/ HuntTimeout \/ Poll
  <2>1. stored' = stored /\ pc \notin Places /\ ram'.frame = ram.frame
    BY <1>3 DEF Hunt, HuntTimeout, PmRead, Poll, FrameInv, RamShape, Places
  <2> QED BY <1>0, <1>a, <2>1 DEF FrameInv
<1>4. CASE PackReading
  <2>1. PICK pm \in PmRaw, temp \in TempRaw, batt \in BatteryMv :
          ram' = [ram EXCEPT !.frame = Packed(pm, temp, batt), !.meant = Meant(pm, temp, batt)]
    BY <1>4 DEF PackReading
  <2>2. /\ ram'.frame = Packed(pm, temp, batt) /\ ram'.meant = Meant(pm, temp, batt)
        /\ ram'.pm = ram.pm /\ ram'.env = ram.env
    BY <2>1 DEF FrameInv, RamShape
  <2>3. stored' = stored /\ pc' = "radio"
    BY <1>4 DEF PackReading
  <2>4. Faithful(ram'.frame, ram'.pm, ram'.env, ram'.meant)
    BY <2>2, PackedIsFaithful DEF FrameInv
  <2> QED BY <1>0, <1>a, <2>3, <2>4 DEF FrameInv, Places
<1>5. CASE SendOk \/ SendFails
  <2>1. ram' = ram /\ pc' \in Places /\ pc \in Places
    BY <1>5 DEF SendOk, SendFails, Places
  <2>2. StoredAsMeasured'
    <3>1. CASE stored' = stored
      BY <3>1, <1>a
    <3>2. CASE stored' # stored
      <4>1. /\ stored' = [bytes |-> ram.frame, pm |-> ram.pm, env |-> ram.env,
                          meant |-> ram.meant]
            /\ ram.frame # <<"report">> /\ Verdict(ram.frame) = "stored"
        BY <1>5, <3>2 DEF SendOk, SendFails, Arrive
      <4>2. Faithful(ram.frame, ram.pm, ram.env, ram.meant)
        BY <4>1, EmptyIsNotStored DEF FrameInv
      <4> QED BY <4>1, <4>2 DEF Faithful, StoredAsMeasured
    <3> QED BY <3>1, <3>2
  <2> QED BY <1>0, <2>1, <2>2 DEF FrameInv
<1>6. CASE \/ UartFails \/ PmsWake \/ WarmedUp \/ BmeFails \/ BmeMeasure \/ Chips
           \/ RadioFails \/ Restore \/ UNCHANGED vars
           \/ \E arrives, answered \in BOOLEAN : Join(arrives, answered)
  <2>1. ram' = ram /\ stored' = stored /\ (pc \in Places => pc' \in Places)
    BY <1>6 DEF UartFails, PmsWake, WarmedUp, BmeFails, BmeMeasure, Chips, PmsFrame,
                ConversionDone, RadioFails, Restore, Join, vars, Places
  <2> QED BY <1>0, <1>a, <2>1 DEF FrameInv
<1> QED BY <1>1, <1>2, <1>3, <1>4, <1>5, <1>6 DEF Next, Step, Sampling, Sending

(* Whatever is measured and whatever the calibration, a reading is stored  *)
(* with both groups and the values that were calibrated, saturated to the  *)
(* wire's range (aq_payload.c, decodeUplink, handleUplink).                *)
THEOREM StoredWasMeasured == Spec => []StoredAsMeasured
<1>1. Init => FrameInv
  BY MeasuresAssumption DEF Init, BlankRam, NothingStored, FrameInv, RamShape, StoredAsMeasured
<1>2. FrameInv => StoredAsMeasured
  BY DEF FrameInv
<1> QED BY <1>1, <1>2, FrameStep, RamKeepsShape, PTL DEF Spec

-----------------------------------------------------------------------------
(* Types: four parts, and what keeps the counters below their bounds.      *)

\* The wake: a hunt gives up at its last attempt, a wait at its last poll.
RamPart ==
  /\ pc \in Stage
  /\ ram \in [cold: BOOLEAN, pmu: BOOLEAN, pm: Quality, env: Age, tries: 0..(MaxHunt + MaxPolls),
              frame: {<<>>} \cup [1..PayloadLength -> Byte] \cup {<<"report">>},
              meant: {<<>>} \cup (U16 \X U16 \X Int \X U16)]
  /\ pc = "hunt" => ram.tries < MaxHunt
  /\ pc \in {"off", "boot", "sample", "warmup", "bme"} => ram.tries = 0
  /\ pc = "poll" => ram.tries <= MaxPolls

ChipsPart ==
  /\ fan \in {"unknown", "running", "asleep"}
  /\ fifo \in Seq({"cold", "warm", "torn"}) /\ Len(fifo) <= MaxFifo
  /\ bme \in [measuring: BOOLEAN, data: {"reset", "old", "fresh"}]
  /\ rail \in BOOLEAN

\* Both ends of the link: a wake that may still send has a counter to spend.
LinkPart ==
  /\ rtc \in [session: Nat, devNonce: Nat, fcnt: 0..MaxFCnt]
  /\ lns \in [used: SUBSET Nat, session: Nat, next: 0..MaxFCnt]
  /\ pc \notin {"done", "asleep"} => rtc.fcnt < MaxFCnt

KeptPart ==
  /\ stored.pm \in Quality /\ stored.env \in Age
  /\ cfg \in Calibrations
  /\ cutShort \in BOOLEAN /\ lossy \in BOOLEAN /\ cuts \in 0..MaxCuts

WakeInv == RamPart /\ ChipsPart /\ LinkPart /\ KeptPart

LEMMA InitWake == Init => WakeInv
<1> SUFFICES ASSUME Init PROVE WakeInv
  OBVIOUS
<1>1. RamPart
  BY BoundsAssumption DEF Init, RamPart, BlankRam, Stage, Quality, Age
<1>2. ChipsPart
  <2>1. fifo \in Seq({"cold", "warm", "torn"}) /\ Len(fifo) = 0
    BY DEF Init
  <2>2. bme \in [measuring: BOOLEAN, data: {"reset", "old", "fresh"}]
    BY DEF Init
  <2>3. Len(fifo) <= MaxFifo
    BY <2>1, BoundsAssumption
  <2> QED BY <2>1, <2>2, <2>3 DEF Init, ChipsPart
<1>3. LinkPart
  BY BoundsAssumption DEF Init, LinkPart, BlankRtc
<1>4. KeptPart
  <2>1. 0 \in 0..MaxCuts
    BY BoundsAssumption
  <2>2. stored.pm \in Quality /\ stored.env \in Age
    BY DEF Init, NothingStored, Quality, Age
  <2> QED BY <2>1, <2>2 DEF Init, KeptPart
<1> QED BY <1>1, <1>2, <1>3, <1>4 DEF WakeInv

\* A wake begins with nothing in RAM.
LEMMA BlankTyped == ASSUME ram' = BlankRam, pc' \in {"off", "asleep"} PROVE RamPart'
BY BoundsAssumption DEF RamPart, BlankRam, Stage, Quality, Age

LEMMA RamStep == WakeInv /\ [Next]_vars => RamPart'
<1> SUFFICES ASSUME WakeInv, [Next]_vars PROVE RamPart'
  OBVIOUS
<1>0. RamPart /\ ChipsPart /\ KeptPart
  BY DEF WakeInv
<1>1. CASE Boot
  <2>1. ram' = [BlankRam EXCEPT !.cold = pc = "off"] /\ pc' = "boot"
    BY <1>1 DEF Boot
  <2>2. PICK cold \in BOOLEAN : ram' = [BlankRam EXCEPT !.cold = cold]
    BY <2>1
  <2>3. /\ ram' = [cold |-> cold, pmu |-> FALSE, pm |-> "absent", env |-> "absent",
                     tries |-> 0, frame |-> <<>>, meant |-> <<>>]
        /\ ram'.tries = 0
    BY <2>2 DEF BlankRam
  <2>4. 0 \in 0..(MaxHunt + MaxPolls)
    BY BoundsAssumption
  <2>5. ram' \in [cold: BOOLEAN, pmu: BOOLEAN, pm: Quality, env: Age,
                  tries: 0..(MaxHunt + MaxPolls),
                  frame: {<<>>} \cup [1..PayloadLength -> Byte] \cup {<<"report">>},
                  meant: {<<>>} \cup (U16 \X U16 \X Int \X U16)]
    BY <2>3, <2>4 DEF Quality, Age
  <2> QED BY <2>1, <2>3, <2>5 DEF RamPart, Stage
<1>2. CASE DeepSleep \/ PowerCut
  BY <1>2, BlankTyped DEF DeepSleep, PowerCut
<1>3. CASE PmuInit
  <2>1. PICK handle \in BOOLEAN : ram' = [ram EXCEPT !.pmu = handle]
    BY <1>3 DEF PmuInit
  <2> QED BY <1>0, <1>3, <2>1 DEF PmuInit, RamPart, Stage
<1>4. CASE SendReport
  BY <1>0, <1>4 DEF SendReport, RamPart, Stage
<1>5. CASE UartFails \/ PmsWake \/ WarmedUp
  BY <1>0, <1>5, BoundsAssumption DEF UartFails, PmsWake, WarmedUp, RamPart, Stage
<1>6. ASSUME NEW quality \in Quality, PmRead(quality)
      PROVE  RamPart'
  <2>1. ram' = [ram EXCEPT !.pm = quality, !.tries = 0] /\ pc' = "bme"
    BY <1>6 DEF PmRead
  <2>2. 0 \in 0..(MaxHunt + MaxPolls)
    BY BoundsAssumption
  <2>3. ram' \in [cold: BOOLEAN, pmu: BOOLEAN, pm: Quality, env: Age,
                  tries: 0..(MaxHunt + MaxPolls),
                  frame: {<<>>} \cup [1..PayloadLength -> Byte] \cup {<<"report">>},
                  meant: {<<>>} \cup (U16 \X U16 \X Int \X U16)]
    BY <1>0, <1>6, <2>1, <2>2 DEF RamPart
  <2>4. ram'.tries = 0
    BY <1>0, <2>1 DEF RamPart
  <2> QED BY <2>1, <2>3, <2>4 DEF RamPart, Stage
<1>7. CASE Hunt
  <2>1. CASE Head(fifo) # "torn" /\ PmRead(Head(fifo))
    <3>1. Head(fifo) \in {"cold", "warm", "torn"}
      BY <1>0, <1>7 DEF Hunt, ChipsPart
    <3> QED BY <2>1, <3>1, <1>6 DEF Quality
  <2>2. CASE PmRead("absent")
    BY <2>2, <1>6 DEF Quality
  <2>3. CASE /\ ram.tries + 1 # MaxHunt
             /\ ram' = [ram EXCEPT !.tries = @ + 1]
             /\ UNCHANGED <<pc, fan>>
    <3>1. ram.tries + 1 \in 0..(MaxHunt + MaxPolls) /\ ram.tries + 1 < MaxHunt
      BY <1>0, <1>7, <2>3, BoundsAssumption DEF Hunt, RamPart
    <3> QED BY <1>0, <1>7, <2>3, <3>1 DEF Hunt, RamPart
  <2> QED BY <1>7, <2>1, <2>2, <2>3 DEF Hunt
<1>8. CASE HuntTimeout
  BY <1>8, <1>6 DEF HuntTimeout, Quality
<1>9. CASE BmeFails \/ BmeMeasure
  BY <1>0, <1>9, BoundsAssumption DEF BmeFails, BmeMeasure, RamPart, Stage
<1>10. CASE Poll
  <2>1. CASE bme.measuring /\ ram.tries < MaxPolls
    <3>1. ram' = [ram EXCEPT !.tries = @ + 1] /\ pc' = pc /\ pc = "poll"
      BY <1>10, <2>1 DEF Poll
    <3>2. ram.tries + 1 \in 0..(MaxHunt + MaxPolls) /\ ram.tries + 1 <= MaxPolls
      BY <1>0, <2>1, BoundsAssumption DEF RamPart
    <3> QED BY <1>0, <3>1, <3>2 DEF RamPart
  <2>2. CASE ~(bme.measuring /\ ram.tries < MaxPolls)
    <3>1. ram' = [ram EXCEPT !.env = bme.data] /\ pc' = "battery" /\ bme.data \in Age
      BY <1>0, <1>10, <2>2 DEF Poll, ChipsPart, Age
    <3> QED BY <1>0, <3>1 DEF RamPart, Stage
  <2> QED BY <2>1, <2>2
<1>11. CASE PackReading
  <2>1. PICK pm \in PmRaw, temp \in TempRaw, batt \in BatteryMv :
          ram' = [ram EXCEPT !.frame = Packed(pm, temp, batt), !.meant = Meant(pm, temp, batt)]
    BY <1>11 DEF PackReading
  <2>2. cfg \in Config /\ RamShape
    BY <1>0, MeasuresAssumption DEF KeptPart, RamPart, RamShape
  <2>3. /\ Packed(pm, temp, batt) \in [1..PayloadLength -> Byte]
        /\ Meant(pm, temp, batt) \in U16 \X U16 \X Int \X U16
    BY <2>2, PackedIsFaithful
  <2> QED BY <1>0, <1>11, <2>1, <2>3 DEF PackReading, RamPart, Stage
<1>12. CASE Sending
  <2>1. UNCHANGED ram /\ pc' \in {"done", "send"}
    BY <1>12 DEF Sending, RadioFails, Restore, SendOk, SendFails, Join
  <2> QED BY <1>0, <2>1 DEF RamPart, Stage
<1>13. CASE Chips \/ UNCHANGED vars
  <2>1. UNCHANGED <<ram, pc>>
    BY <1>13 DEF Chips, PmsFrame, ConversionDone, vars
  <2> QED BY <1>0, <2>1 DEF RamPart
<1> QED BY <1>1, <1>2, <1>3, <1>4, <1>5, <1>7, <1>8, <1>9, <1>10, <1>11, <1>12, <1>13
        DEF Next, Step, Sampling

LEMMA ChipsStep == WakeInv /\ [Next]_vars => ChipsPart'
<1> SUFFICES ASSUME WakeInv, [Next]_vars PROVE ChipsPart'
  OBVIOUS
<1>0. ChipsPart
  BY DEF WakeInv
<1>e. <<>> \in Seq({"cold", "warm", "torn"}) /\ Len(<<>>) <= MaxFifo
  BY BoundsAssumption
<1>1. CASE PmuInit
  BY <1>0, <1>1 DEF PmuInit, ChipsPart
<1>2. CASE PmsWake \/ WarmedUp \/ PowerCut
  <2>1. fifo' = <<>> /\ fan' \in {"unknown", "running", "asleep"}
    BY <1>0, <1>2 DEF PmsWake, WarmedUp, PowerCut, ChipsPart
  <2>2. fifo' \in Seq({"cold", "warm", "torn"}) /\ Len(fifo') <= MaxFifo
    BY <1>e, <2>1
  <2>3. bme' \in [measuring: BOOLEAN, data: {"reset", "old", "fresh"}] /\ rail' \in BOOLEAN
    <3>1. CASE PmsWake \/ WarmedUp
      BY <1>0, <3>1 DEF PmsWake, WarmedUp, ChipsPart
    <3>2. CASE PowerCut
      <4>1. bme' = [measuring |-> FALSE, data |-> "reset"] /\ rail' = FALSE
        BY <3>2 DEF PowerCut
      <4> QED BY <4>1
    <3> QED BY <1>2, <3>1, <3>2
  <2> QED BY <2>1, <2>2, <2>3 DEF ChipsPart
<1>3. CASE PmsFrame
  <2>1. PICK f \in {"torn", IF pc = "warmup" THEN "cold" ELSE "warm"} : fifo' = Append(fifo, f)
    BY <1>3 DEF PmsFrame
  <2>2. f \in {"cold", "warm", "torn"}
    OBVIOUS
  <2>3. Len(fifo) < MaxFifo /\ UNCHANGED <<fan, bme, rail>>
    BY <1>3 DEF PmsFrame
  <2>4. fifo' \in Seq({"cold", "warm", "torn"}) /\ Len(fifo') = Len(fifo) + 1 /\ Len(fifo) \in Nat
    BY <1>0, <2>1, <2>2 DEF ChipsPart
  <2>5. Len(fifo') <= MaxFifo
    BY <2>3, <2>4, BoundsAssumption
  <2> QED BY <1>0, <2>3, <2>4, <2>5 DEF ChipsPart
<1>4. ASSUME NEW quality, PmRead(quality), UNCHANGED <<bme, rail>> PROVE ChipsPart'
  BY <1>0, <1>4, <1>e DEF PmRead, ChipsPart
<1>5. CASE Hunt
  <2>1. CASE UNCHANGED fan /\ fifo' = Tail(fifo)
    <3>1. fifo # <<>> /\ UNCHANGED <<bme, rail>>
      BY <1>5 DEF Hunt
    <3>2. fifo' \in Seq({"cold", "warm", "torn"}) /\ Len(fifo') = Len(fifo) - 1 /\ Len(fifo) \in Nat
      BY <1>0, <2>1, <3>1 DEF ChipsPart
    <3>3. Len(fifo') <= MaxFifo
      BY <1>0, <3>2, BoundsAssumption DEF ChipsPart
    <3> QED BY <1>0, <2>1, <3>1, <3>2, <3>3 DEF ChipsPart
  <2> QED BY <1>4, <1>5, <2>1 DEF Hunt
<1>6. CASE HuntTimeout
  BY <1>4, <1>6 DEF HuntTimeout
<1>7. CASE BmeMeasure \/ ConversionDone
  <2>1. PICK m \in BOOLEAN, d \in {"reset", "old", "fresh"} : bme' = [measuring |-> m, data |-> d]
    BY <1>7 DEF BmeMeasure, ConversionDone
  <2>2. UNCHANGED <<fan, fifo, rail>>
    BY <1>7 DEF BmeMeasure, ConversionDone
  <2> QED BY <1>0, <2>1, <2>2 DEF ChipsPart
<1>8. CASE \/ Boot \/ SendReport \/ UartFails \/ BmeFails \/ Poll \/ PackReading \/ Sending
           \/ DeepSleep \/ UNCHANGED vars
  <2>1. UNCHANGED chips
    BY <1>8 DEF Boot, SendReport, UartFails, BmeFails, Poll, PackReading, Sending, RadioFails,
                Restore, Join, SendOk, SendFails, DeepSleep, vars, chips
  <2> QED BY <1>0, <2>1 DEF ChipsPart, chips
<1> QED BY <1>1, <1>2, <1>3, <1>5, <1>6, <1>7, <1>8 DEF Next, Step, Sampling, Chips

LEMMA LinkStep == WakeInv /\ [Next]_vars => LinkPart'
<1> SUFFICES ASSUME WakeInv, [Next]_vars PROVE LinkPart'
  OBVIOUS
<1>0. LinkPart
  BY DEF WakeInv
<1>1. CASE Boot
  <2>1. pc = "off" \/ rtc.fcnt < MaxFCnt
    BY <1>1 DEF Boot
  <2> QED BY <1>0, <1>1, <2>1 DEF Boot, LinkPart
<1>2. CASE PowerCut
  BY <1>0, <1>2, BoundsAssumption DEF PowerCut, LinkPart, BlankRtc
<1>3. ASSUME NEW arrives \in BOOLEAN, NEW answered \in BOOLEAN, Join(arrives, answered)
      PROVE  LinkPart'
  <2>1. rtc.devNonce \in Nat /\ rtc.devNonce + 1 \in Nat /\ 0 \in 0..MaxFCnt /\ 0 < MaxFCnt
    BY <1>0, BoundsAssumption DEF LinkPart
  <2>2. \/ lns' = lns
        \/ lns' = [used |-> lns.used \cup {rtc.devNonce}, session |-> rtc.devNonce + 1, next |-> 0]
    BY <1>3 DEF Join
  <2>3. lns' \in [used: SUBSET Nat, session: Nat, next: 0..MaxFCnt]
    BY <1>0, <2>1, <2>2 DEF LinkPart
  <2>4. \/ rtc' = rtc /\ pc' = "done"
        \/ rtc' = [session |-> rtc.devNonce + 1, devNonce |-> rtc.devNonce + 1, fcnt |-> 0]
    BY <1>3 DEF Join, Kept
  <2> QED BY <1>0, <2>1, <2>3, <2>4 DEF LinkPart
<1>4. CASE SendOk \/ SendFails
  <2>1. rtc.fcnt < MaxFCnt /\ rtc.fcnt \in 0..MaxFCnt
    BY <1>0, <1>4 DEF SendOk, SendFails, LinkPart
  <2>2. rtc.fcnt + 1 \in 0..MaxFCnt
    BY <2>1, BoundsAssumption
  <2>3. lns' = lns \/ lns' = [lns EXCEPT !.next = rtc.fcnt + 1]
    BY <1>4 DEF SendOk, SendFails, Arrive
  <2>4. lns' \in [used: SUBSET Nat, session: Nat, next: 0..MaxFCnt]
    BY <1>0, <2>2, <2>3 DEF LinkPart
  <2>5. rtc' = rtc \/ rtc' = [rtc EXCEPT !.fcnt = @ + 1]
    BY <1>4 DEF SendOk, SendFails, Counted
  <2>6. pc' = "done"
    BY <1>4 DEF SendOk, SendFails
  <2> QED BY <1>0, <2>2, <2>4, <2>5, <2>6 DEF LinkPart
<1>5. CASE PmuInit \/ SendReport \/ Sampling \/ RadioFails \/ Restore \/ DeepSleep
  <2>1. pc \notin {"done", "asleep"} \/ pc' \in {"done", "asleep"}
    BY <1>5 DEF PmuInit, SendReport, Sampling, UartFails, PmsWake, WarmedUp, Hunt,
                HuntTimeout, PmRead, BmeFails, BmeMeasure, Poll, PackReading, RadioFails,
                Restore, DeepSleep
  <2>2. UNCHANGED <<rtc, lns>>
    BY <1>5 DEF PmuInit, SendReport, Sampling, UartFails, PmsWake, WarmedUp, Hunt,
                HuntTimeout, BmeFails, BmeMeasure, Poll, PackReading, RadioFails,
                Restore, DeepSleep
  <2> QED BY <1>0, <2>1, <2>2 DEF LinkPart
<1>6. CASE Chips \/ UNCHANGED vars
  <2>1. UNCHANGED <<pc, rtc, lns>>
    BY <1>6 DEF Chips, PmsFrame, ConversionDone, vars
  <2> QED BY <1>0, <2>1 DEF LinkPart
<1> QED BY <1>1, <1>2, <1>3, <1>4, <1>5, <1>6 DEF Next, Step, Sending

LEMMA KeptStep == WakeInv /\ [Next]_vars => KeptPart'
<1> SUFFICES ASSUME WakeInv, [Next]_vars PROVE KeptPart'
  OBVIOUS
<1>0. KeptPart /\ ram.pm \in Quality /\ ram.env \in Age /\ bme.measuring \in BOOLEAN
  BY DEF WakeInv, RamPart, ChipsPart
<1>1. CASE Poll
  <2>1. cutShort' = cutShort \/ cutShort' = (cutShort \/ bme.measuring)
    BY <1>1 DEF Poll
  <2>2. cutShort' \in BOOLEAN
    BY <1>0, <2>1, Zenon DEF KeptPart
  <2> QED BY <1>0, <1>1, <2>2 DEF Poll, KeptPart
<1>2. ASSUME NEW arrives \in BOOLEAN, NEW answered \in BOOLEAN, Join(arrives, answered)
      PROVE  KeptPart'
  <2>1. lossy' = lossy \/ lossy' = TRUE
    BY <1>2 DEF Join
  <2> QED BY <1>0, <1>2, <2>1 DEF Join, KeptPart
<1>3. CASE SendOk \/ SendFails
  <2>1. \/ stored' = stored
        \/ stored' = [bytes |-> ram.frame, pm |-> ram.pm, env |-> ram.env, meant |-> ram.meant]
    BY <1>3 DEF SendOk, SendFails, Arrive
  <2>2. stored'.pm \in Quality /\ stored'.env \in Age
    BY <1>0, <2>1 DEF KeptPart
  <2> QED BY <1>0, <1>3, <2>2 DEF SendOk, SendFails, history, KeptPart
<1>4. CASE PowerCut
  <2>1. cuts' \in 0..MaxCuts
    BY <1>0, <1>4, BoundsAssumption DEF PowerCut, KeptPart
  <2>2. lossy' \in BOOLEAN
    BY <1>4 DEF PowerCut
  <2> QED BY <1>0, <1>4, <2>1, <2>2 DEF PowerCut, KeptPart
<1>5. CASE \/ Boot \/ PmuInit \/ SendReport \/ UartFails \/ PmsWake \/ WarmedUp \/ Hunt
           \/ HuntTimeout \/ BmeFails \/ BmeMeasure \/ PackReading \/ RadioFails \/ Restore
           \/ DeepSleep \/ Chips \/ UNCHANGED vars
  <2>1. UNCHANGED <<stored, cfg, history>>
    BY <1>5 DEF Boot, PmuInit, SendReport, UartFails, PmsWake, WarmedUp, Hunt, HuntTimeout,
                BmeFails, BmeMeasure, PackReading, RadioFails, Restore, DeepSleep, Chips,
                PmsFrame, ConversionDone, vars
  <2> QED BY <1>0, <2>1 DEF KeptPart, history
<1> QED BY <1>1, <1>2, <1>3, <1>4, <1>5 DEF Next, Step, Sampling, Sending

(* The drivers' variables keep their types; in particular the payload is   *)
(* always thirteen bytes, the attempts of a hunt and the polls of a        *)
(* measurement end (sensors_esp32.c), and so do the counters of a session. *)
THEOREM TypesHold == Spec => []TypeOK
<1>1. WakeInv /\ [Next]_vars => WakeInv'
  BY RamStep, ChipsStep, LinkStep, KeptStep DEF WakeInv
<1>2. WakeInv => TypeOK
  BY DEF WakeInv, RamPart, ChipsPart, LinkPart, KeptPart, TypeOK
<1> QED BY InitWake, <1>1, <1>2, PTL DEF Spec
=============================================================================
