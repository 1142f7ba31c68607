-------------------------- MODULE SimulatorProofs --------------------------
(***************************************************************************)
(* Proofs about Simulator, for any devices, nonces, commands and restarts: *)
(* no node is forgotten by its timer, settings survive whatever does not   *)
(* kill a run in mid-write, the keys are ChirpStack's, and so are the      *)
(* sessions.                                                               *)
(***************************************************************************)
EXTENDS Simulator, ConfigProofs, FiniteSetTheorems

-----------------------------------------------------------------------------
(* Types: what is in the air, in the queues and on the server.             *)
Message == [kind: {"request"}, dev: Devices, nonce: Nonces, key: Nat]
             \cup [kind: {"accept"}, dev: Devices, nonce: Nonces]
             \cup [kind: {"data"}, dev: Devices, cmd: Commands]

Record == [key: Nat, used: SUBSET Nonces, nonce: {0} \cup Nonces, queue: Seq(Commands)]

Typed ==
  /\ turn \in 1..Len(Order) /\ minted \in Nat
  /\ creds \in [Devices -> Nat] /\ disk \in [Devices -> Nat]
  /\ jobs \in [Devices -> Seq({Wake} \cup Commands)]
  /\ server \in [Devices -> Record]
  /\ air \subseteq Message

\* The keys an attempt gives a device are numbers.
LEMMA KeysAreNumbers ==
  ASSUME Typed
  PROVE  LET d == Order[turn] IN
         /\ d \in Devices /\ Creds(d) \in Nat \ {0} /\ Minted(d) \in Nat
         /\ Keyed(d) \in [Devices -> Record]
         /\ Keyed(d)[d].key = IF server[d].key = 0 THEN Creds(d) ELSE server[d].key
         /\ \A e \in Devices : e # d => Keyed(d)[e] = server[e]
<1> DEFINE d == Order[turn]
<1>1. d \in Devices
  BY FixturesAssumption DEF Devices, Typed
<1> HIDE DEF d
<1>2. disk[d] \in Nat /\ minted + 1 \in Nat \ {0} /\ server[d] \in Record
  BY <1>1 DEF Typed
<1>3. Creds(d) \in Nat \ {0}
  BY <1>2 DEF Creds, NoKey
<1>4. Minted(d) \in Nat
  BY <1>3 DEF Minted, Typed
<1>5. CASE server[d].key = NoKey
  <2>1. Keyed(d) = [server EXCEPT ![d].key = Creds(d)]
    BY <1>5 DEF Keyed
  <2>2. [server[d] EXCEPT !.key = Creds(d)] \in Record
    BY <1>2, <1>3 DEF Record
  <2>3. Keyed(d)[d].key = Creds(d)
    BY <1>1, <1>2, <2>1 DEF Record, Typed
  <2> QED BY <1>1, <1>3, <1>4, <1>5, <2>1, <2>2, <2>3 DEF Typed, NoKey, d
<1>6. CASE server[d].key # NoKey
  <2>1. Keyed(d) = server
    BY <1>6 DEF Keyed
  <2> QED BY <1>1, <1>3, <1>4, <1>6, <2>1 DEF Typed, NoKey, d
<1> QED BY <1>5, <1>6

LEMMA InitTyped == Init => Typed
<1> SUFFICES ASSUME Init PROVE Typed
  OBVIOUS
<1>1. [key |-> NoKey, used |-> {}, nonce |-> 0, queue |-> <<>>] \in Record
  BY DEF Record, NoKey
<1>2. 1 \in 1..Len(Order)
  BY FixturesAssumption
<1> QED BY <1>1, <1>2 DEF Init, Typed, NoKey

LEMMA TypedStep == Typed /\ [Next]_vars => Typed'
<1> SUFFICES ASSUME Typed, [Next]_vars PROVE Typed'
  OBVIOUS
<1>1. CASE Provision
  <2>1. server' = Keyed(Order[turn]) /\ minted' = Minted(Order[turn])
        /\ creds' = [creds EXCEPT ![Order[turn]] = Creds(Order[turn])]
        /\ jobs' = jobs /\ air' = air
    BY <1>1 DEF Provision, streaming
  <2>2. creds' \in [Devices -> Nat] /\ server' \in [Devices -> Record] /\ minted' \in Nat
    BY <2>1, KeysAreNumbers DEF Typed
  <2>3. disk' \in {disk, creds'}
        /\ turn' \in 1..Len(Order)
    <3>1. turn \in 1..Len(Order) /\ Len(Order) \in Nat \ {0}
      BY FixturesAssumption DEF Typed
    <3>2. CASE turn < Len(Order)
      <4>1. turn' = turn + 1 /\ disk' = disk
        BY <1>1, <3>2 DEF Provision
      <4> QED BY <3>1, <3>2, <4>1
    <3>3. CASE ~(turn < Len(Order))
      <4>1. turn' = 1 /\ disk' = creds'
        BY <1>1, <3>3 DEF Provision
      <4> QED BY <3>1, <4>1
    <3> QED BY <3>2, <3>3
  <2> QED BY <2>1, <2>2, <2>3 DEF Typed
<1>2. CASE ProvisionFails
  <2>1. server' \in {server, Keyed(Order[turn])} /\ minted' = Minted(Order[turn])
        /\ creds' = [d \in Devices |-> 0]
        /\ turn' = 1 /\ disk' = disk /\ jobs' = jobs /\ air' = air
    BY <1>2 DEF ProvisionFails, streaming, NoKey
  <2> QED BY <2>1, KeysAreNumbers, FixturesAssumption DEF Typed
<1>3. ASSUME NEW d \in Devices, JoinRequest(d) PROVE Typed'
  <2>1. PICK n \in Nonces :
          air' = air \cup {[kind |-> "request", dev |-> d, nonce |-> n, key |-> creds[d]]}
    BY <1>3 DEF JoinRequest, Forwarded, Signed
  <2>2. [kind |-> "request", dev |-> d, nonce |-> n, key |-> creds[d]] \in Message
    BY DEF Message, Typed
  <2>3. UNCHANGED <<turn, minted, creds, disk, jobs, server>>
    BY <1>3 DEF JoinRequest, provisioning, streaming
  <2> QED BY <2>1, <2>2, <2>3 DEF Typed
<1>4. ASSUME NEW m \in air, HandleJoin(m) PROVE Typed'
  <2>1. m \in [kind: {"request"}, dev: Devices, nonce: Nonces, key: Nat]
    BY <1>4 DEF HandleJoin, Typed, Message
  <2>2. UNCHANGED <<turn, minted, creds, disk, jobs>>
    BY <1>4 DEF HandleJoin, provisioning, streaming
  <2>3. CASE server' = server /\ air' = air \ {m}
    BY <2>2, <2>3 DEF Typed
  <2>4. CASE /\ server' = [server EXCEPT ![m.dev].used = @ \cup {m.nonce}, ![m.dev].nonce = m.nonce]
             /\ air' = (air \ {m}) \cup {[kind |-> "accept", dev |-> m.dev, nonce |-> m.nonce]}
    <3>1. [kind |-> "accept", dev |-> m.dev, nonce |-> m.nonce] \in Message
      BY <2>1 DEF Message
    <3>2. server[m.dev] \in Record /\ m.nonce \in Nonces /\ m.dev \in Devices
      BY <2>1 DEF Typed
    <3>3. [server[m.dev] EXCEPT !.used = @ \cup {m.nonce}, !.nonce = m.nonce] \in Record
      BY <3>2 DEF Record
    <3>4. server' = [server EXCEPT ![m.dev] =
                       [server[m.dev] EXCEPT !.used = @ \cup {m.nonce}, !.nonce = m.nonce]]
      BY <2>4, <3>2 DEF Typed, Record
    <3>5. server' \in [Devices -> Record]
      BY <3>2, <3>3, <3>4 DEF Typed
    <3> QED BY <2>2, <2>4, <3>1, <3>5 DEF Typed
  <2> QED BY <1>4, <2>3, <2>4 DEF HandleJoin
<1>5. ASSUME NEW m \in air, Lose(m) \/ ReceiveAccept(m) PROVE Typed'
  <2>1. air' = air \ {m} /\ UNCHANGED <<turn, minted, creds, disk, jobs, server>>
    BY <1>5 DEF Lose, ReceiveAccept, provisioning, streaming
  <2> QED BY <2>1 DEF Typed
<1>6. ASSUME NEW m \in air, ReceiveData(m) PROVE Typed'
  <2>1. m.dev \in Devices /\ m.cmd \in Commands
    BY <1>6 DEF ReceiveData, Typed, Message
  <2>2. /\ air' = air \ {m} /\ jobs' = [jobs EXCEPT ![m.dev] = Append(@, m.cmd)]
        /\ UNCHANGED <<turn, minted, creds, disk>>
    BY <1>6 DEF ReceiveData, provisioning
  <2>3. jobs' \in [Devices -> Seq({Wake} \cup Commands)]
    <3>1. Append(jobs[m.dev], m.cmd) \in Seq({Wake} \cup Commands)
      BY <2>1 DEF Typed
    <3> QED BY <2>2, <3>1 DEF Typed
  <2>4. server' \in [Devices -> Record]
    <3>1. server[m.dev] \in Record
      BY <2>1 DEF Typed
    <3>2. server[m.dev].queue \in Seq(Commands)
      BY <3>1 DEF Record
    <3>3. (IF server[m.dev].queue # <<>> THEN Tail(server[m.dev].queue)
           ELSE server[m.dev].queue) \in Seq(Commands)
      BY <3>2
    <3>4. [server[m.dev] EXCEPT !.queue =
             IF server[m.dev].queue # <<>> THEN Tail(server[m.dev].queue)
             ELSE server[m.dev].queue] \in Record
      BY <3>1, <3>3 DEF Record
    <3>5. CASE server' = [server EXCEPT ![m.dev].queue = IF @ # <<>> THEN Tail(@) ELSE @]
      BY <3>4, <3>5 DEF Typed
    <3>6. CASE server' = server
      BY <3>6 DEF Typed
    <3> QED BY <1>6, <3>5, <3>6 DEF ReceiveData
  <2> QED BY <2>2, <2>3, <2>4 DEF Typed
<1>7. ASSUME NEW d \in Targets, Enqueue(d) PROVE Typed'
  <2>1. PICK cmd \in Commands : server' = [server EXCEPT ![d].queue = Append(@, cmd)]
    BY <1>7 DEF Enqueue
  <2>2. d \in Devices /\ server[d] \in Record
    BY BoundsAssumption DEF Typed
  <2>3. Append(server[d].queue, cmd) \in Seq(Commands)
    BY <2>2 DEF Record
  <2>4. [server[d] EXCEPT !.queue = Append(server[d].queue, cmd)] \in Record
    BY <2>2, <2>3 DEF Record
  <2>5. server' \in [Devices -> Record]
    BY <2>1, <2>2, <2>4 DEF Typed
  <2>6. UNCHANGED <<turn, minted, creds, disk, jobs, air>>
    BY <1>7 DEF Enqueue, provisioning, streaming
  <2> QED BY <2>5, <2>6 DEF Typed
<1>8. ASSUME NEW d \in Devices, RunWake(d) PROVE Typed'
  <2>1. jobs' = [jobs EXCEPT ![d] = Tail(@)] /\ jobs[d] # <<>>
        /\ UNCHANGED <<turn, minted, creds, disk, server>>
    BY <1>8 DEF RunWake, provisioning
  <2>2. Tail(jobs[d]) \in Seq({Wake} \cup Commands)
    BY <2>1 DEF Typed
  <2>3. air' = air \/ (server[d].queue # <<>> /\ air' \in {air, air \cup
          {[kind |-> "data", dev |-> d, cmd |-> Head(server[d].queue)]}})
    BY <1>8 DEF RunWake, Uplink
  <2>4. server[d].queue # <<>> =>
          [kind |-> "data", dev |-> d, cmd |-> Head(server[d].queue)] \in Message
    <3>1. server[d].queue \in Seq(Commands)
      BY DEF Typed, Record
    <3>2. server[d].queue # <<>> => Head(server[d].queue) \in Commands
      BY <3>1
    <3> QED BY <3>2 DEF Message
  <2> QED BY <2>1, <2>2, <2>3, <2>4 DEF Typed
<1>9. ASSUME NEW d \in Devices, RunDownlink(d) PROVE Typed'
  <2>1. jobs' = [jobs EXCEPT ![d] = Tail(@)] /\ jobs[d] # <<>>
        /\ UNCHANGED <<turn, minted, creds, disk, server, air>>
    BY <1>9 DEF RunDownlink, provisioning
  <2>2. Tail(jobs[d]) \in Seq({Wake} \cup Commands)
    BY <2>1 DEF Typed
  <2> QED BY <2>1, <2>2 DEF Typed
<1>10. ASSUME NEW d \in Devices, TimerFires(d) PROVE Typed'
  <2>1. jobs' = [jobs EXCEPT ![d] = Append(@, Wake)]
        /\ UNCHANGED <<turn, minted, creds, disk, server, air>>
    BY <1>10 DEF TimerFires, provisioning
  <2>2. Append(jobs[d], Wake) \in Seq({Wake} \cup Commands)
    BY DEF Typed
  <2> QED BY <2>1, <2>2 DEF Typed
<1>11. CASE StartStreaming
  <2>1. jobs' = [d \in Devices |-> <<Wake>>]
        /\ UNCHANGED <<turn, minted, creds, disk, server, air>>
    BY <1>11 DEF StartStreaming, provisioning
  <2>2. <<Wake>> \in Seq({Wake} \cup Commands)
    OBVIOUS
  <2> QED BY <2>1, <2>2 DEF Typed
<1>12. CASE Restart
  <2>1. /\ jobs' = [d \in Devices |-> <<>>] /\ creds' = [d \in Devices |-> 0] /\ turn' = 1
        /\ air' \subseteq air /\ UNCHANGED <<minted, disk, server>>
    BY <1>12 DEF Restart, Fresh, NoKey
  <2>2. <<>> \in Seq({Wake} \cup Commands)
    OBVIOUS
  <2> QED BY <2>1, <2>2, FixturesAssumption DEF Typed
<1>13. CASE UNCHANGED vars \/ \E d \in Devices : JoinTimeout(d)
  <2>1. UNCHANGED <<turn, minted, creds, disk, jobs, server, air>>
    BY <1>13 DEF JoinTimeout, vars, provisioning, streaming
  <2> QED BY <2>1 DEF Typed
<1> QED BY <1>1, <1>2, <1>3, <1>4, <1>5, <1>6, <1>7, <1>8, <1>9, <1>10, <1>11, <1>12, <1>13
        DEF Next, Node, Link

LEMMA AlwaysTyped == Spec => []Typed
BY InitTyped, TypedStep, PTL DEF Spec

-----------------------------------------------------------------------------
(* The schedule.                                                           *)
HasWake(q) == \E i \in 1..Len(q) : q[i] = Wake

\* Wakes in a queue stay there while jobs are added behind and another one is
\* taken from the front.
LEMMA WakeStays ==
  ASSUME NEW q \in Seq({Wake} \cup Commands)
  PROVE  /\ \A job \in {Wake} \cup Commands : HasWake(q) => HasWake(Append(q, job))
         /\ HasWake(Append(q, Wake))
         /\ q # <<>> /\ Head(q) # Wake /\ HasWake(q) => HasWake(Tail(q))
<1>1. ASSUME NEW job \in {Wake} \cup Commands, HasWake(q) PROVE HasWake(Append(q, job))
  <2>1. PICK i \in 1..Len(q) : q[i] = Wake
    BY <1>1 DEF HasWake
  <2>2. i \in 1..Len(Append(q, job)) /\ Append(q, job)[i] = Wake
    BY <2>1
  <2> QED BY <2>2 DEF HasWake
<1>2. HasWake(Append(q, Wake))
  <2>1. Len(q) + 1 \in 1..Len(Append(q, Wake)) /\ Append(q, Wake)[Len(q) + 1] = Wake
    OBVIOUS
  <2> QED BY <2>1 DEF HasWake
<1>3. ASSUME q # <<>>, Head(q) # Wake, HasWake(q) PROVE HasWake(Tail(q))
  <2>1. PICK i \in 1..Len(q) : q[i] = Wake
    BY <1>3 DEF HasWake
  <2>2. i # 1
    BY <1>3, <2>1
  <2>3. i - 1 \in 1..Len(Tail(q)) /\ Tail(q)[i - 1] = Wake
    BY <1>3, <2>1, <2>2
  <2> QED BY <2>3 DEF HasWake
<1> QED BY <1>1, <1>2, <1>3

LEMMA ScheduledStep == Typed /\ Scheduled /\ [Next]_vars => Scheduled'
<1> SUFFICES ASSUME Typed, Scheduled, [Next]_vars, phase' = "stream", NEW d \in Devices
             PROVE  d \in timers' \/ HasWake(jobs'[d])
  BY DEF Scheduled, HasWake
<1>0. jobs[d] \in Seq({Wake} \cup Commands)
  BY DEF Typed
<1>1. CASE phase = "stream" /\ jobs' = jobs /\ timers' = timers
  BY <1>1 DEF Scheduled, HasWake
<1>2. CASE StartStreaming
  <2>1. jobs'[d] = <<Wake>>
    BY <1>2 DEF StartStreaming
  <2>2. 1 \in 1..Len(<<Wake>>) /\ <<Wake>>[1] = Wake
    OBVIOUS
  <2> QED BY <2>1, <2>2 DEF HasWake
<1>3. ASSUME NEW e \in Devices, RunWake(e) PROVE d \in timers' \/ HasWake(jobs'[d])
  <2>1. phase = "stream" /\ jobs' = [jobs EXCEPT ![e] = Tail(@)] /\ timers' = timers \cup {e}
    BY <1>3 DEF RunWake, Rescheduled
  <2>2. d = e \/ jobs'[d] = jobs[d]
    BY <2>1 DEF Typed
  <2> QED BY <2>1, <2>2 DEF Scheduled, HasWake
<1>4. ASSUME NEW e \in Devices, RunDownlink(e) PROVE d \in timers' \/ HasWake(jobs'[d])
  <2>1. /\ phase = "stream" /\ jobs[e] # <<>> /\ Head(jobs[e]) # Wake
        /\ jobs' = [jobs EXCEPT ![e] = Tail(@)] /\ timers \subseteq timers'
    BY <1>4 DEF RunDownlink
  <2>2. jobs'[d] = IF d = e THEN Tail(jobs[d]) ELSE jobs[d]
    BY <2>1 DEF Typed
  <2>3. d \in timers \/ HasWake(jobs[d])
    BY <2>1 DEF Scheduled, HasWake
  <2> QED BY <1>0, <2>1, <2>2, <2>3, WakeStays
<1>5. ASSUME NEW e \in Devices, TimerFires(e) PROVE d \in timers' \/ HasWake(jobs'[d])
  <2>1. /\ phase = "stream" /\ timers' = timers \ {e}
        /\ jobs' = [jobs EXCEPT ![e] = Append(@, Wake)]
    BY <1>5 DEF TimerFires
  <2>2. jobs'[d] = IF d = e THEN Append(jobs[d], Wake) ELSE jobs[d]
    BY <2>1 DEF Typed
  <2>3. d \in timers \/ HasWake(jobs[d])
    BY <2>1 DEF Scheduled, HasWake
  <2> QED BY <1>0, <2>1, <2>2, <2>3, WakeStays
<1>6. ASSUME NEW m \in air, ReceiveData(m) PROVE d \in timers' \/ HasWake(jobs'[d])
  <2>1. /\ phase = "stream" /\ timers' = timers
        /\ jobs' = [jobs EXCEPT ![m.dev] = Append(@, m.cmd)]
    BY <1>6 DEF ReceiveData
  <2>2. m.cmd \in Commands
    BY <1>6 DEF ReceiveData, Typed, Message
  <2>3. jobs'[d] = IF d = m.dev THEN Append(jobs[d], m.cmd) ELSE jobs[d]
    BY <2>1 DEF Typed
  <2>4. d \in timers \/ HasWake(jobs[d])
    BY <2>1 DEF Scheduled, HasWake
  <2> QED BY <1>0, <2>1, <2>2, <2>3, <2>4, WakeStays
<1>7. CASE \/ Provision \/ ProvisionFails \/ Restart \/ UNCHANGED vars
           \/ \E m \in air : HandleJoin(m) \/ Lose(m) \/ ReceiveAccept(m)
           \/ \E e \in Devices : JoinRequest(e) \/ JoinTimeout(e)
           \/ \E e \in Targets : Enqueue(e)
  <2>1. phase = "stream" /\ jobs' = jobs /\ timers' = timers
    BY <1>7 DEF Provision, ProvisionFails, Restart, Fresh, HandleJoin, Lose, ReceiveAccept,
                JoinRequest, JoinTimeout, Enqueue, vars, streaming
  <2> QED BY <1>1, <2>1
<1> QED BY <1>2, <1>3, <1>4, <1>5, <1>6, <1>7 DEF Next, Node, Link

(* No node of the running simulator is ever without a timer or a wake in   *)
(* its queue.                                                              *)
THEOREM NobodyForgotten == Spec => []Scheduled
<1>1. Init => Scheduled
  BY DEF Init, Scheduled
<1> QED BY <1>1, ScheduledStep, AlwaysTyped, PTL DEF Spec

-----------------------------------------------------------------------------
(* The settings.                                                           *)
Shape(st) == st = [cfg |-> st.cfg, pending |-> st.pending, lastCmd |-> st.lastCmd,
                   lastResult |-> st.lastResult]

\* A file that can be read holds a whole state with settings in range.
FileOK(f) == \/ f \in {Missing, Torn}
             \/ \E st : f = State(st) /\ Shape(st) /\ st.cfg \in Config

FilesInv == file \in [Devices -> {file[d] : d \in Devices}] /\ \A d \in Devices : FileOK(file[d])

\* Settings in range are valid.
LEMMA ConfigIsValid == \A c \in Config : Valid(c)
BY ConfigIsRaw, ConfigFields

LEMMA FactoryState == Shape(StateInit(NoConfig)) /\ StateInit(NoConfig).cfg \in Config
<1>1. StateInit(NoConfig) =
        [cfg |-> DefaultConfig, pending |-> FALSE, lastCmd |-> 0, lastResult |-> ResultNone]
  BY DEF StateInit
<1> QED BY <1>1, ZeroIsRaw DEF Shape

\* Reading a file back gives the state that was written, or the factory state.
LEMMA LoadedFacts ==
  ASSUME NEW f, FileOK(f)
  PROVE  /\ Shape(Loaded(f)) /\ Loaded(f).cfg \in Config
         /\ \A st : f = State(st) /\ st.cfg \in Config => Loaded(f) = st
<1>1. Missing.kind # "state" /\ Torn.kind # "state"
  BY DEF Missing, Torn
<1>2. \A st : State(st).kind = "state" /\ State(st).st = st
  BY DEF State
<1>3. CASE f \in {Missing, Torn}
  <2>1. Loaded(f) = StateInit(NoConfig)
    BY <1>1, <1>3 DEF Loaded
  <2>2. \A st : f # State(st)
    BY <1>1, <1>2, <1>3
  <2> QED BY <2>1, <2>2, FactoryState
<1>4. CASE \E st : f = State(st) /\ Shape(st) /\ st.cfg \in Config
  <2>1. PICK st : f = State(st) /\ Shape(st) /\ st.cfg \in Config
    BY <1>4
  <2>2. f.kind = "state" /\ f.st = st
    BY <1>2, <2>1
  <2>3. Loaded(f) = st
    BY <2>1, <2>2, ConfigIsValid DEF Loaded
  <2>4. \A other : f = State(other) => other = st
    BY <1>2, <2>2
  <2> QED BY <2>1, <2>3, <2>4
<1> QED BY <1>3, <1>4 DEF FileOK

\* A wake, with a power cycle or without, keeps the settings it loads.
LEMMA WakeKeepsSettings ==
  ASSUME NEW f, FileOK(f), NEW boot \in BOOLEAN
  PROVE  /\ Shape(AfterWake(f, boot))
         /\ AfterWake(f, boot).cfg = Loaded(f).cfg
<1> DEFINE st == Booted(f, boot)
<1>1. Shape(Loaded(f)) /\ Loaded(f).cfg \in Config /\ Valid(Loaded(f).cfg)
  BY LoadedFacts, ConfigIsValid
<1>2. ~Valid(NoConfig)
  BY NumericLimits DEF NoConfig, Valid
<1>3. StateInit(Loaded(f).cfg) =
        [cfg |-> Loaded(f).cfg, pending |-> FALSE, lastCmd |-> 0, lastResult |-> ResultNone]
  BY <1>1, <1>2 DEF StateInit
<1>4. Shape(st) /\ st.cfg = Loaded(f).cfg
  <2>1. CASE boot /\ f.kind = "state"
    <3>1. st = StateInit(Loaded(f).cfg)
      BY <2>1 DEF Booted
    <3> HIDE DEF st
    <3>2. st.cfg = Loaded(f).cfg
      BY <1>3, <3>1
    <3> QED BY <1>1, <1>3, <3>1, <3>2 DEF Shape
  <2>2. CASE ~(boot /\ f.kind = "state")
    BY <1>1, <2>2 DEF Booted
  <2> QED BY <2>1, <2>2
<1>5. AfterWake(f, boot) = [st EXCEPT !.pending = ~st.pending /\ (boot \/ f.kind # "state")]
  BY DEF AfterWake
<1> HIDE DEF st
<1> QED BY <1>4, <1>5 DEF Shape

\* A command keeps the settings in range.
LEMMA CommandKeepsRange ==
  ASSUME NEW st, Shape(st), st.cfg \in Config, NEW cmd \in Seq(Byte)
  PROVE  /\ Shape(OnDownlink(st, DownlinkFPort, cmd))
         /\ OnDownlink(st, DownlinkFPort, cmd).cfg \in Config
<1>1. OnDownlink(st, DownlinkFPort, cmd) =
        [cfg |-> ApplyConfig(cmd, st.cfg), pending |-> TRUE,
         lastCmd |-> IF Len(cmd) > 0 THEN cmd[1] ELSE 0,
         lastResult |-> ApplyResult(cmd, st.cfg)]
  BY DEF OnDownlink
<1>2. ApplyConfig(cmd, st.cfg) \in Config
  BY ApplyFacts
<1> QED BY <1>1, <1>2 DEF Shape

\* What a run leaves behind, whichever way it ends.
LEMMA OutcomeFacts ==
  ASSUME NEW d \in Devices, NEW st, NEW outcome \in Outcomes
  PROVE  /\ outcome \in {"ok", "after"} => Written(d, st)[outcome] = State(st)
         /\ outcome = "before" => Written(d, st)[outcome] = file[d]
         /\ outcome = "within" => Written(d, st)[outcome] = Torn
BY DEF Written, Outcomes

\* The file after a run: unchanged elsewhere, and here as its outcome says.
LEMMA WakeFile ==
  ASSUME FilesInv, NEW d \in Devices, RunWake(d)
  PROVE  /\ file' \in [Devices -> {file'[e] : e \in Devices}]
         /\ \A e \in Devices \ {d} : file'[e] = file[e]
         /\ FileOK(file'[d])
         /\ Loaded(file'[d]).cfg = Loaded(file[d]).cfg \/ d \in torn'
<1> DEFINE st == AfterWake(file[d], d \notin booted)
<1>1. PICK outcome \in Outcomes :
        /\ file' = [file EXCEPT ![d] = Written(d, st)[outcome]]
        /\ torn' = IF outcome = "within" THEN torn \cup {d} ELSE torn
  BY DEF RunWake
<1>2. FileOK(file[d])
  BY DEF FilesInv
<1>3. Shape(st) /\ st.cfg = Loaded(file[d]).cfg
  BY <1>2, WakeKeepsSettings
<1>4. st.cfg \in Config
  BY <1>2, <1>3, LoadedFacts
<1> HIDE DEF st
<1>5. /\ file'[d] = Written(d, st)[outcome]
      /\ file' \in [Devices -> {file'[e] : e \in Devices}]
      /\ \A e \in Devices \ {d} : file'[e] = file[e]
  BY <1>1 DEF FilesInv
<1>6. CASE outcome \in {"ok", "after"}
  <2>1. file'[d] = State(st)
    BY <1>5, <1>6, OutcomeFacts
  <2>2. FileOK(file'[d])
    BY <1>3, <1>4, <2>1 DEF FileOK
  <2>3. Loaded(file'[d]) = st
    BY <1>4, <2>1, <2>2, LoadedFacts
  <2> QED BY <1>3, <1>5, <2>2, <2>3
<1>7. CASE outcome = "before"
  BY <1>2, <1>5, <1>7, OutcomeFacts
<1>8. CASE outcome = "within"
  BY <1>1, <1>5, <1>8, OutcomeFacts DEF FileOK
<1> QED BY <1>6, <1>7, <1>8 DEF Outcomes

LEMMA DownlinkFile ==
  ASSUME Typed, FilesInv, NEW d \in Devices, RunDownlink(d)
  PROVE  /\ file' \in [Devices -> {file'[e] : e \in Devices}]
         /\ \A e \in Devices \ {d} : file'[e] = file[e]
         /\ FileOK(file'[d])
<1> DEFINE st == OnDownlink(Loaded(file[d]), DownlinkFPort, Head(jobs[d]))
<1>1. PICK outcome \in Outcomes : file' = [file EXCEPT ![d] = Written(d, st)[outcome]]
  BY DEF RunDownlink
<1>2. FileOK(file[d])
  BY DEF FilesInv
<1>3. Shape(st) /\ st.cfg \in Config
  <2>1. jobs[d] \in Seq({Wake} \cup Commands) /\ jobs[d] # <<>> /\ Head(jobs[d]) # Wake
    BY DEF RunDownlink, Typed
  <2>2. Head(jobs[d]) \in Seq(Byte)
    BY <2>1, CommandsAssumption
  <2> QED BY <1>2, <2>2, LoadedFacts, CommandKeepsRange
<1> HIDE DEF st
<1>4. /\ file'[d] = Written(d, st)[outcome]
      /\ file' \in [Devices -> {file'[e] : e \in Devices}]
      /\ \A e \in Devices \ {d} : file'[e] = file[e]
  BY <1>1 DEF FilesInv
<1>5. file'[d] \in {State(st), file[d], Torn}
  BY <1>4, OutcomeFacts DEF Outcomes
<1>6. FileOK(file'[d])
  BY <1>2, <1>3, <1>5 DEF FileOK
<1> QED BY <1>4, <1>6

\* Only these two touch a file.
LEMMA FilesElsewhere ==
  ASSUME [Next]_vars, \A d \in Devices : ~RunWake(d) /\ ~RunDownlink(d)
  PROVE  file' = file
BY DEF Next, Node, Link, Provision, ProvisionFails, StartStreaming, Restart, Fresh, HandleJoin,
       Lose, ReceiveAccept, ReceiveData, JoinRequest, JoinTimeout, TimerFires, Enqueue, vars,
       streaming

LEMMA FilesStep == Typed /\ FilesInv /\ [Next]_vars => FilesInv'
<1> SUFFICES ASSUME Typed, FilesInv, [Next]_vars PROVE FilesInv'
  OBVIOUS
<1>1. ASSUME NEW d \in Devices, RunWake(d) PROVE FilesInv'
  BY <1>1, WakeFile DEF FilesInv
<1>2. ASSUME NEW d \in Devices, RunDownlink(d) PROVE FilesInv'
  BY <1>2, DownlinkFile DEF FilesInv
<1>3. CASE file' = file
  BY <1>3 DEF FilesInv
<1> QED BY <1>1, <1>2, <1>3, FilesElsewhere

(* Only a downlink changes a node's settings, unless a run was killed      *)
(* while it rewrote the state file.                                        *)
THEOREM SettingsSurviveAlways == Spec => SettingsSurvive
<1> DEFINE Claim == \A d \in Devices : Settings(d)' # Settings(d) => RunDownlink(d) \/ d \in torn'
<1>1. Init => FilesInv
  BY DEF Init, FilesInv, FileOK
<1>2. Typed /\ FilesInv /\ [Next]_vars => [Claim]_vars
  <2> SUFFICES ASSUME Typed, FilesInv, [Next]_vars, NEW d \in Devices,
                      Loaded(file'[d]).cfg # Loaded(file[d]).cfg, ~RunDownlink(d)
               PROVE  d \in torn'
    BY DEF Settings
  <2>1. PICK e \in Devices : RunWake(e) \/ RunDownlink(e)
    BY FilesElsewhere
  <2>2. CASE e # d
    BY <2>1, <2>2, WakeFile, DownlinkFile
  <2>3. CASE e = d
    BY <2>1, <2>3, WakeFile
  <2> QED BY <2>2, <2>3
<1> QED BY <1>1, <1>2, FilesStep, AlwaysTyped, PTL DEF Spec, SettingsSurvive

-----------------------------------------------------------------------------
(* The keys.                                                               *)

\* Saved keys are the server's.  The attempt that is running has given the
\* devices before its turn the keys the server has, and of the others those
\* that have a key on the server have it saved.
KeysInv ==
  ~interrupted =>
    /\ \A d \in Devices : disk[d] # 0 => server[d].key = disk[d]
    /\ phase = "provision" =>
         \A i \in 1..Len(Order) :
           IF i < turn THEN creds[Order[i]] = server[Order[i]].key /\ creds[Order[i]] # 0
                       ELSE server[Order[i]].key # 0 => disk[Order[i]] # 0
    /\ phase \in {"join", "stream"} => \A d \in Devices : creds[d] = server[d].key

\* Only provisioning and a restart touch keys; nothing else on the server does.
LEMMA KeysElsewhere ==
  ASSUME Typed, [Next]_vars, ~Provision, ~ProvisionFails, ~Restart
  PROVE  /\ UNCHANGED <<turn, minted, creds, disk, interrupted>>
         /\ \A d \in Devices : server'[d].key = server[d].key
         /\ phase' \in {phase, "exited"} \/ (phase = "join" /\ phase' = "stream")
<1>1. UNCHANGED <<turn, minted, creds, disk, interrupted>>
  BY DEF Next, Node, Link, StartStreaming, HandleJoin, Lose, ReceiveAccept, ReceiveData,
         JoinRequest, JoinTimeout, RunWake, RunDownlink, TimerFires, Enqueue, vars,
         provisioning, history
<1>2. phase' \in {phase, "exited"} \/ (phase = "join" /\ phase' = "stream")
  BY DEF Next, Node, Link, StartStreaming, HandleJoin, Lose, ReceiveAccept, ReceiveData,
         JoinRequest, JoinTimeout, RunWake, RunDownlink, TimerFires, Enqueue, vars
<1>3. ASSUME NEW d \in Devices PROVE server'[d].key = server[d].key
  <2>1. ASSUME NEW m \in air, HandleJoin(m) PROVE server'[d].key = server[d].key
    <3>1. m.dev \in Devices /\ server[m.dev] \in Record /\ server \in [Devices -> Record]
      BY <2>1 DEF HandleJoin, Typed, Message
    <3>2. CASE server' = [server EXCEPT ![m.dev].used = @ \cup {m.nonce}, ![m.dev].nonce = m.nonce]
      <4>1. server' = [server EXCEPT ![m.dev] =
                         [server[m.dev] EXCEPT !.used = @ \cup {m.nonce}, !.nonce = m.nonce]]
        BY <3>1, <3>2 DEF Record
      <4>2. [server[m.dev] EXCEPT !.used = @ \cup {m.nonce}, !.nonce = m.nonce].key
              = server[m.dev].key
        BY <3>1 DEF Record
      <4> QED BY <3>1, <4>1, <4>2
    <3> QED BY <2>1, <3>2 DEF HandleJoin
  <2>2. ASSUME NEW m \in air, ReceiveData(m) PROVE server'[d].key = server[d].key
    <3>1. m.dev \in Devices /\ server[m.dev] \in Record /\ server \in [Devices -> Record]
      BY <2>2 DEF ReceiveData, Typed, Message
    <3>2. ASSUME NEW q, server' = [server EXCEPT ![m.dev].queue = q]
          PROVE  server'[d].key = server[d].key
      BY <3>1, <3>2 DEF Record
    <3> QED BY <2>2, <3>2 DEF ReceiveData
  <2>3. ASSUME NEW e \in Targets, Enqueue(e) PROVE server'[d].key = server[d].key
    BY <2>3 DEF Enqueue, Typed, Record
  <2>4. CASE server' = server
    BY <2>4
  <2> QED BY <2>1, <2>2, <2>3, <2>4 DEF Next, Node, Link, StartStreaming, Lose, ReceiveAccept,
             JoinRequest, JoinTimeout, RunWake, RunDownlink, TimerFires, vars
<1> QED BY <1>1, <1>2, <1>3

\* One device's turn: its key in creds is the server's and no other changes.
LEMMA TurnAgrees ==
  ASSUME Typed, KeysInv, ~interrupted, Provision
  PROVE  LET d == Order[turn] IN
         /\ d \in Devices
         /\ creds'[d] = server'[d].key /\ creds'[d] # 0
         /\ disk[d] # 0 => server'[d].key = disk[d]
         /\ \A e \in Devices : e # d => creds'[e] = creds[e] /\ server'[e].key = server[e].key
<1> DEFINE d == Order[turn]
<1>1. d \in Devices /\ turn \in 1..Len(Order)
  BY KeysAreNumbers DEF Typed
<1>2. server' = Keyed(d) /\ creds' = [creds EXCEPT ![d] = Creds(d)] /\ phase = "provision"
  BY DEF Provision
<1>3. /\ server'[d].key = IF server[d].key = 0 THEN Creds(d) ELSE server[d].key
      /\ \A e \in Devices : e # d => server'[e] = server[e]
      /\ Creds(d) \in Nat \ {0}
  BY <1>2, KeysAreNumbers
<1>4. creds'[d] = Creds(d) /\ \A e \in Devices : e # d => creds'[e] = creds[e]
  BY <1>1, <1>2 DEF Typed
<1>5. server[d].key # 0 => disk[d] # 0
  BY <1>1, <1>2 DEF KeysInv, Typed
<1>6. disk[d] # 0 => server[d].key = disk[d] /\ Creds(d) = disk[d]
  BY <1>1 DEF KeysInv, Creds, NoKey
<1> QED BY <1>1, <1>3, <1>4, <1>5, <1>6

LEMMA KeysStep == Typed /\ KeysInv /\ [Next]_vars => KeysInv'
<1> SUFFICES ASSUME Typed, KeysInv, [Next]_vars, ~interrupted' PROVE KeysInv'
  BY DEF KeysInv
<1>1. CASE Provision
  <2> DEFINE d == Order[turn]
  <2>1. ~interrupted /\ interrupted' = interrupted /\ phase = "provision"
    BY <1>1 DEF Provision, history
  <2>2. /\ d \in Devices
        /\ creds'[d] = server'[d].key /\ creds'[d] # 0
        /\ disk[d] # 0 => server'[d].key = disk[d]
        /\ \A e \in Devices : e # d => creds'[e] = creds[e] /\ server'[e].key = server[e].key
    BY <1>1, <2>1, TurnAgrees
  <2>3. \A i \in 1..Len(Order) : Order[i] \in Devices /\ (Order[i] = d <=> i = turn)
    BY FixturesAssumption DEF Devices, Typed
  <2>4. turn \in 1..Len(Order) /\ Len(Order) \in Nat \ {0}
    BY FixturesAssumption DEF Typed
  <2> HIDE DEF d
  <2>5. \A i \in 1..Len(Order) :
          IF i < turn + 1 THEN creds'[Order[i]] = server'[Order[i]].key /\ creds'[Order[i]] # 0
                          ELSE server'[Order[i]].key # 0 => disk[Order[i]] # 0
    BY <2>1, <2>2, <2>3, <2>4 DEF KeysInv
  <2>6. CASE turn < Len(Order)
    <3>1. turn' = turn + 1 /\ phase' = phase /\ disk' = disk
      BY <1>1, <2>6 DEF Provision
    <3>2. \A e \in Devices : disk'[e] # 0 => server'[e].key = disk'[e]
      BY <2>1, <2>2, <3>1 DEF KeysInv
    <3> QED BY <2>1, <2>5, <3>1, <3>2 DEF KeysInv
  <2>7. CASE ~(turn < Len(Order))
    <3>1. phase' = "join" /\ disk' = creds'
      BY <1>1, <2>7 DEF Provision
    <3>2. \A e \in Devices : creds'[e] = server'[e].key
      BY <2>4, <2>5, <2>7 DEF Devices
    <3> QED BY <3>1, <3>2 DEF KeysInv
  <2> QED BY <2>6, <2>7
<1>2. CASE ProvisionFails \/ Restart
  <2>1. /\ ~interrupted /\ disk' = disk /\ turn' = 1
        /\ phase' \in {"provision", "exited"}
        /\ server' \in {server, Keyed(Order[turn])}
    BY <1>2 DEF ProvisionFails, Restart, Fresh
  <2>2. \A d \in Devices : disk[d] # 0 => server'[d].key = disk[d]
    BY <2>1, KeysAreNumbers DEF KeysInv
  <2>3. CASE ProvisionFails
    <3>1. \A d \in Devices : server'[d].key # 0 => disk[d] # 0
      BY <2>3 DEF ProvisionFails, NoKey
    <3> QED BY <2>1, <2>2, <3>1 DEF KeysInv, Devices
  <2>4. CASE Restart
    <3>1. \A d \in Devices : server'[d].key # 0 => disk[d] # 0
      BY <2>4 DEF Restart, NoKey
    <3> QED BY <2>1, <2>2, <3>1 DEF KeysInv, Devices
  <2> QED BY <1>2, <2>3, <2>4
<1>3. CASE ~Provision /\ ~ProvisionFails /\ ~Restart
  <2>1. /\ UNCHANGED <<turn, creds, disk, interrupted>>
        /\ \A d \in Devices : server'[d].key = server[d].key
        /\ phase' \in {phase, "exited"} \/ (phase = "join" /\ phase' = "stream")
    BY <1>3, KeysElsewhere
  <2>2. \A i \in 1..Len(Order) : Order[i] \in Devices
    BY DEF Devices
  <2> QED BY <2>1, <2>2 DEF KeysInv
<1> QED BY <1>1, <1>2, <1>3

(* A provisioned simulator holds ChirpStack's keys, over any number of     *)
(* failed attempts and restarts, unless one of them ended between a        *)
(* device's keys and the saving of the credentials.                        *)
THEOREM KeysAreTheServers == Spec => []KeysAgree
<1>1. Init => KeysInv
  BY FixturesAssumption DEF Init, KeysInv, Devices, NoKey
<1>2. KeysInv => KeysAgree
  BY DEF KeysInv, KeysAgree
<1> QED BY <1>1, <1>2, KeysStep, AlwaysTyped, PTL DEF Spec

-----------------------------------------------------------------------------
(* The keys' range: none is above minted, and provisioning leaves none out. *)
KeyRange ==
  /\ \A d \in Devices : creds[d] <= minted /\ disk[d] <= minted /\ server[d].key <= minted
  /\ phase = "provision" => \A i \in 1..Len(Order) : i < turn => creds[Order[i]] # 0
  /\ phase \in {"join", "stream"} => \A d \in Devices : creds[d] # 0

\* A key is drawn above the ones before it, and counted.
LEMMA MintedFacts ==
  ASSUME Typed, KeyRange
  PROVE  /\ Creds(Order[turn]) <= Minted(Order[turn])
         /\ minted <= Minted(Order[turn])
         /\ \A e \in Devices : Keyed(Order[turn])[e].key <= Minted(Order[turn])
<1> DEFINE d == Order[turn]
<1>1. d \in Devices /\ Creds(d) \in Nat \ {0} /\ Minted(d) \in Nat
  BY KeysAreNumbers
<1>2. minted \in Nat /\ disk[d] \in Nat /\ disk[d] <= minted
  BY <1>1 DEF Typed, KeyRange
<1>3. Creds(d) <= Minted(d) /\ minted <= Minted(d)
  BY <1>1, <1>2 DEF Minted
<1>4. ASSUME NEW e \in Devices PROVE Keyed(d)[e].key <= Minted(d)
  <2>1. server[e].key \in Nat /\ server[e].key <= minted
    BY DEF Typed, Record, KeyRange
  <2>2. Keyed(d)[e].key \in {server[e].key, Creds(d)}
    BY KeysAreNumbers
  <2> QED BY <1>1, <1>2, <1>3, <2>1, <2>2
<1> QED BY <1>3, <1>4

LEMMA KeyRangeStep == Typed /\ KeyRange /\ [Next]_vars => KeyRange' /\ minted <= minted'
<1> SUFFICES ASSUME Typed, KeyRange, [Next]_vars PROVE KeyRange' /\ minted <= minted'
  OBVIOUS
<1> USE DEF Typed
<1>1. CASE Provision
  <2> DEFINE d == Order[turn]
  <2>1. /\ phase = "provision" /\ server' = Keyed(d) /\ minted' = Minted(d)
        /\ creds' = [creds EXCEPT ![d] = Creds(d)]
    BY <1>1 DEF Provision
  <2>2. d \in Devices /\ Creds(d) \in Nat \ {0} /\ Minted(d) \in Nat
    BY KeysAreNumbers
  <2>3. Creds(d) <= Minted(d) /\ minted <= Minted(d)
        /\ \A e \in Devices : Keyed(d)[e].key <= Minted(d)
    BY MintedFacts
  <2>4. \A i \in 1..Len(Order) : Order[i] \in Devices /\ (Order[i] = d <=> i = turn)
    BY FixturesAssumption DEF Devices
  <2> HIDE DEF d
  <2>5. ASSUME NEW e \in Devices
        PROVE  creds'[e] <= minted' /\ disk[e] <= minted' /\ server'[e].key <= minted'
    <3>1. creds'[e] = IF e = d THEN Creds(d) ELSE creds[e]
      BY <2>1
    <3>2. creds[e] \in Nat /\ disk[e] \in Nat /\ creds[e] <= minted /\ disk[e] <= minted
      BY DEF KeyRange
    <3> QED BY <2>1, <2>2, <2>3, <3>1, <3>2
  <2>6. \A i \in 1..Len(Order) : i < turn + 1 => creds'[Order[i]] # 0
    BY <2>1, <2>2, <2>4 DEF KeyRange
  <2>7. CASE turn < Len(Order)
    <3>1. turn' = turn + 1 /\ phase' = phase /\ disk' = disk
      BY <1>1, <2>7 DEF Provision
    <3> QED BY <2>1, <2>3, <2>5, <2>6, <3>1 DEF KeyRange
  <2>8. CASE ~(turn < Len(Order))
    <3>1. turn' = 1 /\ phase' = "join" /\ disk' = creds'
      BY <1>1, <2>8 DEF Provision
    <3>2. \A e \in Devices : creds'[e] # 0
      BY <2>6, <2>8, FixturesAssumption DEF Devices
    <3> QED BY <2>1, <2>3, <2>5, <3>1, <3>2 DEF KeyRange
  <2> QED BY <2>7, <2>8
<1>2. CASE ProvisionFails \/ Restart
  <2>1. /\ creds' = [d \in Devices |-> 0] /\ disk' = disk /\ turn' = 1
        /\ phase' \in {"provision", "exited"}
        /\ server' = server \/ (server' = Keyed(Order[turn]) /\ minted' = Minted(Order[turn]))
        /\ minted' \in {minted, Minted(Order[turn])}
    BY <1>2 DEF ProvisionFails, Restart, Fresh, NoKey
  <2>2. minted' \in Nat /\ minted <= minted'
    BY <2>1, MintedFacts, KeysAreNumbers
  <2>3. ASSUME NEW e \in Devices
        PROVE  creds'[e] <= minted' /\ disk'[e] <= minted' /\ server'[e].key <= minted'
    <3>1. /\ disk[e] \in Nat /\ disk[e] <= minted
          /\ server[e].key \in Nat /\ server[e].key <= minted
      BY DEF Record, KeyRange
    <3>2. server'[e].key <= minted'
      BY <2>1, <2>2, <3>1, MintedFacts
    <3> QED BY <2>1, <2>2, <3>1, <3>2
  <2> QED BY <2>1, <2>2, <2>3 DEF KeyRange
<1>3. CASE ~Provision /\ ~ProvisionFails /\ ~Restart
  <2>1. /\ UNCHANGED <<turn, minted, creds, disk>>
        /\ \A d \in Devices : server'[d].key = server[d].key
        /\ phase' \in {phase, "exited"} \/ (phase = "join" /\ phase' = "stream")
    BY <1>3, KeysElsewhere
  <2> QED BY <2>1 DEF KeyRange
<1> QED BY <1>1, <1>2, <1>3

LEMMA InitKeyRange == Init => KeyRange
BY DEF Init, KeyRange, NoKey

-----------------------------------------------------------------------------
(* Joining: at most one device waits, and every device before it in Order  *)
(* has its session already.                                                *)
Sessions(bound) ==
  [dev: Devices, of: {0} \cup Nonces, nonce: {0} \cup Nonces, key: 1..bound]

WaitsAlone(d) == waiters = <<d>> /\ session[d] = NoSession /\ TurnToJoin(d)

JoinInv ==
  /\ nonce \in [Devices -> {0} \cup Nonces]
  /\ tries \in [Devices -> 0..MaxTries]
  /\ session \in [Devices -> {NoSession} \cup Sessions(minted)]
  /\ phase = "provision" => \A d \in Devices : session[d] = NoSession
  /\ phase = "stream" => \A d \in Devices : session[d] # NoSession
  /\ waiters # <<>> => phase = "join" /\ \E d \in Devices : WaitsAlone(d)

\* Two devices are never due at once: one of them comes first in Order.
LEMMA OneTurn ==
  ASSUME NEW d \in Devices, NEW e \in Devices, TurnToJoin(d), TurnToJoin(e),
         session[d] = NoSession, session[e] = NoSession
  PROVE  d = e
<1> DEFINE L == Len(Order)
<1>1. L \in Nat /\ \A i, j \in 1..L : Order[i] = Order[j] => i = j
  BY FixturesAssumption
<1>2. PICK i \in 1..L : Order[i] = d
  BY DEF Devices
<1>3. PICK j \in 1..L : Order[j] = e
  BY DEF Devices
<1>4. \A k \in 1..L : (\A m \in 1..k : Order[m] # d) => session[Order[k]] # NoSession
  BY DEF TurnToJoin
<1>5. \A k \in 1..L : (\A m \in 1..k : Order[m] # e) => session[Order[k]] # NoSession
  BY DEF TurnToJoin
<1> HIDE DEF L
<1>6. ~(i < j)
  <2> SUFFICES ASSUME i < j PROVE FALSE
    OBVIOUS
  <2>1. \A m \in 1..i : m \in 1..L /\ m # j
    BY <1>1
  <2>2. \A m \in 1..i : Order[m] # e
    BY <1>1, <1>3, <2>1
  <2> QED BY <1>2, <1>5, <2>2
<1>7. ~(j < i)
  <2> SUFFICES ASSUME j < i PROVE FALSE
    OBVIOUS
  <2>1. \A m \in 1..j : m \in 1..L /\ m # i
    BY <1>1
  <2>2. \A m \in 1..j : Order[m] # d
    BY <1>1, <1>2, <2>1
  <2> QED BY <1>3, <1>4, <2>2
<1>8. i = j
  BY <1>1, <1>6, <1>7
<1> QED BY <1>2, <1>3, <1>8

\* Nobody else waits when a device sends its request.
LEMMA RequestAlone ==
  ASSUME JoinInv, NEW d \in Devices, JoinRequest(d)
  PROVE  waiters = <<>> /\ waiters' = <<d>>
<1>1. waiters = <<>>
  <2> SUFFICES ASSUME waiters # <<>> PROVE FALSE
    OBVIOUS
  <2>1. PICK e \in Devices : WaitsAlone(e)
    BY DEF JoinInv
  <2>2. e = d
    BY <2>1, OneTurn DEF WaitsAlone, JoinRequest
  <2>3. Waiting(d)
    BY <2>1, <2>2 DEF WaitsAlone, Waiting
  <2> QED BY <2>3 DEF JoinRequest
<1>2. waiters' = Append(waiters, d)
  BY DEF JoinRequest
<1> QED BY <1>1, <1>2

\* A timeout takes the only waiter out, and so does an answer.
LEMMA WaiterLeaves ==
  ASSUME JoinInv, NEW d \in Devices, JoinTimeout(d)
  PROVE  WaitsAlone(d) /\ phase = "join" /\ waiters' = <<>>
<1>1. PICK k \in DOMAIN waiters : waiters[k] = d /\ waiters' = RemoveAt(waiters, k)
  BY DEF JoinTimeout
<1>2. waiters # <<>>
  BY <1>1
<1>3. PICK e \in Devices : WaitsAlone(e)
  BY <1>2 DEF JoinInv
<1>4. waiters = <<e>> /\ k = 1 /\ e = d
  BY <1>1, <1>3 DEF WaitsAlone
<1>5. RemoveAt(<<d>>, 1) = <<>>
  BY DEF RemoveAt
<1> QED BY <1>1, <1>2, <1>3, <1>4, <1>5 DEF JoinInv

LEMMA AnswerTaken ==
  ASSUME JoinInv, NEW m \in air, ReceiveAccept(m), waiters # <<>>
  PROVE  \E d \in Devices :
           /\ WaitsAlone(d) /\ phase = "join" /\ waiters' = <<>>
           /\ session' = [session EXCEPT ![d] = [dev |-> m.dev, of |-> m.nonce,
                                                 nonce |-> nonce[d], key |-> creds[d]]]
           /\ nonce' = [nonce EXCEPT ![d] = 0] /\ tries' = [tries EXCEPT ![d] = 0]
<1>1. PICK d \in Devices : WaitsAlone(d)
  BY DEF JoinInv
<1>2. Head(waiters) = d /\ Served = <<>>
  BY <1>1 DEF WaitsAlone, Served
<1>3. phase = "join"
  BY DEF JoinInv
<1> QED BY <1>1, <1>2, <1>3 DEF ReceiveAccept

\* Elsewhere the sessions and the waiters stay.
LEMMA JoiningElsewhere ==
  ASSUME [Next]_vars, ~Restart, \A m \in air : ~ReceiveAccept(m),
         \A d \in Devices : ~JoinRequest(d) /\ ~JoinTimeout(d)
  PROVE  /\ UNCHANGED <<tries, nonce, session, waiters>>
         /\ \/ phase' = phase
            \/ phase = "provision" /\ phase' \in {"join", "exited"}
            \/ StartStreaming
BY DEF Next, Node, Link, Provision, ProvisionFails, StartStreaming, HandleJoin, Lose, ReceiveData,
       RunWake, RunDownlink, TimerFires, Enqueue, vars, joining

LEMMA InitJoin == Init => JoinInv
<1> SUFFICES ASSUME Init PROVE JoinInv
  OBVIOUS
<1>1. 0 \in 0..MaxTries
  BY BoundsAssumption
<1> QED BY <1>1 DEF Init, JoinInv

LEMMA JoinStep == Typed /\ KeyRange /\ JoinInv /\ [Next]_vars => JoinInv'
<1> SUFFICES ASSUME Typed, KeyRange, JoinInv, [Next]_vars PROVE JoinInv'
  OBVIOUS
<1>1. minted \in Nat /\ minted' \in Nat /\ minted <= minted'
  BY KeyRangeStep, TypedStep DEF Typed
<1>2. session \in [Devices -> {NoSession} \cup Sessions(minted')]
  <2>1. 1..minted \subseteq 1..minted'
    BY <1>1
  <2>2. Sessions(minted) \subseteq Sessions(minted')
    BY <2>1 DEF Sessions
  <2> QED BY <2>2 DEF JoinInv
<1>3. MaxTries \in Nat \ {0}
  BY BoundsAssumption
<1>4. ASSUME NEW d \in Devices, JoinRequest(d) PROVE JoinInv'
  <2>1. waiters' = <<d>>
    BY <1>4, RequestAlone
  <2>2. phase = "join" /\ phase' = phase /\ session' = session /\ session[d] = NoSession
        /\ TurnToJoin(d)
    BY <1>4 DEF JoinRequest
  <2>3. WaitsAlone(d)'
    BY <2>1, <2>2 DEF WaitsAlone, TurnToJoin
  <2>4. nonce' \in [Devices -> {0} \cup Nonces]
    BY <1>4 DEF JoinRequest, JoinInv
  <2>5. tries' \in [Devices -> 0..MaxTries]
    <3>1. tries' = [tries EXCEPT ![d] = tries[d] + 1] /\ tries[d] < MaxTries
      BY <1>4 DEF JoinRequest
    <3>2. tries[d] + 1 \in 0..MaxTries
      BY <1>3, <3>1 DEF JoinInv
    <3> QED BY <3>1, <3>2 DEF JoinInv
  <2> QED BY <1>2, <2>2, <2>3, <2>4, <2>5 DEF JoinInv
<1>5. ASSUME NEW d \in Devices, JoinTimeout(d) PROVE JoinInv'
  <2>1. waiters' = <<>> /\ phase = "join" /\ phase' \in {phase, "exited"}
    BY <1>5, WaiterLeaves DEF JoinTimeout
  <2>2. UNCHANGED <<tries, nonce, session>>
    BY <1>5 DEF JoinTimeout
  <2> QED BY <1>2, <2>1, <2>2 DEF JoinInv
<1>6. ASSUME NEW m \in air, ReceiveAccept(m), waiters # <<>> PROVE JoinInv'
  <2>1. PICK d \in Devices :
           /\ WaitsAlone(d) /\ phase = "join" /\ waiters' = <<>>
           /\ session' = [session EXCEPT ![d] = [dev |-> m.dev, of |-> m.nonce,
                                                 nonce |-> nonce[d], key |-> creds[d]]]
           /\ nonce' = [nonce EXCEPT ![d] = 0] /\ tries' = [tries EXCEPT ![d] = 0]
    BY <1>6, AnswerTaken
  <2>2. m.dev \in Devices /\ m.nonce \in Nonces
    BY <1>6 DEF ReceiveAccept, Typed, Message
  <2>3. creds[d] \in 1..minted'
    <3>1. creds[d] \in Nat /\ creds[d] <= minted /\ creds[d] # 0
      BY <2>1 DEF Typed, KeyRange
    <3> QED BY <1>1, <3>1
  <2>4. [dev |-> m.dev, of |-> m.nonce, nonce |-> nonce[d], key |-> creds[d]]
          \in Sessions(minted')
    BY <2>2, <2>3 DEF Sessions, JoinInv
  <2>5. session' \in [Devices -> {NoSession} \cup Sessions(minted')]
    BY <1>2, <2>1, <2>4
  <2>6. 0 \in 0..MaxTries
    BY <1>3
  <2>7. phase' = "join"
    BY <1>6, <2>1 DEF ReceiveAccept
  <2>8. nonce' \in [Devices -> {0} \cup Nonces] /\ tries' \in [Devices -> 0..MaxTries]
    BY <2>1, <2>6 DEF JoinInv
  <2> QED BY <2>1, <2>5, <2>7, <2>8 DEF JoinInv
<1>7. ASSUME NEW m \in air, ReceiveAccept(m), waiters = <<>> PROVE JoinInv'
  <2>1. UNCHANGED <<tries, nonce, session, waiters, phase>>
    BY <1>7 DEF ReceiveAccept, joining
  <2> QED BY <1>2, <1>7, <2>1 DEF JoinInv
<1>8. CASE Restart
  <2>1. 0 \in 0..MaxTries
    BY <1>3
  <2> QED BY <1>8, <2>1 DEF Restart, Fresh, JoinInv
<1>9. CASE ~Restart /\ (\A m \in air : ~ReceiveAccept(m))
           /\ (\A d \in Devices : ~JoinRequest(d) /\ ~JoinTimeout(d))
  <2>1. /\ UNCHANGED <<tries, nonce, session, waiters>>
        /\ \/ phase' = phase
           \/ phase = "provision" /\ phase' \in {"join", "exited"}
           \/ StartStreaming
    BY <1>9, JoiningElsewhere
  <2>2. \A d \in Devices : WaitsAlone(d) => WaitsAlone(d)'
    BY <2>1 DEF WaitsAlone, TurnToJoin
  <2>3. waiters # <<>> => phase = "join" /\ \E d \in Devices : session[d] = NoSession
    BY DEF JoinInv, WaitsAlone
  <2>4. waiters # <<>> => phase' = phase
    BY <2>1, <2>3 DEF StartStreaming
  <2>5. phase' = "provision" => phase = "provision"
    BY <2>1 DEF StartStreaming
  <2>6. phase' = "stream" => \A d \in Devices : session[d] # NoSession
    BY <2>1 DEF StartStreaming, JoinInv
  <2> QED BY <1>2, <2>1, <2>2, <2>4, <2>5, <2>6 DEF JoinInv
<1> QED BY <1>4, <1>5, <1>6, <1>7, <1>8, <1>9

-----------------------------------------------------------------------------
(* Sessions.  While no answer has been late, the join messages on their    *)
(* way are those of the one device that waits.                             *)
IsJoin(m) == m.kind \in {"request", "accept"}

\* m is the request of the waiting device's last attempt, or its answer.
OfWaiter(m) ==
  /\ waiters = <<m.dev>> /\ m.nonce = nonce[m.dev]
  /\ m.kind = "request" => m.key = creds[m.dev]
  /\ m.kind = "accept" => server[m.dev].nonce = m.nonce /\ server[m.dev].key = creds[m.dev]

PairsInv ==
  /\ IsFiniteSet(air) /\ late \in Nat
  /\ late = 0 => /\ \A m \in air : IsJoin(m) => OfWaiter(m)
                 /\ \A m, n \in air : IsJoin(m) /\ IsJoin(n) => m = n
                 /\ \A d \in Devices : session[d] # NoSession => session[d] = Agreed(d)

\* ChirpStack's session with a device changes only when it answers a request,
\* its key only in provisioning.
LEMMA ServerElsewhere ==
  ASSUME Typed, [Next]_vars, ~Provision, ~ProvisionFails, \A m \in air : ~HandleJoin(m),
         NEW d \in Devices
  PROVE  server'[d].nonce = server[d].nonce /\ server'[d].key = server[d].key
<1>1. ASSUME NEW m \in air, ReceiveData(m)
      PROVE  server'[d].nonce = server[d].nonce /\ server'[d].key = server[d].key
  <2>1. m.dev \in Devices /\ server[m.dev] \in Record /\ server \in [Devices -> Record]
    BY <1>1 DEF ReceiveData, Typed, Message
  <2>2. ASSUME NEW q, server' = [server EXCEPT ![m.dev].queue = q]
        PROVE  server'[d].nonce = server[d].nonce /\ server'[d].key = server[d].key
    BY <2>1, <2>2 DEF Record
  <2> QED BY <1>1, <2>2 DEF ReceiveData
<1>2. ASSUME NEW e \in Targets, Enqueue(e)
      PROVE  server'[d].nonce = server[d].nonce /\ server'[d].key = server[d].key
  BY <1>2 DEF Enqueue, Typed, Record
<1>3. CASE server' = server
  BY <1>3
<1> QED BY <1>1, <1>2, <1>3 DEF Next, Node, Link, StartStreaming, Restart, Lose, ReceiveAccept,
           JoinRequest, JoinTimeout, RunWake, RunDownlink, TimerFires, vars

\* What is on its way grows by at most one message, and late only grows.
LEMMA AirFinite ==
  ASSUME PairsInv, [Next]_vars
  PROVE  IsFiniteSet(air') /\ late' \in Nat /\ (late' = 0 => late = 0)
<1>1. IsFiniteSet(air) /\ late \in Nat
  BY DEF PairsInv
<1>2. (\E m : air' \subseteq air \cup {m}) => IsFiniteSet(air')
  <2> SUFFICES ASSUME NEW m, air' \subseteq air \cup {m} PROVE IsFiniteSet(air')
    OBVIOUS
  <2>1. IsFiniteSet(air \cup {m})
    BY <1>1, FS_AddElement
  <2> QED BY <2>1, FS_Subset
<1>3. air' \subseteq air => IsFiniteSet(air')
  BY <1>2
<1>4. CASE Restart
  <2>1. air' \subseteq air /\ late' = late + Cardinality(air')
    BY <1>4 DEF Restart
  <2>2. Cardinality(air') \in Nat
    BY <1>3, <2>1, FS_CardinalityType
  <2> QED BY <1>1, <1>3, <2>1, <2>2
<1>5. ASSUME NEW d \in Devices, JoinTimeout(d)
      PROVE  IsFiniteSet(air') /\ late' \in Nat /\ (late' = 0 => late = 0)
  <2>1. air' = air /\ late' \in {late, late + 1}
    BY <1>5 DEF JoinTimeout
  <2> QED BY <1>1, <2>1
<1>6. CASE ~Restart /\ \A d \in Devices : ~JoinTimeout(d)
  <2>1. late' = late
    BY <1>6 DEF Next, Node, Link, Provision, ProvisionFails, StartStreaming, HandleJoin, Lose,
                ReceiveAccept, ReceiveData, JoinRequest, RunWake, RunDownlink, TimerFires,
                Enqueue, vars, history
  <2>2. ASSUME NEW m \in air, HandleJoin(m) PROVE IsFiniteSet(air')
    <3>1. air' \subseteq air \cup {[kind |-> "accept", dev |-> m.dev, nonce |-> m.nonce]}
      BY <2>2 DEF HandleJoin
    <3> QED BY <1>2, <3>1
  <2>3. ASSUME NEW d \in Devices, JoinRequest(d) PROVE IsFiniteSet(air')
    BY <1>2, <2>3 DEF JoinRequest, Forwarded
  <2>4. ASSUME NEW d \in Devices, RunWake(d) PROVE IsFiniteSet(air')
    <3>1. air' \subseteq air \cup {[kind |-> "data", dev |-> d, cmd |-> Head(server[d].queue)]}
      BY <2>4 DEF RunWake, Uplink
    <3> QED BY <1>2, <3>1
  <2>5. CASE /\ \A m \in air : ~HandleJoin(m)
             /\ \A d \in Devices : ~JoinRequest(d) /\ ~RunWake(d)
    <3>1. air' \subseteq air
      BY <1>6, <2>5 DEF Next, Node, Link, Provision, ProvisionFails, StartStreaming, Lose,
                ReceiveAccept, ReceiveData, RunDownlink, TimerFires, Enqueue, vars
    <3> QED BY <1>1, <1>3, <2>1, <3>1
  <2> QED BY <1>1, <2>1, <2>2, <2>3, <2>4, <2>5
<1> QED BY <1>4, <1>5, <1>6

\* A device's own answer gives it the session the server has.
LEMMA OwnAnswer ==
  ASSUME Typed, JoinInv, PairsInv, late = 0, NEW m \in air, ReceiveAccept(m)
  PROVE  /\ \A n \in air' : ~IsJoin(n)
         /\ \A d \in Devices : session'[d] # NoSession => session'[d] = Agreed(d)
<1>1. IsJoin(m) /\ OfWaiter(m)
  BY DEF ReceiveAccept, PairsInv, IsJoin
<1>2. \A n \in air' : ~IsJoin(n)
  <2>1. air' = air \ {m}
    BY DEF ReceiveAccept
  <2> QED BY <1>1, <2>1 DEF PairsInv
<1>3. waiters = <<m.dev>> /\ waiters # <<>>
  BY <1>1 DEF OfWaiter
<1>4. PICK d \in Devices :
         /\ WaitsAlone(d)
         /\ session' = [session EXCEPT ![d] = [dev |-> m.dev, of |-> m.nonce,
                                               nonce |-> nonce[d], key |-> creds[d]]]
  BY <1>3, AnswerTaken
<1>5. d = m.dev
  BY <1>3, <1>4 DEF WaitsAlone
<1>6. server[d].nonce = m.nonce /\ server[d].key = creds[d] /\ nonce[d] = m.nonce
  BY <1>1, <1>5 DEF OfWaiter, ReceiveAccept
<1>7. session'[d] = Agreed(d)
  BY <1>4, <1>5, <1>6 DEF Agreed, JoinInv
<1>8. \A e \in Devices : e # d => session'[e] = session[e]
  BY <1>4 DEF JoinInv
<1> QED BY <1>2, <1>7, <1>8 DEF PairsInv

LEMMA PairsStep ==
  Typed /\ JoinInv /\ PairsInv /\ [Next]_vars => PairsInv'
<1> SUFFICES ASSUME Typed, JoinInv, PairsInv, [Next]_vars, late' = 0
             PROVE  /\ \A m \in air' : IsJoin(m) => OfWaiter(m)'
                    /\ \A m, n \in air' : IsJoin(m) /\ IsJoin(n) => m = n
                    /\ \A d \in Devices : session'[d] # NoSession => session'[d] = Agreed(d)'
  BY AirFinite DEF PairsInv, IsJoin
<1>1. late = 0
  BY AirFinite
<1>2. /\ \A m \in air : IsJoin(m) => OfWaiter(m)
      /\ \A m, n \in air : IsJoin(m) /\ IsJoin(n) => m = n
      /\ \A d \in Devices : session[d] # NoSession => session[d] = Agreed(d)
  BY <1>1 DEF PairsInv
<1>3. \A m \in air : IsJoin(m) => m.dev \in Devices
  BY DEF Typed, Message, IsJoin
<1>4. waiters = <<>> => \A m \in air : ~IsJoin(m)
  BY <1>2 DEF OfWaiter
<1> DEFINE Goal == /\ \A m \in air' : IsJoin(m) => OfWaiter(m)'
                   /\ \A m, n \in air' : IsJoin(m) /\ IsJoin(n) => m = n
                   /\ \A d \in Devices : session'[d] # NoSession => session'[d] = Agreed(d)'
<1>5. CASE Provision \/ ProvisionFails
  <2>1. phase = "provision" /\ air' = air /\ session' = session
    BY <1>5 DEF Provision, ProvisionFails, joining
  <2>2. waiters = <<>> /\ \A d \in Devices : session[d] = NoSession
    BY <2>1 DEF JoinInv
  <2> QED BY <1>4, <2>1, <2>2
<1>6. CASE Restart
  <2>1. /\ IsFiniteSet(air') /\ late' = late + Cardinality(air')
        /\ \A d \in Devices : session'[d] = NoSession
    BY <1>6, AirFinite DEF Restart, Fresh
  <2>2. Cardinality(air') = 0
    BY <1>1, <2>1, FS_CardinalityType
  <2>3. air' = {}
    BY <2>1, <2>2, FS_EmptySet
  <2> QED BY <2>1, <2>3
<1>7. ASSUME NEW m \in air, HandleJoin(m) PROVE Goal
  <2> DEFINE d == m.dev
  <2>1. IsJoin(m) /\ m.kind = "request" /\ d \in Devices /\ OfWaiter(m)
    BY <1>2, <1>3, <1>7 DEF HandleJoin, IsJoin
  <2>2. UNCHANGED <<creds, nonce, waiters, session>>
    BY <1>7 DEF HandleJoin, provisioning, joining
  <2>3. session[d] = NoSession
    <3>1. PICK e \in Devices : WaitsAlone(e)
      BY <2>1 DEF OfWaiter, JoinInv
    <3> QED BY <2>1, <3>1 DEF OfWaiter, WaitsAlone
  <2>4. CASE air' = air \ {m} /\ server' = server
    <3>1. \A n \in air' : ~IsJoin(n)
      BY <1>2, <2>1, <2>4
    <3> QED BY <1>2, <2>2, <2>4, <3>1 DEF Agreed
  <2>5. CASE /\ m.key = server[d].key
             /\ server' = [server EXCEPT ![d].used = @ \cup {m.nonce}, ![d].nonce = m.nonce]
             /\ air' = (air \ {m}) \cup {[kind |-> "accept", dev |-> d, nonce |-> m.nonce]}
    <3> DEFINE a == [kind |-> "accept", dev |-> d, nonce |-> m.nonce]
    <3>1. \A n \in air' : IsJoin(n) => n = a
      BY <1>2, <2>1, <2>5
    <3>2. /\ server'[d].nonce = m.nonce /\ server'[d].key = server[d].key
          /\ \A e \in Devices : e # d => server'[e] = server[e]
      <4>1. server \in [Devices -> Record] /\ server[d] \in Record
        BY <2>1 DEF Typed
      <4>2. server' = [server EXCEPT ![d] =
                         [server[d] EXCEPT !.used = @ \cup {m.nonce}, !.nonce = m.nonce]]
        BY <2>1, <2>5, <4>1 DEF Record
      <4>3. /\ [server[d] EXCEPT !.used = @ \cup {m.nonce}, !.nonce = m.nonce].nonce = m.nonce
            /\ [server[d] EXCEPT !.used = @ \cup {m.nonce}, !.nonce = m.nonce].key = server[d].key
        BY <4>1 DEF Record
      <4> HIDE DEF d
      <4> QED BY <2>1, <4>1, <4>2, <4>3
    <3>3. OfWaiter(a)'
      <4>1. a.dev = d /\ a.nonce = m.nonce /\ a.kind = "accept"
        OBVIOUS
      <4>2. waiters = <<d>> /\ m.nonce = nonce[d] /\ m.key = creds[d]
        BY <2>1 DEF OfWaiter
      <4> HIDE DEF a, d
      <4> QED BY <2>2, <2>5, <3>2, <4>1, <4>2 DEF OfWaiter
    <3>4. \A e \in Devices : session'[e] # NoSession => session'[e] = Agreed(e)'
      BY <1>2, <2>2, <2>3, <3>2 DEF Agreed
    <3> QED BY <3>1, <3>3, <3>4
  <2> QED BY <1>7, <2>4, <2>5 DEF HandleJoin
<1>8. CASE /\ ~Provision /\ ~ProvisionFails /\ ~Restart
           /\ \A m \in air : ~HandleJoin(m)
  <2>1. \A d \in Devices : Agreed(d)' = Agreed(d)
    BY <1>8, ServerElsewhere DEF Agreed
  <2>2. creds' = creds
    BY <1>8, KeysElsewhere
  <2>3. \A d \in Devices : server'[d].nonce = server[d].nonce /\ server'[d].key = server[d].key
    BY <1>8, ServerElsewhere
  <2>4. ASSUME NEW m \in air, ReceiveAccept(m) PROVE Goal
    BY <1>1, <2>1, <2>4, OwnAnswer
  <2>5. ASSUME NEW d \in Devices, JoinTimeout(d) PROVE Goal
    <3>1. /\ waiters = <<d>> /\ air' = air /\ session' = session
          /\ \A m \in air : m.dev # d
      BY <1>1, <2>5, WaiterLeaves DEF JoinTimeout, WaitsAlone
    <3>2. \A m \in air : ~IsJoin(m)
      BY <1>2, <3>1 DEF OfWaiter
    <3> QED BY <1>2, <2>1, <3>1, <3>2
  <2>6. ASSUME NEW d \in Devices, JoinRequest(d) PROVE Goal
    <3>1. waiters = <<>> /\ waiters' = <<d>> /\ session' = session
      BY <2>6, RequestAlone DEF JoinRequest
    <3>2. PICK n \in Nonces : /\ nonce' = [nonce EXCEPT ![d] = n]
                              /\ air' = air \cup {Signed(d, n)}
      BY <2>6 DEF JoinRequest, Forwarded
    <3>3. \A m \in air' : IsJoin(m) => m = Signed(d, n)
      BY <1>4, <3>1, <3>2
    <3>4. /\ Signed(d, n).dev = d /\ Signed(d, n).nonce = n
          /\ Signed(d, n).kind = "request" /\ Signed(d, n).key = creds[d]
      BY DEF Signed
    <3>5. \A m : m = Signed(d, n) => OfWaiter(m)'
      BY <2>2, <3>1, <3>2, <3>4 DEF OfWaiter, JoinInv
    <3> QED BY <1>2, <2>1, <3>1, <3>3, <3>5
  <2>7. CASE /\ \A m \in air : ~ReceiveAccept(m)
             /\ \A d \in Devices : ~JoinRequest(d) /\ ~JoinTimeout(d)
    <3>1. UNCHANGED <<nonce, session, waiters>>
      BY <1>8, <2>7, JoiningElsewhere
    <3>2. \A m \in air' : IsJoin(m) => m \in air
      <4>1. \A d \in Devices : RunWake(d) =>
              \A m \in air' : m \in air \/ m = [kind |-> "data", dev |-> d,
                                             cmd |-> Head(server[d].queue)]
        BY DEF RunWake, Uplink
      <4>2. \A d, c : ~IsJoin([kind |-> "data", dev |-> d, cmd |-> c])
        BY DEF IsJoin
      <4>3. (\A d \in Devices : ~RunWake(d)) => air' \subseteq air
        BY <1>8, <2>7 DEF Next, Node, Link, StartStreaming, Lose, ReceiveData, RunDownlink,
                  TimerFires, Enqueue, vars
      <4> QED BY <4>1, <4>2, <4>3
    <3>3. \A m \in air : IsJoin(m) /\ OfWaiter(m) => OfWaiter(m)'
      BY <1>3, <2>2, <2>3, <3>1 DEF OfWaiter
    <3> QED BY <1>2, <2>1, <3>1, <3>2, <3>3
  <2> QED BY <2>4, <2>5, <2>6, <2>7
<1> QED BY <1>5, <1>6, <1>7, <1>8

LEMMA SimulatorInvariant == Spec => [](Typed /\ KeyRange /\ JoinInv /\ PairsInv)
<1>1. Init => Typed /\ KeyRange /\ JoinInv
  BY InitTyped, InitKeyRange, InitJoin
<1>2. Init => PairsInv
  BY FS_EmptySet DEF Init, PairsInv
<1>3. Typed /\ KeyRange /\ JoinInv /\ PairsInv /\ [Next]_vars
        => (Typed /\ KeyRange /\ JoinInv /\ PairsInv)'
  BY TypedStep, KeyRangeStep, JoinStep, PairsStep
<1> QED BY <1>1, <1>2, <1>3, PTL DEF Spec

(* Every device that streams holds the session the server has for it, for  *)
(* any number of devices, lost messages, failed joins and restarts, unless *)
(* an answer came after its waiter had given up: downlinks name no device, *)
(* and what makes them safe is that one device joins at a time.            *)
THEOREM SessionsAgreeAlways == Spec => []SessionsAgree
<1>1. JoinInv /\ PairsInv => SessionsAgree
  BY DEF JoinInv, PairsInv, SessionsAgree
<1> QED BY <1>1, SimulatorInvariant, PTL

-----------------------------------------------------------------------------
(* The rest of the type invariant.                                         *)
RestInv ==
  /\ phase \in {"provision", "join", "stream", "exited"} /\ attempt \in 1..MaxAttempts
  /\ booted \subseteq Devices /\ timers \subseteq Devices /\ torn \subseteq Devices
  /\ \A d \in Devices : Len(jobs[d]) <= MaxJobs
  /\ interrupted \in BOOLEAN /\ late \in 0..MaxLate
  /\ restarts \in 0..MaxRestarts /\ commands \in 0..MaxCommands

\* A queue that takes one job out stays within its bound.
LEMMA ShorterQueue ==
  ASSUME NEW S, NEW q \in Seq(S), q # <<>>
  PROVE  Len(Tail(q)) = Len(q) - 1 /\ Len(q) \in Nat
OBVIOUS

LEMMA QueuesStep ==
  ASSUME Typed, RestInv, [Next]_vars, NEW d \in Devices
  PROVE  Len(jobs'[d]) <= MaxJobs
<1>0. /\ jobs[d] \in Seq({Wake} \cup Commands) /\ Len(jobs[d]) \in Nat /\ Len(jobs[d]) <= MaxJobs
      /\ MaxJobs \in Nat \ {0}
  BY BoundsAssumption DEF Typed, RestInv
<1>1. ASSUME NEW e \in Devices, RunWake(e) \/ RunDownlink(e) PROVE Len(jobs'[d]) <= MaxJobs
  <2>1. jobs[e] # <<>> /\ jobs' = [jobs EXCEPT ![e] = Tail(@)]
    BY <1>1 DEF RunWake, RunDownlink
  <2>2. jobs'[d] = jobs[d] \/ (jobs[d] # <<>> /\ jobs'[d] = Tail(jobs[d]))
    BY <2>1 DEF Typed
  <2>3. jobs[d] # <<>> => Len(Tail(jobs[d])) = Len(jobs[d]) - 1
    BY <1>0, ShorterQueue
  <2>4. Len(jobs'[d]) \in {Len(jobs[d]), Len(jobs[d]) - 1}
    BY <2>2, <2>3, Zenon
  <2> HIDE <2>2, <2>3
  <2> QED BY <1>0, <2>4
<1>2. ASSUME NEW e \in Devices, NEW job \in {Wake} \cup Commands, Len(jobs[e]) < MaxJobs,
             jobs' = [jobs EXCEPT ![e] = Append(@, job)]
      PROVE  Len(jobs'[d]) <= MaxJobs
  <2>1. jobs'[d] = jobs[d] \/ (Len(jobs[d]) < MaxJobs /\ jobs'[d] = Append(jobs[d], job))
    BY <1>2 DEF Typed
  <2>2. Len(Append(jobs[d], job)) = Len(jobs[d]) + 1
    BY <1>0
  <2> QED BY <1>0, <2>1, <2>2
<1>3. ASSUME NEW e \in Devices, TimerFires(e) PROVE Len(jobs'[d]) <= MaxJobs
  BY <1>2, <1>3 DEF TimerFires
<1>4. ASSUME NEW m \in air, ReceiveData(m) PROVE Len(jobs'[d]) <= MaxJobs
  <2>1. m.dev \in Devices /\ m.cmd \in Commands
    BY <1>4 DEF ReceiveData, Typed, Message
  <2> QED BY <1>2, <1>4, <2>1 DEF ReceiveData
<1>5. CASE StartStreaming \/ Restart
  <2>1. jobs'[d] \in {<<>>, <<Wake>>}
    BY <1>5 DEF StartStreaming, Restart, Fresh
  <2>2. Len(<<>>) = 0 /\ Len(<<Wake>>) = 1
    OBVIOUS
  <2>3. Len(jobs'[d]) \in {0, 1}
    BY <2>1, <2>2, Zenon
  <2>4. 0 <= MaxJobs /\ 1 <= MaxJobs
    BY <1>0
  <2> QED BY <2>3, <2>4, Zenon
<1>6. CASE jobs' = jobs
  BY <1>0, <1>6
<1> QED BY <1>1, <1>3, <1>4, <1>5, <1>6 DEF Next, Node, Link, Provision, ProvisionFails, Lose,
           HandleJoin, ReceiveAccept, JoinRequest, JoinTimeout, Enqueue, vars, streaming

LEMMA RestStep == Typed /\ PairsInv /\ RestInv /\ [Next]_vars => RestInv'
<1> SUFFICES ASSUME Typed, PairsInv, RestInv, [Next]_vars PROVE RestInv'
  OBVIOUS
<1>1. \A d \in Devices : Len(jobs'[d]) <= MaxJobs
  BY QueuesStep
<1>2. {MaxAttempts} \subseteq Nat \ {0} /\ {MaxLate, MaxRestarts, MaxCommands} \subseteq Nat
  BY BoundsAssumption
<1>3. phase' \in {"provision", "join", "stream", "exited"}
  BY DEF RestInv, Next, Node, Link, Provision, ProvisionFails, StartStreaming, Restart, Fresh,
         HandleJoin, Lose, ReceiveAccept, ReceiveData, JoinRequest, JoinTimeout, RunWake,
         RunDownlink, TimerFires, Enqueue, vars
<1>4. attempt' \in 1..MaxAttempts
  <2>1. attempt' \in {1, attempt} \/ (attempt < MaxAttempts /\ attempt' = attempt + 1)
    BY DEF Next, Node, Link, Provision, ProvisionFails, StartStreaming, Restart, Fresh,
         HandleJoin, Lose, ReceiveAccept, ReceiveData, JoinRequest, JoinTimeout, RunWake,
         RunDownlink, TimerFires, Enqueue, vars, provisioning
  <2> QED BY <1>2, <2>1 DEF RestInv
<1>5. booted' \subseteq Devices /\ timers' \subseteq Devices /\ torn' \subseteq Devices
  <2>1. ASSUME NEW d \in Devices, RunWake(d)
        PROVE  booted' \subseteq Devices /\ timers' \subseteq Devices /\ torn' \subseteq Devices
    BY <2>1 DEF RestInv, RunWake, Rescheduled
  <2>2. ASSUME NEW d \in Devices, RunDownlink(d)
        PROVE  booted' \subseteq Devices /\ timers' \subseteq Devices /\ torn' \subseteq Devices
    BY <2>2 DEF RestInv, RunDownlink
  <2>3. CASE booted' \subseteq booted /\ timers' \subseteq timers /\ torn' = torn
    BY <2>3 DEF RestInv
  <2>4. (\A d \in Devices : ~RunWake(d) /\ ~RunDownlink(d)) =>
           booted' \subseteq booted /\ timers' \subseteq timers /\ torn' = torn
    BY DEF Next, Node, Link, Provision, ProvisionFails, StartStreaming, Restart, Fresh,
         HandleJoin, Lose, ReceiveAccept, ReceiveData, JoinRequest, JoinTimeout,
         TimerFires, Enqueue, vars, streaming, history
  <2> QED BY <2>1, <2>2, <2>3, <2>4
<1>6. interrupted' \in BOOLEAN
  <2>1. CASE interrupted' = interrupted
    BY <2>1 DEF RestInv
  <2>2. CASE ProvisionFails \/ Restart
    BY <2>2 DEF ProvisionFails, Restart
  <2> QED BY <2>1, <2>2 DEF Next, Node, Link, Provision, StartStreaming,
         HandleJoin, Lose, ReceiveAccept, ReceiveData, JoinRequest, JoinTimeout, RunWake,
         RunDownlink, TimerFires, Enqueue, vars, history
<1>7. late' \in 0..MaxLate
  <2>1. late' \in Nat
    BY AirFinite
  <2>2. late' = late \/ late' <= MaxLate
    BY DEF Next, Node, Link, Provision, ProvisionFails, StartStreaming, Restart,
         HandleJoin, Lose, ReceiveAccept, ReceiveData, JoinRequest, JoinTimeout, RunWake,
         RunDownlink, TimerFires, Enqueue, vars, history
  <2> QED BY <1>2, <2>1, <2>2 DEF RestInv
<1>8. restarts' \in 0..MaxRestarts /\ commands' \in 0..MaxCommands
  <2>1. /\ restarts' = restarts \/ (restarts < MaxRestarts /\ restarts' = restarts + 1)
        /\ commands' = commands \/ (commands < MaxCommands /\ commands' = commands + 1)
    BY DEF Next, Node, Link, Provision, ProvisionFails, StartStreaming, Restart,
         HandleJoin, Lose, ReceiveAccept, ReceiveData, JoinRequest, JoinTimeout, RunWake,
         RunDownlink, TimerFires, Enqueue, vars, history
  <2> QED BY <1>2, <2>1 DEF RestInv
<1> QED BY <1>1, <1>3, <1>4, <1>5, <1>6, <1>7, <1>8 DEF RestInv

(* Every variable of the simulator keeps its type: keys are drawn in order *)
(* and none is used before, a device that waits has no session, no queue   *)
(* overflows, and a state file that can be read holds settings in range.   *)
THEOREM TypesHold == Spec => []TypeOK
<1> DEFINE IInv == Typed /\ KeyRange /\ JoinInv /\ PairsInv /\ RestInv /\ FilesInv
<1>1. Init => RestInv /\ FilesInv
  <2> SUFFICES ASSUME Init PROVE RestInv /\ FilesInv
    OBVIOUS
  <2>1. FilesInv
    BY DEF Init, FilesInv, FileOK
  <2>2. Len(<<>>) = 0
    OBVIOUS
  <2>3. /\ {MaxAttempts, MaxJobs} \subseteq Nat \ {0}
        /\ {MaxLate, MaxRestarts, MaxCommands} \subseteq Nat
    BY BoundsAssumption
  <2>4. \A d \in Devices : Len(jobs[d]) <= MaxJobs
    BY <2>2, <2>3 DEF Init
  <2>5. attempt \in 1..MaxAttempts /\ late \in 0..MaxLate
        /\ restarts \in 0..MaxRestarts /\ commands \in 0..MaxCommands
    BY <2>3 DEF Init
  <2> QED BY <2>1, <2>4, <2>5 DEF Init, RestInv
<1>2. RestInv /\ FilesInv /\ Typed /\ PairsInv /\ [Next]_vars => (RestInv /\ FilesInv)'
  BY RestStep, FilesStep
<1>3. IInv => TypeOK
  <2> SUFFICES ASSUME IInv PROVE TypeOK
    OBVIOUS
  <2>1. creds \in [Devices -> 0..minted] /\ disk \in [Devices -> 0..minted]
    BY DEF Typed, KeyRange
  <2>2. waiters \in Seq(Devices) /\ \A d \in Devices : Waiting(d) => session[d] = NoSession
    <3>1. CASE waiters = <<>>
      BY <3>1 DEF Waiting
    <3>2. CASE waiters # <<>>
      <4>1. PICK e \in Devices : WaitsAlone(e)
        BY <3>2 DEF JoinInv
      <4>2. waiters = <<e>> /\ session[e] = NoSession
        BY <4>1 DEF WaitsAlone
      <4>3. \A d \in Devices : Waiting(d) => d = e
        BY <4>2 DEF Waiting
      <4> QED BY <4>2, <4>3
    <3> QED BY <3>1, <3>2
  <2>3. ASSUME NEW d \in Devices
        PROVE  /\ \A i \in 1..Len(jobs[d]) : jobs[d][i] \in {Wake} \cup Commands
               /\ server[d].key \in 0..minted /\ server[d].nonce \in {0} \cup Nonces
    <3>1. jobs[d] \in Seq({Wake} \cup Commands) /\ server[d] \in Record
      BY DEF Typed
    <3>2. server[d].key \in Nat /\ server[d].key <= minted
      BY <3>1 DEF Record, KeyRange
    <3> QED BY <3>1, <3>2 DEF Record, Typed
  <2>4. ASSUME NEW d \in Devices
        PROVE  file[d] \in {Missing, Torn} \/ (file[d].kind = "state" /\ file[d].st.cfg \in Config)
    <3>1. \A st : State(st).kind = "state" /\ State(st).st = st
      BY DEF State
    <3> QED BY <3>1 DEF FilesInv, FileOK
  <2>5. session \in [Devices -> {NoSession} \cup
          [dev: Devices, of: {0} \cup Nonces, nonce: {0} \cup Nonces, key: 1..minted]]
    BY DEF JoinInv, Sessions
  <2> QED BY <2>1, <2>2, <2>3, <2>4, <2>5 DEF Typed, JoinInv, RestInv, TypeOK
<1> QED BY <1>1, <1>2, <1>3, SimulatorInvariant, PTL DEF Spec
=============================================================================
