----------------------------- MODULE Simulator -----------------------------
(***************************************************************************)
(* The network simulator (services/simulator/src) and the host build of    *)
(* the firmware it runs (firmware/sim/main.c): provisioning of the keys,   *)
(* one OTAA join after the other through a gateway whose downlinks carry   *)
(* no device, then every device on its own timer and its own queue of      *)
(* jobs.  ChirpStack is external, as the simulator uses it.                *)
(*                                                                         *)
(* Keys and session identifiers are numbers; a session is right when it    *)
(* names the device, the nonce and the key of the server's.                *)
(***************************************************************************)
EXTENDS NodeConfig, FiniteSets, SequencesExt

CONSTANTS Order,        \* the fixtures, as a sequence of devices
          Nonces,       \* DevNonces to draw from
          Commands,     \* config commands (bytes) that may be enqueued
          Targets,      \* devices they are enqueued for
          MaxAttempts,  \* provisioning attempts (30)
          MaxTries,     \* join attempts of a device (5)
          MaxRestarts,  \* bound on the restarts of the simulator
          MaxCommands,  \* bound on the commands of one behaviour
          MaxLate,      \* bound on the answers that come too late
          MaxJobs       \* bound on a device's queue

Devices == {Order[i] : i \in 1..Len(Order)}

ASSUME FixturesAssumption == /\ Len(Order) \in Nat \ {0}
                             /\ \A i, j \in 1..Len(Order) : Order[i] = Order[j] => i = j

ASSUME BoundsAssumption == /\ {MaxAttempts, MaxTries, MaxJobs} \subseteq Nat \ {0}
                           /\ {MaxLate, MaxRestarts, MaxCommands} \subseteq Nat
                           /\ Targets \subseteq Devices

ASSUME CommandsAssumption == Commands \subseteq Seq(Byte)

VARIABLES phase,     \* what main() is doing: provision, join, stream or exited
          attempt, turn, minted, creds, disk,       \* provisioning
          tries, nonce, session, waiters,           \* joining
          booted, jobs, timers, file,               \* streaming; file outlives the process
          server, air,                              \* ChirpStack and the UDP link
          interrupted, late, torn, restarts, commands  \* history and bounds

provisioning == <<attempt, turn, minted, creds, disk>>
joining      == <<tries, nonce, session, waiters>>
streaming    == <<booted, jobs, timers, file>>
history      == <<interrupted, late, torn, restarts, commands>>
vars == <<phase, provisioning, joining, streaming, server, air, history>>

-----------------------------------------------------------------------------
NoKey     == 0
NoSession == [dev |-> "none", of |-> 0, nonce |-> 0, key |-> NoKey]
Wake      == <<"wake">>
Missing   == [kind |-> "missing"]
Torn      == [kind |-> "torn"]
State(st) == [kind |-> "state", st |-> st]
Waiting(d) == \E i \in 1..Len(waiters) : waiters[i] = d

\* The session ChirpStack has with d, as the device would have to hold it.
Agreed(d) == [dev |-> d, of |-> server[d].nonce, nonce |-> server[d].nonce, key |-> server[d].key]

TypeOK ==
  /\ phase \in {"provision", "join", "stream", "exited"}
  /\ attempt \in 1..MaxAttempts /\ turn \in 1..Len(Order) /\ minted \in Nat
  /\ creds \in [Devices -> 0..minted] /\ disk \in [Devices -> 0..minted]
  /\ tries \in [Devices -> 0..MaxTries]
  /\ nonce \in [Devices -> {0} \cup Nonces]
  /\ session \in [Devices -> {NoSession} \cup
       [dev: Devices, of: {0} \cup Nonces, nonce: {0} \cup Nonces, key: 1..minted]]
  /\ waiters \in Seq(Devices) /\ \A d \in Devices : Waiting(d) => session[d] = NoSession
  /\ booted \subseteq Devices /\ timers \subseteq Devices
  /\ \A d \in Devices : /\ Len(jobs[d]) <= MaxJobs
                        /\ \A i \in 1..Len(jobs[d]) : jobs[d][i] \in {Wake} \cup Commands
                        /\ \/ file[d] \in {Missing, Torn}
                           \/ file[d].kind = "state" /\ file[d].st.cfg \in Config
                        /\ server[d].key \in 0..minted /\ server[d].nonce \in {0} \cup Nonces
  /\ interrupted \in BOOLEAN /\ late \in 0..MaxLate /\ torn \subseteq Devices
  /\ restarts \in 0..MaxRestarts /\ commands \in 0..MaxCommands

\* What a process starts with; creds are rebuilt by every attempt.
Fresh ==
  /\ phase' = "provision" /\ attempt' = 1 /\ turn' = 1
  /\ creds' = [d \in Devices |-> NoKey]
  /\ tries' = [d \in Devices |-> 0] /\ nonce' = [d \in Devices |-> 0]
  /\ session' = [d \in Devices |-> NoSession] /\ waiters' = <<>>
  /\ booted' = {} /\ timers' = {} /\ jobs' = [d \in Devices |-> <<>>]

Init ==
  /\ phase = "provision" /\ attempt = 1 /\ turn = 1 /\ minted = 0
  /\ creds = [d \in Devices |-> NoKey] /\ disk = [d \in Devices |-> NoKey]
  /\ tries = [d \in Devices |-> 0] /\ nonce = [d \in Devices |-> 0]
  /\ session = [d \in Devices |-> NoSession] /\ waiters = <<>>
  /\ booted = {} /\ timers = {} /\ jobs = [d \in Devices |-> <<>>]
  /\ file = [d \in Devices |-> Missing]
  /\ server = [d \in Devices |-> [key |-> NoKey, used |-> {}, nonce |-> 0, queue |-> <<>>]]
  /\ air = {}
  /\ interrupted = FALSE /\ late = 0 /\ torn = {} /\ restarts = 0 /\ commands = 0

-----------------------------------------------------------------------------
(* Provisioning.                                                           *)
\* Mutant: the keys saved by an earlier run are not used.
CredsAlwaysNew(d) == minted + 1

Creds(d) == IF disk[d] # NoKey THEN disk[d] ELSE minted + 1

Minted(d) == IF Creds(d) > minted THEN Creds(d) ELSE minted

\* A device that exists keeps its key: the 409 is tolerated.
Keyed(d) == IF server[d].key = NoKey THEN [server EXCEPT ![d].key = Creds(d)] ELSE server

Provision ==
  /\ phase = "provision"
  /\ LET d == Order[turn] IN
     /\ server' = Keyed(d)
     /\ creds' = [creds EXCEPT ![d] = Creds(d)]
     /\ minted' = Minted(d)
     /\ IF turn < Len(Order)
          THEN turn' = turn + 1 /\ UNCHANGED <<phase, disk>>
          ELSE turn' = 1 /\ phase' = "join" /\ disk' = creds'
     /\ attempt' = IF phase' = "join" THEN 1 ELSE attempt
  /\ UNCHANGED <<joining, streaming, air, history>>

\* A request fails before or after ChirpStack acted on it; the attempt starts
\* over, with new keys for every device that has none saved.
ProvisionFails ==
  /\ phase = "provision"
  /\ LET d == Order[turn] IN
     \E reached \in BOOLEAN : server' = IF reached THEN Keyed(d) ELSE server
  /\ minted' = Minted(Order[turn]) /\ turn' = 1 /\ creds' = [d \in Devices |-> NoKey]
  /\ IF attempt < MaxAttempts THEN attempt' = attempt + 1 /\ UNCHANGED phase
                              ELSE phase' = "exited" /\ UNCHANGED attempt
  /\ interrupted' = (interrupted \/ \E d \in Devices : server'[d].key # NoKey /\ disk[d] = NoKey)
  /\ UNCHANGED <<disk, joining, streaming, air, late, torn, restarts, commands>>

-----------------------------------------------------------------------------
(* Joining, one device after the other.                                    *)
\* Mutant: all devices join at once.
TurnToJoinAny(d) == TRUE

\* "Sequential: one Join Accept downlink at a time."
TurnToJoin(d) == \A i \in 1..Len(Order) :
  (\A j \in 1..i : Order[j] # d) => session[Order[i]] # NoSession

\* buildJoinRequest: signed with the root key of this attempt's credentials.
Signed(d, n) == [kind |-> "request", dev |-> d, nonce |-> n, key |-> creds[d]]

\* gateway.uplink: one datagram to the bridge, without an answer of its own.
Forwarded(m) == air \cup {m}

JoinRequest(d) ==
  /\ phase = "join" /\ session[d] = NoSession /\ ~Waiting(d)
  /\ TurnToJoin(d) /\ tries[d] < MaxTries
  /\ \E n \in Nonces :
       /\ nonce' = [nonce EXCEPT ![d] = n]
       /\ air' = Forwarded(Signed(d, n))
  /\ tries' = [tries EXCEPT ![d] = @ + 1]
  /\ waiters' = Append(waiters, d)
  /\ UNCHANGED <<phase, provisioning, session, streaming, server, history>>

\* No downlink for 8 s: its waiter leaves the list.  The fifth time ends the
\* process.
JoinTimeout(d) ==
  /\ \E k \in DOMAIN waiters : waiters[k] = d /\ waiters' = RemoveAt(waiters, k)
  /\ phase' = IF tries[d] = MaxTries THEN "exited" ELSE phase
  /\ late' = IF \E m \in air : m.dev = d THEN late + 1 ELSE late
  /\ late' <= MaxLate
  /\ UNCHANGED <<provisioning, tries, nonce, session, streaming, server, air,
                 interrupted, torn, restarts, commands>>

\* ChirpStack answers a request signed with the device's key and a new DevNonce.
HandleJoin(m) ==
  /\ m.kind = "request"
  /\ IF m.key = server[m.dev].key /\ m.nonce \notin server[m.dev].used
     THEN /\ server' = [server EXCEPT ![m.dev].used = @ \cup {m.nonce}, ![m.dev].nonce = m.nonce]
          /\ air' = (air \ {m}) \cup {[kind |-> "accept", dev |-> m.dev, nonce |-> m.nonce]}
     ELSE /\ air' = air \ {m}
          /\ UNCHANGED server
  /\ UNCHANGED <<phase, provisioning, joining, streaming, history>>

Lose(m) ==
  /\ air' = air \ {m}
  /\ UNCHANGED <<phase, provisioning, joining, streaming, server, history>>

\* Mutant: the waiter is called but stays in the list.
ServedStays == waiters

Served == Tail(waiters)

\* deriveSession: the waiter's own key and nonce, whatever the accept is; its
\* attempts are over.
ReceiveAccept(m) ==
  /\ m.kind = "accept"
  /\ air' = air \ {m}
  /\ IF waiters = <<>> THEN UNCHANGED joining
     ELSE LET d == Head(waiters) IN
          /\ session' = [session EXCEPT ![d] = [dev |-> m.dev, of |-> m.nonce,
                                                nonce |-> nonce[d], key |-> creds[d]]]
          /\ waiters' = Served
          /\ nonce' = [nonce EXCEPT ![d] = 0] /\ tries' = [tries EXCEPT ![d] = 0]
  /\ UNCHANGED <<phase, provisioning, streaming, server, history>>

\* Every device has joined; every node is powered on.
StartStreaming ==
  /\ phase = "join" /\ \A d \in Devices : session[d] # NoSession
  /\ phase' = "stream"
  /\ jobs' = [d \in Devices |-> <<Wake>>]
  /\ UNCHANGED <<provisioning, joining, booted, timers, file, server, air, history>>

-----------------------------------------------------------------------------
(* The firmware's host build on a state file: main and deliver_downlink.   *)
\* load_state: a missing or unreadable file is a cold boot.
Loaded(f) == IF f.kind # "state" THEN StateInit(NoConfig)
             ELSE IF Valid(f.st.cfg) THEN f.st
             ELSE [f.st EXCEPT !.cfg = DefaultConfig]

\* Mutant: a power cycle brings back the factory settings.
BootedFactory(f, boot) == IF boot THEN StateInit(NoConfig) ELSE Loaded(f)

\* --boot: keep the stored config (NVS), lose the rest (RTC RAM).
Booted(f, boot) == IF boot /\ f.kind = "state" THEN StateInit(Loaded(f).cfg) ELSE Loaded(f)

\* A pending report replaces the reading; a cold boot asks for a report.
AfterWake(f, boot) ==
  LET st == Booted(f, boot) IN
  [st EXCEPT !.pending = ~st.pending /\ (boot \/ f.kind # "state")]

\* How one run of the binary may end: killed by the 5 s timeout, or with an
\* error, before, in or after the rewriting of the state file.
Written(d, st) ==
  [ok |-> State(st), after |-> State(st), before |-> file[d], within |-> Torn]
Outcomes == {"ok", "after", "before", "within"}

-----------------------------------------------------------------------------
(* Streaming: serial, schedule, wake and the downlink handler.             *)
\* Mutant: the next wake is scheduled only when this one went well.
RescheduledOnSuccess(d, outcome) == IF outcome = "ok" THEN timers \cup {d} ELSE timers

\* schedule() after the try block: whatever happened, with the default sleep.
Rescheduled(d, outcome) == timers \cup {d}

\* A Class A server answers an uplink it accepts with the head of its queue,
\* which it keeps until the gateway acknowledges the transmission.
Uplink(d) ==
  IF session[d] = Agreed(d) /\ server[d].queue # <<>>
  THEN air' \in {air, air \cup {[kind |-> "data", dev |-> d, cmd |-> Head(server[d].queue)]}}
  ELSE UNCHANGED air

RunWake(d) ==
  /\ phase = "stream" /\ jobs[d] # <<>> /\ Head(jobs[d]) = Wake
  /\ jobs' = [jobs EXCEPT ![d] = Tail(@)]
  /\ booted' = booted \cup {d}
  /\ \E outcome \in Outcomes :
       /\ file' = [file EXCEPT ![d] = Written(d, AfterWake(@, d \notin booted))[outcome]]
       /\ timers' = Rescheduled(d, outcome)
       /\ torn' = IF outcome = "within" THEN torn \cup {d} ELSE torn
       /\ IF outcome = "ok" THEN Uplink(d) ELSE UNCHANGED air
  /\ UNCHANGED <<phase, provisioning, joining, server, interrupted, late, restarts, commands>>

\* A downlink job that fails leaves the timer of the last wake alone.
RunDownlink(d) ==
  /\ phase = "stream" /\ jobs[d] # <<>> /\ Head(jobs[d]) # Wake
  /\ jobs' = [jobs EXCEPT ![d] = Tail(@)]
  /\ \E outcome \in Outcomes :
       /\ file' = [file EXCEPT ![d] =
            Written(d, OnDownlink(Loaded(@), DownlinkFPort, Head(jobs[d])))[outcome]]
       /\ timers' = IF outcome = "ok" THEN timers \cup {d} ELSE timers
       /\ torn' = IF outcome = "within" THEN torn \cup {d} ELSE torn
  /\ UNCHANGED <<phase, provisioning, joining, booted, server, air, interrupted, late,
                 restarts, commands>>

TimerFires(d) ==
  /\ phase = "stream" /\ d \in timers /\ Len(jobs[d]) < MaxJobs
  /\ timers' = timers \ {d}
  /\ jobs' = [jobs EXCEPT ![d] = Append(@, Wake)]
  /\ UNCHANGED <<phase, provisioning, joining, booted, file, server, air, history>>

\* The gateway hands a data downlink to the handler and acknowledges it; an
\* acknowledgement that is lost makes the server send it again.
ReceiveData(m) ==
  /\ m.kind = "data" /\ phase = "stream" /\ Len(jobs[m.dev]) < MaxJobs
  /\ air' = air \ {m}
  /\ jobs' = [jobs EXCEPT ![m.dev] = Append(@, m.cmd)]
  /\ \/ server' = [server EXCEPT ![m.dev].queue = IF @ # <<>> THEN Tail(@) ELSE @]
     \/ UNCHANGED server
  /\ UNCHANGED <<phase, provisioning, joining, booted, timers, file, history>>

\* enqueueDownlink, by the demo or an operator.
Enqueue(d) ==
  /\ phase = "stream" /\ commands < MaxCommands
  /\ \E cmd \in Commands : server' = [server EXCEPT ![d].queue = Append(@, cmd)]
  /\ commands' = commands + 1
  /\ UNCHANGED <<phase, provisioning, joining, streaming, air, interrupted, late, torn, restarts>>

\* The process ends, or is stopped, and the container starts it again; what is
\* on its way to the new socket's predecessor is lost.
Restart ==
  /\ restarts < MaxRestarts
  /\ Fresh
  /\ restarts' = restarts + 1
  /\ air' = {m \in air : m.kind = "request"}
  /\ late' = late + Cardinality(air') /\ late' <= MaxLate
  /\ interrupted' = (interrupted \/ \E d \in Devices : server[d].key # NoKey /\ disk[d] = NoKey)
  /\ UNCHANGED <<minted, disk, file, server, torn, commands>>

Link == \E m \in air : HandleJoin(m) \/ Lose(m) \/ ReceiveAccept(m) \/ ReceiveData(m)
Node(d) == \/ JoinRequest(d) \/ JoinTimeout(d)
           \/ RunWake(d) \/ RunDownlink(d) \/ TimerFires(d)
Next == \/ Provision \/ ProvisionFails \/ StartStreaming \/ Link \/ Restart
        \/ \E d \in Devices : Node(d)
        \/ \E d \in Targets : Enqueue(d)

Spec == Init /\ [][Next]_vars

-----------------------------------------------------------------------------
(* A provisioned simulator holds the keys ChirpStack holds, over restarts  *)
(* (the keys saved to the volume), unless an attempt ended between a       *)
(* device's keys and saveCreds: then it drew other keys, and the 409 is    *)
(* tolerated (index.ts:149-191, chirpstack.ts:61-64, :127-145).            *)
KeysAgree ==
  phase \in {"join", "stream"} /\ ~interrupted =>
    \A d \in Devices : creds[d] = server[d].key

(* Every device that streams holds the session the server has for it:      *)
(* downlinks name no device, so this rests on joining one after the other  *)
(* (index.ts:197-208).  Unless an answer was late: a Join Accept that      *)
(* comes after its waiter's timeout goes to the next one (gateway.ts:110). *)
SessionsAgree == phase = "stream" /\ late = 0 => \A d \in Devices : session[d] = Agreed(d)

(* No node of the running simulator is forgotten: it has a timer or a wake *)
(* in its queue, whatever fails, whatever downlinks arrive                 *)
(* (index.ts:231-237, :275-280, :298-312).                                 *)
Scheduled ==
  phase = "stream" =>
    \A d \in Devices : d \in timers \/ \E i \in 1..Len(jobs[d]) : jobs[d][i] = Wake

(* Settings survive restarts of the simulator and failed wakes ("keeps the *)
(* settings it stored", index.ts:19-21): only a downlink changes them,     *)
(* unless a run was killed while it rewrote the state file (main.c:78).    *)
Settings(d) == Loaded(file[d]).cfg
SettingsSurvive ==
  [][\A d \in Devices : Settings(d)' # Settings(d) => RunDownlink(d) \/ d \in torn']_vars
=============================================================================
