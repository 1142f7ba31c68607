----------------------------- MODULE Ingestion ------------------------------
(***************************************************************************)
(* The ingestion service                                                   *)
(* (services/ingestion/src/ingestion/ingestion.service.ts) between the     *)
(* MQTT broker, the readings table and Redis.  Every MQTT message starts   *)
(* an asynchronous handler and is acknowledged at once; the handlers of    *)
(* several uplinks run together.  Inserts go through a connection pool and *)
(* complete in any order; Redis commands go down one connection, in order. *)
(*                                                                         *)
(* An uplink is its position in Uplinks, which is also its time: the       *)
(* network server stamps uplinks in the order it publishes them.           *)
(***************************************************************************)
EXTENDS Integers, Sequences, FiniteSets, SequencesExt

CONSTANTS Uplinks,        \* the uplinks the network server publishes, in order
          MaxReconnects,  \* bound on lost MQTT connections
          MaxCrashes,     \* bound on process crashes
          MaxErrors       \* bound on failed database and Redis calls

\* reading: complete; rejected: a sensor group is missing or it does not decode;
\* report: fPort 11; ignored: another fPort.
Kinds == {"reading", "rejected", "report", "ignored"}

ASSUME UplinksAssumption == /\ DOMAIN Uplinks = 1..Len(Uplinks) /\ Len(Uplinks) \in Nat
                            /\ \A i \in DOMAIN Uplinks : Uplinks[i].kind \in Kinds
ASSUME BoundsAssumption ==
  MaxReconnects \in Nat /\ MaxCrashes \in Nat /\ MaxErrors \in Nat

VARIABLES
  published,   \* uplinks the network server has published so far
  queue,       \* the broker's session queue: not acknowledged yet, oldest first
  inFlight,    \* how many of the queue's first messages this connection delivered
  up,          \* the ingestion process runs, subscribed
  tasks,       \* handlers waiting for a reply: [uplink, copy, at]
  pipe,        \* Redis commands sent or queued in the client: [uplink, copy, op]
  db,          \* the readings table: uplinks with a row
  latest,      \* sensor:latest:<dev>, 0 when absent
  config,      \* sensor:config:<dev>, 0 when absent
  channel,     \* uplinks broadcast on the "readings" channel
  dropped,     \* uplinks a handler counted in readings_dropped
  lost,        \* history: uplinks whose handler died with the process
  reconnects, crashes, errors

vars == <<published, queue, inFlight, up, tasks, pipe, db, latest, config,
          channel, dropped, lost, reconnects, crashes, errors>>
mqtt  == <<published, queue, inFlight>>
store == <<db, latest, config, channel>>

Ids     == DOMAIN Uplinks
Devices == {Uplinks[i].dev : i \in Ids}
OfKind(kind)   == {i \in Ids : Uplinks[i].kind = kind}
Of(dev, kind)  == {i \in OfKind(kind) : Uplinks[i].dev = dev}

\* Handlers of the same uplink, delivered twice, are told apart by their copy.
\* A command whose handler gave up waiting has copy 0.
Copies   == 1..(1 + MaxReconnects + MaxCrashes)
Task     == [uplink: Ids, copy: Copies, at: {"insert", "set", "publish", "config"}]
Command  == [uplink: Ids, copy: Copies \cup {0}, op: {"set", "publish", "config"}]

CommandOf(t, op) == [uplink |-> t.uplink, copy |-> t.copy, op |-> op]
Awaits(t, c)     == t.uplink = c.uplink /\ t.copy = c.copy

TypeOK ==
  /\ published \in 0..Len(Uplinks)
  /\ queue \in Seq(Ids) /\ inFlight \in 0..Len(queue)
  /\ up \in BOOLEAN
  /\ tasks \subseteq Task /\ pipe \in Seq(Command)
  /\ \A t, u \in tasks : Awaits(t, u) => t = u
  /\ db \subseteq Ids /\ channel \subseteq Ids /\ dropped \subseteq Ids /\ lost \subseteq Ids
  /\ latest \in [Devices -> Ids \cup {0}]
  /\ config \in [Devices -> Ids \cup {0}]
  /\ reconnects \in 0..MaxReconnects /\ crashes \in 0..MaxCrashes
  /\ errors \in 0..MaxErrors

Init ==
  /\ published = 0 /\ queue = <<>> /\ inFlight = 0
  /\ up = TRUE
  /\ tasks = {} /\ pipe = <<>>
  /\ db = {} /\ channel = {} /\ dropped = {} /\ lost = {}
  /\ latest = [d \in Devices |-> 0]
  /\ config = [d \in Devices |-> 0]
  /\ reconnects = 0 /\ crashes = 0 /\ errors = 0

-----------------------------------------------------------------------------
(* The network server and the broker.  The session is persistent           *)
(* (clean: false), so the broker queues while the process is away.         *)
PublishUplink ==
  /\ published < Len(Uplinks)
  /\ published' = published + 1
  /\ queue' = Append(queue, published + 1)
  /\ UNCHANGED <<inFlight, up, tasks, pipe, store, dropped, lost,
                 reconnects, crashes, errors>>

NewTask(i, at) ==
  [uplink |-> i, at |-> at,
   copy |-> CHOOSE n \in Copies :
              /\ \A t \in tasks : t.uplink = i => t.copy # n
              /\ \A m \in 1..(n - 1) : \E t \in tasks : t.uplink = i /\ t.copy = m]

\* Mutant: a decoded reading is stored with or without its sensor groups.
CompleteOrNot(i) == Uplinks[i].kind \in {"reading", "rejected"}

\* The uplink validates, decodes, and has its temperature and particle groups.
Complete(i) == Uplinks[i].kind = "reading"

\* The part of handleUplink before its first await: validate, decode, and
\* either give up or issue the first call.
StartHandler(i) ==
  CASE Complete(i) ->
         /\ tasks' = tasks \cup {NewTask(i, "insert")}
         /\ UNCHANGED <<pipe, dropped>>
    [] Uplinks[i].kind = "report" ->
         LET t == NewTask(i, "config")
         IN  /\ tasks' = tasks \cup {t}
             /\ pipe' = Append(pipe, CommandOf(t, "config"))
             /\ UNCHANGED dropped
    [] OTHER ->
         /\ dropped' = dropped \cup ({i} \cap OfKind("rejected"))
         /\ UNCHANGED <<tasks, pipe>>

\* client.on('message'): `void this.handleUplink(...)`, nothing awaits it.
Deliver ==
  /\ up /\ inFlight < Len(queue)
  /\ inFlight' = inFlight + 1
  /\ StartHandler(queue[inFlight + 1])
  /\ UNCHANGED <<published, queue, up, store, lost, reconnects, crashes, errors>>

\* Mutant: the broker forgets a message and still counts it as in flight.
AcknowledgeUncounted ==
  /\ up /\ inFlight > 0
  /\ queue' = Tail(queue)
  /\ UNCHANGED <<published, inFlight, up, tasks, pipe, store, dropped, lost,
                 reconnects, crashes, errors>>

\* The PUBACK mqtt.js sends once the message was emitted reaches the broker.
Acknowledge ==
  /\ up /\ inFlight > 0
  /\ queue' = Tail(queue)
  /\ inFlight' = inFlight - 1
  /\ UNCHANGED <<published, up, tasks, pipe, store, dropped, lost,
                 reconnects, crashes, errors>>

\* The connection drops and mqtt.js reconnects: the broker delivers again what
\* was not acknowledged.  With nothing unacknowledged it changes nothing.
Reconnect ==
  /\ up /\ reconnects < MaxReconnects /\ inFlight > 0
  /\ reconnects' = reconnects + 1
  /\ inFlight' = 0
  /\ UNCHANGED <<published, queue, up, tasks, pipe, store, dropped, lost, crashes, errors>>

-----------------------------------------------------------------------------
(* The rest of a handler: what happens when a call it awaits returns.      *)
Waiting(c) == {t \in tasks : Awaits(t, c)}
MoveTo(t, at) == (tasks \ {t}) \cup {[t EXCEPT !.at = at]}

\* onConflictDoNothing: a row that exists is left as it is.  The handler goes
\* on to issue the cache update.
InsertDone(t) ==
  /\ t.at = "insert"
  /\ db' = db \cup {t.uplink}
  /\ tasks' = MoveTo(t, "set")
  /\ pipe' = Append(pipe, CommandOf(t, "set"))
  /\ UNCHANGED <<mqtt, up, latest, config, channel, dropped, lost,
                 reconnects, crashes, errors>>

\* Mutant: the error is logged and not counted.
HandlerFailsUncounted(t) ==
  /\ errors < MaxErrors
  /\ errors' = errors + 1
  /\ tasks' = tasks \ {t}
  /\ UNCHANGED dropped

\* A call rejects: the catch of handleUplink or handleConfigReport.
HandlerFails(t) ==
  /\ errors < MaxErrors
  /\ errors' = errors + 1
  /\ tasks' = tasks \ {t}
  /\ dropped' = dropped \cup {t.uplink}

\* The insert throws, before or after the row was committed.
InsertFails(t) ==
  /\ t.at = "insert"
  /\ HandlerFails(t)
  /\ db' \in {db, db \cup {t.uplink}}
  /\ UNCHANGED <<mqtt, up, pipe, latest, config, channel, lost, reconnects, crashes>>

\* Mutant: SET ... NX, the first report of a node wins.
ConfigOnce(c) ==
  IF c.op = "config" /\ config[Uplinks[c.uplink].dev] = 0
    THEN [config EXCEPT ![Uplinks[c.uplink].dev] = c.uplink] ELSE config

\* The settings cached once Redis has executed c.
ConfigAfter(c) ==
  IF c.op = "config" THEN [config EXCEPT ![Uplinks[c.uplink].dev] = c.uplink] ELSE config

\* Redis executes the oldest command; the handler waiting for it, if there
\* still is one, goes on.
RedisReplies ==
  /\ up /\ pipe # <<>>
  /\ LET c == Head(pipe)
         dev == Uplinks[c.uplink].dev
     IN  /\ latest' = IF c.op = "set" THEN [latest EXCEPT ![dev] = c.uplink] ELSE latest
         /\ config' = ConfigAfter(c)
         /\ channel' = IF c.op = "publish" THEN channel \cup {c.uplink} ELSE channel
         /\ IF c.op = "set" /\ c.copy # 0
              THEN /\ tasks' = UNION {MoveTo(t, "publish") : t \in Waiting(c)}
                   /\ pipe' = Append(Tail(pipe), CommandOf(c, "publish"))
              ELSE /\ tasks' = tasks \ Waiting(c)
                   /\ pipe' = Tail(pipe)
  /\ UNCHANGED <<mqtt, up, db, dropped, lost, reconnects, crashes, errors>>

\* commandTimeout: the handler's promise rejects; the command itself may still
\* be in the client's queue and execute later.
RedisTimeout(t) ==
  /\ t.at # "insert"
  /\ HandlerFails(t)
  /\ \/ pipe' = [k \in DOMAIN pipe |->
                    IF Awaits(t, pipe[k]) THEN [pipe[k] EXCEPT !.copy = 0] ELSE pipe[k]]
     \/ \E k \in DOMAIN pipe : Awaits(t, pipe[k]) /\ pipe' = RemoveAt(pipe, k)
  /\ UNCHANGED <<mqtt, up, store, lost, reconnects, crashes>>

\* LATEST_TTL_SECONDS passed without an uplink.
LatestExpires(d) ==
  /\ latest[d] # 0
  /\ latest' = [latest EXCEPT ![d] = 0]
  /\ UNCHANGED <<mqtt, up, tasks, pipe, db, config, channel, dropped, lost,
                 reconnects, crashes, errors>>

-----------------------------------------------------------------------------
\* The process dies, or onModuleDestroy ends it: handlers and unsent commands
\* go; an insert the database had received may still commit.
Crash ==
  /\ up /\ crashes < MaxCrashes
  /\ crashes' = crashes + 1
  /\ up' = FALSE
  /\ inFlight' = 0
  /\ lost' = lost \cup {t.uplink : t \in tasks}
  /\ \E committed \in SUBSET {t.uplink : t \in {u \in tasks : u.at = "insert"}} :
       db' = db \cup committed
  /\ tasks' = {} /\ pipe' = <<>>
  /\ UNCHANGED <<published, queue, latest, config, channel, dropped, reconnects, errors>>

\* Mutant: clean: true, the broker starts a new session.
RestartFreshSession ==
  /\ ~up
  /\ up' = TRUE
  /\ queue' = <<>> /\ inFlight' = 0
  /\ UNCHANGED <<published, tasks, pipe, store, dropped, lost, reconnects, crashes, errors>>

\* onModuleInit: connect with the same clientId, the session resumes.
Restart ==
  /\ ~up
  /\ up' = TRUE
  /\ UNCHANGED <<mqtt, tasks, pipe, store, dropped, lost, reconnects, crashes, errors>>

-----------------------------------------------------------------------------
Replies == \E t \in tasks : InsertDone(t)

Next == \/ PublishUplink \/ Deliver \/ Acknowledge \/ Reconnect
        \/ Replies
        \/ \E t \in tasks : InsertFails(t)
        \/ RedisReplies
        \/ \E t \in tasks : RedisTimeout(t)
        \/ \E d \in Devices : LatestExpires(d)
        \/ Crash \/ Restart

Spec == Init /\ [][Next]_vars

\* The broker delivers, the process is restarted, the database and Redis
\* answer; nothing has to fail or expire.
FairSpec == /\ Spec
            /\ WF_vars(Deliver) /\ WF_vars(Acknowledge) /\ WF_vars(Restart)
            /\ WF_vars(Replies) /\ WF_vars(RedisReplies)

-----------------------------------------------------------------------------
(* What the cache and the live channel show is a complete reading with a   *)
(* row in the database: the order of the steps of handleUplink, and the    *)
(* presence check before them.                                             *)
ShownIsPersisted ==
  /\ db \subseteq OfKind("reading")
  /\ channel \subseteq db
  /\ \A d \in Devices : latest[d] \in {0} \cup (db \cap Of(d, "reading"))

Handling(i) == \E t \in tasks : t.uplink = i

(* No reading disappears without a trace.  One the broker has let go of is *)
(* being handled, stored and broadcast, counted as dropped, or was in a    *)
(* handler when the process died.                                          *)
NoSilentLoss ==
  \A i \in OfKind("reading") \cap 1..published :
    \/ i \in ToSet(queue)
    \/ Handling(i)
    \/ i \in db /\ i \in channel
    \/ i \in dropped \cup lost

Quiet == queue = <<>> /\ tasks = {} /\ pipe = <<>>

Newest(S) == CHOOSE m \in S \cup {0} : \A i \in S : i <= m

(* Once everything is handled, the cached settings of a node are those of  *)
(* its newest report that was not counted as dropped, whatever was         *)
(* delivered twice: handleConfigReport awaits nothing before its command,  *)
(* so commands leave in delivery order.  A crash may lose a report.        *)
ConfigIsNewest ==
  (Quiet /\ crashes = 0) =>
     \A d \in Devices :
       config[d] >= Newest((Of(d, "report") \cap 1..published) \ dropped)

(* Every reading published, while the process is down too, is eventually   *)
(* stored, unless its handler failed or died (clean: false, QoS 1).        *)
EveryReadingHandled ==
  \A i \in OfKind("reading") : (published >= i) ~> (i \in db \cup dropped \cup lost)

(* "Latest reading for a sensor (Redis cache)",                            *)
(* apps/api/src/sensors/sensors.controller.ts:179-181: once everything is  *)
(* handled, the cache holds no reading older than one in the database.     *)
LatestIsNewest ==
  Quiet => \A d \in Devices :
             latest[d] \in {0, Newest(db \cap Of(d, "reading"))}

(* "Uplinks dropped before persistence", ingestion.service.ts:46: no       *)
(* uplink is counted as dropped once its row is in the database.           *)
DroppedBeforePersistence == [][(dropped' \ dropped) \cap db = {}]_vars
=============================================================================
