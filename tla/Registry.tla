------------------------------ MODULE Registry ------------------------------
(***************************************************************************)
(* The sensor registry and the figures drawn from it: the sensors table,   *)
(* the admin's requests and the seed that write it, the latest-value cache *)
(* that ingestion fills, the network overview of the API, and a dashboard  *)
(* that keeps its own copy of all that and computes the same figures.      *)
(*                                                                         *)
(* Time is counted in ticks; Window ticks are the 15 minutes of            *)
(* ONLINE_WINDOW_MS.  A neighbourhood name is [word, form]: its letters    *)
(* and digits, and how case, spacing and punctuation dress them.           *)
(***************************************************************************)
EXTENDS Aqi, FiniteSets

CONSTANTS Environments, \* ADMIN_API_KEY and NODE_ENV the API may be deployed with
          Statuses,    \* of a sensor, "active" and "retired" among them
          Devices,     \* DevEUIs that may transmit or be registered
          Fixtures,    \* the devices the seed inserts
          Names,       \* neighbourhood names in use
          SeedPlace,   \* the name the seed gives its fixtures
          Particles,   \* what a device may measure: <<PM2.5, PM10>>, in tenths
          Skews,       \* how far the browser's clock may be off
          Window, MaxTime,
          MaxChanges,  \* bound on the writes to the registry
          MaxLists     \* bound on the sensor lists in flight

ASSUME RegistryAssumption == /\ Environments \subseteq [key: {"none", "dev-admin-key", "secret"},
                                                        prod: BOOLEAN]
                             /\ {"active", "retired"} \subseteq Statuses
                             /\ Statuses \subseteq {"active", "maintenance", "retired"}
                             /\ Fixtures \subseteq Devices /\ SeedPlace \in Names
                             /\ {Window, MaxTime, MaxLists} \subseteq Nat \ {0}
                             /\ MaxChanges \in Nat /\ Skews \subseteq Int
                             /\ Particles \in [Devices -> SUBSET (Int \X Int)]

VARIABLES env, table, redis, clock,                            \* the server
          listed, latest, now, skew, unknown, queued, ready,   \* the dashboard's store
          lists,                                               \* answers in flight
          changes

server  == <<env, table, redis, clock>>
store   == <<listed, latest, now, skew, unknown, queued, ready>>
vars    == <<server, store, lists, changes>>

-----------------------------------------------------------------------------
NoSensor == [status |-> "none", isActive |-> FALSE, place |-> [word |-> "", form |-> "none"]]
NoPlace  == NoSensor.place
NoReading == [time |-> -1]

Sensor   == [status: Statuses, isActive: BOOLEAN, place: Names \cup {NoPlace}]
Reading  == [time: 0..MaxTime, pm25: Int, pm10: Int, aqi: 0..500]
Registered(t) == {d \in Devices : t[d] # NoSensor}

TypeOK ==
  /\ env \in Environments
  /\ table \in [Devices -> Sensor \cup {NoSensor}]
  /\ listed \in [Devices -> Sensor \cup {NoSensor}]
  /\ redis \in [Devices -> Reading \cup {NoReading}]
  /\ latest \in [Devices -> Reading \cup {NoReading}]
  /\ clock \in 0..MaxTime /\ now \in Int /\ skew \in Skews \cup {0}
  /\ unknown \subseteq Devices /\ queued \in BOOLEAN /\ ready \in BOOLEAN
  /\ lists \subseteq [Devices -> Sensor \cup {NoSensor}]
  /\ Cardinality(lists) <= MaxLists /\ changes \in 0..MaxChanges

Init ==
  /\ env \in Environments
  /\ table = [d \in Devices |-> NoSensor] /\ redis = [d \in Devices |-> NoReading]
  /\ clock = 0
  /\ listed = table /\ latest = redis /\ now = 0 /\ skew \in Skews
  /\ unknown = {} /\ queued = FALSE /\ ready = FALSE
  /\ lists = {}
  /\ changes = 0

-----------------------------------------------------------------------------
(* Writes to the registry.                                                 *)
\* AdminApiKeyGuard: a configured key, in production not the development one,
\* and the same key in the request.
Authorized(key) ==
  /\ env.key # "none" /\ ~(env.prod /\ env.key = "dev-admin-key")
  /\ key = env.key

Write(t) ==
  /\ changes < MaxChanges /\ changes' = changes + 1
  /\ table' = t
  /\ UNCHANGED <<env, redis, clock, store, lists>>

\* What the schemas of the create and update requests let through; a field that
\* an update leaves out keeps its value.
Requests == [status: Statuses, place: Names \cup {NoPlace}]

WithStatus(s, status) == [s EXCEPT !.status = status, !.isActive = status = "active"]
Row(r) == [status |-> r.status, isActive |-> r.status = "active", place |-> r.place]

\* A device that is registered already is a conflict, and nothing is written.
Create(d, key) ==
  /\ Authorized(key) /\ table[d] = NoSensor
  /\ \E r \in Requests : Write([table EXCEPT ![d] = Row(r)])

Update(d, key) ==
  /\ Authorized(key) /\ table[d] # NoSensor
  /\ \E r \in Requests : Write([table EXCEPT ![d] = Row(r)])

Retire(d, key) ==
  /\ Authorized(key) /\ table[d] # NoSensor
  /\ Write([table EXCEPT ![d] = WithStatus(@, "retired")])

\* Mutant: seeding sets every column of a fixture again.
SeededActive(s, place) == [status |-> "active", isActive |-> TRUE, place |-> place]

\* ON CONFLICT DO UPDATE names neither status nor is_active.
Seeded(s, place) == IF s = NoSensor
                    THEN [status |-> "active", isActive |-> TRUE, place |-> place]
                    ELSE [s EXCEPT !.place = place]

Seed ==
  Write([d \in Devices |-> IF d \in Fixtures THEN Seeded(table[d], SeedPlace) ELSE table[d]])

-----------------------------------------------------------------------------
(* Readings.                                                               *)
ReadingOf(p) == [time |-> clock, pm25 |-> p[1], pm10 |-> p[2], aqi |-> CalculateAqi(p[1], p[2])]

\* applyReading's first line: only a newer reading replaces the one shown.
Applied(d, r) == IF r.time > latest[d].time THEN [latest EXCEPT ![d] = r] ELSE latest

\* Ingestion caches and pushes a reading, from any device ChirpStack knows; the
\* socket may be down.  A device that is not in the list is looked up once.
Land(d, pushed) ==
  /\ redis[d].time < clock
  /\ \E p \in Particles[d] :
       LET r == ReadingOf(p)
           new == ready /\ pushed /\ listed[d] = NoSensor /\ d \notin unknown
       IN  /\ redis' = [redis EXCEPT ![d] = r]
           /\ latest' = IF ready /\ pushed THEN Applied(d, r) ELSE latest
           /\ now' = IF ready /\ pushed THEN Larger(now, clock + skew) ELSE now
           /\ unknown' = IF new THEN unknown \cup {d} ELSE unknown
           /\ queued' = (queued \/ new)
  /\ UNCHANGED <<env, table, clock, listed, skew, ready, lists, changes>>

ClockTick ==
  /\ clock < MaxTime /\ clock' = clock + 1
  /\ UNCHANGED <<env, table, redis, store, lists, changes>>

\* findActiveDeviceIds, and the rows overview() and history() start from.
ByStatus == {d \in Devices : table[d].status = "active"}
Active   == {d \in Devices : table[d].isActive}

-----------------------------------------------------------------------------
(* The dashboard's store.                                                  *)
\* load: the list, the latest readings and, unless that request fails, the clock.
Load ==
  /\ ~ready /\ ready' = TRUE
  /\ listed' = table
  /\ latest' = [d \in Devices |-> IF d \in ByStatus THEN redis[d] ELSE NoReading]
  /\ skew' \in {0, skew}
  /\ now' = clock + skew'
  /\ UNCHANGED <<server, unknown, queued, lists, changes>>

\* The 10 s clock.
ViewTick ==
  /\ ready /\ now' = clock + skew
  /\ UNCHANGED <<server, listed, latest, skew, unknown, queued, ready, lists, changes>>

\* The answer a sensor list request will bring is read from the table now.
AskList == Cardinality(lists \cup {table}) <= MaxLists /\ lists' = lists \cup {table}

\* Every 5 minutes: forget the unknown, ask for the list and for the server's time.
Refresh(synced) ==
  /\ ready /\ AskList
  /\ unknown' = {}
  /\ skew' = IF synced THEN 0 ELSE skew
  /\ UNCHANGED <<server, listed, latest, now, queued, ready, changes>>

\* 2 s after an unknown device reported.
QueuedRefresh ==
  /\ queued /\ AskList
  /\ queued' = FALSE
  /\ UNCHANGED <<server, listed, latest, now, skew, unknown, ready, changes>>

\* Mutant: only the list of the first load is shown.
ShownOnce(list) == listed

Shown(list) == list

\* refreshSensors: answers replace the list in the order they arrive in.
ListArrives(list) ==
  /\ list \in lists /\ lists' = lists \ {list}
  /\ listed' = Shown(list)
  /\ UNCHANGED <<server, latest, now, skew, unknown, queued, ready, changes>>

ListFails(list) ==
  /\ list \in lists /\ lists' = lists \ {list}
  /\ UNCHANGED <<server, store, changes>>

\* syncLatest, after a reconnect, by polling or when the page becomes visible.
\* LiveStore follows its request and answer one by one.
SyncLatest ==
  /\ ready
  /\ latest' = [d \in Devices |-> IF d \in ByStatus /\ redis[d].time > latest[d].time
                                  THEN redis[d] ELSE latest[d]]
  /\ now' = clock + skew
  /\ UNCHANGED <<server, listed, skew, unknown, queued, ready, lists, changes>>

Admin == \E d \in Devices, key \in {"dev-admin-key", "secret"} :
           Create(d, key) \/ Update(d, key) \/ Retire(d, key)
Dashboard == \/ Load \/ ViewTick \/ QueuedRefresh \/ SyncLatest
             \/ \E synced \in BOOLEAN : Refresh(synced)
             \/ \E list \in lists : ListArrives(list) \/ ListFails(list)
Next == \/ Admin \/ Seed \/ ClockTick \/ Dashboard
        \/ \E d \in Devices, pushed \in BOOLEAN : Land(d, pushed)

\* The timers fire; requests that are made again and again succeed in the end.
Fairness ==
  /\ WF_vars(Load) /\ WF_vars(ViewTick)
  /\ SF_vars(Refresh(TRUE)) /\ SF_vars(\E list \in lists : ListArrives(list))
  /\ WF_vars(SyncLatest)
Spec == Init /\ [][Next]_vars /\ Fairness

-----------------------------------------------------------------------------
(* The figures.                                                            *)
\* The API's overview: sensorsOnline, avgAqi, maxAqi and byCategory are all
\* functions of these.
OverviewOnline == {<<d, redis[d].aqi>> : d \in {e \in Active :
                     redis[e] # NoReading /\ clock - redis[e].time < Window}}

\* sensorStatus of a row.
StatusOf(d) == IF ~listed[d].isActive THEN "inactive"
               ELSE IF latest[d] # NoReading /\ now - latest[d].time < Window
               THEN "online" ELSE "offline"

\* The rows every view starts from, and those whose readings summarise averages.
Rows == [d \in Registered(listed) |-> [status |-> StatusOf(d), reading |-> latest[d]]]
CityOnline == {<<d, Rows[d].reading.aqi>> : d \in {e \in DOMAIN Rows : Rows[e].status = "online"}}

\* Mutant: the API compares the names as they were typed.
PlaceKeyAsTyped(name) == name.word \o name.form

\* placeKey of the API, slugify of the dashboard.
PlaceKey(name) == name.word
Slugify(name)  == IF name.word = "" THEN "unassigned" ELSE name.word

\* The devices GET /overview/history?neighborhood=name covers.
Scope(name) == {d \in Active : table[d].place # NoPlace
                               /\ PlaceKey(table[d].place) = PlaceKey(name)}

\* groupByNeighborhood, without the sensors that are not in service.
Group(id) == {d \in Registered(listed) : /\ listed[d].place # NoPlace
                                         /\ Slugify(listed[d].place) = id
                                         /\ listed[d].isActive}

-----------------------------------------------------------------------------
(* When readings, writes and time come to rest, the dashboard's online     *)
(* sensors and their indices are those of the API's overview (stats.ts:9   *)
(* "matches the API"): missed pushes, lists that overtake each other,      *)
(* sensors registered or retired meanwhile and a wrong clock are made good *)
(* (air.ts:156-182, :249-257).                                             *)
FiguresAgree == <>[](CityOnline = OverviewOnline)

(* The status of a registered sensor changes only by a request that holds  *)
(* a configured key, which in production is not the development one; never *)
(* by seeding again (seed.ts:31-41, admin-api-key.guard.ts:18-37): a       *)
(* retired sensor stays retired.                                           *)
StatusByAdmin ==
  [][\A d \in Devices :
       table[d] # NoSensor /\ <<table'[d].status, table'[d].isActive>> #
                              <<table[d].status, table[d].isActive>>
       => env.key # "none" /\ ~(env.prod /\ env.key = "dev-admin-key") /\ ~Seed]_vars

(* Once the list is current, the history the API serves for a place covers *)
(* the sensors the dashboard groups under it, however its name was typed   *)
(* (overview.controller.ts:13-17).  Names without a letter or digit are    *)
(* left out: the dashboard files them under "unassigned", the API does not.*)
PlacesAgree ==
  listed = table /\ (\A d \in Registered(table) : table[d].place = NoPlace
                                                  \/ table[d].place.word # "") =>
    \A d \in Registered(listed) :
      listed[d].place # NoPlace => Scope(listed[d].place) = Group(Slugify(listed[d].place))

(* Of two readings shown, the one with more of both pollutants never shows *)
(* the better index, across the borders of the bands (aqi.ts:31-49); and   *)
(* the dashboard's own scale, used for its charts, gives each the index    *)
(* the server gave it (dashboard lib/aqi.ts:119-124).                      *)
ScaleSound ==
  \A d, e \in Devices :
    latest[d] # NoReading /\ latest[e] # NoReading =>
      /\ latest[d].pm25 <= latest[e].pm25 /\ latest[d].pm10 <= latest[e].pm10
           => latest[d].aqi <= latest[e].aqi
      /\ ParticlesToAqi(latest[d].pm25, latest[d].pm10) = latest[d].aqi
=============================================================================
