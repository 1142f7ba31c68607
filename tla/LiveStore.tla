----------------------------- MODULE LiveStore ------------------------------
(***************************************************************************)
(* The dashboard's store (apps/dashboard/src/stores/air.ts) and its two    *)
(* sources: REST answers and the live channel, over the service of         *)
(* apps/dashboard/src/services/http-sensor-service.ts.  The store keeps    *)
(* each sensor separately; this module follows one.  A reading is its      *)
(* time, 1, 2, ..., and 0 is no reading.                                   *)
(*                                                                         *)
(* On the server a reading is stored, then cached as the latest, then      *)
(* pushed to the sockets connected at that moment.                         *)
(***************************************************************************)
EXTENDS Integers, Sequences, FiniteSets, SequencesExt

CONSTANTS MaxReadings,  \* readings the sensor sends
          MaxGets,      \* getLatest() requests outstanding at a time
          MaxLoads,     \* getReadings() requests outstanding at a time
          MaxDrops,     \* times the socket is lost or fails to connect
          MaxFailures,  \* REST requests that fail
          Hours         \* the range of the chart, in readings

ASSUME ConstantsAssumption ==
  /\ MaxReadings \in Nat /\ MaxGets \in Nat /\ MaxLoads \in Nat /\ MaxDrops \in Nat
  /\ MaxFailures \in Nat /\ Hours \in Nat \ {0}

VARIABLES
  stored, cached, pushed,  \* the newest reading in the database, in Redis, pushed
  phase,                   \* load(): idle, loading, failed (error is set), ready
  socket,                  \* none, connecting, up, down
  wire,                    \* readings pushed, not yet received
  connection,              \* connecting, live, reconnecting, polling
  latest, lastLive,        \* latest[sensor]; the newest of them that came over the socket
  pollDelay, pollTimer,    \* the timers of that name are set
  gets,                    \* getLatest() requests: [n, for, answer]
  loads,                   \* getReadings() requests: [n, answer]
  history,                 \* rawHistory[sensor]: <<>> before the first load, or <<readings>>
  missable,                \* history: newest reading pushed before the first connection
  resyncFailed,            \* history: the getLatest() after a reconnection failed
  drops, failures

vars == <<stored, cached, pushed, phase, socket, wire, connection, latest, lastLive,
          pollDelay, pollTimer, gets, loads, history, missable, resyncFailed, drops, failures>>
server == <<stored, cached, pushed>>
shown  == <<latest, lastLive>>
timers == <<pollDelay, pollTimer>>
ghosts == <<missable, resyncFailed>>

Times   == 1..MaxReadings
NoAnswer == -1
Pending == <<>>   \* a history request the server has not answered

TypeOK ==
  /\ stored \in 0..MaxReadings /\ cached \in 0..stored /\ pushed \in 0..cached
  /\ phase \in {"idle", "loading", "failed", "ready"}
  /\ socket \in {"none", "connecting", "up", "down"}
  /\ wire \in Seq(Times)
  /\ connection \in {"connecting", "live", "reconnecting", "polling"}
  /\ latest \in 0..MaxReadings /\ lastLive \in 0..latest
  /\ pollDelay \in BOOLEAN /\ pollTimer \in BOOLEAN
  /\ gets \subseteq [n: 1..MaxGets, for: {"load", "poll", "resync", "visible"},
                     answer: Times \cup {0, NoAnswer}]
  /\ \A r \in loads : r.n \in 1..MaxLoads /\ (r.answer = Pending \/ r.answer[1] \in Seq(Times))
  /\ history = <<>> \/ history[1] \in Seq(Times)
  /\ missable \in 0..MaxReadings /\ resyncFailed \in BOOLEAN
  /\ drops \in 0..MaxDrops /\ failures \in 0..MaxFailures

Init ==
  /\ stored = 0 /\ cached = 0 /\ pushed = 0
  /\ phase = "idle" /\ socket = "none" /\ wire = <<>>
  /\ connection = "connecting"
  /\ latest = 0 /\ lastLive = 0
  /\ pollDelay = FALSE /\ pollTimer = FALSE
  /\ gets = {} /\ loads = {} /\ history = <<>>
  /\ missable = 0 /\ resyncFailed = FALSE
  /\ drops = 0 /\ failures = 0

-----------------------------------------------------------------------------
(* The server.                                                             *)
Store ==
  /\ stored < MaxReadings /\ stored = pushed
  /\ stored' = stored + 1
  /\ UNCHANGED <<cached, pushed, phase, socket, wire, connection, shown, timers, gets,
                 loads, history, ghosts, drops, failures>>

Cache ==
  /\ cached < stored
  /\ cached' = stored
  /\ UNCHANGED <<stored, pushed, phase, socket, wire, connection, shown, timers, gets,
                 loads, history, ghosts, drops, failures>>

\* The gateway emits to the sockets connected now; it replays nothing later.
Push ==
  /\ pushed < cached
  /\ pushed' = cached
  /\ wire' = IF socket = "up" THEN Append(wire, cached) ELSE wire
  /\ missable' = IF connection = "connecting" THEN cached ELSE missable
  /\ UNCHANGED <<stored, cached, phase, socket, connection, shown, timers, gets, loads,
                 history, resyncFailed, drops, failures>>

-----------------------------------------------------------------------------
(* Requests.  The answer is what the server holds when it handles one.     *)
Free(S, max) == {n \in 1..max : \A r \in S : r.n # n}
CanAsk == Free(gets, MaxGets) # {}
Ask(for) == [n |-> CHOOSE n \in Free(gets, MaxGets) : TRUE, for |-> for, answer |-> NoAnswer]

AnswerGet(r) ==
  /\ r.answer = NoAnswer
  /\ gets' = (gets \ {r}) \cup {[r EXCEPT !.answer = cached]}
  /\ UNCHANGED <<server, phase, socket, wire, connection, shown, timers, loads,
                 history, ghosts, drops, failures>>

\* Mutant: an answer is applied whatever its time.
NewerUnchecked(t) == t

\* applyReading(reading, false), for each reading of an answer
Newer(t) == IF t > latest THEN t ELSE latest

\* onConnection(false): fall back to polling, after a delay, unless it is under way.
Disconnected ==
  /\ connection' = IF connection \in {"live", "connecting"} THEN "reconnecting"
                                                            ELSE connection
  /\ pollDelay' = (pollDelay \/ ~pollTimer)
  /\ UNCHANGED pollTimer

-----------------------------------------------------------------------------
(* load(), by start() or by retry() after a failure.                       *)
Load ==
  /\ phase \in {"idle", "failed"} /\ CanAsk
  /\ phase' = "loading"
  /\ gets' = gets \cup {Ask("load")}
  /\ UNCHANGED <<server, socket, wire, connection, shown, timers, loads, history,
                 ghosts, drops, failures>>

\* Promise.all resolved: apply the answers, then subscribe.
LoadDone(r) ==
  /\ r.for = "load" /\ r.answer # NoAnswer
  /\ latest' = Newer(r.answer)
  /\ gets' = gets \ {r}
  /\ phase' = "ready"
  /\ socket' = "connecting"
  /\ UNCHANGED <<server, wire, connection, lastLive, timers, loads, history, ghosts,
                 drops, failures>>

\* Mutant: a poll that answers late overrides "live".
PollSettledLate(for, to) == IF for = "poll" THEN to ELSE connection

\* The connection shown once a request made for that reason has settled.
PollSettled(for, to) == IF for = "poll" /\ connection # "live" THEN to ELSE connection

GetFails(r) ==
  /\ failures < MaxFailures
  /\ failures' = failures + 1
  /\ gets' = gets \ {r}
  /\ phase' = IF r.for = "load" THEN "failed" ELSE phase
  /\ connection' = PollSettled(r.for, "reconnecting")
  /\ resyncFailed' = (resyncFailed \/ r.for = "resync")
  /\ UNCHANGED <<server, socket, wire, shown, timers, loads, history, missable, drops>>

\* syncLatest() resolved, for a poll, a reconnection or a page that became visible.
SyncLatest(r) ==
  /\ r.for # "load" /\ r.answer # NoAnswer
  /\ latest' = Newer(r.answer)
  /\ gets' = gets \ {r}
  /\ connection' = PollSettled(r.for, "polling")
  /\ UNCHANGED <<server, phase, socket, wire, lastLive, timers, loads, history, ghosts,
                 drops, failures>>

-----------------------------------------------------------------------------
(* The live channel.  Socket.IO reconnects on its own.                     *)
\* Mutant: no resync after a reconnection.
ResyncNever == UNCHANGED gets

\* Anything but the first connection resyncs.
Resync == IF connection # "connecting"
            THEN CanAsk /\ gets' = gets \cup {Ask("resync")}
            ELSE UNCHANGED gets

\* onConnection(true)
SocketConnects ==
  /\ socket \in {"connecting", "down"}
  /\ socket' = "up"
  /\ pollDelay' = FALSE /\ pollTimer' = FALSE
  /\ connection' = "live"
  /\ Resync
  /\ UNCHANGED <<server, phase, wire, shown, loads, history, ghosts, drops, failures>>

SocketDrops ==
  /\ socket = "up" /\ drops < MaxDrops
  /\ socket' = "down"
  /\ wire' = <<>>
  /\ drops' = drops + 1
  /\ Disconnected
  /\ UNCHANGED <<server, phase, shown, gets, loads, history, ghosts, failures>>

ConnectError ==
  /\ socket \in {"connecting", "down"} /\ drops < MaxDrops
  /\ socket' = "down"
  /\ drops' = drops + 1
  /\ Disconnected
  /\ UNCHANGED <<server, phase, wire, shown, gets, loads, history, ghosts, failures>>

\* Shift the chart while its first reading is out of range, measured from the
\* newest: an older one behind a reading in range stays.
InRange(readings, newest) ==
  SubSeq(readings, Min({i \in DOMAIN readings : readings[i] >= newest - Hours}), Len(readings))

\* applyReading(reading, true): a reading that is not newer changes nothing.
Receive ==
  /\ wire # <<>>
  /\ wire' = Tail(wire)
  /\ LET t == Head(wire)
     IN  IF t > latest
           THEN /\ latest' = t /\ lastLive' = t
                /\ history' = IF history = <<>> THEN <<>>
                              ELSE <<InRange(Append(history[1], t), t)>>
           ELSE UNCHANGED <<shown, history>>
  /\ UNCHANGED <<server, phase, socket, connection, timers, gets, loads, ghosts, drops,
                 failures>>

PollDelayFires ==
  /\ pollDelay /\ CanAsk
  /\ pollDelay' = FALSE /\ pollTimer' = TRUE
  /\ gets' = gets \cup {Ask("poll")}
  /\ UNCHANGED <<server, phase, socket, wire, connection, shown, loads, history, ghosts,
                 drops, failures>>

PollTick ==
  /\ pollTimer /\ CanAsk
  /\ gets' = gets \cup {Ask("poll")}
  /\ UNCHANGED <<server, phase, socket, wire, connection, shown, timers, loads, history,
                 ghosts, drops, failures>>

\* onVisible
BecomeVisible ==
  /\ phase = "ready" /\ CanAsk
  /\ gets' = gets \cup {Ask("visible")}
  /\ UNCHANGED <<server, phase, socket, wire, connection, shown, timers, loads, history,
                 ghosts, drops, failures>>

-----------------------------------------------------------------------------
(* loadReadings(): the chart of the last hours.  It waits for load(),      *)
(* which may have failed.                                                  *)
LoadReadings ==
  /\ phase \in {"failed", "ready"} /\ Free(loads, MaxLoads) # {}
  /\ loads' = loads \cup
                {[n |-> CHOOSE n \in Free(loads, MaxLoads) : TRUE, answer |-> Pending]}
  /\ UNCHANGED <<server, phase, socket, wire, connection, shown, timers, gets, history,
                 ghosts, drops, failures>>

\* The rows of the last Hours, in the order of their times.
RowsInRange ==
  LET n == IF stored > Hours THEN Hours + 1 ELSE stored
  IN  [k \in 1..n |-> stored - n + k]

AnswerReadings(r) ==
  /\ r.answer = Pending
  /\ loads' = (loads \ {r}) \cup {[r EXCEPT !.answer = <<RowsInRange>>]}
  /\ UNCHANGED <<server, phase, socket, wire, connection, shown, timers, gets, history,
                 ghosts, drops, failures>>

\* Mutant: the answer replaces the chart.
MergedNothing(rows) == rows

\* filter(), by the positions it keeps: SelectSeq has no definition to prove from.
Nth(S, k) == CHOOSE i \in S : Cardinality({j \in S : j <= i}) = k
After(readings, last) ==
  LET kept == {i \in DOMAIN readings : readings[i] > last}
  IN  [k \in 1..Cardinality(kept) |-> readings[Nth(kept, k)]]

\* The answer, and what was appended to the history since.
Merged(rows) ==
  LET last == IF rows = <<>> THEN 0 ELSE Last(rows)
  IN  IF history = <<>> THEN rows ELSE rows \o After(history[1], last)

ReadingsLoaded(r) ==
  /\ r.answer # Pending
  /\ history' = <<Merged(r.answer[1])>>
  /\ loads' = loads \ {r}
  /\ UNCHANGED <<server, phase, socket, wire, connection, shown, timers, gets, ghosts,
                 drops, failures>>

ReadingsFail(r) ==
  /\ failures < MaxFailures
  /\ failures' = failures + 1
  /\ loads' = loads \ {r}
  /\ UNCHANGED <<server, phase, socket, wire, connection, shown, timers, gets, history,
                 ghosts, drops>>

-----------------------------------------------------------------------------
Next == \/ Store \/ Cache \/ Push
        \/ Load
        \/ \E r \in gets : AnswerGet(r) \/ LoadDone(r) \/ SyncLatest(r) \/ GetFails(r)
        \/ SocketConnects \/ SocketDrops \/ ConnectError \/ Receive
        \/ PollDelayFires \/ PollTick \/ BecomeVisible
        \/ LoadReadings
        \/ \E r \in loads : AnswerReadings(r) \/ ReadingsLoaded(r) \/ ReadingsFail(r)

Spec == Init /\ [][Next]_vars

\* The server works, every request is answered or fails, Socket.IO keeps trying
\* to connect (a slot for the resync it starts is only sometimes free: SF), the
\* timers fire.  Nothing has to fail, and the user need not do anything.
Answered(n) == \E r \in gets : r.n = n /\ (AnswerGet(r) \/ LoadDone(r) \/ SyncLatest(r))

FairSpec == /\ Spec
            /\ WF_vars(Cache) /\ WF_vars(Push)
            /\ \A n \in 1..MaxGets : WF_vars(Answered(n))
            /\ SF_vars(SocketConnects) /\ WF_vars(Receive)
            /\ SF_vars(PollDelayFires) /\ SF_vars(PollTick)

-----------------------------------------------------------------------------
(* What is shown never goes back in time, whatever order requests and the  *)
(* socket answer in (applyReading compares the times).                     *)
LatestNeverOlder == [][latest' >= latest]_vars

(* The connection shown is the truth, and a store that has lost its socket *)
(* polls or is about to: "live" is shown exactly while the socket is up,   *)
(* and then no poll timer is left running (onConnection, stopPolling).     *)
ConnectionTold ==
  /\ connection = "live" <=> socket = "up"
  /\ connection = "live" => ~pollDelay /\ ~pollTimer
  /\ connection \in {"reconnecting", "polling"} => pollDelay \/ pollTimer
  /\ ~(pollDelay /\ pollTimer)

(* Every reading pushed after the channel first opened is shown in the     *)
(* end, however often the channel drops, unless the one resync after a     *)
(* reconnection failed (onConnection, syncLatest, the polling fallback).   *)
CaughtUp ==
  \A t \in Times : (pushed >= t /\ missable < t) ~> (latest >= t \/ resyncFailed)

(* Reloading an open chart loses no reading of its range: the answer and   *)
(* what was appended while it was under way are merged (loadReadings).     *)
ReloadKeeps ==
  [][history # <<>> =>
       LET before == history[1]
           after  == history'[1]
       IN  \A t \in ToSet(before) :
             (after # <<>> /\ t >= Last(after) - Hours) => t \in ToSet(after)]_vars

(* air.ts:293 "Live readings may have been appended while the request was  *)
(* in flight", and apps/dashboard/test/store.test.ts:265 "does not lose    *)
(* live readings that arrive while a history request is in flight": after  *)
(* a history answer the chart reaches the last reading received live.      *)
LoadKeepsLive ==
  [][(history' # history /\ loads' # loads) =>
       lastLive = 0 \/ \E t \in ToSet(history'[1]) : t >= lastLive]_vars
=============================================================================
