-------------------------- MODULE IngestionProofs --------------------------
(***************************************************************************)
(* Proofs about Ingestion, for any uplinks and any number of reconnects,   *)
(* crashes and failed calls.  Nothing is shown that is not stored          *)
(* (ShownInv); handlers of one uplink are told apart and Redis answers the *)
(* one that waits (TaskInv); what the broker has let go of left a trace    *)
(* (TraceInv); the newest report of a node wins (SettledInv).              *)
(***************************************************************************)
EXTENDS Ingestion, SequenceTheorems, WellFoundedInduction, TLAPS

-----------------------------------------------------------------------------
(* Numbers and sequences.                                                  *)

\* A set of naturals has a least member.
LEMMA LeastNatural ==
  ASSUME NEW S, S \subseteq Nat, S # {}
  PROVE  \E m \in S : \A n \in S : m <= n
<1> DEFINE R == OpToRel(<, Nat)
<1>1. IsWellFoundedOn(R, Nat)
  BY NatLessThanWellFounded
<1>2. \A x, y \in Nat : x < y => <<x, y>> \in R
  BY DEF OpToRel
<1> HIDE DEF R
<1>3. PICK m \in S : \A n \in S : ~ (<<n, m>> \in R)
  BY <1>1, WFMin
<1>4. ASSUME NEW n \in S PROVE m <= n
  <2>1. m \in Nat /\ n \in Nat
    OBVIOUS
  <2>2. ~(n < m)
    BY <1>2, <1>3, <2>1, Zenon
  <2> QED BY <2>1, <2>2
<1> QED BY <1>4

\* What RemoveAt leaves of a sequence.
LEMMA RemoveAtFacts ==
  ASSUME NEW S, NEW p \in Seq(S), NEW j \in DOMAIN p
  PROVE  /\ RemoveAt(p, j) \in Seq(S) /\ Len(RemoveAt(p, j)) = Len(p) - 1
         /\ \A k \in 1..(Len(p) - 1) : RemoveAt(p, j)[k] = IF k < j THEN p[k] ELSE p[k + 1]
<1> DEFINE a == SubSeq(p, 1, j - 1)
           b == SubSeq(p, j + 1, Len(p))
           q == RemoveAt(p, j)
<1>1. /\ Len(p) \in Nat /\ j \in 1..Len(p) /\ DOMAIN p = 1..Len(p)
  OBVIOUS
<1>2. /\ a \in Seq(S) /\ Len(a) = j - 1 /\ DOMAIN a = 1..(j - 1)
      /\ \A k \in 1..(j - 1) : a[k] = p[k]
  BY <1>1
<1>3. /\ b \in Seq(S) /\ Len(b) = Len(p) - j /\ DOMAIN b = 1..(Len(p) - j)
      /\ \A k \in 1..(Len(p) - j) : b[k] = p[k + j]
  BY <1>1
<1>4. q = a \o b
  BY DEF RemoveAt
<1> HIDE DEF a, b, q
<1>5. /\ a \o b \in Seq(S) /\ Len(a \o b) = Len(a) + Len(b)
      /\ \A k \in 1..(Len(a) + Len(b)) :
           (a \o b)[k] = IF k <= Len(a) THEN a[k] ELSE b[k - Len(a)]
  <2>1. a \in Seq(S) /\ b \in Seq(S)
    BY <1>2, <1>3
  <2> QED BY <2>1, ConcatProperties, Zenon
<1>6. q \in Seq(S) /\ Len(q) = Len(p) - 1
  BY <1>1, <1>2, <1>3, <1>4, <1>5
<1>7. ASSUME NEW k \in 1..(Len(p) - 1)
      PROVE  q[k] = IF k < j THEN p[k] ELSE p[k + 1]
  <2>1. q[k] = IF k <= j - 1 THEN a[k] ELSE b[k - (j - 1)]
    BY <1>1, <1>2, <1>3, <1>4, <1>5
  <2>2. CASE k < j
    BY <1>1, <1>2, <2>1, <2>2
  <2>3. CASE ~(k < j)
    <3>1. k - (j - 1) \in 1..(Len(p) - j) /\ (k - (j - 1)) + j = k + 1
      BY <1>1, <2>3
    <3> QED BY <1>1, <1>3, <2>1, <2>3, <3>1
  <2> QED BY <2>2, <2>3
<1> QED BY <1>6, <1>7 DEF q

-----------------------------------------------------------------------------
(* Lists of commands.                                                      *)

\* p is a sequence of commands, and those that show a reading have a row.
Shows(p, rows) ==
  /\ \E S : p \in Seq(S)
  /\ \A k \in DOMAIN p : /\ p[k] \in [uplink: Ids, copy: {p[k].copy},
                                      op: {"set", "publish", "config"}]
                         /\ p[k].op # "config" => p[k].uplink \in rows

LEMMA EmptyShows == ASSUME NEW rows PROVE Shows(<<>>, rows)
<1>1. <<>> \in Seq({})
  OBVIOUS
<1> QED BY <1>1 DEF Shows

LEMMA MoreRowsShow ==
  ASSUME NEW p, NEW rows, NEW more, Shows(p, rows), rows \subseteq more
  PROVE  Shows(p, more)
BY DEF Shows

LEMMA AppendShows ==
  ASSUME NEW p, NEW rows, NEW i \in Ids, NEW n, NEW o \in {"set", "publish", "config"},
         Shows(p, rows), o # "config" => i \in rows
  PROVE  Shows(Append(p, [uplink |-> i, copy |-> n, op |-> o]), rows)
<1> DEFINE c == [uplink |-> i, copy |-> n, op |-> o]
<1>1. PICK S : p \in Seq(S)
  BY DEF Shows
<1>2. /\ Append(p, c) \in Seq(S \cup {c})
      /\ DOMAIN Append(p, c) = 1..(Len(p) + 1) /\ Len(p) \in Nat /\ DOMAIN p = 1..Len(p)
      /\ \A k \in 1..Len(p) : Append(p, c)[k] = p[k]
      /\ Append(p, c)[Len(p) + 1] = c
  <2> HIDE DEF c
  <2>1. p \in Seq(S \cup {c})
    BY <1>1
  <2> QED BY <2>1
<1>3. /\ c \in [uplink: Ids, copy: {c.copy}, op: {"set", "publish", "config"}]
      /\ c.op = o /\ c.uplink = i
  OBVIOUS
<1> HIDE DEF c
<1>4. ASSUME NEW k \in DOMAIN Append(p, c)
      PROVE  /\ Append(p, c)[k] \in [uplink: Ids, copy: {Append(p, c)[k].copy},
                                     op: {"set", "publish", "config"}]
             /\ Append(p, c)[k].op # "config" => Append(p, c)[k].uplink \in rows
  <2>1. CASE k = Len(p) + 1
    BY <2>1, <1>2, <1>3
  <2>2. CASE k \in 1..Len(p)
    <3>1. Append(p, c)[k] = p[k] /\ k \in DOMAIN p
      BY <2>2, <1>2
    <3> QED BY <3>1 DEF Shows
  <2> QED BY <1>2, <2>1, <2>2
<1>5. Shows(Append(p, c), rows)
  BY <1>2, <1>4 DEF Shows
<1> QED BY <1>5 DEF c

LEMMA TailShows ==
  ASSUME NEW p, NEW rows, Shows(p, rows), p # <<>>
  PROVE  Shows(Tail(p), rows) /\ 1 \in DOMAIN p /\ Head(p) = p[1]
<1>1. PICK S : p \in Seq(S)
  BY DEF Shows
<1>2. /\ Tail(p) \in Seq(S) /\ 1 \in DOMAIN p /\ Head(p) = p[1]
      /\ \A k \in DOMAIN Tail(p) : k + 1 \in DOMAIN p /\ Tail(p)[k] = p[k + 1]
  BY <1>1
<1> QED BY <1>2 DEF Shows

LEMMA RemoveShows ==
  ASSUME NEW p, NEW rows, Shows(p, rows), NEW j \in DOMAIN p
  PROVE  Shows(RemoveAt(p, j), rows)
<1> DEFINE q == RemoveAt(p, j)
<1>1. PICK S : p \in Seq(S)
  BY DEF Shows
<1>2. /\ q \in Seq(S) /\ Len(q) = Len(p) - 1
      /\ \A k \in 1..(Len(p) - 1) : q[k] = IF k < j THEN p[k] ELSE p[k + 1]
  BY <1>1, RemoveAtFacts
<1>3. Len(p) \in Nat /\ DOMAIN p = 1..Len(p) /\ DOMAIN q = 1..(Len(p) - 1)
  BY <1>1, <1>2
<1> HIDE DEF q
<1>4. \A k \in DOMAIN q : \E m \in DOMAIN p : q[k] = p[m]
  BY <1>2, <1>3
<1>5. Shows(q, rows)
  BY <1>2, <1>4 DEF Shows
<1> QED BY <1>5 DEF q

LEMMA OrphanShows ==
  ASSUME NEW p, NEW rows, NEW t, Shows(p, rows)
  PROVE  Shows([k \in DOMAIN p |-> IF Awaits(t, p[k]) THEN [p[k] EXCEPT !.copy = 0]
                                                      ELSE p[k]], rows)
<1> DEFINE E(k) == IF Awaits(t, p[k]) THEN [p[k] EXCEPT !.copy = 0] ELSE p[k]
           q == [k \in DOMAIN p |-> E(k)]
<1>1. PICK S : p \in Seq(S)
  BY DEF Shows
<1>2. q \in Seq({E(k) : k \in DOMAIN p})
  <2>1. Len(p) \in Nat /\ DOMAIN p = 1..Len(p)
    BY <1>1
  <2> HIDE DEF E
  <2> QED BY <2>1
<1>3. ASSUME NEW k \in DOMAIN p
      PROVE  /\ E(k) \in [uplink: Ids, copy: {E(k).copy}, op: {"set", "publish", "config"}]
             /\ E(k).op # "config" => E(k).uplink \in rows
  <2>1. /\ p[k] \in [uplink: Ids, copy: {p[k].copy}, op: {"set", "publish", "config"}]
        /\ p[k].op # "config" => p[k].uplink \in rows
    BY DEF Shows
  <2>2. CASE Awaits(t, p[k])
    <3>1. E(k) = [p[k] EXCEPT !.copy = 0]
      BY <2>2
    <3> HIDE DEF E
    <3>2. /\ E(k) \in [uplink: Ids, copy: {0}, op: {"set", "publish", "config"}]
          /\ E(k).op = p[k].op /\ E(k).uplink = p[k].uplink /\ E(k).copy = 0
      BY <3>1, <2>1
    <3> QED BY <3>2, <2>1
  <2>3. CASE ~Awaits(t, p[k])
    BY <2>1, <2>3
  <2> QED BY <2>2, <2>3
<1> HIDE DEF E
<1>4. DOMAIN q = DOMAIN p /\ \A k \in DOMAIN p : q[k] = E(k)
  OBVIOUS
<1> HIDE DEF q
<1>5. Shows(q, rows)
  BY <1>2, <1>3, <1>4 DEF Shows
<1> QED BY <1>5 DEF q, E

-----------------------------------------------------------------------------
(* What is shown is stored.                                                *)

Steps == {"insert", "set", "publish", "config"}

\* The broker holds uplinks, and counts those it has delivered.
BrokerInv == /\ published \in 0..Len(Uplinks)
             /\ queue \in Seq(Ids) /\ inFlight \in 0..Len(queue)

\* A handler that inserts has a complete reading.
HandlersInv == \A t \in tasks : /\ t \in [uplink: Ids, copy: {t.copy}, at: Steps]
                                /\ t.at = "insert" => t.uplink \in OfKind("reading")

\* The cache shows one reading for a device, or none.
CacheInv == latest \in [Devices -> Ids \cup {0}]

ShownInv == BrokerInv /\ HandlersInv /\ CacheInv /\ Shows(pipe, db) /\ ShownIsPersisted

\* The parts of the invariant about the database and what is shown of it.
LEMMA RowsStep ==
  ASSUME CacheInv, ShownIsPersisted, NEW rows \in SUBSET OfKind("reading"),
         db' = db \cup rows, channel' = channel, latest' = latest
  PROVE  CacheInv' /\ ShownIsPersisted'
BY DEF CacheInv, ShownIsPersisted, Of

\* A handler's next step.
LEMMA MoveStep ==
  ASSUME HandlersInv, NEW t \in tasks, NEW at \in Steps \ {"insert"},
         NEW u \in MoveTo(t, at)
  PROVE  /\ u \in [uplink: Ids, copy: {u.copy}, at: Steps]
         /\ u.at = "insert" => u.uplink \in OfKind("reading")
<1>1. CASE u \in tasks
  BY <1>1 DEF HandlersInv
<1>2. CASE u = [t EXCEPT !.at = at]
  <2>1. t \in [uplink: Ids, copy: {t.copy}, at: Steps]
    BY DEF HandlersInv
  <2>2. u \in [uplink: Ids, copy: {t.copy}, at: Steps] /\ u.at = at /\ u.copy = t.copy
    BY <1>2, <2>1 DEF Steps
  <2> QED BY <2>2
<1> QED BY <1>1, <1>2 DEF MoveTo

\* A handler that starts issues at most one command, and none that shows a reading.
LEMMA StartStep ==
  ASSUME HandlersInv, Shows(pipe, db), NEW i \in Ids, StartHandler(i)
  PROVE  HandlersInv' /\ Shows(pipe', db)
<1>1. CASE Complete(i)
  <2> DEFINE n == NewTask(i, "insert")
  <2>1. n.uplink = i /\ n.at = "insert" /\ n \in [uplink: Ids, copy: {n.copy}, at: Steps]
    BY DEF NewTask, Steps
  <2>2. tasks' = tasks \cup {n} /\ pipe' = pipe
    BY <1>1 DEF StartHandler, Complete
  <2>3. i \in OfKind("reading")
    BY <1>1 DEF Complete, OfKind
  <2> HIDE DEF n
  <2>4. HandlersInv'
    BY <2>1, <2>2, <2>3 DEF HandlersInv
  <2> QED BY <2>2, <2>4
<1>2. CASE ~Complete(i) /\ Uplinks[i].kind = "report"
  <2> DEFINE n == NewTask(i, "config")
  <2>1. n.uplink = i /\ n.at = "config" /\ n \in [uplink: Ids, copy: {n.copy}, at: Steps]
    BY DEF NewTask, Steps
  <2>2. tasks' = tasks \cup {n} /\ pipe' = Append(pipe, CommandOf(n, "config"))
    BY <1>2 DEF StartHandler
  <2> HIDE DEF n
  <2>3. HandlersInv'
    BY <2>1, <2>2 DEF HandlersInv
  <2>4. Shows(pipe', db)
    BY <2>1, <2>2, AppendShows DEF CommandOf
  <2> QED BY <2>3, <2>4
<1>3. CASE ~Complete(i) /\ Uplinks[i].kind # "report"
  <2>1. tasks' = tasks /\ pipe' = pipe
    BY <1>3 DEF StartHandler
  <2> QED BY <2>1 DEF HandlersInv
<1> QED BY <1>1, <1>2, <1>3

LEMMA ShownInit == Init => ShownInv
<1> SUFFICES ASSUME Init PROVE ShownInv
  OBVIOUS
<1>1. BrokerInv
  BY UplinksAssumption DEF Init, BrokerInv
<1>2. Shows(pipe, db)
  BY EmptyShows DEF Init
<1>3. HandlersInv /\ CacheInv /\ ShownIsPersisted
  BY DEF Init, HandlersInv, CacheInv, ShownIsPersisted
<1> QED BY <1>1, <1>2, <1>3 DEF ShownInv

LEMMA ShownStep == ShownInv /\ [Next]_vars => ShownInv'
<1> SUFFICES ASSUME ShownInv, [Next]_vars PROVE ShownInv'
  OBVIOUS
<1>0. BrokerInv /\ HandlersInv /\ CacheInv /\ Shows(pipe, db) /\ ShownIsPersisted
  BY DEF ShownInv
<1>a. ASSUME UNCHANGED <<published, queue, inFlight>> PROVE BrokerInv'
  BY <1>0, <1>a DEF BrokerInv
<1>b. ASSUME UNCHANGED tasks PROVE HandlersInv'
  BY <1>0, <1>b DEF HandlersInv
<1>c. ASSUME UNCHANGED store PROVE CacheInv' /\ ShownIsPersisted'
  BY <1>0, <1>c DEF CacheInv, ShownIsPersisted, store
<1>d. ASSUME UNCHANGED <<pipe, db>> PROVE Shows(pipe, db)'
  BY <1>0, <1>d DEF Shows
<1>e. ASSUME NEW t, HandlerFails(t) PROVE HandlersInv'
  BY <1>0, <1>e DEF HandlersInv, HandlerFails
<1>1. CASE PublishUplink
  <2>1. BrokerInv'
    <3>1. published + 1 \in Ids /\ published' \in 0..Len(Uplinks)
      BY <1>0, <1>1, UplinksAssumption DEF PublishUplink, BrokerInv, Ids
    <3>2. /\ queue' \in Seq(Ids) /\ Len(queue') = Len(queue) + 1 /\ Len(queue) \in Nat
      BY <1>0, <1>1, <3>1 DEF PublishUplink, BrokerInv
    <3> QED BY <1>0, <1>1, <3>1, <3>2 DEF PublishUplink, BrokerInv
  <2> QED BY <1>1, <2>1, <1>b, <1>c, <1>d DEF PublishUplink, store, ShownInv
<1>2. CASE Deliver
  <2>1. queue[inFlight + 1] \in Ids /\ BrokerInv'
    <3> QED BY <1>0, <1>2 DEF Deliver, BrokerInv
  <2>2. HandlersInv' /\ Shows(pipe', db)
    BY <1>0, <1>2, <2>1, StartStep DEF Deliver
  <2> QED BY <1>2, <2>1, <2>2, <1>c DEF Deliver, store, ShownInv
<1>3. CASE Acknowledge
  <2>1. BrokerInv'
    <3> QED BY <1>0, <1>3 DEF Acknowledge, BrokerInv
  <2> QED BY <1>3, <2>1, <1>b, <1>c, <1>d DEF Acknowledge, store, ShownInv
<1>4. CASE Reconnect
  <2>1. BrokerInv'
    <3> QED BY <1>0, <1>4 DEF Reconnect, BrokerInv
  <2> QED BY <1>4, <2>1, <1>b, <1>c, <1>d DEF Reconnect, store, ShownInv
<1>5. ASSUME NEW t \in tasks, InsertDone(t) PROVE ShownInv'
  <2>1. t.uplink \in OfKind("reading") /\ t.uplink \in Ids
    BY <1>0, <1>5 DEF InsertDone, HandlersInv, OfKind
  <2>2. CacheInv' /\ ShownIsPersisted'
    BY <1>0, <1>5, <2>1, RowsStep DEF InsertDone
  <2>3. HandlersInv'
    <3>1. "set" \in Steps \ {"insert"} /\ tasks' = MoveTo(t, "set")
      BY <1>5 DEF InsertDone, Steps
    <3> QED BY <1>0, <3>1, MoveStep DEF HandlersInv
  <2>4. Shows(pipe', db')
    <3>1. Shows(pipe, db') /\ t.uplink \in db'
      BY <1>0, <1>5, MoreRowsShow DEF InsertDone
    <3> QED BY <1>5, <2>1, <3>1, AppendShows DEF InsertDone, CommandOf
  <2> QED BY <1>5, <2>2, <2>3, <2>4, <1>a DEF InsertDone, mqtt, ShownInv
<1>6. ASSUME NEW t \in tasks, InsertFails(t) PROVE ShownInv'
  <2>1. t.uplink \in OfKind("reading")
    BY <1>0, <1>6 DEF InsertFails, HandlersInv
  <2>2. PICK rows \in SUBSET {t.uplink} : db' = db \cup rows
    <3>1. db' = db \cup {} \/ db' = db \cup {t.uplink}
      BY <1>6 DEF InsertFails
    <3> QED BY <3>1
  <2>3. CacheInv' /\ ShownIsPersisted'
    BY <1>0, <1>6, <2>1, <2>2, RowsStep DEF InsertFails
  <2>4. Shows(pipe', db')
    BY <1>0, <1>6, <2>2, MoreRowsShow DEF InsertFails
  <2> QED BY <1>6, <2>3, <2>4, <1>a, <1>e DEF InsertFails, mqtt, ShownInv
<1>7. CASE RedisReplies
  <2> DEFINE c == Head(pipe)
             dev == Uplinks[c.uplink].dev
  <2>1. /\ Shows(Tail(pipe), db) /\ c.uplink \in Ids
        /\ c.op # "config" => c.uplink \in db
    <3>1. Shows(Tail(pipe), db) /\ 1 \in DOMAIN pipe /\ Head(pipe) = pipe[1]
      BY <1>0, <1>7, TailShows DEF RedisReplies
    <3> QED BY <1>0, <3>1 DEF Shows
  <2>2. CacheInv' /\ ShownIsPersisted'
    <3>1. /\ latest' = IF c.op = "set" THEN [latest EXCEPT ![dev] = c.uplink] ELSE latest
          /\ channel' = IF c.op = "publish" THEN channel \cup {c.uplink} ELSE channel
          /\ db' = db
      BY <1>7 DEF RedisReplies
    <3>2. dev \in Devices
      BY <2>1 DEF Devices
    <3>3. c.uplink \in db => c.uplink \in Of(dev, "reading")
      BY <1>0 DEF ShownIsPersisted, Of
    <3> HIDE DEF c, dev
    <3>4. CacheInv'
      BY <1>0, <2>1, <3>1, <3>2 DEF CacheInv
    <3>5. channel' \subseteq db'
      BY <1>0, <2>1, <3>1 DEF ShownIsPersisted
    <3>6. ASSUME NEW d \in Devices
          PROVE  latest'[d] \in {0} \cup (db' \cap Of(d, "reading"))
      <4>1. CASE c.op = "set" /\ d = dev
        <5>1. latest'[d] = c.uplink
          BY <1>0, <3>1, <3>2, <4>1 DEF CacheInv
        <5> QED BY <5>1, <4>1, <3>1, <3>3, <2>1
      <4>2. CASE ~(c.op = "set" /\ d = dev)
        <5>1. latest'[d] = latest[d]
          BY <1>0, <3>1, <4>2 DEF CacheInv
        <5> QED BY <1>0, <5>1, <3>1 DEF ShownIsPersisted
      <4> QED BY <4>1, <4>2
    <3> QED BY <1>0, <3>1, <3>4, <3>5, <3>6 DEF ShownIsPersisted
  <2>3. HandlersInv'
    <3>1. CASE c.op = "set" /\ c.copy # 0
      <4>1. tasks' = UNION {MoveTo(t, "publish") : t \in Waiting(c)}
        BY <1>7, <3>1 DEF RedisReplies
      <4>2. "publish" \in Steps \ {"insert"} /\ Waiting(c) \subseteq tasks
        BY DEF Steps, Waiting
      <4> HIDE DEF c
      <4>3. ASSUME NEW u \in tasks'
            PROVE  /\ u \in [uplink: Ids, copy: {u.copy}, at: Steps]
                   /\ u.at = "insert" => u.uplink \in OfKind("reading")
        <5>1. PICK t \in Waiting(c) : u \in MoveTo(t, "publish")
          BY <4>1
        <5> QED BY <1>0, <4>2, <5>1, MoveStep
      <4> QED BY <4>3 DEF HandlersInv
    <3>2. CASE ~(c.op = "set" /\ c.copy # 0)
      <4>1. tasks' \subseteq tasks
        BY <1>7, <3>2 DEF RedisReplies
      <4> QED BY <1>0, <4>1 DEF HandlersInv
    <3> QED BY <3>1, <3>2
  <2>4. Shows(pipe', db')
    <3>1. CASE c.op = "set" /\ c.copy # 0
      <4>1. /\ pipe' = Append(Tail(pipe), CommandOf(c, "publish"))
            /\ db' = db
        BY <1>7, <3>1 DEF RedisReplies
      <4>2. c.uplink \in db
        BY <2>1, <3>1
      <4> HIDE DEF c
      <4> QED BY <4>1, <4>2, <2>1, AppendShows DEF CommandOf
    <3>2. CASE ~(c.op = "set" /\ c.copy # 0)
      <4>1. pipe' = Tail(pipe) /\ db' = db
        BY <1>7, <3>2 DEF RedisReplies
      <4> QED BY <4>1, <2>1
    <3> QED BY <3>1, <3>2
  <2> QED BY <1>7, <2>2, <2>3, <2>4, <1>a DEF RedisReplies, mqtt, ShownInv
<1>8. ASSUME NEW t \in tasks, RedisTimeout(t) PROVE ShownInv'
  <2>1. Shows(pipe', db)
    <3>1. CASE pipe' = [k \in DOMAIN pipe |->
                 IF Awaits(t, pipe[k]) THEN [pipe[k] EXCEPT !.copy = 0] ELSE pipe[k]]
      BY <1>0, <3>1, OrphanShows
    <3>2. CASE \E k \in DOMAIN pipe : pipe' = RemoveAt(pipe, k)
      BY <1>0, <3>2, RemoveShows
    <3> QED BY <1>8, <3>1, <3>2 DEF RedisTimeout
  <2> QED BY <1>8, <2>1, <1>a, <1>c, <1>e DEF RedisTimeout, mqtt, store, ShownInv
<1>9. ASSUME NEW d \in Devices, LatestExpires(d) PROVE ShownInv'
  <2>1. latest' = [latest EXCEPT ![d] = 0] /\ db' = db /\ channel' = channel
    BY <1>9 DEF LatestExpires
  <2>2. CacheInv' /\ ShownIsPersisted'
    BY <1>0, <2>1 DEF CacheInv, ShownIsPersisted
  <2> QED BY <1>9, <2>2, <1>a, <1>b, <1>d DEF LatestExpires, mqtt, ShownInv
<1>10. CASE Crash
  <2>1. PICK committed \in SUBSET {t.uplink : t \in {u \in tasks : u.at = "insert"}} :
          db' = db \cup committed
    BY <1>10 DEF Crash
  <2>2. committed \subseteq OfKind("reading")
    BY <1>0 DEF HandlersInv
  <2>3. CacheInv' /\ ShownIsPersisted'
    BY <1>0, <1>10, <2>1, <2>2, RowsStep DEF Crash
  <2>4. Shows(pipe', db') /\ HandlersInv'
    BY <1>10, EmptyShows DEF Crash, HandlersInv
  <2>5. BrokerInv'
    <3> QED BY <1>0, <1>10 DEF Crash, BrokerInv
  <2> QED BY <2>3, <2>4, <2>5 DEF ShownInv
<1>11. CASE Restart
  BY <1>11, <1>a, <1>b, <1>c, <1>d DEF Restart, mqtt, store, ShownInv
<1>12. CASE UNCHANGED vars
  BY <1>12, <1>a, <1>b, <1>c, <1>d DEF vars, mqtt, store, ShownInv
<1> QED BY <1>1, <1>2, <1>3, <1>4, <1>5, <1>6, <1>7, <1>8, <1>9, <1>10, <1>11, <1>12
        DEF Next, Replies

(* Whatever is delivered twice, times out or dies half-way, the cache and  *)
(* the channel show complete readings of the right node that have a row:   *)
(* the order of the steps of handleUplink (ingestion.service.ts:147-193).  *)
THEOREM ShownPersists == Spec => []ShownIsPersisted
<1>1. ShownInv => ShownIsPersisted
  BY DEF ShownInv
<1> QED BY <1>1, ShownInit, ShownStep, PTL DEF Spec

-----------------------------------------------------------------------------
(* Handlers and the commands they wait for.                                *)

\* Two handlers are never mistaken for each other; a command that a handler
\* has not given up on belongs to one handler, which waits for it alone.
Owned(T, p) ==
  /\ T \subseteq Task /\ \A t, u \in T : Awaits(t, u) => t = u
  /\ p \in Seq(Command)
  /\ \A k \in DOMAIN p : p[k].copy # 0 =>
       /\ \E t \in T : Awaits(t, p[k]) /\ t.at = p[k].op
       /\ \A m \in DOMAIN p : Awaits(p[k], p[m]) => m = k

\* No command of p belongs to t.
Idle(t, p) == \A k \in DOMAIN p : ~Awaits(t, p[k])

LEMMA StartOwned ==
  ASSUME NEW T, NEW p, Owned(T, p), NEW t \in Task, \A u \in T : ~Awaits(u, t)
  PROVE  Owned(T \cup {t}, p) /\ Idle(t, p)
<1>1. t.copy # 0
  BY DEF Task, Copies
<1>2. ASSUME NEW u \in T, Awaits(t, u) PROVE FALSE
  BY <1>2 DEF Awaits
<1>3. \A u, v \in T \cup {t} : Awaits(u, v) => u = v
  BY <1>2 DEF Owned
<1>4. Owned(T \cup {t}, p)
  BY <1>3 DEF Owned
<1>5. ASSUME NEW k \in DOMAIN p, Awaits(t, p[k]) PROVE FALSE
  <2>1. PICK u \in T : Awaits(u, p[k])
    BY <1>1, <1>5 DEF Owned, Awaits
  <2> QED BY <1>5, <2>1 DEF Awaits
<1> QED BY <1>4, <1>5 DEF Idle

LEMMA IssueOwned ==
  ASSUME NEW T, NEW p, Owned(T, p), NEW t \in T, Idle(t, p), t.at # "insert"
  PROVE  Owned(T, Append(p, CommandOf(t, t.at)))
<1> DEFINE c == CommandOf(t, t.at)
           q == Append(p, c)
<1>1. t \in Task
  BY DEF Owned
<1>2. c \in Command /\ c.copy = t.copy /\ c.uplink = t.uplink /\ c.op = t.at
  BY <1>1 DEF CommandOf, Command, Task
<1> HIDE DEF c
<1>3. /\ q \in Seq(Command) /\ Len(p) \in Nat /\ DOMAIN p = 1..Len(p)
      /\ DOMAIN q = 1..(Len(p) + 1)
      /\ \A k \in 1..Len(p) : q[k] = p[k]
      /\ q[Len(p) + 1] = c
  BY <1>2 DEF Owned
<1> HIDE DEF q
<1>4. ASSUME NEW k \in DOMAIN q, q[k].copy # 0
      PROVE  /\ \E u \in T : Awaits(u, q[k]) /\ u.at = q[k].op
             /\ \A m \in DOMAIN q : Awaits(q[k], q[m]) => m = k
  <2>1. CASE k = Len(p) + 1
    <3>1. Awaits(t, q[k]) /\ t.at = q[k].op
      BY <1>2, <1>3, <2>1 DEF Awaits
    <3>2. ASSUME NEW m \in DOMAIN q, Awaits(q[k], q[m]), m # k PROVE FALSE
      <4>1. m \in DOMAIN p /\ q[m] = p[m]
        BY <1>3, <2>1, <3>2
      <4> QED BY <3>1, <3>2, <4>1 DEF Idle, Awaits
    <3> QED BY <3>1, <3>2
  <2>2. CASE k \in 1..Len(p)
    <3>1. k \in DOMAIN p /\ q[k] = p[k]
      BY <1>3, <2>2
    <3>2. \E u \in T : Awaits(u, q[k]) /\ u.at = q[k].op
      BY <1>4, <3>1 DEF Owned
    <3>3. ASSUME NEW m \in DOMAIN q, Awaits(q[k], q[m]) PROVE m = k
      <4>1. CASE m = Len(p) + 1
        BY <1>2, <1>3, <3>1, <3>3, <4>1 DEF Idle, Awaits
      <4>2. CASE m \in 1..Len(p)
        <5>1. m \in DOMAIN p /\ q[m] = p[m]
          BY <1>3, <4>2
        <5> QED BY <1>4, <3>1, <3>3, <5>1 DEF Owned
      <4> QED BY <1>3, <4>1, <4>2
    <3> QED BY <3>2, <3>3
  <2> QED BY <1>3, <2>1, <2>2
<1> QED BY <1>3, <1>4 DEF Owned, q, c

\* A handler without commands leaves.
LEMMA LeaveOwned ==
  ASSUME NEW T, NEW p, Owned(T, p), NEW t \in T, Idle(t, p)
  PROVE  Owned(T \ {t}, p)
BY DEF Owned, Idle

\* A handler without commands goes on to issue one.
LEMMA MoveOwned ==
  ASSUME NEW T, NEW p, Owned(T, p), NEW t \in T, Idle(t, p), NEW at \in {"set", "publish"}
  PROVE  Owned((T \ {t}) \cup {[t EXCEPT !.at = at]}, Append(p, CommandOf(t, at)))
<1> DEFINE u == [t EXCEPT !.at = at]
<1>1. t \in Task
  BY DEF Owned
<1>2. u \in Task /\ u.at = at /\ u.uplink = t.uplink /\ u.copy = t.copy
  BY <1>1 DEF Task
<1> HIDE DEF u
<1>3. Owned(T \ {t}, p)
  BY LeaveOwned
<1>4. \A v \in T \ {t} : ~Awaits(v, u)
  BY <1>2 DEF Owned, Awaits
<1>5. Owned((T \ {t}) \cup {u}, p) /\ Idle(u, p)
  BY <1>2, <1>3, <1>4, StartOwned
<1>6. Owned((T \ {t}) \cup {u}, Append(p, CommandOf(u, u.at)))
  BY <1>2, <1>5, IssueOwned
<1>7. CommandOf(u, u.at) = CommandOf(t, at)
  BY <1>2 DEF CommandOf
<1> QED BY <1>6, <1>7 DEF u

\* Redis takes the oldest command.
LEMMA TakeOwned ==
  ASSUME NEW T, NEW p, Owned(T, p), p # <<>>
  PROVE  /\ Owned(T, Tail(p)) /\ Head(p) \in Command
         /\ \A t \in T : Awaits(t, Head(p)) => t.at = Head(p).op /\ Idle(t, Tail(p))
         /\ Head(p).copy # 0 => \E t \in T : Awaits(t, Head(p))
<1>1. /\ p \in Seq(Command) /\ Tail(p) \in Seq(Command)
      /\ 1 \in DOMAIN p /\ Head(p) = p[1] /\ Head(p) \in Command
      /\ \A k \in DOMAIN Tail(p) : k + 1 \in DOMAIN p /\ Tail(p)[k] = p[k + 1]
      /\ \A k \in DOMAIN Tail(p) : k \in Nat /\ k # 0
  BY DEF Owned
<1>2. ASSUME NEW k \in DOMAIN Tail(p), Tail(p)[k].copy # 0
      PROVE  /\ \E t \in T : Awaits(t, Tail(p)[k]) /\ t.at = Tail(p)[k].op
             /\ \A m \in DOMAIN Tail(p) : Awaits(Tail(p)[k], Tail(p)[m]) => m = k
  <2>1. \E t \in T : Awaits(t, Tail(p)[k]) /\ t.at = Tail(p)[k].op
    BY <1>1, <1>2 DEF Owned
  <2>2. ASSUME NEW m \in DOMAIN Tail(p), Awaits(Tail(p)[k], Tail(p)[m]) PROVE m = k
    <3>1. Awaits(p[k + 1], p[m + 1]) /\ p[k + 1].copy # 0
      BY <1>1, <1>2, <2>2
    <3>2. m + 1 = k + 1
      BY <1>1, <3>1 DEF Owned
    <3> QED BY <1>1, <3>2
  <2> QED BY <2>1, <2>2
<1>3. Owned(T, Tail(p))
  BY <1>1, <1>2 DEF Owned
<1>4. ASSUME NEW t \in T, Awaits(t, Head(p))
      PROVE  t.at = Head(p).op /\ Idle(t, Tail(p))
  <2>1. t.copy # 0 /\ p[1].copy # 0
    BY <1>1, <1>4 DEF Owned, Task, Copies, Awaits
  <2>2. PICK u \in T : Awaits(u, p[1]) /\ u.at = p[1].op
    BY <1>1, <2>1 DEF Owned
  <2>3. u = t
    BY <1>1, <1>4, <2>2 DEF Owned, Awaits
  <2>4. ASSUME NEW k \in DOMAIN Tail(p), Awaits(t, Tail(p)[k]) PROVE FALSE
    <3>1. Awaits(p[1], p[k + 1]) /\ k + 1 \in DOMAIN p
      BY <1>1, <1>4, <2>4 DEF Awaits
    <3>2. k + 1 = 1
      BY <1>1, <2>1, <3>1 DEF Owned
    <3> QED BY <1>1, <3>2
  <2> QED BY <1>1, <2>2, <2>3, <2>4 DEF Idle
<1>5. Head(p).copy # 0 => \E t \in T : Awaits(t, Head(p))
  BY <1>1 DEF Owned
<1> QED BY <1>1, <1>3, <1>4, <1>5

\* A handler gives up: its command is withdrawn ...
LEMMA WithdrawOwned ==
  ASSUME NEW T, NEW p, Owned(T, p), NEW t \in T, NEW j \in DOMAIN p, Awaits(t, p[j])
  PROVE  Owned(T \ {t}, RemoveAt(p, j))
<1> DEFINE q == RemoveAt(p, j)
           F(k) == IF k < j THEN k ELSE k + 1
<1>1. /\ q \in Seq(Command) /\ Len(q) = Len(p) - 1
      /\ \A k \in 1..(Len(p) - 1) : q[k] = IF k < j THEN p[k] ELSE p[k + 1]
  BY RemoveAtFacts DEF Owned
<1>2. Len(p) \in Nat /\ DOMAIN p = 1..Len(p) /\ DOMAIN q = 1..(Len(p) - 1) /\ j \in 1..Len(p)
  BY <1>1 DEF Owned
<1> HIDE DEF q
<1>3. \A k \in DOMAIN q : F(k) \in DOMAIN p /\ F(k) # j /\ q[k] = p[F(k)]
  BY <1>1, <1>2
<1>4. \A k, m \in DOMAIN q : F(k) = F(m) => k = m
  BY <1>2
<1> HIDE DEF F
<1>5. t.copy # 0 /\ p[j].copy # 0
  BY DEF Owned, Task, Copies, Awaits
<1>6. Idle(t, q)
  <2> SUFFICES ASSUME NEW k \in DOMAIN q, Awaits(t, q[k]) PROVE FALSE
    BY DEF Idle
  <2>1. Awaits(p[j], p[F(k)])
    BY <1>3 DEF Awaits
  <2> QED BY <1>3, <1>5, <2>1 DEF Owned
<1>7. Owned(T, q)
  <2>1. ASSUME NEW k \in DOMAIN q, q[k].copy # 0
        PROVE  /\ \E u \in T : Awaits(u, q[k]) /\ u.at = q[k].op
               /\ \A m \in DOMAIN q : Awaits(q[k], q[m]) => m = k
    <3>1. \E u \in T : Awaits(u, q[k]) /\ u.at = q[k].op
      BY <1>3, <2>1 DEF Owned
    <3>2. ASSUME NEW m \in DOMAIN q, Awaits(q[k], q[m]) PROVE m = k
      <4>1. F(m) = F(k)
        BY <1>3, <2>1, <3>2 DEF Owned
      <4> QED BY <1>4, <4>1
    <3> QED BY <3>1, <3>2
  <2> QED BY <1>1, <2>1 DEF Owned
<1> QED BY <1>6, <1>7, LeaveOwned DEF q

\* ... or stays in the client's queue, and nobody waits for it.
LEMMA OrphanOwned ==
  ASSUME NEW T, NEW p, Owned(T, p), NEW t \in T
  PROVE  Owned(T \ {t}, [k \in DOMAIN p |->
                 IF Awaits(t, p[k]) THEN [p[k] EXCEPT !.copy = 0] ELSE p[k]])
<1> DEFINE E(k) == IF Awaits(t, p[k]) THEN [p[k] EXCEPT !.copy = 0] ELSE p[k]
           q == [k \in DOMAIN p |-> E(k)]
<1>1. \A k \in DOMAIN p : p[k] \in Command
  BY DEF Owned
<1>2. ASSUME NEW k \in DOMAIN p
      PROVE  E(k) \in Command /\ (E(k).copy # 0 => E(k) = p[k] /\ ~Awaits(t, p[k]))
  BY <1>1 DEF Command
<1> HIDE DEF E
<1>3. DOMAIN q = DOMAIN p /\ \A k \in DOMAIN p : q[k] = E(k)
  OBVIOUS
<1>4. q \in Seq(Command)
  <2>1. Len(p) \in Nat /\ DOMAIN p = 1..Len(p)
    BY DEF Owned
  <2> QED BY <1>2, <2>1
<1> HIDE DEF q
<1>5. ASSUME NEW k \in DOMAIN q, q[k].copy # 0
      PROVE  /\ \E u \in T \ {t} : Awaits(u, q[k]) /\ u.at = q[k].op
             /\ \A m \in DOMAIN q : Awaits(q[k], q[m]) => m = k
  <2>1. k \in DOMAIN p /\ q[k] = p[k] /\ ~Awaits(t, p[k])
    BY <1>2, <1>3, <1>5
  <2>2. \E u \in T \ {t} : Awaits(u, q[k]) /\ u.at = q[k].op
    BY <1>5, <2>1 DEF Owned
  <2>3. ASSUME NEW m \in DOMAIN q, Awaits(q[k], q[m]) PROVE m = k
    <3>1. m \in DOMAIN p /\ q[m].copy # 0
      BY <1>3, <1>5, <2>3 DEF Awaits
    <3>2. q[m] = p[m]
      BY <1>2, <1>3, <3>1
    <3> QED BY <1>5, <2>1, <2>3, <3>1, <3>2 DEF Owned
  <2> QED BY <2>2, <2>3
<1>6. Owned(T \ {t}, q)
  BY <1>4, <1>5 DEF Owned
<1> QED BY <1>6 DEF q, E

-----------------------------------------------------------------------------
(* The broker's queue.                                                     *)

\* The last uplink that the connection has delivered.
Frontier == published - Len(queue) + inFlight

\* The queue holds the last uplinks published, in order.
QueueInv ==
  /\ BrokerInv
  /\ \A k \in 1..Len(queue) : queue[k] = published - Len(queue) + k
  /\ reconnects \in 0..MaxReconnects /\ crashes \in 0..MaxCrashes /\ errors \in 0..MaxErrors

LEMMA QueueInit == Init => QueueInv
BY UplinksAssumption, BoundsAssumption DEF Init, QueueInv, BrokerInv

LEMMA QueueFacts ==
  ASSUME QueueInv
  PROVE  /\ published \in 0..Len(Uplinks) /\ Len(Uplinks) \in Nat /\ Ids = 1..Len(Uplinks)
         /\ queue \in Seq(Ids) /\ Len(queue) \in Nat /\ inFlight \in 0..Len(queue)
         /\ \A k \in 1..Len(queue) : queue[k] = published - Len(queue) + k
         /\ reconnects \in 0..MaxReconnects /\ crashes \in 0..MaxCrashes
         /\ errors \in 0..MaxErrors
         /\ MaxReconnects \in Nat /\ MaxCrashes \in Nat /\ MaxErrors \in Nat
         /\ Frontier \in Int
<1>1. /\ published \in 0..Len(Uplinks) /\ Len(Uplinks) \in Nat
      /\ queue \in Seq(Ids) /\ Len(queue) \in Nat /\ inFlight \in 0..Len(queue)
  BY UplinksAssumption DEF QueueInv, BrokerInv
<1>2. Frontier \in Int
  BY <1>1 DEF Frontier
<1> QED BY <1>1, <1>2, UplinksAssumption, BoundsAssumption DEF QueueInv, Ids

\* Only what the arithmetic of the queue needs.
LEMMA QueueCounts ==
  ASSUME QueueInv
  PROVE  /\ published \in Nat /\ Len(queue) \in Nat
         /\ inFlight \in Nat /\ inFlight <= Len(queue)
         /\ reconnects \in Nat /\ crashes \in Nat
         /\ Frontier = published - Len(queue) + inFlight
<1>1. /\ published \in 0..Len(Uplinks) /\ Len(queue) \in Nat /\ inFlight \in 0..Len(queue)
      /\ reconnects \in 0..MaxReconnects /\ crashes \in 0..MaxCrashes
  BY QueueFacts
<1> QED BY <1>1 DEF Frontier

\* A delivery moves the frontier to the uplink delivered ...
LEMMA DeliverMoves ==
  ASSUME QueueInv, Deliver
  PROVE  /\ Frontier' = Frontier + 1 /\ queue[inFlight + 1] = Frontier + 1
         /\ Frontier + 1 \in Ids /\ QueueInv' /\ UNCHANGED <<reconnects, crashes>>
<1>1. /\ inFlight < Len(queue) /\ inFlight' = inFlight + 1
      /\ UNCHANGED <<published, queue, reconnects, crashes, errors>>
  BY DEF Deliver
<1>2. Frontier' = Frontier + 1 /\ queue[inFlight + 1] = Frontier + 1
  <2>1. Frontier' = published - Len(queue) + (inFlight + 1)
    BY <1>1 DEF Frontier
  <2>2. inFlight + 1 \in 1..Len(queue)
    BY <1>1, QueueCounts
  <2>3. queue[inFlight + 1] = published - Len(queue) + (inFlight + 1)
    BY <2>2, QueueFacts
  <2> QED BY <2>1, <2>3, QueueCounts
<1>3. queue[inFlight + 1] \in Ids
  BY <1>1, QueueFacts
<1>4. BrokerInv'
  BY <1>1, QueueFacts DEF BrokerInv
<1> QED BY <1>1, <1>2, <1>3, <1>4 DEF QueueInv

\* ... and a lost connection moves it back.
LEMMA BackMoves ==
  ASSUME QueueInv, Reconnect \/ Crash
  PROVE  /\ QueueInv' /\ Frontier' <= Frontier /\ Frontier' \in Int
         /\ reconnects' + crashes' = reconnects + crashes + 1
<1>1. /\ inFlight' = 0 /\ UNCHANGED <<published, queue, errors>>
      /\ \/ reconnects < MaxReconnects /\ reconnects' = reconnects + 1 /\ crashes' = crashes
         \/ crashes < MaxCrashes /\ crashes' = crashes + 1 /\ reconnects' = reconnects
  BY DEF Reconnect, Crash
<1>2. Frontier' <= Frontier /\ Frontier' \in Int
  <2>1. Frontier' = published - Len(queue)
    BY <1>1, QueueCounts DEF Frontier
  <2> QED BY <2>1, QueueCounts
<1>3. BrokerInv'
  BY <1>1, QueueFacts DEF BrokerInv
<1>4. reconnects' + crashes' = reconnects + crashes + 1
  BY <1>1, QueueCounts
<1>5. reconnects' \in 0..MaxReconnects /\ crashes' \in 0..MaxCrashes /\ errors' \in 0..MaxErrors
  <2>1. /\ reconnects \in 0..MaxReconnects /\ crashes \in 0..MaxCrashes /\ errors \in 0..MaxErrors
        /\ MaxReconnects \in Nat /\ MaxCrashes \in Nat
    BY QueueFacts
  <2> QED BY <1>1, <2>1
<1>6. \A k \in 1..Len(queue') : queue'[k] = published' - Len(queue') + k
  BY <1>1, QueueFacts
<1> QED BY <1>2, <1>3, <1>4, <1>5, <1>6 DEF QueueInv

\* Nothing else moves it.
LEMMA PublishStays ==
  ASSUME QueueInv, PublishUplink
  PROVE  QueueInv' /\ Frontier' = Frontier /\ Len(queue') = Len(queue) + 1
<1>1. UNCHANGED <<inFlight, reconnects, crashes, errors>>
  BY DEF PublishUplink
<1>2. published + 1 \in Ids /\ published' = published + 1 /\ published + 1 <= Len(Uplinks)
  BY QueueFacts DEF PublishUplink
<1>3. /\ queue' \in Seq(Ids) /\ Len(queue') = Len(queue) + 1
      /\ queue'[Len(queue) + 1] = published + 1
      /\ \A k \in 1..Len(queue) : queue'[k] = queue[k]
  BY <1>2, QueueFacts DEF PublishUplink
<1>4. ASSUME NEW k \in 1..Len(queue') PROVE queue'[k] = published' - Len(queue') + k
  <2>1. published \in Int /\ Len(queue) \in Nat
    BY QueueFacts
  <2>2. CASE k = Len(queue) + 1
    BY <1>2, <1>3, <2>1, <2>2
  <2>3. CASE k \in 1..Len(queue)
    <3>1. queue'[k] = published - Len(queue) + k
      BY <1>3, <2>3, QueueFacts
    <3> QED BY <1>2, <1>3, <2>1, <2>3, <3>1
  <2> QED BY <1>3, <2>1, <2>2, <2>3
<1>5. BrokerInv'
  BY <1>1, <1>2, <1>3, QueueFacts DEF BrokerInv
<1>6. Frontier' = Frontier
  BY <1>1, <1>2, <1>3, QueueFacts DEF Frontier
<1> QED BY <1>1, <1>3, <1>4, <1>5, <1>6 DEF QueueInv

LEMMA AcknowledgeStays ==
  ASSUME QueueInv, Acknowledge
  PROVE  QueueInv' /\ Frontier' = Frontier
<1>1. /\ inFlight > 0 /\ inFlight' = inFlight - 1 /\ queue' = Tail(queue)
      /\ UNCHANGED <<published, reconnects, crashes, errors>>
  BY DEF Acknowledge
<1>2. /\ queue' \in Seq(Ids) /\ Len(queue') = Len(queue) - 1
      /\ \A k \in 1..Len(queue') : queue'[k] = queue[k + 1]
  BY <1>1, QueueFacts
<1>3. ASSUME NEW k \in 1..Len(queue') PROVE queue'[k] = published' - Len(queue') + k
  <2>1. k + 1 \in 1..Len(queue) /\ k \in Int
    BY <1>2, QueueCounts
  <2>2. queue'[k] = published - Len(queue) + (k + 1)
    BY <1>2, <2>1, QueueFacts
  <2>3. published' = published /\ Len(queue') = Len(queue) - 1
    BY <1>1, <1>2
  <2>4. published - Len(queue) + (k + 1) = published - (Len(queue) - 1) + k
    BY <2>1, QueueCounts
  <2> QED BY <2>2, <2>3, <2>4, Zenon
<1>4. BrokerInv' /\ Frontier' = Frontier
  BY <1>1, <1>2, QueueFacts DEF BrokerInv, Frontier
<1> QED BY <1>1, <1>3, <1>4 DEF QueueInv

LEMMA MqttStays ==
  ASSUME QueueInv, UNCHANGED <<published, queue, inFlight, reconnects, crashes>>,
         errors' = errors \/ \E t : HandlerFails(t)
  PROVE  QueueInv' /\ Frontier' = Frontier
<1>1. errors' \in 0..MaxErrors
  BY QueueFacts DEF HandlerFails
<1>2. BrokerInv' /\ Frontier' = Frontier
  BY DEF QueueInv, BrokerInv, Frontier
<1> QED BY <1>1, <1>2 DEF QueueInv

\* What an action of the handlers, of Redis or of the process leaves alone.
OffMqtt == \/ Replies \/ \E t \in tasks : InsertFails(t) \/ RedisTimeout(t)
           \/ RedisReplies \/ \E d \in Devices : LatestExpires(d)
           \/ Restart \/ UNCHANGED vars

LEMMA OffMqttStays == ASSUME QueueInv, OffMqtt
                      PROVE  /\ QueueInv' /\ Frontier' = Frontier
                             /\ UNCHANGED <<published, queue, inFlight, reconnects, crashes>>
<1>1. UNCHANGED <<published, queue, inFlight, reconnects, crashes>>
  BY DEF OffMqtt, Replies, InsertDone, InsertFails, RedisTimeout, RedisReplies, LatestExpires,
         Restart, vars, mqtt
<1>2. errors' = errors \/ \E t : HandlerFails(t)
  BY DEF OffMqtt, Replies, InsertDone, InsertFails, RedisTimeout, RedisReplies, LatestExpires,
         Restart, vars
<1> QED BY <1>1, <1>2, MqttStays

LEMMA QueueStep == QueueInv /\ [Next]_vars => QueueInv'
<1> SUFFICES ASSUME QueueInv, [Next]_vars PROVE QueueInv'
  OBVIOUS
<1>1. PublishUplink \/ Deliver \/ Acknowledge \/ Reconnect \/ Crash \/ OffMqtt
  BY DEF Next, OffMqtt
<1> QED BY <1>1, PublishStays, DeliverMoves, AcknowledgeStays, BackMoves, OffMqttStays

-----------------------------------------------------------------------------
(* Handlers of the same uplink are told apart.                             *)

\* An uplink is delivered once, and once more for every connection lost: its
\* handlers have that many copies at most, and one fewer before a delivery.
CopiesInv ==
  \A t \in tasks : /\ t.copy <= reconnects + crashes + 1
                   /\ t.uplink > Frontier => t.copy <= reconnects + crashes

\* A handler awaits the reply to the command of its step; a report's handler
\* is at "config" and a reading's never.
StepInv == \A t \in tasks : Uplinks[t.uplink].kind = IF t.at = "config" THEN "report"
                                                                        ELSE "reading"

TaskInv == QueueInv /\ CopiesInv /\ Owned(tasks, pipe) /\ StepInv

\* What is beyond the frontier after a delivery was beyond it before.
LEMMA FrontierAhead ==
  ASSUME QueueInv, Deliver, NEW n \in Int, n > Frontier'
  PROVE  n > Frontier
<1>1. Frontier \in Int /\ Frontier' = Frontier + 1
  BY QueueFacts, DeliverMoves
<1> QED BY <1>1

\* There is a copy left for a handler that starts.
LEMMA NewTaskFacts ==
  ASSUME TaskInv, NEW i \in Ids, i > Frontier, NEW at \in {"insert", "config"}
  PROVE  LET t == NewTask(i, at) IN
         /\ t \in Task /\ t.uplink = i /\ t.at = at
         /\ t.copy <= reconnects + crashes + 1
         /\ \A u \in tasks : ~Awaits(u, t)
<1> DEFINE N == reconnects + crashes + 1
           Free(n) == \A t \in tasks : t.uplink = i => t.copy # n
           Least(n) == Free(n) /\ \A m \in 1..(n - 1) : \E t \in tasks : t.uplink = i /\ t.copy = m
           S == {n \in Copies : Free(n)}
           n0 == CHOOSE n \in Copies : Least(n)
<1>1. /\ N \in Copies /\ N \in Nat /\ Copies \subseteq Nat \ {0}
      /\ \A n \in Nat : 0 < n /\ n <= N => n \in Copies
  <2>1. /\ reconnects \in 0..MaxReconnects /\ crashes \in 0..MaxCrashes
        /\ MaxReconnects \in Nat /\ MaxCrashes \in Nat
    BY QueueFacts DEF TaskInv
  <2> QED BY <2>1 DEF Copies
<1>2. Free(N)
  <2> SUFFICES ASSUME NEW t \in tasks, t.uplink = i, t.copy = N PROVE FALSE
    OBVIOUS
  <2>1. N <= reconnects + crashes
    BY DEF TaskInv, CopiesInv
  <2> QED BY <2>1, QueueCounts DEF TaskInv
<1>3. PICK m \in S : \A n \in S : m <= n
  BY <1>1, <1>2, LeastNatural
<1>4. Least(m)
  <2> SUFFICES ASSUME NEW k \in 1..(m - 1) PROVE ~Free(k)
    BY <1>3
  <2>1. m \in Nat /\ m <= N /\ k \in Nat /\ 0 < k /\ k < m
    BY <1>1, <1>2, <1>3
  <2>2. k \in Copies
    BY <1>1, <2>1
  <2>3. k \notin S
    BY <1>3, <2>1
  <2> QED BY <2>2, <2>3
<1>5. n0 \in Copies /\ Least(n0)
  BY <1>3, <1>4
<1>6. NewTask(i, at) = [uplink |-> i, at |-> at, copy |-> n0]
  BY DEF NewTask
<1> HIDE DEF n0
<1>7. n0 <= N
  <2> SUFFICES ASSUME n0 > N PROVE FALSE
    BY <1>1, <1>5
  <2>1. N \in 1..(n0 - 1)
    BY <1>1, <1>5, QueueCounts DEF TaskInv
  <2> QED BY <1>2, <1>5, <2>1
<1> DEFINE t == NewTask(i, at)
<1>8. t \in Task /\ t.uplink = i /\ t.at = at /\ t.copy = n0
  BY <1>5, <1>6 DEF Task
<1> HIDE DEF t
<1>9. \A u \in tasks : ~Awaits(u, t)
  BY <1>5, <1>8 DEF Awaits
<1> QED BY <1>7, <1>8, <1>9 DEF t

\* What RedisReplies does: either nobody waits for the command any more, or
\* one handler does, and it ends or goes on to publish.
LEMMA RepliesFacts ==
  ASSUME Owned(tasks, pipe), RedisReplies
  PROVE  \/ tasks' = tasks /\ pipe' = Tail(pipe)
         \/ \E t \in tasks :
              /\ Awaits(t, Head(pipe)) /\ t.at = Head(pipe).op /\ Idle(t, Tail(pipe))
              /\ \/ /\ t.at = "set" /\ tasks' = MoveTo(t, "publish")
                    /\ pipe' = Append(Tail(pipe), CommandOf(t, "publish"))
                 \/ t.at # "set" /\ tasks' = tasks \ {t} /\ pipe' = Tail(pipe)
<1> DEFINE c == Head(pipe)
<1>1. /\ c \in Command
      /\ \A t \in tasks : Awaits(t, c) => t.at = c.op /\ Idle(t, Tail(pipe))
      /\ c.copy # 0 => \E t \in tasks : Awaits(t, c)
  BY TakeOwned DEF RedisReplies
<1>2. IF c.op = "set" /\ c.copy # 0
        THEN /\ tasks' = UNION {MoveTo(t, "publish") : t \in Waiting(c)}
             /\ pipe' = Append(Tail(pipe), CommandOf(c, "publish"))
        ELSE tasks' = tasks \ Waiting(c) /\ pipe' = Tail(pipe)
  BY DEF RedisReplies
<1> HIDE DEF c
<1>3. CASE c.copy = 0
  <2>1. \A t \in tasks : t.copy # 0
    BY DEF Owned, Task, Copies
  <2>2. Waiting(c) = {}
    BY <1>3, <2>1 DEF Waiting, Awaits
  <2> QED BY <1>2, <1>3, <2>2
<1>4. CASE c.copy # 0
  <2>1. PICK t \in tasks : Awaits(t, c)
    BY <1>1, <1>4
  <2>2. Waiting(c) = {t}
    BY <2>1 DEF Waiting, Awaits, Owned
  <2>3. t.at = c.op /\ Idle(t, Tail(pipe)) /\ CommandOf(c, "publish") = CommandOf(t, "publish")
    BY <1>1, <2>1 DEF CommandOf, Awaits
  <2>4. CASE c.op = "set"
    <3>1. tasks' = MoveTo(t, "publish")
      BY <1>2, <1>4, <2>2, <2>4
    <3> QED BY <1>2, <1>4, <2>1, <2>3, <2>4, <3>1 DEF c
  <2>5. CASE c.op # "set"
    BY <1>2, <2>1, <2>2, <2>3, <2>5 DEF c
  <2> QED BY <2>4, <2>5
<1> QED BY <1>3, <1>4

\* A handler that inserts has no command yet.
LEMMA InsertingIsIdle ==
  ASSUME NEW T, NEW p, Owned(T, p), NEW t \in T, t.at = "insert"
  PROVE  Idle(t, p)
<1> SUFFICES ASSUME NEW k \in DOMAIN p, Awaits(t, p[k]) PROVE FALSE
  BY DEF Idle
<1>1. t \in Task /\ p[k] \in Command
  BY DEF Owned
<1>2. p[k].op # "insert" /\ t.copy # 0
  BY <1>1 DEF Task, Command, Copies
<1>3. PICK u \in T : Awaits(u, p[k]) /\ u.at = p[k].op
  BY <1>2 DEF Owned, Awaits
<1>4. u = t
  BY <1>3 DEF Owned, Awaits
<1> QED BY <1>2, <1>3, <1>4

\* Handlers that do not start keep their uplink and copy.
LEMMA CopiesKept ==
  ASSUME CopiesInv, Frontier' = Frontier, UNCHANGED <<reconnects, crashes>>,
         \A u \in tasks' : \E t \in tasks : u.uplink = t.uplink /\ u.copy = t.copy
  PROVE  CopiesInv'
BY DEF CopiesInv

\* A handler's step keeps its uplink and copy.
LEMMA MoveKeeps ==
  ASSUME Owned(tasks, pipe), StepInv, NEW t \in tasks, t.at # "config",
         NEW at \in {"set", "publish"}, tasks' = MoveTo(t, at)
  PROVE  /\ StepInv'
         /\ \A u \in tasks' : \E v \in tasks : u.uplink = v.uplink /\ u.copy = v.copy
<1> DEFINE n == [t EXCEPT !.at = at]
<1>1. t \in Task
  BY DEF Owned
<1>2. n.uplink = t.uplink /\ n.copy = t.copy /\ n.at = at
  BY <1>1 DEF Task
<1>3. tasks' = (tasks \ {t}) \cup {n}
  BY DEF MoveTo
<1> HIDE DEF n
<1>4. Uplinks[t.uplink].kind = "reading"
  BY DEF StepInv
<1> QED BY <1>2, <1>3, <1>4 DEF StepInv

LEMMA FewerSteps ==
  ASSUME StepInv, tasks' \subseteq tasks
  PROVE  /\ StepInv'
         /\ \A u \in tasks' : \E v \in tasks : u.uplink = v.uplink /\ u.copy = v.copy
BY DEF StepInv

LEMMA TaskInit == Init => TaskInv
<1> SUFFICES ASSUME Init PROVE TaskInv
  OBVIOUS
<1>1. <<>> \in Seq(Command)
  OBVIOUS
<1>2. Owned(tasks, pipe)
  BY <1>1 DEF Init, Owned
<1> QED BY <1>2, QueueInit DEF Init, TaskInv, CopiesInv, StepInv

LEMMA TaskStep == TaskInv /\ [Next]_vars => TaskInv'
<1> SUFFICES ASSUME TaskInv, [Next]_vars PROVE TaskInv'
  OBVIOUS
<1>0. QueueInv /\ CopiesInv /\ Owned(tasks, pipe) /\ StepInv /\ QueueInv'
  BY QueueStep DEF TaskInv
<1>a. ASSUME UNCHANGED <<tasks, pipe>>, Frontier' = Frontier, UNCHANGED <<reconnects, crashes>>
      PROVE  TaskInv'
  BY <1>0, <1>a DEF TaskInv, CopiesInv, StepInv
<1>b. ASSUME OffMqtt, NEW t \in tasks, tasks' = tasks \ {t}, Owned(tasks', pipe') PROVE TaskInv'
  BY <1>0, <1>b, OffMqttStays, CopiesKept, FewerSteps DEF TaskInv
<1>1. CASE PublishUplink
  BY <1>0, <1>1, <1>a, PublishStays DEF PublishUplink
<1>2. CASE Deliver
  <2> DEFINE i == Frontier + 1
  <2>1. i \in Ids /\ i > Frontier /\ i = queue[inFlight + 1] /\ Frontier' = i
        /\ UNCHANGED <<reconnects, crashes>>
    BY <1>0, <1>2, DeliverMoves, QueueFacts
  <2> HIDE DEF i
  <2>2. StartHandler(i)
    BY <1>2, <2>1 DEF Deliver
  <2>3. \A t \in tasks : t.copy <= reconnects + crashes + 1
    BY <1>0 DEF CopiesInv
  <2>4. ASSUME NEW at \in {"insert", "config"}, tasks' = tasks \cup {NewTask(i, at)},
               Uplinks[i].kind = IF at = "config" THEN "report" ELSE "reading"
        PROVE  CopiesInv' /\ StepInv' /\ Owned(tasks', pipe) /\ Idle(NewTask(i, at), pipe)
    <3> DEFINE t == NewTask(i, at)
    <3>1. /\ t \in Task /\ t.uplink = i /\ t.at = at
          /\ t.copy <= reconnects + crashes + 1
          /\ \A u \in tasks : ~Awaits(u, t)
      BY <2>1, NewTaskFacts
    <3> HIDE DEF t
    <3>2. tasks' = tasks \cup {t}
      BY <2>4 DEF t
    <3>3. Owned(tasks', pipe) /\ Idle(t, pipe)
      BY <1>0, <3>1, <3>2, StartOwned
    <3>4. StepInv'
      BY <1>0, <2>4, <3>1, <3>2 DEF StepInv
    <3>5. ASSUME NEW u \in tasks'
          PROVE  /\ u.copy <= reconnects' + crashes' + 1
                 /\ u.uplink > Frontier' => u.copy <= reconnects' + crashes'
      <4>1. CASE u = t
        <5>1. ~(u.uplink > Frontier')
          BY <2>1, <3>1, <4>1, <1>0, QueueFacts
        <5> QED BY <2>1, <3>1, <4>1, <5>1
      <4>2. CASE u \in tasks
        <5>1. u.uplink \in Int
          BY <1>0, <4>2, QueueFacts DEF Owned, Task
        <5>2. u.uplink > Frontier' => u.uplink > Frontier
          BY <1>0, <1>2, <5>1, FrontierAhead
        <5> QED BY <1>0, <2>1, <4>2, <5>2 DEF CopiesInv
      <4> QED BY <3>2, <4>1, <4>2
    <3> QED BY <3>3, <3>4, <3>5 DEF CopiesInv, t
  <2>5. CASE Complete(i)
    <3>1. tasks' = tasks \cup {NewTask(i, "insert")} /\ pipe' = pipe
      BY <2>2, <2>5 DEF StartHandler, Complete
    <3>2. Uplinks[i].kind = "reading"
      BY <2>5 DEF Complete
    <3> QED BY <1>0, <2>4, <3>1, <3>2 DEF TaskInv
  <2>6. CASE ~Complete(i) /\ Uplinks[i].kind = "report"
    <3> DEFINE t == NewTask(i, "config")
    <3>1. tasks' = tasks \cup {t} /\ pipe' = Append(pipe, CommandOf(t, "config"))
      BY <2>2, <2>6 DEF StartHandler
    <3>2. CopiesInv' /\ StepInv' /\ Owned(tasks', pipe) /\ Idle(t, pipe)
      BY <2>4, <2>6, <3>1
    <3>3. t.at = "config" /\ t \in tasks'
      BY <3>1 DEF NewTask
    <3> HIDE DEF t
    <3>4. Owned(tasks', Append(pipe, CommandOf(t, t.at)))
      BY <3>2, <3>3, IssueOwned
    <3> QED BY <1>0, <3>1, <3>2, <3>3, <3>4 DEF TaskInv
  <2>7. CASE ~Complete(i) /\ Uplinks[i].kind # "report"
    <3>1. tasks' = tasks /\ pipe' = pipe
      BY <2>2, <2>7 DEF StartHandler
    <3>2. CopiesInv'
      <4> SUFFICES ASSUME NEW u \in tasks
                   PROVE  /\ u.copy <= reconnects + crashes + 1
                          /\ u.uplink > Frontier' => u.copy <= reconnects + crashes
        BY <2>1, <3>1 DEF CopiesInv
      <4>1. u.uplink \in Int
        BY <1>0, QueueFacts DEF Owned, Task
      <4>2. u.uplink > Frontier' => u.uplink > Frontier
        BY <1>0, <1>2, <4>1, FrontierAhead
      <4> QED BY <1>0, <4>2 DEF CopiesInv
    <3> QED BY <1>0, <3>1, <3>2 DEF TaskInv, StepInv
  <2> QED BY <2>5, <2>6, <2>7
<1>3. CASE Acknowledge
  BY <1>0, <1>3, <1>a, AcknowledgeStays DEF Acknowledge
<1>4. CASE Reconnect
  <2>1. tasks' = tasks /\ pipe' = pipe
    BY <1>4 DEF Reconnect
  <2>2. reconnects' + crashes' = reconnects + crashes + 1
    BY <1>0, <1>4, BackMoves
  <2>3. CopiesInv'
    <3> SUFFICES ASSUME NEW u \in tasks PROVE u.copy <= reconnects + crashes + 1 /\ u.copy \in Int
      BY <1>0, <2>1, <2>2, QueueCounts DEF CopiesInv
    <3> QED BY <1>0 DEF CopiesInv, Owned, Task, Copies
  <2> QED BY <1>0, <2>1, <2>3 DEF TaskInv, StepInv
<1>5. ASSUME NEW t \in tasks, InsertDone(t) PROVE TaskInv'
  <2>1. /\ t.at = "insert" /\ tasks' = MoveTo(t, "set")
        /\ pipe' = Append(pipe, CommandOf(t, "set"))
    BY <1>5 DEF InsertDone
  <2>2. Idle(t, pipe)
    BY <1>0, <2>1, InsertingIsIdle
  <2>3. Owned(tasks', pipe')
    BY <1>0, <2>1, <2>2, MoveOwned DEF MoveTo
  <2>4. OffMqtt
    BY <1>5 DEF OffMqtt, Replies
  <2> QED BY <1>0, <2>1, <2>3, <2>4, OffMqttStays, MoveKeeps, CopiesKept DEF TaskInv
<1>6. ASSUME NEW t \in tasks, InsertFails(t) PROVE TaskInv'
  <2>1. t.at = "insert" /\ tasks' = tasks \ {t} /\ pipe' = pipe
    BY <1>6 DEF InsertFails, HandlerFails
  <2>2. Idle(t, pipe)
    BY <1>0, <2>1, InsertingIsIdle
  <2>3. Owned(tasks', pipe')
    BY <1>0, <2>1, <2>2, LeaveOwned
  <2>4. OffMqtt
    BY <1>6 DEF OffMqtt
  <2> QED BY <2>1, <2>3, <2>4, <1>b
<1>7. CASE RedisReplies
  <2>1. OffMqtt /\ Owned(tasks, Tail(pipe))
    BY <1>0, <1>7, TakeOwned DEF OffMqtt, RedisReplies
  <2>2. CASE tasks' = tasks /\ pipe' = Tail(pipe)
    <3>1. CopiesInv' /\ StepInv'
      BY <1>0, <2>1, <2>2, OffMqttStays DEF CopiesInv, StepInv
    <3> QED BY <1>0, <2>1, <2>2, <3>1 DEF TaskInv
  <2>3. ASSUME NEW t \in tasks, Idle(t, Tail(pipe)), t.at = "set", tasks' = MoveTo(t, "publish"),
               pipe' = Append(Tail(pipe), CommandOf(t, "publish"))
        PROVE  TaskInv'
    <3>1. Owned(tasks', pipe')
      BY <2>1, <2>3, MoveOwned DEF MoveTo
    <3> QED BY <1>0, <2>1, <2>3, <3>1, OffMqttStays, MoveKeeps, CopiesKept DEF TaskInv
  <2>4. ASSUME NEW t \in tasks, Idle(t, Tail(pipe)), tasks' = tasks \ {t}, pipe' = Tail(pipe)
        PROVE  TaskInv'
    <3>1. Owned(tasks', pipe')
      BY <2>1, <2>4, LeaveOwned
    <3> QED BY <2>1, <2>4, <3>1, <1>b
  <2> QED BY <1>0, <1>7, <2>2, <2>3, <2>4, RepliesFacts
<1>8. ASSUME NEW t \in tasks, RedisTimeout(t) PROVE TaskInv'
  <2>1. tasks' = tasks \ {t} /\ OffMqtt
    BY <1>8 DEF RedisTimeout, HandlerFails, OffMqtt
  <2>2. Owned(tasks', pipe')
    <3>1. CASE pipe' = [k \in DOMAIN pipe |->
                 IF Awaits(t, pipe[k]) THEN [pipe[k] EXCEPT !.copy = 0] ELSE pipe[k]]
      BY <1>0, <2>1, <3>1, OrphanOwned
    <3>2. CASE \E k \in DOMAIN pipe : Awaits(t, pipe[k]) /\ pipe' = RemoveAt(pipe, k)
      BY <1>0, <2>1, <3>2, WithdrawOwned
    <3> QED BY <1>8, <3>1, <3>2 DEF RedisTimeout
  <2> QED BY <2>1, <2>2, <1>b
<1>9. ASSUME NEW d \in Devices, LatestExpires(d) PROVE TaskInv'
  <2>1. OffMqtt /\ UNCHANGED <<tasks, pipe>>
    BY <1>9 DEF LatestExpires, OffMqtt
  <2> QED BY <1>0, <1>a, <2>1, OffMqttStays
<1>10. CASE Crash
  <2>1. tasks' = {} /\ pipe' = <<>>
    BY <1>10 DEF Crash
  <2>2. <<>> \in Seq(Command)
    OBVIOUS
  <2>3. Owned(tasks', pipe')
    BY <2>1, <2>2 DEF Owned
  <2> QED BY <1>0, <2>1, <2>3 DEF TaskInv, CopiesInv, StepInv
<1>11. CASE Restart \/ UNCHANGED vars
  <2>1. OffMqtt /\ UNCHANGED <<tasks, pipe>>
    BY <1>11 DEF Restart, OffMqtt, vars
  <2> QED BY <1>0, <1>a, <2>1, OffMqttStays
<1> QED BY <1>1, <1>2, <1>3, <1>4, <1>5, <1>6, <1>7, <1>8, <1>9, <1>10, <1>11
        DEF Next, Replies

-----------------------------------------------------------------------------
(* Types.                                                                  *)

RestInv == /\ up \in BOOLEAN /\ dropped \subseteq Ids /\ lost \subseteq Ids
           /\ config \in [Devices -> Ids \cup {0}]

LEMMA RestStep == TaskInv /\ RestInv /\ [Next]_vars => RestInv'
<1> SUFFICES ASSUME TaskInv, RestInv, [Next]_vars PROVE RestInv'
  OBVIOUS
<1>0. /\ \A t \in tasks : t.uplink \in Ids
      /\ \A k \in DOMAIN pipe : pipe[k] \in Command
  BY DEF TaskInv, Owned, Task
<1>a. ASSUME UNCHANGED <<up, dropped, lost, config>> PROVE RestInv'
  BY <1>a DEF RestInv
<1>b. ASSUME NEW t \in tasks, HandlerFails(t), UNCHANGED <<up, lost, config>> PROVE RestInv'
  BY <1>0, <1>b DEF RestInv, HandlerFails
<1>1. CASE PublishUplink
  BY <1>1, <1>a DEF PublishUplink, store
<1>2. CASE Deliver
  <2>1. dropped' \subseteq Ids
    BY <1>2 DEF Deliver, StartHandler, RestInv, OfKind
  <2> QED BY <1>2, <2>1 DEF Deliver, RestInv, store
<1>3. CASE Acknowledge
  BY <1>3, <1>a DEF Acknowledge, store
<1>4. CASE Reconnect
  BY <1>4, <1>a DEF Reconnect, store
<1>5. ASSUME NEW t \in tasks, InsertDone(t) PROVE RestInv'
  BY <1>5, <1>a DEF InsertDone
<1>6. ASSUME NEW t \in tasks, InsertFails(t) PROVE RestInv'
  BY <1>6, <1>b DEF InsertFails, mqtt
<1>7. CASE RedisReplies
  <2>1. pipe # <<>> /\ config' = ConfigAfter(Head(pipe)) /\ UNCHANGED <<up, dropped, lost>>
    BY <1>7 DEF RedisReplies
  <2>2. Head(pipe) \in Command
    BY <2>1, TakeOwned DEF TaskInv
  <2>3. Head(pipe).uplink \in Ids /\ Uplinks[Head(pipe).uplink].dev \in Devices
    BY <2>2 DEF Command, Devices
  <2>4. config' \in [Devices -> Ids \cup {0}]
    BY <2>1, <2>3 DEF ConfigAfter, RestInv
  <2> QED BY <2>1, <2>4 DEF RestInv
<1>8. ASSUME NEW t \in tasks, RedisTimeout(t) PROVE RestInv'
  BY <1>8, <1>b DEF RedisTimeout, store
<1>9. ASSUME NEW d \in Devices, LatestExpires(d) PROVE RestInv'
  BY <1>9, <1>a DEF LatestExpires
<1>10. CASE Crash
  <2>1. lost' = lost \cup {t.uplink : t \in tasks} /\ up' = FALSE /\ UNCHANGED <<dropped, config>>
    BY <1>10 DEF Crash
  <2> QED BY <1>0, <2>1 DEF RestInv
<1>11. CASE Restart
  BY <1>11 DEF Restart, RestInv, store
<1>12. CASE UNCHANGED vars
  BY <1>12, <1>a DEF vars
<1> QED BY <1>1, <1>2, <1>3, <1>4, <1>5, <1>6, <1>7, <1>8, <1>9, <1>10, <1>11, <1>12
        DEF Next, Replies

(* The broker delivers no more than it holds, Redis never answers a        *)
(* handler that is not waiting, and a command answers one handler: two     *)
(* handlers of an uplink delivered twice are never mistaken for each other *)
(* (client.on('message'), ingestion.service.ts:97-101).                    *)
THEOREM TypesHold == Spec => []TypeOK
<1>1. Init => RestInv
  BY DEF Init, RestInv
<1>2. TaskInv /\ ShownInv /\ RestInv => TypeOK
  <2> SUFFICES ASSUME TaskInv, ShownInv, RestInv PROVE TypeOK
    OBVIOUS
  <2>1. db \subseteq Ids /\ channel \subseteq Ids /\ latest \in [Devices -> Ids \cup {0}]
    BY DEF ShownInv, ShownIsPersisted, CacheInv, OfKind
  <2>2. /\ tasks \subseteq Task /\ pipe \in Seq(Command)
        /\ \A t, u \in tasks : Awaits(t, u) => t = u
    BY DEF TaskInv, Owned
  <2> QED BY <2>1, <2>2, QueueFacts DEF TypeOK, RestInv, TaskInv
<1> QED BY <1>1, <1>2, TaskInit, TaskStep, ShownInit, ShownStep, RestStep, PTL DEF Spec

-----------------------------------------------------------------------------
(* No reading disappears.                                                  *)

\* What may have become of a reading that was delivered.
Traced(i) == Handling(i) \/ (i \in db /\ i \in channel) \/ i \in dropped \/ i \in lost

\* The broker holds what is published and not acknowledged, and what it has
\* delivered has left a trace.
TraceInv == \A i \in OfKind("reading") : i <= Frontier => Traced(i)

\* A trace stays as long as the handlers that leave account for themselves.
LEMMA TraceStays ==
  ASSUME NEW i, Traced(i), db \subseteq db', channel \subseteq channel',
         dropped \subseteq dropped', lost \subseteq lost',
         \A t \in tasks : t.uplink = i =>
            \/ \E u \in tasks' : u.uplink = i
            \/ i \in dropped' \cup lost' \/ i \in db' \cap channel'
  PROVE  Traced(i)'
BY DEF Traced, Handling

LEMMA TraceStep == TaskInv /\ ShownInv /\ TraceInv /\ [Next]_vars => TraceInv'
<1> SUFFICES ASSUME TaskInv, ShownInv, TraceInv, [Next]_vars PROVE TraceInv'
  OBVIOUS
<1>0. /\ QueueInv /\ Owned(tasks, pipe) /\ StepInv
      /\ OfKind("reading") \subseteq Int /\ Frontier \in Int
      /\ \A t \in tasks : t \in Task
  BY QueueFacts DEF TaskInv, OfKind, Owned
<1>a. ASSUME Frontier' <= Frontier, Frontier' \in Int,
             \A i \in OfKind("reading") : Traced(i) => Traced(i)'
      PROVE  TraceInv'
  <2> SUFFICES ASSUME NEW i \in OfKind("reading"), i <= Frontier' PROVE Traced(i)'
    BY DEF TraceInv
  <2>1. i <= Frontier
    BY <1>0, <1>a
  <2> QED BY <1>a, <2>1 DEF TraceInv
<1>b. ASSUME Frontier' = Frontier, UNCHANGED <<tasks, db, channel, dropped, lost>>
      PROVE  TraceInv'
  BY <1>b DEF TraceInv, Traced, Handling
<1>c. ASSUME OffMqtt, NEW t \in tasks, tasks' = tasks \ {t}, db \subseteq db',
             channel \subseteq channel', dropped' = dropped \cup {t.uplink}, lost' = lost
      PROVE  TraceInv'
  <2>1. \A i \in OfKind("reading") : Traced(i) => Traced(i)'
    BY <1>c DEF Traced, Handling
  <2> QED BY <1>0, <1>a, <1>c, <2>1, OffMqttStays
<1>d. ASSUME OffMqtt, NEW t \in tasks, NEW at \in {"set", "publish"}, tasks' = MoveTo(t, at),
             db \subseteq db', channel \subseteq channel', dropped' = dropped, lost' = lost
      PROVE  TraceInv'
  <2> DEFINE n == [t EXCEPT !.at = at]
  <2>1. n.uplink = t.uplink
    BY <1>0 DEF Task
  <2>2. tasks' = (tasks \ {t}) \cup {n}
    BY <1>d DEF MoveTo
  <2> HIDE DEF n
  <2>3. \A i \in OfKind("reading") : Traced(i) => Traced(i)'
    BY <1>d, <2>1, <2>2 DEF Traced, Handling
  <2> QED BY <1>0, <1>a, <1>d, <2>3, OffMqttStays
<1>1. CASE PublishUplink
  BY <1>0, <1>1, <1>b, PublishStays DEF PublishUplink, store
<1>2. CASE Deliver
  <2>1. PICK j \in Ids : j = queue[inFlight + 1] /\ Frontier' = j /\ j = Frontier + 1
    BY <1>0, <1>2, DeliverMoves
  <2>2. StartHandler(j) /\ UNCHANGED <<db, channel, lost>>
    BY <1>2, <2>1 DEF Deliver, store
  <2>3. tasks \subseteq tasks' /\ dropped \subseteq dropped'
    BY <2>2 DEF StartHandler
  <2>4. \A i \in OfKind("reading") : Traced(i) => Traced(i)'
    BY <2>2, <2>3 DEF Traced, Handling
  <2>5. j \in OfKind("reading") => Traced(j)'
    <3> SUFFICES ASSUME j \in OfKind("reading") PROVE Handling(j)'
      BY DEF Traced
    <3>1. Complete(j)
      BY DEF OfKind, Complete
    <3>2. tasks' = tasks \cup {NewTask(j, "insert")}
      BY <2>2, <3>1 DEF StartHandler, Complete
    <3>3. NewTask(j, "insert").uplink = j
      BY DEF NewTask
    <3> QED BY <3>2, <3>3 DEF Handling
  <2>6. ASSUME NEW i \in OfKind("reading"), i <= Frontier' PROVE Traced(i)'
    <3>1. i <= Frontier \/ i = j
      <4>1. i \in Int /\ Frontier \in Int /\ i <= Frontier + 1
        BY <1>0, <2>1, <2>6
      <4> QED BY <2>1, <4>1
    <3> QED BY <2>4, <2>5, <3>1 DEF TraceInv
  <2> QED BY <2>6 DEF TraceInv
<1>3. CASE Acknowledge
  BY <1>0, <1>3, <1>b, AcknowledgeStays DEF Acknowledge, store
<1>4. CASE Reconnect
  <2>1. UNCHANGED <<tasks, db, channel, dropped, lost>>
    BY <1>4 DEF Reconnect, store
  <2>2. Frontier' <= Frontier /\ Frontier' \in Int
    BY <1>0, <1>4, BackMoves
  <2>3. \A i \in OfKind("reading") : Traced(i) => Traced(i)'
    BY <2>1 DEF Traced, Handling
  <2> QED BY <1>a, <2>2, <2>3
<1>5. ASSUME NEW t \in tasks, InsertDone(t) PROVE TraceInv'
  <2>1. OffMqtt
    BY <1>5 DEF OffMqtt, Replies
  <2> QED BY <1>5, <1>d, <2>1 DEF InsertDone
<1>6. ASSUME NEW t \in tasks, InsertFails(t) PROVE TraceInv'
  <2>1. OffMqtt
    BY <1>6 DEF OffMqtt
  <2> QED BY <1>6, <1>c, <2>1 DEF InsertFails, HandlerFails
<1>7. CASE RedisReplies
  <2> DEFINE c == Head(pipe)
  <2>1. /\ db' = db /\ channel \subseteq channel' /\ dropped' = dropped /\ lost' = lost
        /\ c.op = "publish" => c.uplink \in channel'
        /\ OffMqtt /\ pipe # <<>>
    BY <1>7 DEF RedisReplies, OffMqtt
  <2>2. c.op = "publish" => c.uplink \in db
    <3>1. 1 \in DOMAIN pipe /\ c = pipe[1]
      BY <2>1, TailShows DEF ShownInv
    <3> HIDE DEF c
    <3> QED BY <3>1 DEF ShownInv, Shows
  <2> HIDE DEF c
  <2>3. CASE tasks' = tasks
    <3>1. \A i \in OfKind("reading") : Traced(i) => Traced(i)'
      BY <2>1, <2>3 DEF Traced, Handling
    <3> QED BY <1>0, <1>a, <2>1, <3>1, OffMqttStays
  <2>4. ASSUME NEW t \in tasks, t.at = "set", tasks' = MoveTo(t, "publish") PROVE TraceInv'
    BY <1>d, <2>1, <2>4
  <2>5. ASSUME NEW t \in tasks, Awaits(t, c), t.at = c.op, t.at # "set", tasks' = tasks \ {t}
        PROVE  TraceInv'
    <3>1. c.uplink = t.uplink
      BY <2>5 DEF Awaits
    <3>2. c.op \in {"set", "publish", "config"}
      BY <1>0, <2>1, TakeOwned DEF Command, c
    <3>3. CASE c.op = "config"
      <4>1. t.uplink \notin OfKind("reading")
        BY <1>0, <2>5, <3>3 DEF StepInv, OfKind
      <4>2. \A i \in OfKind("reading") : Traced(i) => Traced(i)'
        BY <2>1, <2>5, <4>1 DEF Traced, Handling
      <4> QED BY <1>0, <1>a, <2>1, <4>2, OffMqttStays
    <3>4. CASE c.op = "publish"
      <4>1. t.uplink \in db' /\ t.uplink \in channel'
        BY <2>1, <2>2, <3>1, <3>4
      <4>2. \A i \in OfKind("reading") : Traced(i) => Traced(i)'
        BY <2>1, <2>5, <4>1 DEF Traced, Handling
      <4> QED BY <1>0, <1>a, <2>1, <4>2, OffMqttStays
    <3> QED BY <2>5, <3>2, <3>3, <3>4
  <2> QED BY <1>0, <1>7, <2>3, <2>4, <2>5, RepliesFacts DEF c
<1>8. ASSUME NEW t \in tasks, RedisTimeout(t) PROVE TraceInv'
  <2>1. OffMqtt
    BY <1>8 DEF OffMqtt
  <2> QED BY <1>8, <1>c, <2>1 DEF RedisTimeout, HandlerFails, store
<1>9. ASSUME NEW d \in Devices, LatestExpires(d) PROVE TraceInv'
  <2>1. OffMqtt
    BY <1>9 DEF OffMqtt
  <2> QED BY <1>0, <1>9, <1>b, <2>1, OffMqttStays DEF LatestExpires
<1>10. CASE Crash
  <2>1. lost' = lost \cup {t.uplink : t \in tasks} /\ db \subseteq db'
        /\ channel' = channel /\ dropped' = dropped
    BY <1>10 DEF Crash
  <2>2. Frontier' <= Frontier /\ Frontier' \in Int
    BY <1>0, <1>10, BackMoves
  <2>3. \A i \in OfKind("reading") : Traced(i) => Traced(i)'
    BY <2>1 DEF Traced, Handling
  <2> QED BY <1>a, <2>2, <2>3
<1>11. CASE Restart \/ UNCHANGED vars
  <2>1. OffMqtt /\ UNCHANGED <<tasks, db, channel, dropped, lost>>
    BY <1>11 DEF Restart, OffMqtt, vars, store
  <2> QED BY <1>0, <1>b, <2>1, OffMqttStays
<1> QED BY <1>1, <1>2, <1>3, <1>4, <1>5, <1>6, <1>7, <1>8, <1>9, <1>10, <1>11
        DEF Next, Replies

(* No reading disappears without a trace: until the broker lets go of it   *)
(* it is in its queue, and then a handler has it, or it is stored and      *)
(* broadcast, or counted as dropped, or its handler died with the process  *)
(* (clean: false and QoS 1, ingestion.service.ts:81-103; every catch       *)
(* counts, :187-192).                                                      *)
THEOREM NothingLostSilently == Spec => []NoSilentLoss
<1>1. Init => TraceInv
  <2> SUFFICES ASSUME Init, NEW i \in OfKind("reading"), i <= Frontier PROVE FALSE
    BY DEF TraceInv
  <2>1. Frontier = 0
    <3>1. published = 0 /\ inFlight = 0 /\ Len(queue) = 0
      BY DEF Init
    <3> QED BY <3>1 DEF Frontier
  <2>2. i \in Nat \ {0}
    BY UplinksAssumption DEF OfKind, Ids
  <2> QED BY <2>1, <2>2
<1>2. TaskInv /\ TraceInv => NoSilentLoss
  <2> SUFFICES ASSUME TaskInv, TraceInv, NEW i \in OfKind("reading") \cap 1..published,
                      i \notin ToSet(queue)
               PROVE  Traced(i)
    BY DEF NoSilentLoss, Traced
  <2>1. i <= Frontier
    <3> SUFFICES ASSUME i > Frontier PROVE FALSE
      BY QueueFacts DEF TaskInv
    <3> DEFINE k == i - (published - Len(queue))
    <3>1. k \in 1..Len(queue) /\ published - Len(queue) + k = i
      BY QueueCounts DEF TaskInv
    <3> HIDE DEF k
    <3>2. queue[k] = i /\ k \in DOMAIN queue
      BY <3>1, QueueFacts DEF TaskInv
    <3> QED BY <3>2 DEF ToSet
  <2> QED BY <2>1 DEF TraceInv
<1> QED BY <1>1, <1>2, TaskInit, TaskStep, ShownInit, ShownStep, TraceStep, PTL DEF Spec

-----------------------------------------------------------------------------
(* The newest report wins.                                                 *)

\* c is a config report of the node that sent i.
ConfigFor(c, i) == c.op = "config" /\ Uplinks[c.uplink].dev = Uplinks[i].dev

\* After the first k commands of p, no older report of the node of i is left.
NoneOlder(p, k, i) ==
  \A m \in DOMAIN p : m > k /\ ConfigFor(p[m], i) => p[m].uplink >= i

\* When p has been executed on settings, the settings are those of i or newer:
\* they are already, or the command of i is in p.
Settles(settings, p, i) ==
  \/ settings[Uplinks[i].dev] >= i /\ NoneOlder(p, 0, i)
  \/ \E k \in DOMAIN p : p[k].op = "config" /\ p[k].uplink = i /\ NoneOlder(p, k, i)

SettledInv ==
  crashes = 0 =>
    \A i \in OfKind("report") : i <= Frontier /\ i \notin dropped => Settles(config, pipe, i)

LEMMA AppendSettles ==
  ASSUME NEW p \in Seq(Command), NEW c \in Command, NEW i \in Ids, NEW s,
         c.op = "config" => c.uplink >= i, (c.op = "config" /\ c.uplink = i) \/ Settles(s, p, i)
  PROVE  Settles(s, Append(p, c), i)
<1> DEFINE q == Append(p, c)
<1>1. /\ Len(p) \in Nat /\ DOMAIN p = 1..Len(p) /\ DOMAIN q = 1..(Len(p) + 1)
      /\ \A k \in 1..Len(p) : q[k] = p[k]
      /\ q[Len(p) + 1] = c
  OBVIOUS
<1> HIDE DEF q
<1>2. ASSUME NEW k, NoneOlder(p, k, i) PROVE NoneOlder(q, k, i)
  <2> SUFFICES ASSUME NEW m \in DOMAIN q, m > k, ConfigFor(q[m], i) PROVE q[m].uplink >= i
    BY DEF NoneOlder
  <2>1. CASE m = Len(p) + 1
    BY <1>1, <2>1 DEF ConfigFor
  <2>2. CASE m \in 1..Len(p)
    BY <1>1, <1>2, <2>2 DEF NoneOlder
  <2> QED BY <1>1, <2>1, <2>2
<1>3. CASE Settles(s, p, i)
  <2>1. CASE s[Uplinks[i].dev] >= i /\ NoneOlder(p, 0, i)
    BY <1>2, <2>1 DEF Settles, q
  <2>2. CASE \E k \in DOMAIN p : p[k].op = "config" /\ p[k].uplink = i /\ NoneOlder(p, k, i)
    <3>1. PICK k \in DOMAIN p : p[k].op = "config" /\ p[k].uplink = i /\ NoneOlder(p, k, i)
      BY <2>2
    <3>2. k \in DOMAIN q /\ q[k] = p[k]
      BY <1>1
    <3> QED BY <1>2, <3>1, <3>2 DEF Settles, q
  <2> QED BY <1>3, <2>1, <2>2 DEF Settles
<1>4. CASE c.op = "config" /\ c.uplink = i
  <2>1. Len(p) + 1 \in DOMAIN q /\ \A m \in DOMAIN q : ~(m > Len(p) + 1)
    BY <1>1
  <2>2. NoneOlder(q, Len(p) + 1, i)
    BY <2>1 DEF NoneOlder
  <2> QED BY <1>1, <1>4, <2>1, <2>2 DEF Settles, q
<1> QED BY <1>3, <1>4

LEMMA TailSettles ==
  ASSUME NEW p \in Seq(Command), p # <<>>, NEW i \in Ids, NEW s \in [Devices -> Ids \cup {0}],
         Settles(s, p, i),
         NEW new, new = IF Head(p).op = "config"
                          THEN [s EXCEPT ![Uplinks[Head(p).uplink].dev] = Head(p).uplink] ELSE s
  PROVE  Settles(new, Tail(p), i)
<1> DEFINE q == Tail(p)
           c == Head(p)
<1>1. /\ c = p[1] /\ 1 \in DOMAIN p /\ c \in Command /\ DOMAIN p \subseteq Nat \ {0}
      /\ \A k \in DOMAIN q : k \in Nat \ {0} /\ k + 1 \in DOMAIN p /\ q[k] = p[k + 1]
      /\ \A k \in DOMAIN p : k # 1 => k - 1 \in DOMAIN q /\ q[k - 1] = p[k]
  OBVIOUS
<1>2. c.uplink \in Ids /\ Uplinks[c.uplink].dev \in Devices
  BY <1>1 DEF Command, Devices
<1> HIDE DEF q, c
<1>3. ASSUME NEW k \in Nat, NEW n \in Nat, k <= n + 1, NoneOlder(p, k, i) PROVE NoneOlder(q, n, i)
  <2> SUFFICES ASSUME NEW m \in DOMAIN q, m > n, ConfigFor(q[m], i) PROVE q[m].uplink >= i
    BY DEF NoneOlder
  <2>1. m \in Nat /\ m + 1 \in DOMAIN p /\ q[m] = p[m + 1]
    BY <1>1
  <2>2. m + 1 > k
    BY <1>3, <2>1
  <2> QED BY <1>3, <2>1, <2>2 DEF NoneOlder
<1>4. CASE ConfigFor(c, i) /\ c.uplink >= i /\ NoneOlder(p, 1, i)
  <2>1. new[Uplinks[i].dev] = c.uplink
    BY <1>2, <1>4 DEF ConfigFor, c
  <2>2. NoneOlder(q, 0, i)
    BY <1>3, <1>4
  <2> QED BY <1>4, <2>1, <2>2 DEF Settles, q
<1>5. CASE s[Uplinks[i].dev] >= i /\ NoneOlder(p, 0, i)
  <2>1. NoneOlder(q, 0, i)
    BY <1>3, <1>5
  <2>2. CASE ConfigFor(c, i)
    <3>1. c.uplink >= i
      BY <1>1, <1>5, <2>2 DEF NoneOlder
    <3>2. NoneOlder(p, 1, i)
      BY <1>1, <1>5 DEF NoneOlder
    <3> QED BY <1>4, <2>2, <3>1, <3>2
  <2>3. CASE ~ConfigFor(c, i)
    <3>1. new[Uplinks[i].dev] = s[Uplinks[i].dev]
      BY <1>2, <2>3 DEF ConfigFor, c
    <3> QED BY <1>5, <2>1, <3>1 DEF Settles, q
  <2> QED BY <2>2, <2>3
<1>6. CASE \E k \in DOMAIN p : p[k].op = "config" /\ p[k].uplink = i /\ NoneOlder(p, k, i)
  <2>1. PICK k \in DOMAIN p : p[k].op = "config" /\ p[k].uplink = i /\ NoneOlder(p, k, i)
    BY <1>6
  <2>2. CASE k = 1
    <3>1. ConfigFor(c, i) /\ c.uplink >= i
      BY <1>1, <1>2, <2>1, <2>2, UplinksAssumption DEF ConfigFor, Ids
    <3> QED BY <1>4, <2>1, <2>2, <3>1
  <2>3. CASE k # 1
    <3>1. k - 1 \in DOMAIN q /\ q[k - 1] = p[k] /\ k \in Nat /\ k - 1 \in Nat /\ k <= (k - 1) + 1
      BY <1>1, <2>3
    <3>2. NoneOlder(q, k - 1, i)
      BY <1>3, <2>1, <3>1
    <3> QED BY <2>1, <3>1, <3>2 DEF Settles, q
  <2> QED BY <2>2, <2>3
<1> QED BY <1>5, <1>6 DEF Settles

\* A command withdrawn is no loss for the reports of other uplinks.
LEMMA RemoveSettles ==
  ASSUME NEW p \in Seq(Command), NEW j \in DOMAIN p, NEW i \in Ids, p[j].uplink # i, NEW s,
         Settles(s, p, i)
  PROVE  Settles(s, RemoveAt(p, j), i)
<1> DEFINE q == RemoveAt(p, j)
           F(k) == IF k < j THEN k ELSE k + 1
           G(k) == IF k < j THEN k ELSE k - 1
<1>1. /\ q \in Seq(Command) /\ Len(q) = Len(p) - 1
      /\ \A k \in 1..(Len(p) - 1) : q[k] = IF k < j THEN p[k] ELSE p[k + 1]
  BY RemoveAtFacts
<1>2. Len(p) \in Nat /\ DOMAIN p = 1..Len(p) /\ DOMAIN q = 1..(Len(p) - 1) /\ j \in 1..Len(p)
  BY <1>1
<1> HIDE DEF q
<1>3. \A m \in DOMAIN q : m \in Nat /\ m > 0 /\ F(m) \in DOMAIN p /\ q[m] = p[F(m)]
  BY <1>1, <1>2
<1>4. \A k \in DOMAIN p : k # j =>
        G(k) \in DOMAIN q /\ q[G(k)] = p[k] /\ \A m \in DOMAIN q : m > G(k) => F(m) > k
  <2> SUFFICES ASSUME NEW k \in DOMAIN p, k # j
               PROVE  /\ G(k) \in DOMAIN q /\ q[G(k)] = p[k]
                      /\ \A m \in DOMAIN q : m > G(k) => F(m) > k
    OBVIOUS
  <2>1. G(k) \in 1..(Len(p) - 1) /\ F(G(k)) = k
    BY <1>2
  <2>2. \A m \in DOMAIN q : m > G(k) => F(m) > k
    BY <1>2
  <2> QED BY <1>2, <1>3, <2>1, <2>2
<1>5. \A m \in DOMAIN q : m > 0 => F(m) > 0
  BY <1>3
<1> HIDE DEF F, G
<1>6. CASE s[Uplinks[i].dev] >= i /\ NoneOlder(p, 0, i)
  <2>1. NoneOlder(q, 0, i)
    BY <1>3, <1>5, <1>6 DEF NoneOlder
  <2> QED BY <1>6, <2>1 DEF Settles, q
<1>7. CASE \E k \in DOMAIN p : p[k].op = "config" /\ p[k].uplink = i /\ NoneOlder(p, k, i)
  <2>1. PICK k \in DOMAIN p : p[k].op = "config" /\ p[k].uplink = i /\ NoneOlder(p, k, i)
    BY <1>7
  <2>2. G(k) \in DOMAIN q /\ q[G(k)] = p[k] /\ \A m \in DOMAIN q : m > G(k) => F(m) > k
    BY <1>4, <2>1
  <2>3. NoneOlder(q, G(k), i)
    BY <1>3, <2>1, <2>2 DEF NoneOlder
  <2> QED BY <2>1, <2>2, <2>3 DEF Settles, q
<1> QED BY <1>6, <1>7 DEF Settles

\* Nor does it matter who waits for a command.
LEMMA OrphanSettles ==
  ASSUME NEW p \in Seq(Command), NEW t, NEW i \in Ids, NEW s, Settles(s, p, i)
  PROVE  Settles(s, [k \in DOMAIN p |->
                       IF Awaits(t, p[k]) THEN [p[k] EXCEPT !.copy = 0] ELSE p[k]], i)
<1> DEFINE E(k) == IF Awaits(t, p[k]) THEN [p[k] EXCEPT !.copy = 0] ELSE p[k]
           q == [k \in DOMAIN p |-> E(k)]
<1>1. \A k \in DOMAIN p : p[k] \in Command
  OBVIOUS
<1>2. \A k \in DOMAIN p : E(k).op = p[k].op /\ E(k).uplink = p[k].uplink
  BY <1>1 DEF Command
<1> HIDE DEF E
<1>3. DOMAIN q = DOMAIN p /\ \A k \in DOMAIN p : q[k] = E(k)
  OBVIOUS
<1> HIDE DEF q
<1>4. Settles(s, q, i)
  BY <1>2, <1>3 DEF Settles, NoneOlder, ConfigFor
<1> QED BY <1>4 DEF q, E

LEMMA SettledStep == TaskInv /\ RestInv /\ SettledInv /\ [Next]_vars => SettledInv'
<1> SUFFICES ASSUME TaskInv, RestInv, SettledInv, [Next]_vars, crashes' = 0,
                    NEW i \in OfKind("report"), i <= Frontier', i \notin dropped'
             PROVE  Settles(config', pipe', i)
  BY DEF SettledInv, Settles, NoneOlder, ConfigFor
<1>0. /\ QueueInv /\ Owned(tasks, pipe) /\ pipe \in Seq(Command)
      /\ i \in Ids /\ i \in Int /\ Frontier \in Int /\ crashes \in Nat
      /\ config \in [Devices -> Ids \cup {0}]
  BY QueueFacts DEF TaskInv, RestInv, Owned, OfKind
<1>a. ASSUME crashes' = crashes, i <= Frontier, dropped \subseteq dropped'
      PROVE  Settles(config, pipe, i)
  BY <1>0, <1>a DEF SettledInv
<1>b. ASSUME UNCHANGED <<config, pipe, crashes>>, i <= Frontier, dropped \subseteq dropped'
      PROVE  Settles(config', pipe', i)
  BY <1>a, <1>b
<1>1. CASE PublishUplink
  BY <1>0, <1>1, <1>b, PublishStays DEF PublishUplink, store
<1>2. CASE Deliver
  <2>1. PICK j \in Ids : j = queue[inFlight + 1] /\ Frontier' = j /\ j = Frontier + 1
    BY <1>0, <1>2, DeliverMoves
  <2>2. StartHandler(j) /\ UNCHANGED <<config, crashes>>
    BY <1>2, <2>1 DEF Deliver, store
  <2>3. i <= Frontier \/ i = j
    <3>1. i <= Frontier + 1
      BY <2>1
    <3> QED BY <1>0, <2>1, <3>1
  <2>4. dropped \subseteq dropped'
    BY <2>2 DEF StartHandler
  <2>5. CASE ~Complete(j) /\ Uplinks[j].kind = "report"
    <3> DEFINE c == CommandOf(NewTask(j, "config"), "config")
    <3>1. pipe' = Append(pipe, c)
      BY <2>2, <2>5 DEF StartHandler
    <3>2. j > Frontier
      BY <1>0, <2>1
    <3>3. NewTask(j, "config") \in Task /\ NewTask(j, "config").uplink = j
      BY <3>2, NewTaskFacts
    <3>4. c \in Command /\ c.op = "config" /\ c.uplink = j
      BY <3>3 DEF CommandOf, Command, Task
    <3> HIDE DEF c
    <3>5. i <= j
      BY <2>1
    <3>6. CASE i = j
      BY <1>0, <2>2, <3>1, <3>4, <3>6, <3>5, AppendSettles
    <3>7. CASE i <= Frontier
      <4>1. Settles(config, pipe, i) /\ c.uplink >= i
        BY <1>0, <1>a, <2>1, <2>2, <2>4, <3>4, <3>7
      <4> QED BY <1>0, <2>2, <3>1, <3>4, <4>1, AppendSettles
    <3> QED BY <2>3, <3>6, <3>7
  <2>6. CASE Complete(j) \/ Uplinks[j].kind # "report"
    <3>1. pipe' = pipe /\ i # j
      BY <2>2, <2>6 DEF StartHandler, Complete, OfKind
    <3> QED BY <1>b, <2>2, <2>3, <2>4, <3>1
  <2> QED BY <2>5, <2>6
<1>3. CASE Acknowledge
  BY <1>0, <1>3, <1>b, AcknowledgeStays DEF Acknowledge, store
<1>4. CASE Reconnect
  <2>1. i <= Frontier
    BY <1>0, <1>4, BackMoves
  <2> QED BY <1>4, <1>b, <2>1 DEF Reconnect, store
<1>c. ASSUME OffMqtt PROVE i <= Frontier /\ crashes' = crashes
  BY <1>0, <1>c, OffMqttStays
<1>5. ASSUME NEW t \in tasks, InsertDone(t) PROVE Settles(config', pipe', i)
  <2>1. OffMqtt /\ UNCHANGED <<config, dropped>> /\ pipe' = Append(pipe, CommandOf(t, "set"))
    BY <1>5 DEF InsertDone, OffMqtt, Replies
  <2>2. CommandOf(t, "set") \in Command /\ CommandOf(t, "set").op = "set"
    BY <1>0 DEF CommandOf, Command, Owned, Task
  <2>3. Settles(config, pipe, i)
    BY <1>a, <1>c, <2>1
  <2> QED BY <1>0, <2>1, <2>2, <2>3, AppendSettles
<1>6. ASSUME NEW t \in tasks, InsertFails(t) PROVE Settles(config', pipe', i)
  <2>1. OffMqtt /\ UNCHANGED <<config, pipe>> /\ dropped \subseteq dropped'
    BY <1>6 DEF InsertFails, HandlerFails, OffMqtt
  <2> QED BY <1>b, <1>c, <2>1
<1>7. CASE RedisReplies
  <2>1. OffMqtt /\ dropped' = dropped /\ pipe # <<>> /\ config' = ConfigAfter(Head(pipe))
    BY <1>7 DEF RedisReplies, OffMqtt
  <2>2. Settles(config', Tail(pipe), i)
    <3>1. Settles(config, pipe, i)
      BY <1>a, <1>c, <2>1
    <3> QED BY <1>0, <2>1, <3>1, TailSettles DEF ConfigAfter
  <2>3. CASE pipe' = Tail(pipe)
    BY <2>2, <2>3
  <2>4. ASSUME NEW t \in tasks, pipe' = Append(Tail(pipe), CommandOf(t, "publish"))
        PROVE  Settles(config', pipe', i)
    <3>1. CommandOf(t, "publish") \in Command /\ CommandOf(t, "publish").op = "publish"
      BY <1>0 DEF CommandOf, Command, Owned, Task
    <3>2. Tail(pipe) \in Seq(Command)
      BY <1>0, <2>1
    <3> QED BY <1>0, <2>2, <2>4, <3>1, <3>2, AppendSettles
  <2> QED BY <1>0, <1>7, <2>3, <2>4, RepliesFacts
<1>8. ASSUME NEW t \in tasks, RedisTimeout(t) PROVE Settles(config', pipe', i)
  <2>1. OffMqtt /\ config' = config /\ dropped' = dropped \cup {t.uplink}
    BY <1>8 DEF RedisTimeout, HandlerFails, OffMqtt, store
  <2>2. Settles(config, pipe, i) /\ t.uplink # i
    BY <1>a, <1>c, <2>1
  <2>3. CASE pipe' = [k \in DOMAIN pipe |->
                 IF Awaits(t, pipe[k]) THEN [pipe[k] EXCEPT !.copy = 0] ELSE pipe[k]]
    BY <1>0, <2>1, <2>2, <2>3, OrphanSettles
  <2>4. CASE \E k \in DOMAIN pipe : Awaits(t, pipe[k]) /\ pipe' = RemoveAt(pipe, k)
    <3>1. PICK k \in DOMAIN pipe : Awaits(t, pipe[k]) /\ pipe' = RemoveAt(pipe, k)
      BY <2>4
    <3>2. pipe[k].uplink # i
      BY <2>2, <3>1 DEF Awaits
    <3> QED BY <1>0, <2>1, <2>2, <3>1, <3>2, RemoveSettles
  <2> QED BY <1>8, <2>3, <2>4 DEF RedisTimeout
<1>9. ASSUME NEW d \in Devices, LatestExpires(d) PROVE Settles(config', pipe', i)
  <2>1. OffMqtt /\ UNCHANGED <<config, pipe, dropped>>
    BY <1>9 DEF LatestExpires, OffMqtt
  <2> QED BY <1>b, <1>c, <2>1
<1>10. CASE Crash
  BY <1>0, <1>10 DEF Crash
<1>11. CASE Restart \/ UNCHANGED vars
  <2>1. OffMqtt /\ UNCHANGED <<config, pipe, dropped>>
    BY <1>11 DEF Restart, OffMqtt, vars, store
  <2> QED BY <1>b, <1>c, <2>1
<1> QED BY <1>1, <1>2, <1>3, <1>4, <1>5, <1>6, <1>7, <1>8, <1>9, <1>10, <1>11
        DEF Next, Replies

\* The newest of a set of uplinks is one of them, if there is any.
LEMMA NewestFacts ==
  ASSUME NEW S, S \subseteq Ids
  PROVE  Newest(S) \in S \cup {0} /\ \A i \in S : i <= Newest(S)
<1>1. S \subseteq Nat /\ Len(Uplinks) \in Nat /\ \A i \in S : i <= Len(Uplinks)
  BY UplinksAssumption DEF Ids
<1> DEFINE B == {b \in Nat : \A i \in S : i <= b}
<1>2. Len(Uplinks) \in B
  BY <1>1
<1>3. PICK m \in B : \A b \in B : m <= b
  <2>1. B \subseteq Nat /\ B # {}
    BY <1>2
  <2> HIDE DEF B
  <2> QED BY <2>1, LeastNatural
<1>4. m \in S \cup {0}
  <2> SUFFICES ASSUME m \notin S, m # 0 PROVE FALSE
    OBVIOUS
  <2>1. m - 1 \in Nat /\ \A i \in S : i <= m - 1
    BY <1>1, <1>3
  <2>2. m <= m - 1
    BY <1>3, <2>1
  <2> QED BY <1>3, <2>2
<1>5. \E n \in S \cup {0} : \A i \in S : i <= n
  BY <1>3, <1>4
<1> QED BY <1>5 DEF Newest

(* Once every handler is done the cached settings of a node are those of   *)
(* its newest report that was not counted as dropped: whatever was         *)
(* delivered twice or timed out, handleConfigReport awaits nothing before  *)
(* its command (ingestion.service.ts:195-216) and commands leave in order. *)
THEOREM NewestReportWins == Spec => []ConfigIsNewest
<1>1. Init => SettledInv
  <2> SUFFICES ASSUME Init, NEW i \in OfKind("report"), i <= Frontier PROVE FALSE
    BY DEF SettledInv
  <2>1. Frontier = 0
    <3>1. published = 0 /\ inFlight = 0 /\ Len(queue) = 0
      BY DEF Init
    <3> QED BY <3>1 DEF Frontier
  <2>2. i \in Nat \ {0}
    BY UplinksAssumption DEF OfKind, Ids
  <2> QED BY <2>1, <2>2
<1>2. TaskInv /\ RestInv /\ SettledInv => ConfigIsNewest
  <2> SUFFICES ASSUME TaskInv, RestInv, SettledInv, Quiet, crashes = 0, NEW d \in Devices
               PROVE  config[d] >= Newest((Of(d, "report") \cap 1..published) \ dropped)
    BY DEF ConfigIsNewest
  <2> DEFINE S == (Of(d, "report") \cap 1..published) \ dropped
  <2>1. Frontier = published /\ published \in Nat
    <3>1. Len(queue) = 0
      BY DEF Quiet
    <3> QED BY <3>1, QueueCounts DEF TaskInv
  <2>2. \A i \in S : config[d] >= i
    <3> SUFFICES ASSUME NEW i \in S PROVE config[d] >= i
      OBVIOUS
    <3>1. i \in OfKind("report") /\ i <= Frontier /\ i \notin dropped /\ Uplinks[i].dev = d
      BY <2>1 DEF Of
    <3>2. Settles(config, pipe, i)
      BY <3>1 DEF SettledInv
    <3>3. DOMAIN pipe = {}
      BY DEF Quiet
    <3> QED BY <3>1, <3>2, <3>3 DEF Settles
  <2>3. S \subseteq Ids
    BY DEF Of, OfKind
  <2>4. config[d] \in Nat
    BY UplinksAssumption DEF RestInv, Ids
  <2> HIDE DEF S
  <2>5. config[d] >= Newest(S)
    <3>1. CASE Newest(S) \in S
      BY <2>2, <3>1
    <3>2. CASE Newest(S) = 0
      BY <2>4, <3>2
    <3> QED BY <2>3, <3>1, <3>2, NewestFacts
  <2> QED BY <2>5 DEF S
<1>3. Init => RestInv
  BY DEF Init, RestInv
<1> QED BY <1>1, <1>2, <1>3, TaskInit, TaskStep, RestStep, SettledStep, PTL DEF Spec
=============================================================================
