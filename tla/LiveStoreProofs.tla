-------------------------- MODULE LiveStoreProofs --------------------------
(***************************************************************************)
(* Proofs about LiveStore, for any number of readings, requests, drops and *)
(* failures: the connection shown is the truth, no reading gives way to an *)
(* older one, and reloading the chart loses none of its range.             *)
(***************************************************************************)
EXTENDS LiveStore, FiniteSetTheorems, SequenceTheorems, WellFoundedInduction, TLAPS

-----------------------------------------------------------------------------
(* The connection.                                                         *)

Reasons == {"load", "poll", "resync", "visible"}

\* Requests are records with one of four reasons and a number for an answer.
GetsInv == \A r \in gets : /\ r \in [n: {r.n}, for: Reasons, answer: {r.answer}]
                           /\ r.answer \in Int

\* A poll timer is set, and a poll is asked for, only after a first connection
\* was lost or refused.
PollingInv ==
  /\ pollDelay \in BOOLEAN /\ pollTimer \in BOOLEAN
  /\ connection \in {"connecting", "live", "reconnecting", "polling"}
  /\ connection = "connecting" =>
       ~pollDelay /\ ~pollTimer /\ \A r \in gets : r.for # "poll"

\* The socket is opened once load() has succeeded; one load() at a time.
LoadInv ==
  /\ phase # "ready" => socket = "none"
  /\ \A r \in gets : r.for = "load" => phase = "loading"
  /\ \A r, q \in gets : r.for = "load" /\ q.for = "load" => r = q

\* What is known of the readings: numbers, everywhere.
TimesInv == latest \in Int /\ cached \in Int /\ stored \in Int /\ wire \in Seq(Int)

LiveInv == GetsInv /\ LoadInv /\ PollingInv /\ TimesInv /\ ConnectionTold

\* A request that is made or answered.
LEMMA AskStep ==
  ASSUME NEW for \in Reasons
  PROVE  /\ Ask(for) \in [n: {Ask(for).n}, for: Reasons, answer: {Ask(for).answer}]
         /\ Ask(for).answer \in Int /\ Ask(for).for = for
BY DEF Ask, NoAnswer

LEMMA AskedGets ==
  ASSUME GetsInv, NEW for \in Reasons, gets' = gets \cup {Ask(for)}
  PROVE  GetsInv' /\ \A r \in gets' : r \in gets \/ r.for = for
BY AskStep DEF GetsInv

LEMMA FewerGets ==
  ASSUME GetsInv, gets' \subseteq gets
  PROVE  GetsInv'
BY DEF GetsInv

LEMMA AnsweredGets ==
  ASSUME GetsInv, TimesInv, NEW r \in gets, AnswerGet(r)
  PROVE  /\ GetsInv'
         /\ \E a : gets' = (gets \ {r}) \cup {a} /\ a.for = r.for
<1> DEFINE a == [r EXCEPT !.answer = cached]
<1>1. r \in [n: {r.n}, for: Reasons, answer: {r.answer}]
  BY DEF GetsInv
<1>2. a \in [n: {r.n}, for: Reasons, answer: {cached}]
  BY <1>1
<1>3. a.n = r.n /\ a.for = r.for /\ a.answer = cached
  BY <1>1
<1>4. gets' = (gets \ {r}) \cup {a}
  BY DEF AnswerGet
<1> HIDE DEF a
<1>5. a \in [n: {a.n}, for: Reasons, answer: {a.answer}] /\ a.answer \in Int
  BY <1>2, <1>3 DEF TimesInv
<1> QED BY <1>3, <1>4, <1>5 DEF GetsInv

\* A poll that settles while a timer is set leaves the connection told.
LEMMA SettledStep ==
  ASSUME PollingInv, ConnectionTold, NEW r \in gets, NEW to \in {"reconnecting", "polling"},
         connection' = PollSettled(r.for, to), gets' \subseteq gets,
         UNCHANGED <<pollDelay, pollTimer, socket>>
  PROVE  PollingInv' /\ ConnectionTold'
<1>1. CASE r.for = "poll" /\ connection # "live"
  <2>1. connection' = to /\ connection # "connecting"
    BY <1>1 DEF PollSettled, PollingInv
  <2> QED BY <2>1, <1>1 DEF PollingInv, ConnectionTold
<1>2. CASE ~(r.for = "poll" /\ connection # "live")
  <2>1. connection' = connection
    BY <1>2 DEF PollSettled
  <2> QED BY <2>1 DEF PollingInv, ConnectionTold
<1> QED BY <1>1, <1>2

\* The socket goes down: a delay starts unless polling is under way.
LEMMA DisconnectedStep ==
  ASSUME PollingInv, ConnectionTold, Disconnected, socket' = "down", gets' = gets
  PROVE  PollingInv' /\ ConnectionTold'
BY DEF PollingInv, ConnectionTold, Disconnected

LEMMA InitLive == Init => LiveInv
<1> SUFFICES ASSUME Init PROVE LiveInv
  OBVIOUS
<1>1. TimesInv
  BY DEF Init, TimesInv
<1>2. GetsInv /\ LoadInv /\ PollingInv /\ ConnectionTold
  BY DEF Init, GetsInv, LoadInv, PollingInv, ConnectionTold
<1> QED BY <1>1, <1>2 DEF LiveInv

LEMMA StepLive == LiveInv /\ [Next]_vars => LiveInv' /\ latest' >= latest
<1> SUFFICES ASSUME LiveInv, [Next]_vars PROVE LiveInv' /\ latest' >= latest
  OBVIOUS
<1>0. GetsInv /\ LoadInv /\ PollingInv /\ TimesInv /\ ConnectionTold
  BY DEF LiveInv
<1>a. ASSUME UNCHANGED gets PROVE GetsInv'
  BY <1>0, <1>a DEF GetsInv
<1>b. ASSUME UNCHANGED <<socket, connection, pollDelay, pollTimer>>,
             \A r \in gets' : r.for = "poll" => \E q \in gets : q.for = "poll"
      PROVE  PollingInv' /\ ConnectionTold'
  BY <1>0, <1>b DEF PollingInv, ConnectionTold
<1>c. ASSUME UNCHANGED <<latest, cached, stored, wire>>
      PROVE  TimesInv' /\ latest' >= latest
  BY <1>0, <1>c DEF TimesInv
<1>d. ASSUME NEW t \in Int, latest' = Newer(t), UNCHANGED <<cached, stored, wire>>
      PROVE  TimesInv' /\ latest' >= latest
  BY <1>0, <1>d DEF TimesInv, Newer
<1>e. ASSUME phase' = phase, phase = "ready" \/ socket' = socket,
             \A r \in gets' : r.for = "load" => r \in gets
      PROVE  LoadInv'
  BY <1>0, <1>e DEF LoadInv
<1>f. ASSUME NEW for \in Reasons \ {"load"}, gets' = gets \cup {Ask(for)}
      PROVE  GetsInv' /\ \A r \in gets' : r \in gets \/ (r.for = for /\ r.for # "load")
  BY <1>0, <1>f, AskedGets
<1>1. CASE Store
  BY <1>0, <1>1, <1>a, <1>b, <1>e DEF Store, TimesInv, shown, timers, LiveInv
<1>2. CASE Cache
  BY <1>0, <1>2, <1>a, <1>b, <1>e DEF Cache, TimesInv, shown, timers, LiveInv
<1>3. CASE Push
  <2>1. TimesInv' /\ latest' >= latest
    BY <1>0, <1>3 DEF Push, TimesInv, shown
  <2> QED BY <1>3, <2>1, <1>a, <1>b, <1>e DEF Push, shown, timers, LiveInv
<1>4. CASE Load
  <2>1. GetsInv' /\ \A r \in gets' : r \in gets \/ r.for = "load"
    <3>1. gets' = gets \cup {Ask("load")} /\ "load" \in Reasons
      BY <1>4 DEF Load, Reasons
    <3> QED BY <1>0, <3>1, AskedGets
  <2>2. LoadInv'
    BY <1>0, <1>4, <2>1 DEF Load, LoadInv, GetsInv, Ask
  <2> QED BY <1>4, <2>1, <2>2, <1>b, <1>c DEF Load, server, shown, timers, LiveInv
<1>5. ASSUME NEW r \in gets, AnswerGet(r) PROVE LiveInv' /\ latest' >= latest
  <2>1. GetsInv' /\ \E a : gets' = (gets \ {r}) \cup {a} /\ a.for = r.for
    BY <1>0, <1>5, AnsweredGets
  <2>2. LoadInv'
    BY <1>0, <1>5, <2>1 DEF AnswerGet, LoadInv
  <2> QED BY <1>5, <2>1, <2>2, <1>b, <1>c DEF AnswerGet, server, shown, timers, LiveInv
<1>6. ASSUME NEW r \in gets, LoadDone(r) PROVE LiveInv' /\ latest' >= latest
  <2>1. GetsInv' /\ r.answer \in Int
    BY <1>0, <1>6, FewerGets DEF LoadDone, GetsInv
  <2>2. TimesInv' /\ latest' >= latest
    BY <1>6, <2>1, <1>d DEF LoadDone, server
  <2>3. PollingInv' /\ ConnectionTold'
    BY <1>0, <1>6 DEF LoadDone, LoadInv, PollingInv, ConnectionTold, timers
  <2>4. LoadInv'
    BY <1>0, <1>6 DEF LoadDone, LoadInv
  <2> QED BY <2>1, <2>2, <2>3, <2>4 DEF LiveInv
<1>7. ASSUME NEW r \in gets, SyncLatest(r) PROVE LiveInv' /\ latest' >= latest
  <2>1. GetsInv' /\ r.answer \in Int
    BY <1>0, <1>7, FewerGets DEF SyncLatest, GetsInv
  <2>2. TimesInv' /\ latest' >= latest
    BY <1>7, <2>1, <1>d DEF SyncLatest, server
  <2>3. PollingInv' /\ ConnectionTold'
    BY <1>0, <1>7, SettledStep DEF SyncLatest, timers
  <2>4. LoadInv'
    BY <1>7, <1>e DEF SyncLatest
  <2> QED BY <2>1, <2>2, <2>3, <2>4 DEF LiveInv
<1>8. ASSUME NEW r \in gets, GetFails(r) PROVE LiveInv' /\ latest' >= latest
  <2>1. GetsInv'
    BY <1>0, <1>8, FewerGets DEF GetFails
  <2>2. PollingInv' /\ ConnectionTold'
    BY <1>0, <1>8, SettledStep DEF GetFails, timers
  <2>3. LoadInv'
    BY <1>0, <1>8 DEF GetFails, LoadInv
  <2> QED BY <1>8, <2>1, <2>2, <2>3, <1>c DEF GetFails, server, shown, LiveInv
<1>9. CASE SocketConnects
  <2>1. GetsInv'
    <3>1. CASE UNCHANGED gets
      BY <3>1, <1>a
    <3>2. CASE gets' = gets \cup {Ask("resync")}
      BY <3>2, <1>f DEF Reasons
    <3> QED BY <1>9, <3>1, <3>2 DEF SocketConnects, Resync
  <2>2. PollingInv' /\ ConnectionTold'
    BY <1>9 DEF SocketConnects, PollingInv, ConnectionTold
  <2>3. LoadInv'
    <3>1. CASE UNCHANGED gets
      BY <1>0, <1>9, <3>1 DEF SocketConnects, LoadInv
    <3>2. CASE gets' = gets \cup {Ask("resync")}
      <4>1. \A r \in gets' : r.for = "load" => r \in gets
        BY <3>2, <1>f DEF Reasons
      <4> QED BY <1>0, <1>9, <4>1 DEF SocketConnects, LoadInv
    <3> QED BY <1>9, <3>1, <3>2 DEF SocketConnects, Resync
  <2> QED BY <1>9, <2>1, <2>2, <2>3, <1>c DEF SocketConnects, server, shown, LiveInv
<1>10. CASE SocketDrops
  <2>1. PollingInv' /\ ConnectionTold'
    BY <1>0, <1>10, DisconnectedStep DEF SocketDrops
  <2>2. TimesInv' /\ latest' >= latest
    BY <1>0, <1>10 DEF SocketDrops, TimesInv, server, shown
  <2>3. LoadInv'
    BY <1>0, <1>10 DEF SocketDrops, LoadInv
  <2> QED BY <1>10, <2>1, <2>2, <1>a, <2>3 DEF SocketDrops, LiveInv
<1>11. CASE ConnectError
  <2>1. PollingInv' /\ ConnectionTold'
    BY <1>0, <1>11, DisconnectedStep DEF ConnectError
  <2>2. LoadInv'
    BY <1>0, <1>11 DEF ConnectError, LoadInv
  <2> QED BY <1>11, <2>1, <1>a, <1>c, <2>2 DEF ConnectError, server, shown, LiveInv
<1>12. CASE Receive
  <2>1. TimesInv' /\ latest' >= latest
    <3>1. Head(wire) \in Int /\ Tail(wire) \in Seq(Int) /\ latest \in Int
      BY <1>0, <1>12 DEF Receive, TimesInv
    <3>2. latest' = latest \/ (Head(wire) > latest /\ latest' = Head(wire))
      BY <1>12 DEF Receive, shown
    <3> QED BY <1>0, <1>12, <3>1, <3>2 DEF Receive, TimesInv, server
  <2> QED BY <1>12, <2>1, <1>a, <1>b, <1>e DEF Receive, timers, LiveInv
<1>13. CASE PollDelayFires
  <2>1. GetsInv' /\ LoadInv'
    <3>1. GetsInv' /\ \A r \in gets' : r.for = "load" => r \in gets
      BY <1>13, <1>f DEF PollDelayFires, Reasons
    <3> QED BY <1>13, <3>1, <1>e DEF PollDelayFires
  <2>2. PollingInv' /\ ConnectionTold'
    BY <1>0, <1>13 DEF PollDelayFires, PollingInv, ConnectionTold
  <2> QED BY <1>13, <2>1, <2>2, <1>c DEF PollDelayFires, server, shown, LiveInv
<1>14. CASE PollTick
  <2>1. GetsInv' /\ LoadInv'
    <3>1. GetsInv' /\ \A r \in gets' : r.for = "load" => r \in gets
      BY <1>14, <1>f DEF PollTick, Reasons
    <3> QED BY <1>14, <3>1, <1>e DEF PollTick
  <2>2. PollingInv' /\ ConnectionTold'
    BY <1>0, <1>14 DEF PollTick, PollingInv, ConnectionTold, timers
  <2> QED BY <1>14, <2>1, <2>2, <1>c DEF PollTick, server, shown, LiveInv
<1>15. CASE BecomeVisible
  <2>1. GetsInv' /\ \A r \in gets' : r \in gets \/ (r.for = "visible" /\ r.for # "load")
    BY <1>15, <1>f DEF BecomeVisible, Reasons
  <2> QED BY <1>15, <2>1, <1>b, <1>c, <1>e DEF BecomeVisible, server, shown, timers, LiveInv
<1>16. CASE LoadReadings
  BY <1>16, <1>a, <1>b, <1>c, <1>e DEF LoadReadings, server, shown, timers, LiveInv
<1>17. ASSUME NEW r \in loads, AnswerReadings(r) \/ ReadingsLoaded(r) \/ ReadingsFail(r)
       PROVE  LiveInv' /\ latest' >= latest
  <2>1. UNCHANGED <<server, phase, socket, wire, connection, shown, timers, gets>>
    BY <1>17 DEF AnswerReadings, ReadingsLoaded, ReadingsFail
  <2> QED BY <2>1, <1>a, <1>b, <1>c, <1>e DEF server, shown, timers, LiveInv
<1>18. CASE UNCHANGED vars
  BY <1>18, <1>a, <1>b, <1>c, <1>e DEF vars, server, shown, timers, LiveInv
<1> QED BY <1>1, <1>2, <1>3, <1>4, <1>5, <1>6, <1>7, <1>8, <1>9, <1>10, <1>11, <1>12,
           <1>13, <1>14, <1>15, <1>16, <1>17, <1>18 DEF Next

LEMMA LiveHolds == Spec => []LiveInv
BY InitLive, StepLive, PTL DEF Spec

(* "live" is shown exactly while the socket is up, and a store without one *)
(* polls or is about to, whatever order answers, timers and the socket     *)
(* come in (onConnection, pollOnce, stopPolling of air.ts).                *)
THEOREM ConnectionIsTold == Spec => []ConnectionTold
<1>1. LiveInv => ConnectionTold
  BY DEF LiveInv
<1> QED BY <1>1, LiveHolds, PTL

(* No answer and no push replaces a reading by an older one (applyReading  *)
(* of air.ts).                                                             *)
THEOREM LatestOnlyGrows == Spec => LatestNeverOlder
<1>1. LiveInv /\ [Next]_vars => [latest' >= latest]_vars
  BY StepLive
<1> QED BY <1>1, LiveHolds, PTL DEF Spec, LatestNeverOlder

-----------------------------------------------------------------------------
(* Numbers and sequences.                                                  *)

\* A set of naturals has a least member.
LEMMA LeastNatural ==
  ASSUME NEW S, S \subseteq Nat, S # {}
  PROVE  \E m \in S : \A n \in S : m <= n
<1> DEFINE R == OpToRel(<, Nat)
<1>1. IsWellFoundedOn(R, Nat)
  BY NatLessThanWellFounded
<1>2. \A x, y \in Nat : x < y => <<x, y>> \in R
  BY DEF OpToRel
<1> HIDE DEF R
<1>3. PICK m \in S : \A n \in S : ~ (<<n, m>> \in R)
  BY <1>1, WFMin
<1>4. ASSUME NEW n \in S PROVE m <= n
  <2>1. m \in Nat /\ n \in Nat
    OBVIOUS
  <2>2. ~(n < m)
    BY <1>2, <1>3, <2>1, Zenon
  <2> QED BY <2>1, <2>2
<1> QED BY <1>4

\* The positions of a finite set are those from 1 to its size, each taken by
\* one member.
LEMMA NthFacts ==
  ASSUME NEW S, S \subseteq Int, IsFiniteSet(S)
  PROVE  /\ Cardinality(S) \in Nat
         /\ \A k \in 1..Cardinality(S) : Nth(S, k) \in S
         /\ \A i \in S : \E k \in 1..Cardinality(S) : Nth(S, k) = i
<1> DEFINE n == Cardinality(S)
           B(i) == {j \in S : j <= i}
           R == [i \in S |-> Cardinality(B(i))]
<1>1. n \in Nat
  BY FS_CardinalityType
<1>2. ASSUME NEW i \in S
      PROVE  IsFiniteSet(B(i)) /\ Cardinality(B(i)) \in 1..n
  <2>1. B(i) \in SUBSET S /\ i \in B(i)
    OBVIOUS
  <2> HIDE DEF B
  <2>2. IsFiniteSet(B(i)) /\ Cardinality(B(i)) <= n
    BY <2>1, FS_Subset
  <2>3. Cardinality(B(i)) \in Nat /\ Cardinality(B(i)) # 0
    BY <2>1, <2>2, FS_CardinalityType, FS_EmptySet
  <2> HIDE DEF n
  <2> QED BY <1>1, <2>2, <2>3
<1>3. ASSUME NEW i \in S, NEW m \in S, i < m PROVE Cardinality(B(i)) # Cardinality(B(m))
  <2>1. B(i) \in SUBSET B(m) /\ B(i) # B(m)
    <3>1. m \in B(m) /\ m \notin B(i)
      BY <1>3
    <3>2. ASSUME NEW j \in B(i) PROVE j \in B(m)
      <4>1. j \in S /\ j <= i
        OBVIOUS
      <4>2. j \in Int /\ i \in Int /\ m \in Int
        BY <4>1
      <4>3. j <= m
        BY <1>3, <4>1, <4>2
      <4> QED BY <4>1, <4>3
    <3> HIDE DEF B
    <3> QED BY <3>1, <3>2
  <2> HIDE DEF B
  <2> QED BY <1>2, <2>1, FS_Subset
<1>4. \A i, m \in S : Cardinality(B(i)) = Cardinality(B(m)) => i = m
  <2> HIDE DEF B
  <2>1. \A i, m \in S : i < m \/ m < i \/ i = m
    OBVIOUS
  <2> QED BY <1>3, <2>1
<1>5. R \in Injection(S, 1..n)
  <2>1. R \in [S -> 1..n]
    BY <1>2
  <2> HIDE DEF B
  <2>2. \A i, m \in S : R[i] = R[m] => i = m
    BY <1>4
  <2> HIDE DEF R
  <2> QED BY <2>1, <2>2 DEF Injection, IsInjective
<1>6. \A k \in 1..n : \E i \in S : Cardinality(B(i)) = k
  <2>1. IsFiniteSet(1..n) /\ Cardinality(1..n) = n
    BY <1>1, FS_Interval
  <2>2. R \in Surjection(S, 1..n)
    <3> HIDE DEF R
    <3> QED BY <1>5, <2>1, FS_Injection
  <2>3. \A k \in 1..n : \E i \in S : R[i] = k
    BY <2>2 DEF Surjection
  <2> QED BY <2>3
<1>7. \A k : Nth(S, k) = CHOOSE i \in S : Cardinality(B(i)) = k
  BY DEF Nth
<1>8. ASSUME NEW i \in S PROVE Nth(S, Cardinality(B(i))) = i
  BY <1>4, <1>7
<1>9. ASSUME NEW k \in 1..n PROVE Nth(S, k) \in S
  BY <1>6, <1>7
<1> HIDE DEF B
<1> QED BY <1>1, <1>2, <1>8, <1>9

\* What filter() keeps: the readings after last, all of them and no other.
LEMMA AfterFacts ==
  ASSUME NEW S, S \subseteq Int, NEW s \in Seq(S), NEW last \in Int
  PROVE  /\ After(s, last) \in Seq(S)
         /\ \A k \in DOMAIN After(s, last) : After(s, last)[k] > last
         /\ \A i \in DOMAIN s : s[i] > last =>
              \E k \in DOMAIN After(s, last) : After(s, last)[k] = s[i]
<1> DEFINE kept == {i \in DOMAIN s : s[i] > last}
           n == Cardinality(kept)
<1>1. IsFiniteSet(kept) /\ kept \subseteq Int
  <2>1. Len(s) \in Nat /\ DOMAIN s = 1..Len(s)
    OBVIOUS
  <2>2. IsFiniteSet(1..Len(s)) /\ kept \in SUBSET (1..Len(s))
    BY <2>1, FS_Interval
  <2>3. kept \subseteq Int
    BY <2>1
  <2> HIDE DEF kept
  <2> QED BY <2>2, <2>3, FS_Subset
<1>2. After(s, last) = [k \in 1..n |-> s[Nth(kept, k)]]
  BY DEF After
<1>3. \A i : i \in kept <=> i \in DOMAIN s /\ s[i] > last
  OBVIOUS
<1> HIDE DEF kept
<1>4. /\ n \in Nat
      /\ \A k \in 1..n : Nth(kept, k) \in kept
      /\ \A i \in kept : \E k \in 1..n : Nth(kept, k) = i
  BY <1>1, NthFacts
<1> HIDE DEF n
<1>5. \A k \in 1..n : s[Nth(kept, k)] \in S /\ s[Nth(kept, k)] > last
  BY <1>3, <1>4
<1>6. After(s, last) \in Seq(S) /\ DOMAIN After(s, last) = 1..n
  BY <1>2, <1>4, <1>5
<1> QED BY <1>2, <1>3, <1>4, <1>5, <1>6

\* What shift() leaves when a reading has arrived: it ends with that reading,
\* and nothing of its range is gone.
LEMMA InRangeFacts ==
  ASSUME NEW h \in Seq(Times), NEW t \in Times,
         NEW q, q = InRange(Append(h, t), t)
  PROVE  /\ q \in Seq(Times) /\ q # <<>> /\ q[Len(q)] = t
         /\ \A i \in DOMAIN h : h[i] >= t - Hours => \E k \in DOMAIN q : q[k] = h[i]
<1> DEFINE a == Append(h, t)
           kept == {i \in DOMAIN a : a[i] >= t - Hours}
           m == Min(kept)
<1>1. /\ a \in Seq(Times) /\ Len(a) = Len(h) + 1 /\ Len(h) \in Nat
      /\ DOMAIN a = 1..Len(a) /\ DOMAIN h = 1..Len(h)
      /\ a[Len(a)] = t /\ \A i \in 1..Len(h) : a[i] = h[i]
  OBVIOUS
<1>2. Hours \in Nat /\ t \in Int
  BY ConstantsAssumption DEF Times
<1>a. q = SubSeq(a, m, Len(a))
  BY DEF InRange
<1> HIDE DEF a
<1>3. kept \subseteq Nat /\ Len(a) \in kept
  BY <1>1, <1>2
<1>4. \E x \in kept : \A y \in kept : x <= y
  <2> HIDE DEF kept
  <2> QED BY <1>3, LeastNatural
<1>5. m \in kept /\ \A i \in kept : m <= i
  <2> HIDE DEF kept
  <2> QED BY <1>4 DEF Min
<1>7. /\ m \in 1..Len(a)
      /\ \A i \in 1..Len(h) : h[i] >= t - Hours => m <= i
  BY <1>1, <1>5
<1> HIDE DEF m, kept
<1>8. /\ q \in Seq(Times) /\ Len(q) = Len(a) - m + 1 /\ DOMAIN q = 1..Len(q)
      /\ \A k \in 1..Len(q) : q[k] = a[m + k - 1]
  BY <1>1, <1>a, <1>7
<1>9. q # <<>> /\ q[Len(q)] = t
  <2>1. Len(q) >= 1 /\ m + Len(q) - 1 = Len(a) /\ Len(q) \in 1..Len(q)
    BY <1>1, <1>7, <1>8
  <2> QED BY <1>1, <1>8, <2>1
<1>10. ASSUME NEW i \in 1..Len(h), h[i] >= t - Hours
       PROVE  \E k \in DOMAIN q : q[k] = h[i]
  <2>1. i - m + 1 \in 1..Len(q) /\ m + (i - m + 1) - 1 = i
    BY <1>1, <1>7, <1>8, <1>10
  <2>2. q[i - m + 1] = h[i]
    BY <1>1, <1>8, <2>1
  <2> QED BY <1>8, <2>1, <2>2
<1> QED BY <1>1, <1>8, <1>9, <1>10 DEF a

\* The answer to a history request made when s readings are stored.
Rows(s) ==
  LET n == IF s > Hours THEN Hours + 1 ELSE s
  IN  [k \in 1..n |-> s - n + k]

\* It ends with the newest reading, and has every one of its range.
LEMMA RowsFacts ==
  ASSUME NEW s \in 0..MaxReadings
  PROVE  /\ Rows(s) \in Seq(Times)
         /\ s = 0 => Rows(s) = <<>>
         /\ s > 0 => Rows(s) # <<>> /\ Last(Rows(s)) = s
         /\ \A t \in Times : t <= s /\ t >= s - Hours =>
              \E k \in DOMAIN Rows(s) : Rows(s)[k] = t
<1> DEFINE n == IF s > Hours THEN Hours + 1 ELSE s
<1>1. n \in 0..s /\ Hours \in Nat /\ MaxReadings \in Nat /\ s \in Nat /\ s <= MaxReadings
  BY ConstantsAssumption
<1>2. Rows(s) = [k \in 1..n |-> s - n + k]
  BY DEF Rows
<1>3. \A k \in 1..n : s - n + k \in Times
  BY <1>1 DEF Times
<1>4. \A t \in Times : t <= s /\ t >= s - Hours => t - s + n \in 1..n
  BY <1>1 DEF Times
<1>5. s > 0 => n > 0
  BY <1>1
<1>6. s = 0 => n = 0
  BY <1>1
<1> HIDE DEF n
<1>7. /\ Rows(s) \in Seq(Times) /\ Len(Rows(s)) = n /\ DOMAIN Rows(s) = 1..n
      /\ \A k \in 1..n : Rows(s)[k] = s - n + k
  BY <1>1, <1>2, <1>3
<1>8. s > 0 => Last(Rows(s)) = s
  <2>1. s > 0 => n \in 1..n /\ s - n + n = s
    BY <1>1, <1>5
  <2> QED BY <1>7, <2>1 DEF Last
<1>9. ASSUME NEW t \in Times, t <= s, t >= s - Hours
      PROVE  \E k \in DOMAIN Rows(s) : Rows(s)[k] = t
  <2>1. t - s + n \in 1..n
    BY <1>4, <1>9
  <2>2. s - n + (t - s + n) = t
    BY <1>1 DEF Times
  <2> QED BY <1>7, <2>1, <2>2
<1> QED BY <1>1, <1>5, <1>6, <1>7, <1>8, <1>9

\* The chart once that answer has been merged into a chart h.
Chart(s, h) == Rows(s) \o After(h, s)

\* Merging an answer keeps every reading of the chart still in its range.
LEMMA MergedFacts ==
  ASSUME NEW s \in 0..MaxReadings, NEW h \in Seq(Times),
         NEW q, q = Chart(s, h)
  PROVE  /\ q \in Seq(Times)
         /\ \A i \in DOMAIN h : q # <<>> /\ h[i] >= Last(q) - Hours =>
              \E k \in DOMAIN q : q[k] = h[i]
<1> DEFINE rows == Rows(s)
           new  == After(h, s)
<1>1. /\ rows \in Seq(Times)
      /\ \A t \in Times : t <= s /\ t >= s - Hours => \E k \in DOMAIN rows : rows[k] = t
  BY RowsFacts
<1>2. Times \subseteq Int /\ s \in Int /\ Hours \in Nat
  BY ConstantsAssumption DEF Times
<1>3. /\ new \in Seq(Times)
      /\ \A k \in DOMAIN new : new[k] > s
      /\ \A i \in DOMAIN h : h[i] > s => \E k \in DOMAIN new : new[k] = h[i]
  BY <1>2, AfterFacts
<1>4. s > 0 => rows # <<>> /\ Last(rows) = s
  BY RowsFacts
<1>5. s = 0 => rows = <<>>
  BY RowsFacts
<1>q. q = rows \o new
  BY DEF Chart
<1> HIDE DEF rows, new
<1>6. /\ q \in Seq(Times) /\ Len(q) = Len(rows) + Len(new) /\ DOMAIN q = 1..Len(q)
      /\ Len(rows) \in Nat /\ Len(new) \in Nat
      /\ DOMAIN rows = 1..Len(rows) /\ DOMAIN new = 1..Len(new)
      /\ \A k \in 1..Len(rows) : q[k] = rows[k]
      /\ \A k \in 1..Len(new) : q[Len(rows) + k] = new[k]
  <2>1. /\ Len(rows) \in Nat /\ Len(new) \in Nat
        /\ DOMAIN rows = 1..Len(rows) /\ DOMAIN new = 1..Len(new)
    BY <1>1, <1>3
  <2>2. q \in Seq(Times) /\ Len(q) = Len(rows) + Len(new) /\ DOMAIN q = 1..Len(q)
    <3>1. rows \o new \in Seq(Times) /\ Len(rows \o new) = Len(rows) + Len(new)
      BY <1>1, <1>3
    <3> QED BY <1>q, <3>1
  <2>3. \A k \in 1..Len(rows) : q[k] = rows[k]
    BY <1>1, <1>3, <1>q
  <2>4. \A k \in 1..Len(new) : q[Len(rows) + k] = new[k]
    BY <1>1, <1>3, <1>q, <2>1
  <2> QED BY <2>1, <2>2, <2>3, <2>4
<1>7. q # <<>> => Last(q) >= s /\ Last(q) \in Int
  <2> SUFFICES ASSUME q # <<>> PROVE Last(q) >= s /\ Last(q) \in Int
    OBVIOUS
  <2>0. Last(q) = q[Len(q)] /\ Len(q) # 0
    BY <1>6 DEF Last
  <2>1. CASE Len(new) = 0
    <3>1. Len(q) = Len(rows) /\ Len(rows) \in 1..Len(rows)
      BY <2>0, <2>1, <1>6
    <3>2. q[Len(q)] = rows[Len(rows)] /\ rows # <<>>
      BY <3>1, <1>6
    <3>3. s > 0
      BY <3>2, <1>5, <1>2
    <3> QED BY <2>0, <3>2, <3>3, <1>4, <1>2 DEF Last
  <2>2. CASE Len(new) # 0
    <3>1. Len(new) \in DOMAIN new
      BY <2>2, <1>6
    <3>2. q[Len(q)] = new[Len(new)]
      BY <3>1, <1>6
    <3>3. new[Len(new)] \in Int /\ new[Len(new)] > s
      <4>1. new[Len(new)] \in Times
        BY <3>1, <1>3
      <4> QED BY <3>1, <4>1, <1>2, <1>3
    <3> QED BY <2>0, <3>2, <3>3, <1>2
  <2> QED BY <2>1, <2>2
<1>8. ASSUME NEW i \in DOMAIN h, q # <<>>, h[i] >= Last(q) - Hours
      PROVE  \E k \in DOMAIN q : q[k] = h[i]
  <2>1. h[i] \in Times
    OBVIOUS
  <2>2. CASE h[i] > s
    <3>1. PICK k \in DOMAIN new : new[k] = h[i]
      BY <2>2, <1>3
    <3>2. Len(rows) + k \in DOMAIN q
      BY <1>6
    <3> QED BY <1>6, <3>1, <3>2
  <2>3. CASE h[i] <= s
    <3>0. h[i] \in Int /\ Last(q) \in Int /\ Last(q) >= s
      BY <1>2, <1>7, <1>8, <2>1
    <3>1. h[i] >= s - Hours
      BY <1>2, <1>8, <3>0
    <3>2. PICK k \in DOMAIN rows : rows[k] = h[i]
      BY <1>1, <2>1, <2>3, <3>1
    <3>3. k \in DOMAIN q
      BY <1>6
    <3> QED BY <1>6, <3>2, <3>3
  <2>4. h[i] \in Int
    BY <1>2, <2>1
  <2>5. h[i] > s \/ h[i] <= s
    BY <1>2, <2>4
  <2> QED BY <2>2, <2>3, <2>5
<1> QED BY <1>6, <1>8

-----------------------------------------------------------------------------
(* The data and the chart.                                                 *)

\* The readings go from the database to Redis to the sockets, none skipped
\* backwards; a reading on the wire is one that was sent.
NumbersInv ==
  /\ stored \in 0..MaxReadings /\ cached \in 0..stored /\ pushed \in 0..cached
  /\ phase \in {"idle", "loading", "failed", "ready"}
  /\ socket \in {"none", "connecting", "up", "down"}
  /\ wire \in Seq(Times)
  /\ latest \in 0..MaxReadings /\ lastLive \in 0..latest
  /\ missable \in 0..MaxReadings /\ resyncFailed \in BOOLEAN
  /\ drops \in 0..MaxDrops /\ failures \in 0..MaxFailures

Requests == [n: 1..MaxGets, for: Reasons, answer: Times \cup {0, NoAnswer}]

RequestsInv == gets \subseteq Requests

\* An answer to a history request is what the server stored at some moment.
ChartInv ==
  /\ \A r \in loads : /\ r.n \in 1..MaxLoads
                      /\ r \in [n: {r.n}, answer: {r.answer}]
                      /\ r.answer = Pending \/ \E s \in 0..MaxReadings : r.answer = <<Rows(s)>>
  /\ history = <<>> \/ \E h \in Seq(Times) : history = <<h>>

DataInv == NumbersInv /\ RequestsInv /\ ChartInv

\* What ReloadKeeps says of one step.
Kept ==
  history # <<>> =>
    LET before == history[1]
        after  == history'[1]
    IN  \A t \in ToSet(before) :
          (after # <<>> /\ t >= Last(after) - Hours) => t \in ToSet(after)

LEMMA AskedRequest ==
  ASSUME RequestsInv, CanAsk, NEW for \in Reasons, gets' = gets \cup {Ask(for)}
  PROVE  RequestsInv'
<1>1. (CHOOSE n \in Free(gets, MaxGets) : TRUE) \in 1..MaxGets
  BY DEF CanAsk, Free
<1>2. Ask(for) \in Requests
  BY <1>1 DEF Ask, Requests
<1> QED BY <1>2 DEF RequestsInv

\* The step of an action that leaves the chart alone.
LEMMA ChartKept ==
  ASSUME ChartInv, UNCHANGED history, loads' \subseteq loads
  PROVE  ChartInv' /\ Kept
<1>1. Kept
  BY DEF Kept
<1>2. ChartInv'
  BY DEF ChartInv
<1> QED BY <1>1, <1>2

LEMMA ReceiveKeeps ==
  ASSUME DataInv, Receive
  PROVE  NumbersInv' /\ ChartInv' /\ Kept
<1>0. PICK t : t = Head(wire)
  OBVIOUS
<1>1. t \in Times /\ Tail(wire) \in Seq(Times) /\ Times \subseteq Int
      /\ Times \subseteq 0..MaxReadings
  <2>1. wire \in Seq(Times) /\ wire # <<>>
    BY DEF DataInv, NumbersInv, Receive
  <2> QED BY <1>0, <2>1, ConstantsAssumption DEF Times
<1>2. \/ /\ t > latest /\ latest' = t /\ lastLive' = t
         /\ history' = IF history = <<>> THEN <<>>
                       ELSE <<InRange(Append(history[1], t), t)>>
      \/ UNCHANGED <<latest, lastLive, history>>
  BY <1>0 DEF Receive, shown
<1>3. NumbersInv'
  <2>1. wire' \in Seq(Times)
    BY <1>1 DEF Receive
  <2>2. latest' \in 0..MaxReadings /\ lastLive' \in 0..latest'
    <3>1. t \in Int /\ t \in 0..MaxReadings
      BY <1>1
    <3> QED BY <1>2, <3>1, ConstantsAssumption DEF DataInv, NumbersInv
  <2> QED BY <2>1, <2>2 DEF DataInv, NumbersInv, Receive, server, ghosts
<1>4. CASE UNCHANGED history
  BY <1>3, <1>4, ChartKept DEF DataInv, Receive
<1>5. CASE history' # history
  <2>1. PICK h \in Seq(Times) : history = <<h>>
    BY <1>2, <1>5 DEF DataInv, ChartInv
  <2>q. PICK q : q = InRange(Append(h, t), t)
    OBVIOUS
  <2>2. history' = <<q>>
    BY <1>2, <1>5, <2>1, <2>q
  <2>3. /\ q \in Seq(Times) /\ q # <<>> /\ q[Len(q)] = t
        /\ \A i \in DOMAIN h : h[i] >= t - Hours => \E k \in DOMAIN q : q[k] = h[i]
    BY <1>1, <2>q, InRangeFacts
  <2>4. ChartInv'
    <3>1. loads' = loads
      BY DEF Receive
    <3> QED BY <2>2, <2>3, <3>1 DEF DataInv, ChartInv
  <2>5. history[1] = h /\ history'[1] = q /\ Last(q) = t
    BY <2>1, <2>2, <2>3 DEF Last
  <2>6. Kept
    BY <2>3, <2>5 DEF Kept, ToSet
  <2> QED BY <1>3, <2>4, <2>6
<1> QED BY <1>4, <1>5

LEMMA LoadedKeeps ==
  ASSUME DataInv, NEW r \in loads, ReadingsLoaded(r)
  PROVE  ChartInv' /\ Kept
<1>1. PICK s \in 0..MaxReadings : r.answer = <<Rows(s)>>
  BY DEF DataInv, ChartInv, ReadingsLoaded
<1>2. history' = <<Merged(Rows(s))>> /\ loads' \subseteq loads
  BY <1>1 DEF ReadingsLoaded
<1>3. CASE history = <<>>
  <2>1. history' = <<Rows(s)>> /\ Rows(s) \in Seq(Times)
    BY <1>2, <1>3, RowsFacts DEF Merged
  <2> QED BY <1>2, <1>3, <2>1 DEF DataInv, ChartInv, Kept
<1>4. CASE history # <<>>
  <2>1. PICK h \in Seq(Times) : history = <<h>>
    BY <1>4 DEF DataInv, ChartInv
  <2>q. PICK q : q = Chart(s, h)
    OBVIOUS
  <2>2. Merged(Rows(s)) = q
    <3>1. s = IF Rows(s) = <<>> THEN 0 ELSE Last(Rows(s))
      <4>1. s = 0 \/ s > 0
        OBVIOUS
      <4> QED BY <4>1, RowsFacts
    <3>2. Merged(Rows(s)) =
            Rows(s) \o After(h, IF Rows(s) = <<>> THEN 0 ELSE Last(Rows(s)))
      BY <1>4, <2>1 DEF Merged
    <3> QED BY <2>q, <3>1, <3>2 DEF Chart
  <2>3. /\ q \in Seq(Times)
        /\ \A i \in DOMAIN h : q # <<>> /\ h[i] >= Last(q) - Hours =>
             \E k \in DOMAIN q : q[k] = h[i]
    BY <2>q, MergedFacts
  <2>4. history[1] = h /\ history'[1] = q /\ history' = <<q>>
    BY <1>2, <2>1, <2>2
  <2>5. ChartInv'
    BY <1>2, <2>3, <2>4 DEF DataInv, ChartInv
  <2>6. Kept
    BY <2>3, <2>4 DEF Kept, ToSet
  <2> QED BY <2>5, <2>6
<1> QED BY <1>3, <1>4

LEMMA AnsweredChart ==
  ASSUME DataInv, NEW r \in loads, AnswerReadings(r)
  PROVE  ChartInv' /\ Kept
<1>1. RowsInRange = Rows(stored) /\ stored \in 0..MaxReadings
  BY DEF RowsInRange, Rows, DataInv, NumbersInv
<1> DEFINE a == [r EXCEPT !.answer = <<RowsInRange>>]
<1>2. r \in [n: {r.n}, answer: {r.answer}] /\ r.n \in 1..MaxLoads
  BY DEF DataInv, ChartInv
<1>3. a.n = r.n /\ a.answer = <<Rows(stored)>> /\ a \in [n: {a.n}, answer: {a.answer}]
  BY <1>1, <1>2
<1>4. loads' = (loads \ {r}) \cup {a} /\ UNCHANGED history
  BY DEF AnswerReadings
<1> HIDE DEF a
<1>5. ChartInv'
  BY <1>1, <1>2, <1>3, <1>4 DEF DataInv, ChartInv
<1>6. Kept
  BY <1>4 DEF Kept
<1> QED BY <1>5, <1>6

LEMMA AskedChart ==
  ASSUME DataInv, LoadReadings
  PROVE  ChartInv' /\ Kept
<1> DEFINE m == CHOOSE n \in Free(loads, MaxLoads) : TRUE
           a == [n |-> m, answer |-> Pending]
<1>1. m \in 1..MaxLoads
  BY DEF LoadReadings, Free
<1>2. loads' = loads \cup {a} /\ UNCHANGED history
  BY DEF LoadReadings
<1> HIDE DEF m
<1>3. a.n = m /\ a.answer = Pending /\ a \in [n: {a.n}, answer: {a.answer}]
  OBVIOUS
<1> HIDE DEF a
<1>4. ChartInv'
  BY <1>1, <1>2, <1>3 DEF DataInv, ChartInv
<1>5. Kept
  BY <1>2 DEF Kept
<1> QED BY <1>4, <1>5

LEMMA InitData == Init => DataInv
<1> SUFFICES ASSUME Init PROVE DataInv
  OBVIOUS
<1>1. NumbersInv
  <2>1. wire \in Seq(Times)
    BY DEF Init
  <2>2. 0 \in 0..MaxReadings /\ 0 \in 0..0 /\ 0 \in 0..MaxDrops /\ 0 \in 0..MaxFailures
    BY ConstantsAssumption
  <2> QED BY <2>1, <2>2 DEF Init, NumbersInv
<1>2. RequestsInv /\ ChartInv
  BY DEF Init, RequestsInv, ChartInv
<1> QED BY <1>1, <1>2 DEF DataInv

LEMMA StepData == DataInv /\ [Next]_vars => DataInv' /\ Kept
<1> SUFFICES ASSUME DataInv, [Next]_vars PROVE DataInv' /\ Kept
  OBVIOUS
<1>0. NumbersInv /\ RequestsInv /\ ChartInv
  BY DEF DataInv
<1>a. ASSUME gets' \subseteq gets PROVE RequestsInv'
  BY <1>0, <1>a DEF RequestsInv
<1>b. ASSUME UNCHANGED <<history, loads>> PROVE ChartInv' /\ Kept
  BY <1>0, <1>b, ChartKept
<1>c. ASSUME UNCHANGED <<stored, cached, pushed, phase, socket, wire, latest, lastLive,
                         missable, resyncFailed, drops, failures>>
      PROVE  NumbersInv'
  BY <1>0, <1>c DEF NumbersInv
<1>d. ASSUME NEW for \in Reasons, CanAsk, gets' = gets \cup {Ask(for)}
      PROVE  RequestsInv'
  BY <1>0, <1>d, AskedRequest
<1>e. ASSUME NEW t \in 0..MaxReadings
      PROVE  Newer(t) \in 0..MaxReadings /\ lastLive \in 0..Newer(t)
  BY <1>0, ConstantsAssumption DEF Newer, NumbersInv
<1>f. ASSUME NEW r \in gets, r.answer # NoAnswer
      PROVE  r.answer \in 0..MaxReadings
  <2>1. r.answer \in Times \cup {0}
    BY <1>0, <1>f DEF RequestsInv, Requests
  <2> QED BY <2>1, ConstantsAssumption DEF Times
<1>1. CASE Store
  <2>1. NumbersInv'
    BY <1>0, <1>1, ConstantsAssumption DEF Store, NumbersInv, shown, ghosts
  <2> QED BY <1>1, <2>1, <1>a, <1>b DEF Store, DataInv
<1>2. CASE Cache
  <2>1. NumbersInv'
    BY <1>0, <1>2, ConstantsAssumption DEF Cache, NumbersInv, shown, ghosts
  <2> QED BY <1>2, <2>1, <1>a, <1>b DEF Cache, DataInv
<1>3. CASE Push
  <2>1. cached \in Times /\ cached \in 0..MaxReadings
    BY <1>0, <1>3, ConstantsAssumption DEF Push, NumbersInv, Times
  <2>2. wire' \in Seq(Times)
    BY <1>0, <1>3, <2>1 DEF Push, NumbersInv
  <2>3. NumbersInv'
    <3>1. missable' \in 0..MaxReadings
      BY <1>0, <1>3, <2>1 DEF Push, NumbersInv
    <3>2. pushed' \in 0..cached'
      BY <1>0, <1>3, <2>1, ConstantsAssumption DEF Push, NumbersInv
    <3> QED BY <1>0, <1>3, <2>2, <3>1, <3>2 DEF Push, NumbersInv, shown
  <2> QED BY <1>3, <2>3, <1>a, <1>b DEF Push, DataInv
<1>4. CASE Load
  <2>1. NumbersInv'
    BY <1>0, <1>4 DEF Load, NumbersInv, server, shown, ghosts
  <2>2. RequestsInv'
    BY <1>4, <1>d DEF Load, Reasons
  <2> QED BY <1>4, <2>1, <2>2, <1>b DEF Load, DataInv
<1>5. ASSUME NEW r \in gets, AnswerGet(r) PROVE DataInv' /\ Kept
  <2>1. r \in Requests /\ cached \in Times \cup {0, NoAnswer}
    BY <1>0, ConstantsAssumption DEF RequestsInv, NumbersInv, Times
  <2>2. [r EXCEPT !.answer = cached] \in Requests
    BY <2>1 DEF Requests
  <2>3. RequestsInv'
    BY <1>0, <1>5, <2>2 DEF AnswerGet, RequestsInv
  <2> QED BY <1>5, <2>3, <1>b, <1>c DEF AnswerGet, server, shown, ghosts, DataInv
<1>6. ASSUME NEW r \in gets, LoadDone(r) PROVE DataInv' /\ Kept
  <2>1. r.answer \in 0..MaxReadings /\ latest' = Newer(r.answer)
    BY <1>6, <1>f DEF LoadDone
  <2>2. NumbersInv'
    BY <1>0, <1>6, <1>e, <2>1 DEF LoadDone, NumbersInv, server, ghosts
  <2> QED BY <1>6, <2>2, <1>a, <1>b DEF LoadDone, DataInv
<1>7. ASSUME NEW r \in gets, SyncLatest(r) PROVE DataInv' /\ Kept
  <2>1. r.answer \in 0..MaxReadings /\ latest' = Newer(r.answer)
    BY <1>7, <1>f DEF SyncLatest
  <2>2. NumbersInv'
    BY <1>0, <1>7, <1>e, <2>1 DEF SyncLatest, NumbersInv, server, ghosts
  <2> QED BY <1>7, <2>2, <1>a, <1>b DEF SyncLatest, DataInv
<1>8. ASSUME NEW r \in gets, GetFails(r) PROVE DataInv' /\ Kept
  <2>1. failures' \in 0..MaxFailures
    BY <1>0, <1>8, ConstantsAssumption DEF GetFails, NumbersInv
  <2>2. resyncFailed' \in BOOLEAN
    BY <1>8 DEF GetFails
  <2>3. NumbersInv'
    BY <1>0, <1>8, <2>1, <2>2 DEF GetFails, NumbersInv, server, shown
  <2> QED BY <1>8, <2>3, <1>a, <1>b DEF GetFails, DataInv
<1>9. CASE SocketConnects
  <2>1. RequestsInv'
    BY <1>9, <1>a, <1>d DEF SocketConnects, Resync, Reasons
  <2>2. NumbersInv'
    BY <1>0, <1>9 DEF SocketConnects, NumbersInv, server, shown, ghosts
  <2> QED BY <1>9, <2>1, <2>2, <1>b DEF SocketConnects, DataInv
<1>10. CASE SocketDrops
  <2>1. drops' \in 0..MaxDrops /\ wire' \in Seq(Times)
    BY <1>0, <1>10, ConstantsAssumption DEF SocketDrops, NumbersInv
  <2>2. NumbersInv'
    BY <1>0, <1>10, <2>1 DEF SocketDrops, NumbersInv, server, shown, ghosts
  <2> QED BY <1>10, <2>2, <1>a, <1>b DEF SocketDrops, DataInv
<1>11. CASE ConnectError
  <2>1. drops' \in 0..MaxDrops
    BY <1>0, <1>11, ConstantsAssumption DEF ConnectError, NumbersInv
  <2>2. NumbersInv'
    BY <1>0, <1>11, <2>1 DEF ConnectError, NumbersInv, server, shown, ghosts
  <2> QED BY <1>11, <2>2, <1>a, <1>b DEF ConnectError, DataInv
<1>12. CASE Receive
  <2>1. NumbersInv' /\ ChartInv' /\ Kept
    BY <1>12, ReceiveKeeps
  <2> QED BY <1>12, <2>1, <1>a DEF Receive, DataInv
<1>13. CASE PollDelayFires
  <2>1. RequestsInv'
    BY <1>13, <1>d DEF PollDelayFires, Reasons
  <2> QED BY <1>13, <2>1, <1>b, <1>c DEF PollDelayFires, server, shown, ghosts, DataInv
<1>14. CASE PollTick
  <2>1. RequestsInv'
    BY <1>14, <1>d DEF PollTick, Reasons
  <2> QED BY <1>14, <2>1, <1>b, <1>c DEF PollTick, server, shown, ghosts, DataInv
<1>15. CASE BecomeVisible
  <2>1. RequestsInv'
    BY <1>15, <1>d DEF BecomeVisible, Reasons
  <2> QED BY <1>15, <2>1, <1>b, <1>c DEF BecomeVisible, server, shown, ghosts, DataInv
<1>16. CASE LoadReadings
  <2>1. ChartInv' /\ Kept
    BY <1>16, AskedChart
  <2> QED BY <1>16, <2>1, <1>a, <1>c DEF LoadReadings, server, shown, ghosts, DataInv
<1>17. ASSUME NEW r \in loads, AnswerReadings(r) PROVE DataInv' /\ Kept
  <2>1. ChartInv' /\ Kept
    BY <1>17, AnsweredChart
  <2> QED BY <1>17, <2>1, <1>a, <1>c DEF AnswerReadings, server, shown, ghosts, DataInv
<1>18. ASSUME NEW r \in loads, ReadingsLoaded(r) PROVE DataInv' /\ Kept
  <2>1. ChartInv' /\ Kept
    BY <1>18, LoadedKeeps
  <2> QED BY <1>18, <2>1, <1>a, <1>c DEF ReadingsLoaded, server, shown, ghosts, DataInv
<1>19. ASSUME NEW r \in loads, ReadingsFail(r) PROVE DataInv' /\ Kept
  <2>1. ChartInv' /\ Kept
    BY <1>0, <1>19, ChartKept DEF ReadingsFail
  <2>2. failures' \in 0..MaxFailures
    BY <1>0, <1>19, ConstantsAssumption DEF ReadingsFail, NumbersInv
  <2>3. NumbersInv'
    BY <1>0, <1>19, <2>2 DEF ReadingsFail, NumbersInv, server, shown, ghosts
  <2> QED BY <1>19, <2>1, <2>3, <1>a DEF ReadingsFail, DataInv
<1>20. CASE UNCHANGED vars
  BY <1>20, <1>a, <1>b, <1>c DEF vars, server, shown, ghosts, DataInv
<1> QED BY <1>1, <1>2, <1>3, <1>4, <1>5, <1>6, <1>7, <1>8, <1>9, <1>10, <1>11, <1>12, <1>13,
           <1>14, <1>15, <1>16, <1>17, <1>18, <1>19, <1>20 DEF Next

LEMMA DataHolds == Spec => []DataInv
BY InitData, StepData, PTL DEF Spec

(* The store's variables, its requests and its chart keep their types      *)
(* (air.ts): in particular nothing is shown that the server never stored,  *)
(* and what it caches it has stored.                                       *)
THEOREM TypesHold == Spec => []TypeOK
<1>1. DataInv /\ LiveInv => TypeOK
  <2> SUFFICES ASSUME DataInv, LiveInv PROVE TypeOK
    OBVIOUS
  <2>1. /\ \A r \in loads : r.n \in 1..MaxLoads /\ (r.answer = Pending \/ r.answer[1] \in Seq(Times))
        /\ history = <<>> \/ history[1] \in Seq(Times)
    <3>1. ASSUME NEW r \in loads, NEW s \in 0..MaxReadings, r.answer = <<Rows(s)>>
          PROVE  r.answer[1] \in Seq(Times)
      BY <3>1, RowsFacts
    <3> QED BY <3>1 DEF DataInv, ChartInv
  <2>2. gets \subseteq [n: 1..MaxGets, for: {"load", "poll", "resync", "visible"},
                        answer: Times \cup {0, NoAnswer}]
    BY DEF DataInv, RequestsInv, Requests, Reasons
  <2> QED BY <2>1, <2>2 DEF DataInv, NumbersInv, LiveInv, PollingInv, TypeOK
<1> QED BY <1>1, DataHolds, LiveHolds, PTL

(* Reloading an open chart, or receiving a reading, loses none of its      *)
(* range (loadReadings and applyReading of air.ts).                        *)
THEOREM ReloadLosesNothing == Spec => ReloadKeeps
<1>1. DataInv /\ [Next]_vars => [Kept]_vars
  BY StepData
<1>2. [Kept]_vars =>
        [history # <<>> =>
           LET before == history[1]
               after  == history'[1]
           IN  \A t \in ToSet(before) :
                 (after # <<>> /\ t >= Last(after) - Hours) => t \in ToSet(after)]_vars
  BY DEF Kept
<1> QED BY <1>1, <1>2, DataHolds, PTL DEF Spec, ReloadKeeps
=============================================================================
