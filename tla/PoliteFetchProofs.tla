------------------------- MODULE PoliteFetchProofs -------------------------
(***************************************************************************)
(* Proofs about PoliteFetch and the RateLimiter in it, for every number of *)
(* workers, hosts and permits, every delay and every limit of the fetcher. *)
(***************************************************************************)
EXTENDS PoliteFetch, Recursion

-----------------------------------------------------------------------------
(***************************************************************************)
(* The rate limiter: types, and what the queues hold.                      *)
(***************************************************************************)

\* The target delay of a host lies between the interval and the longest span.
LEMMA TargetDelayBounds ==
  ASSUME NEW h \in Hosts
  PROVE  /\ TargetDelay(h) \in 0 .. LongAgo
         /\ TargetDelay(h) >= Interval
         /\ h = StartHost => TargetDelay(h) >= CrawlDelay[StartHost]
BY LimiterAssumption DEF TargetDelay, Longer, Delays

\* Whoever is queued for a permit of h waits for one of h, and once only.
QueueInv ==
  \A h \in Hosts :
    /\ \A i \in 1 .. Len(permitQueue[h]) :
         /\ stage[permitQueue[h][i]] = "permit"
         /\ host[permitQueue[h][i]] = h
    /\ \A i, k \in 1 .. Len(permitQueue[h]) :
         permitQueue[h][i] = permitQueue[h][k] => i = k

\* Whoever sleeps holds its host's lock, and will have slept long enough.
SleepInv ==
  \A w \in Workers : stage[w] = "asleep" =>
    /\ lockQueue[host[w]] # <<>>
    /\ Head(lockQueue[host[w]]) = w
    /\ since[host[w]] + nap[w] >= TargetDelay(host[w])

LimiterInv == LimiterTypeOK /\ QueueInv /\ SleepInv /\ PermitsConserved

\* Nobody holds a permit before the first acquire.
LEMMA LimiterInvInit == LimiterInit => LimiterInv
<1> SUFFICES ASSUME LimiterInit PROVE LimiterInv
  OBVIOUS
<1>1. LimiterTypeOK
  BY LimiterAssumption DEF LimiterInit, LimiterTypeOK, Stage
<1>2. QueueInv
  BY LimiterAssumption DEF LimiterInit, QueueInv
<1>3. SleepInv
  BY LimiterAssumption DEF LimiterInit, SleepInv
<1>4. PermitsConserved
  <2> SUFFICES ASSUME NEW h \in Hosts
               PROVE  /\ permits[h] + Cardinality(Holders(h)) = Permits
                      /\ permitQueue[h] # <<>> => permits[h] = 0
    BY DEF PermitsConserved
  <2>1. Holders(h) = {}
    BY DEF LimiterInit, Holders
  <2>2. Cardinality(Holders(h)) = 0
    BY <2>1, FS_EmptySet
  <2>3. permits[h] = Permits /\ permitQueue[h] = <<>>
    BY DEF LimiterInit
  <2>4. QED
    BY <2>2, <2>3, LimiterAssumption
<1>5. QED
  BY <1>1, <1>2, <1>3, <1>4 DEF LimiterInv

\* The holders of permits are finitely many.
LEMMA HoldersFinite ==
  ASSUME NEW h
  PROVE  IsFiniteSet(Holders(h)) /\ Cardinality(Holders(h)) \in Nat
<1>1. Holders(h) \in SUBSET Workers
  BY DEF Holders
<1>2. QED
  BY <1>1, FS_Subset, FS_CardinalityType, LimiterAssumption

\* A worker that holds a permit leaves room for it: fewer than all are free.
LEMMA RoomForRelease ==
  ASSUME LimiterInv, NEW w \in Workers, stage[w] = "granted"
  PROVE  permits[host[w]] + 1 \in 0 .. Permits
<1>1. host[w] \in Hosts /\ permits[host[w]] \in 0 .. Permits
  BY DEF LimiterInv, LimiterTypeOK
<1>2. w \in Holders(host[w])
  BY DEF Holders
<1>3. Cardinality(Holders(host[w])) # 0
  BY <1>2, HoldersFinite, FS_EmptySet
<1>4. permits[host[w]] + Cardinality(Holders(host[w])) = Permits
  BY <1>1 DEF LimiterInv, PermitsConserved
<1>5. QED
  BY <1>1, <1>3, <1>4, HoldersFinite, LimiterAssumption

\* The first of a queue waits for a permit, and is in it once.
LEMMA FirstInQueue ==
  ASSUME LimiterInv, NEW h \in Hosts, permitQueue[h] # <<>>
  PROVE  /\ Head(permitQueue[h]) \in Workers
         /\ stage[Head(permitQueue[h])] = "permit"
         /\ host[Head(permitQueue[h])] = h
         /\ Tail(permitQueue[h]) \in Seq(Workers)
         /\ \A i \in 1 .. Len(Tail(permitQueue[h])) :
              /\ Tail(permitQueue[h])[i] = permitQueue[h][i + 1]
              /\ i + 1 \in 1 .. Len(permitQueue[h])
              /\ Tail(permitQueue[h])[i] # Head(permitQueue[h])
<1> DEFINE q == permitQueue[h]
<1>1. q \in Seq(Workers) /\ q # <<>>
  BY DEF LimiterInv, LimiterTypeOK
<1>2. 1 \in 1 .. Len(q) /\ Head(q) = q[1] /\ Head(q) \in Workers
  BY <1>1
<1>3. Tail(q) \in Seq(Workers) /\ Len(Tail(q)) = Len(q) - 1
  BY <1>1
<1>4. ASSUME NEW i \in 1 .. Len(Tail(q))
      PROVE  Tail(q)[i] = q[i + 1] /\ i + 1 \in 1 .. Len(q)
  BY <1>1, <1>3, <1>4
<1>5. /\ stage[q[1]] = "permit" /\ host[q[1]] = h
      /\ \A k \in 1 .. Len(q) : q[k] = q[1] => k = 1
  BY <1>2 DEF LimiterInv, QueueInv
<1>6. ASSUME NEW i \in 1 .. Len(Tail(q))
      PROVE  Tail(q)[i] # Head(q)
  <2>1. i + 1 # 1
    BY <1>3
  <2>2. QED
    BY <1>2, <1>4, <1>5, <2>1
<1>7. QED
  BY <1>2, <1>3, <1>4, <1>5, <1>6

\* Types are preserved by every step.
LEMMA LimiterTypeStep ==
  ASSUME LimiterInv, [LimiterNext]_limiterVars
  PROVE  LimiterTypeOK'
<1>0. LimiterTypeOK
  BY DEF LimiterInv
<1>1. ASSUME NEW w \in Workers, NEW h \in Hosts, Acquire(w, h)
      PROVE  LimiterTypeOK'
  <2>1. /\ host' \in [Workers -> Hosts]
        /\ since' \in [Hosts -> 0 .. LongAgo]
        /\ nap' \in [Workers -> 0 .. LongAgo]
    BY <1>0, <1>1 DEF Acquire, LimiterTypeOK
  <2>2. stage' \in [Workers -> Stage]
    BY <1>0, <1>1 DEF Acquire, LimiterTypeOK, Stage
  <2>3. permits' \in [Hosts -> 0 .. Permits]
    <3>1. CASE permits[h] > 0
      <4>1. permits[h] - 1 \in 0 .. Permits
        <5>1. permits[h] \in 0 .. Permits /\ Permits \in Nat
          BY <1>0, LimiterAssumption DEF LimiterTypeOK
        <5>2. QED
          BY <3>1, <5>1
      <4>2. QED
        BY <1>0, <1>1, <3>1, <4>1 DEF Acquire, LimiterTypeOK
    <3>2. CASE ~(permits[h] > 0)
      BY <1>0, <1>1, <3>2 DEF Acquire, LimiterTypeOK
    <3>3. QED
      BY <3>1, <3>2
  <2>4. Append(permitQueue[h], w) \in Seq(Workers)
        /\ Append(lockQueue[h], w) \in Seq(Workers)
    BY <1>0 DEF LimiterTypeOK
  <2>5. permitQueue' \in [Hosts -> Seq(Workers)]
        /\ lockQueue' \in [Hosts -> Seq(Workers)]
    BY <1>0, <1>1, <2>4 DEF Acquire, LimiterTypeOK
  <2>6. QED
    BY <2>1, <2>2, <2>3, <2>5 DEF LimiterTypeOK
<1>2. ASSUME NEW w \in Workers, Grant(w), lockQueue[host[w]] # <<>>,
             UNCHANGED <<host, permits, permitQueue, nap>>
      PROVE  LimiterTypeOK'
  <2>1. Tail(lockQueue[host[w]]) \in Seq(Workers)
    BY <1>0, <1>2 DEF LimiterTypeOK
  <2>2. lockQueue' \in [Hosts -> Seq(Workers)]
    BY <1>0, <1>2, <2>1 DEF Grant, LimiterTypeOK
  <2>3. since' \in [Hosts -> 0 .. LongAgo]
    BY <1>0, <1>2, LimiterAssumption DEF Grant, LimiterTypeOK
  <2>4. stage' \in [Workers -> Stage]
    <3>1. stage \in [Workers -> Stage] /\ "granted" \in Stage
      BY <1>0 DEF LimiterTypeOK, Stage
    <3>2. QED
      BY <1>2, <3>1 DEF Grant
  <2>5. QED
    BY <1>0, <1>2, <2>2, <2>3, <2>4 DEF LimiterTypeOK
<1>3. ASSUME NEW w \in Workers, FallAsleep(w)
      PROVE  LimiterTypeOK'
  <2>1. TargetDelay(host[w]) \in 0 .. LongAgo /\ since[host[w]] \in 0 .. LongAgo
    BY <1>0, TargetDelayBounds DEF LimiterTypeOK
  <2>2. TargetDelay(host[w]) - since[host[w]] \in 0 .. LongAgo
    BY <1>3, <2>1, LimiterAssumption DEF FallAsleep
  <2>3. nap' \in [Workers -> 0 .. LongAgo] /\ stage' \in [Workers -> Stage]
    BY <1>0, <1>3, <2>2 DEF FallAsleep, LimiterTypeOK, Stage
  <2>4. QED
    BY <1>0, <1>3, <2>3 DEF FallAsleep, LimiterTypeOK
<1>4. ASSUME NEW w \in Workers, ReleasePermit(w)
      PROVE  LimiterTypeOK'
  <2> DEFINE h == host[w]
  <2>1. h \in Hosts /\ stage[w] = "granted"
    BY <1>0, <1>4 DEF LimiterTypeOK, ReleasePermit
  <2>2. /\ host' \in [Workers -> Hosts]
        /\ since' \in [Hosts -> 0 .. LongAgo]
        /\ nap' \in [Workers -> 0 .. LongAgo]
    BY <1>0, <1>4, LimiterAssumption DEF ReleasePermit, LimiterTypeOK
  <2>3. CASE HandsOver(h)
    <3>1. /\ Tail(permitQueue[h]) \in Seq(Workers)
          /\ Append(lockQueue[h], Head(permitQueue[h])) \in Seq(Workers)
      BY <1>0, <2>1, <2>3, FirstInQueue DEF HandsOver, LimiterTypeOK
    <3>2. /\ permitQueue' \in [Hosts -> Seq(Workers)]
          /\ lockQueue' \in [Hosts -> Seq(Workers)]
          /\ permits' \in [Hosts -> 0 .. Permits]
      BY <1>0, <1>4, <2>3, <3>1 DEF ReleasePermit, LimiterTypeOK
    <3>3. stage' \in [Workers -> Stage]
      BY <1>0, <1>4, <2>3 DEF ReleasePermit, LimiterTypeOK, Stage
    <3>4. QED
      BY <2>2, <3>2, <3>3 DEF LimiterTypeOK
  <2>4. CASE ~HandsOver(h)
    <3>1. permits[h] + 1 \in 0 .. Permits
      BY <2>1, RoomForRelease
    <3>2. permits' \in [Hosts -> 0 .. Permits]
      BY <1>0, <1>4, <2>4, <3>1 DEF ReleasePermit, LimiterTypeOK
    <3>3. stage' \in [Workers -> Stage]
      BY <1>0, <1>4, <2>4 DEF ReleasePermit, LimiterTypeOK, Stage
    <3>4. QED
      BY <1>0, <1>4, <2>2, <2>4, <3>2, <3>3 DEF ReleasePermit, LimiterTypeOK
  <2>5. QED
    BY <2>3, <2>4
<1>5. CASE LimiterTick
  <2>1. since' \in [Hosts -> 0 .. LongAgo]
    BY <1>0, <1>5, LimiterAssumption DEF LimiterTick, LimiterTypeOK
  <2>2. nap' \in [Workers -> 0 .. LongAgo]
    BY <1>0, <1>5, LimiterAssumption DEF LimiterTick, LimiterTypeOK
  <2>3. QED
    BY <1>0, <1>5, <2>1, <2>2 DEF LimiterTick, LimiterTypeOK
<1>6. CASE UNCHANGED limiterVars
  BY <1>0, <1>6 DEF limiterVars, LimiterTypeOK
<1>7. ASSUME NEW w \in Workers, GrantAtOnce(w) PROVE LimiterTypeOK'
  BY <1>2, <1>7 DEF GrantAtOnce, HoldsLock
<1>8. ASSUME NEW w \in Workers, WakeUp(w) PROVE LimiterTypeOK'
  BY <1>2, <1>8 DEF WakeUp, LimiterInv, SleepInv
<1>9. QED
  BY <1>1, <1>3, <1>4, <1>5, <1>6, <1>7, <1>8 DEF LimiterNext, WaitingStep

\* The queues for permits keep their order and their members.
LEMMA QueueStep ==
  ASSUME LimiterInv, [LimiterNext]_limiterVars
  PROVE  QueueInv'
<1>0. LimiterTypeOK /\ QueueInv
  BY DEF LimiterInv
<1> SUFFICES ASSUME NEW g \in Hosts
             PROVE  /\ \A i \in 1 .. Len(permitQueue'[g]) :
                         /\ stage'[permitQueue'[g][i]] = "permit"
                         /\ host'[permitQueue'[g][i]] = g
                    /\ \A i, k \in 1 .. Len(permitQueue'[g]) :
                         permitQueue'[g][i] = permitQueue'[g][k] => i = k
  BY DEF QueueInv
<1> DEFINE q == permitQueue[g]
<1>q. /\ q \in Seq(Workers)
      /\ \A i \in 1 .. Len(q) : /\ q[i] \in Workers
                                /\ stage[q[i]] = "permit"
                                /\ host[q[i]] = g
      /\ \A i, k \in 1 .. Len(q) : q[i] = q[k] => i = k
  <2>1. q \in Seq(Workers)
    BY <1>0 DEF LimiterTypeOK
  <2>2. \A i \in 1 .. Len(q) : q[i] \in Workers
    BY <2>1
  <2>3. QED
    BY <1>0, <2>1, <2>2 DEF QueueInv
\* A step that leaves the queue and its members alone.
<1>s. ASSUME permitQueue'[g] = q,
             \A v \in Workers : stage[v] = "permit" =>
               stage'[v] = "permit" /\ host'[v] = host[v]
      PROVE  /\ \A i \in 1 .. Len(permitQueue'[g]) :
                  /\ stage'[permitQueue'[g][i]] = "permit"
                  /\ host'[permitQueue'[g][i]] = g
             /\ \A i, k \in 1 .. Len(permitQueue'[g]) :
                  permitQueue'[g][i] = permitQueue'[g][k] => i = k
  BY <1>q, <1>s
<1>1. ASSUME NEW w \in Workers, NEW h \in Hosts, Acquire(w, h)
      PROVE  /\ \A i \in 1 .. Len(permitQueue'[g]) :
                  /\ stage'[permitQueue'[g][i]] = "permit"
                  /\ host'[permitQueue'[g][i]] = g
             /\ \A i, k \in 1 .. Len(permitQueue'[g]) :
                  permitQueue'[g][i] = permitQueue'[g][k] => i = k
  <2>1. \A v \in Workers : stage[v] = "permit" =>
          stage'[v] = "permit" /\ host'[v] = host[v]
    BY <1>0, <1>1 DEF Acquire, LimiterTypeOK
  <2>2. CASE g = h /\ ~(permits[h] > 0)
    <3>1. permitQueue'[g] = Append(q, w)
      BY <1>0, <1>1, <2>2 DEF Acquire, LimiterTypeOK
    <3>2. stage'[w] = "permit" /\ host'[w] = g /\ stage[w] = "away"
      BY <1>0, <1>1, <2>2 DEF Acquire, LimiterTypeOK
    <3>3. /\ Len(permitQueue'[g]) = Len(q) + 1
          /\ \A i \in 1 .. Len(q) : permitQueue'[g][i] = q[i]
          /\ permitQueue'[g][Len(q) + 1] = w
      BY <1>q, <3>1
    <3>4. \A i \in 1 .. Len(q) : q[i] # w
      BY <1>q, <3>2
    <3>5. Len(q) \in Nat
      BY <1>q
    <3>6. \A i \in 1 .. Len(q) + 1 : i \in 1 .. Len(q) \/ i = Len(q) + 1
      BY <3>5
    <3> DEFINE Q == permitQueue'[g]
               n == Len(q) + 1
    <3>7. \A i \in 1 .. Len(Q) :
            (i \in 1 .. Len(q) /\ Q[i] = q[i]) \/ (i = n /\ Q[i] = w)
      <4>1. /\ Len(Q) = n
            /\ \A i \in 1 .. Len(q) : Q[i] = q[i]
            /\ Q[n] = w
            /\ \A i \in 1 .. n : i \in 1 .. Len(q) \/ i = n
        BY <3>3, <3>6
      <4> HIDE DEF Q, q, n
      <4>2. QED
        BY <4>1
    <3>8. \A i \in 1 .. Len(Q) : stage'[Q[i]] = "permit" /\ host'[Q[i]] = g
      BY <1>q, <2>1, <3>2, <3>7
    <3>9. \A i, k \in 1 .. Len(Q) : Q[i] = Q[k] => i = k
      <4> HIDE DEF Q, q, n
      <4> QED
        BY <1>q, <3>4, <3>7
    <3>10. QED
      BY <3>8, <3>9
  <2>3. CASE ~(g = h /\ ~(permits[h] > 0))
    <3>1. permitQueue'[g] = q
      BY <1>0, <1>1, <2>3 DEF Acquire, LimiterTypeOK
    <3>2. QED
      BY <1>s, <2>1, <3>1
  <2>4. QED
    BY <2>2, <2>3
<1>2. ASSUME NEW w \in Workers, ReleasePermit(w)
      PROVE  /\ \A i \in 1 .. Len(permitQueue'[g]) :
                  /\ stage'[permitQueue'[g][i]] = "permit"
                  /\ host'[permitQueue'[g][i]] = g
             /\ \A i, k \in 1 .. Len(permitQueue'[g]) :
                  permitQueue'[g][i] = permitQueue'[g][k] => i = k
  <2> DEFINE h == host[w]
  <2>1. h \in Hosts /\ stage[w] = "granted"
    BY <1>0, <1>2 DEF LimiterTypeOK, ReleasePermit
  <2>2. CASE HandsOver(h)
    <3> DEFINE first == Head(permitQueue[h])
    <3>0. permitQueue[h] # <<>>
      BY <2>2 DEF HandsOver
    <3>1. first \in Workers /\ stage[first] = "permit" /\ host[first] = h
      BY <2>1, <3>0, FirstInQueue
    <3>2. \A v \in Workers : stage[v] = "permit" /\ v # first =>
            stage'[v] = "permit" /\ host'[v] = host[v]
      BY <1>0, <1>2, <2>1, <2>2, <3>1 DEF ReleasePermit, LimiterTypeOK
    <3>3. CASE g = h
      <4>1. permitQueue'[g] = Tail(q)
        BY <1>0, <1>2, <2>1, <2>2, <3>3 DEF ReleasePermit, LimiterTypeOK
      <4>2. \A i \in 1 .. Len(Tail(q)) :
              /\ Tail(q)[i] = q[i + 1]
              /\ i + 1 \in 1 .. Len(q)
              /\ Tail(q)[i] # first
        BY <3>0, <3>3, FirstInQueue
      <4>3. \A i \in 1 .. Len(Tail(q)) :
              stage'[Tail(q)[i]] = "permit" /\ host'[Tail(q)[i]] = g
        BY <1>q, <3>2, <4>2
      <4>4. \A i, k \in 1 .. Len(Tail(q)) : Tail(q)[i] = Tail(q)[k] => i = k
        <5>1. SUFFICES ASSUME NEW i \in 1 .. Len(Tail(q)), NEW k \in 1 .. Len(Tail(q)),
                              Tail(q)[i] = Tail(q)[k]
                       PROVE  i = k
          OBVIOUS
        <5>2. i + 1 = k + 1
          BY <1>q, <4>2, <5>1
        <5>3. QED
          BY <5>2
      <4>5. QED
        BY <4>1, <4>3, <4>4
    <3>4. CASE g # h
      <4>1. permitQueue'[g] = q
        BY <1>0, <1>2, <2>1, <2>2, <3>4 DEF ReleasePermit, LimiterTypeOK
      <4>2. \A i \in 1 .. Len(q) : q[i] # first
        BY <1>q, <3>1, <3>4
      <4>3. QED
        BY <1>q, <3>2, <4>1, <4>2
    <3>5. QED
      BY <3>3, <3>4
  <2>3. CASE ~HandsOver(h)
    <3>1. permitQueue'[g] = q
      BY <1>2, <2>3 DEF ReleasePermit
    <3>2. \A v \in Workers : stage[v] = "permit" =>
            stage'[v] = "permit" /\ host'[v] = host[v]
      BY <1>0, <1>2, <2>1, <2>3 DEF ReleasePermit, LimiterTypeOK
    <3>3. QED
      BY <1>s, <3>1, <3>2
  <2>4. QED
    BY <2>2, <2>3
<1>3. ASSUME NEW w \in Workers, WaitingStep(w)
      PROVE  /\ permitQueue'[g] = q
             /\ \A v \in Workers : stage[v] = "permit" =>
                  stage'[v] = "permit" /\ host'[v] = host[v]
  BY <1>0, <1>3
  DEF WaitingStep, GrantAtOnce, FallAsleep, WakeUp, Grant, LimiterTypeOK
<1>4. ASSUME LimiterTick \/ UNCHANGED limiterVars
      PROVE  /\ permitQueue'[g] = q
             /\ \A v \in Workers : stage[v] = "permit" =>
                  stage'[v] = "permit" /\ host'[v] = host[v]
  BY <1>4 DEF LimiterTick, limiterVars
<1>5. QED
  BY <1>1, <1>2, <1>3, <1>4, <1>s DEF LimiterNext

\* A sleeper keeps the lock until it wakes, so no grant comes in between.
LEMMA SleepStep ==
  ASSUME LimiterInv, [LimiterNext]_limiterVars
  PROVE  SleepInv'
<1>0. LimiterTypeOK /\ QueueInv /\ SleepInv
  BY DEF LimiterInv
<1> SUFFICES ASSUME NEW v \in Workers, stage'[v] = "asleep"
             PROVE  /\ lockQueue'[host'[v]] # <<>>
                    /\ Head(lockQueue'[host'[v]]) = v
                    /\ since'[host'[v]] + nap'[v] >= TargetDelay(host'[v])
  BY DEF SleepInv, TargetDelay, Delays
<1> DEFINE Kept == /\ lockQueue'[host'[v]] # <<>>
                   /\ Head(lockQueue'[host'[v]]) = v
                   /\ since'[host'[v]] + nap'[v] >= TargetDelay(host'[v])
<1>v. /\ host[v] \in Hosts /\ stage[v] \in Stage
      /\ lockQueue[host[v]] \in Seq(Workers)
      /\ since[host[v]] \in 0 .. LongAgo /\ nap[v] \in 0 .. LongAgo
      /\ TargetDelay(host[v]) \in 0 .. LongAgo
  BY <1>0, TargetDelayBounds DEF LimiterTypeOK
<1>a. stage[v] = "asleep" => /\ lockQueue[host[v]] # <<>>
                             /\ Head(lockQueue[host[v]]) = v
                             /\ since[host[v]] + nap[v] >= TargetDelay(host[v])
  BY <1>0 DEF SleepInv
\* Appending to a queue that is not empty leaves its head.
<1>h. \A x \in Workers : lockQueue[host[v]] # <<>> =>
        /\ Append(lockQueue[host[v]], x) # <<>>
        /\ Head(Append(lockQueue[host[v]], x)) = Head(lockQueue[host[v]])
  BY <1>v
<1>1. ASSUME NEW w \in Workers, NEW h \in Hosts, Acquire(w, h) PROVE Kept
  <2>1. v # w /\ stage[v] = "asleep" /\ host'[v] = host[v]
    BY <1>0, <1>1 DEF Acquire, LimiterTypeOK
  <2>2. \/ lockQueue'[host[v]] = lockQueue[host[v]]
        \/ lockQueue'[host[v]] = Append(lockQueue[host[v]], w)
    BY <1>0, <1>1, <1>v DEF Acquire, LimiterTypeOK
  <2>3. since' = since /\ nap' = nap
    BY <1>1 DEF Acquire
  <2>4. QED
    BY <1>a, <1>h, <2>1, <2>2, <2>3
<1>2. ASSUME NEW w \in Workers, Grant(w), lockQueue[host[w]] # <<>>,
             Head(lockQueue[host[w]]) = w, host' = host, nap' = nap
      PROVE  Kept
  <2>1. v # w /\ stage[v] = "asleep"
    BY <1>0, <1>2 DEF Grant, LimiterTypeOK
  <2>2. host[v] # host[w]
    BY <1>2, <1>a, <2>1
  <2>3. lockQueue'[host[v]] = lockQueue[host[v]] /\ since'[host[v]] = since[host[v]]
    BY <1>0, <1>2, <1>v, <2>2 DEF Grant, LimiterTypeOK
  <2>4. QED
    BY <1>2, <1>a, <2>1, <2>3
<1>3. ASSUME NEW w \in Workers, FallAsleep(w) PROVE Kept
  <2>1. CASE v = w
    <3>1. nap'[v] = TargetDelay(host[v]) - since[host[v]]
      BY <1>0, <1>3, <2>1 DEF FallAsleep, LimiterTypeOK
    <3>2. since[host[v]] + nap'[v] = TargetDelay(host[v])
      BY <1>v, <3>1
    <3>3. QED
      BY <1>3, <1>v, <2>1, <3>2 DEF FallAsleep, HoldsLock
  <2>2. CASE v # w
    <3>1. stage[v] = "asleep" /\ nap'[v] = nap[v]
      BY <1>0, <1>3, <2>2 DEF FallAsleep, LimiterTypeOK
    <3>2. QED
      BY <1>3, <1>a, <3>1 DEF FallAsleep
  <2>3. QED
    BY <2>1, <2>2
<1>4. ASSUME NEW w \in Workers, ReleasePermit(w) PROVE Kept
  <2> DEFINE h == host[w]
  <2>1. h \in Hosts /\ stage[w] = "granted"
    BY <1>0, <1>4 DEF LimiterTypeOK, ReleasePermit
  <2>2. since' = since /\ nap' = nap
    BY <1>4 DEF ReleasePermit
  <2>3. CASE HandsOver(h)
    <3> DEFINE first == Head(permitQueue[h])
    <3>1. first \in Workers
      BY <2>1, <2>3, FirstInQueue DEF HandsOver
    <3>2. v # w /\ stage[v] = "asleep" /\ host'[v] = host[v]
      BY <1>0, <1>4, <2>3, <3>1 DEF ReleasePermit, LimiterTypeOK
    <3>3. \/ lockQueue'[host[v]] = lockQueue[host[v]]
          \/ lockQueue'[host[v]] = Append(lockQueue[host[v]], first)
      BY <1>0, <1>4, <1>v, <2>1, <2>3 DEF ReleasePermit, LimiterTypeOK
    <3>4. QED
      BY <1>a, <1>h, <2>2, <3>1, <3>2, <3>3
  <2>4. CASE ~HandsOver(h)
    <3>1. v # w /\ stage[v] = "asleep" /\ host'[v] = host[v]
      BY <1>0, <1>4, <2>4 DEF ReleasePermit, LimiterTypeOK
    <3>2. lockQueue' = lockQueue
      BY <1>4, <2>4 DEF ReleasePermit
    <3>3. QED
      BY <1>a, <2>2, <3>1, <3>2
  <2>5. QED
    BY <2>3, <2>4
<1>5. CASE LimiterTick
  <2>1. stage[v] = "asleep" /\ host'[v] = host[v] /\ lockQueue' = lockQueue
    BY <1>5 DEF LimiterTick
  <2>2. /\ since'[host[v]] = IF since[host[v]] < LongAgo
                               THEN since[host[v]] + 1 ELSE LongAgo
        /\ nap'[v] = IF nap[v] > 0 THEN nap[v] - 1 ELSE 0
    BY <1>5, <1>v DEF LimiterTick
  <2>3. since'[host[v]] + nap'[v] >= TargetDelay(host[v])
    BY <1>a, <1>v, <2>1, <2>2, LimiterAssumption
  <2>4. QED
    BY <1>a, <2>1, <2>3
<1>6. CASE UNCHANGED limiterVars
  BY <1>6, <1>a DEF limiterVars
<1>7. ASSUME NEW w \in Workers, GrantAtOnce(w) PROVE Kept
  BY <1>2, <1>7 DEF GrantAtOnce, HoldsLock
<1>8. ASSUME NEW w \in Workers, WakeUp(w) PROVE Kept
  BY <1>0, <1>2, <1>8 DEF WakeUp, SleepInv
<1>9. QED
  BY <1>1, <1>3, <1>4, <1>5, <1>6, <1>7, <1>8 DEF LimiterNext, WaitingStep

\* Permits move between the semaphore and the workers, and nowhere else.
LEMMA PermitsStep ==
  ASSUME LimiterInv, [LimiterNext]_limiterVars
  PROVE  PermitsConserved'
<1>0. LimiterTypeOK /\ QueueInv /\ PermitsConserved
  BY DEF LimiterInv
<1> SUFFICES ASSUME NEW g \in Hosts
             PROVE  /\ permits'[g] + Cardinality(Holders(g)') = Permits
                    /\ permitQueue'[g] # <<>> => permits'[g] = 0
  BY DEF PermitsConserved, Holders
<1> DEFINE Goal == /\ permits'[g] + Cardinality(Holders(g)') = Permits
                   /\ permitQueue'[g] # <<>> => permits'[g] = 0
<1>g. /\ permits[g] \in 0 .. Permits /\ permitQueue[g] \in Seq(Workers)
      /\ permits[g] + Cardinality(Holders(g)) = Permits
      /\ permitQueue[g] # <<>> => permits[g] = 0
      /\ IsFiniteSet(Holders(g)) /\ Cardinality(Holders(g)) \in Nat
  BY <1>0, HoldersFinite DEF LimiterTypeOK, PermitsConserved
<1>s. ASSUME Holders(g)' = Holders(g), permits'[g] = permits[g],
             permitQueue'[g] = permitQueue[g]
      PROVE  Goal
  BY <1>g, <1>s
<1>1. ASSUME NEW w \in Workers, NEW h \in Hosts, Acquire(w, h) PROVE Goal
  <2>1. stage[w] = "away" /\ w \notin Holders(g)
    BY <1>1 DEF Acquire, Holders
  <2>2. CASE permits[h] > 0 /\ g = h
    <3>1. Holders(g)' = Holders(g) \union {w}
      BY <1>0, <1>1, <2>1, <2>2 DEF Acquire, Holders, LimiterTypeOK
    <3>2. Cardinality(Holders(g)') = Cardinality(Holders(g)) + 1
      BY <1>g, <2>1, <3>1, FS_AddElement
    <3>3. permits'[g] = permits[g] - 1 /\ permitQueue'[g] = permitQueue[g]
      BY <1>0, <1>1, <2>2 DEF Acquire, LimiterTypeOK
    <3>4. QED
      BY <1>g, <2>2, <3>2, <3>3
  <2>3. CASE ~(permits[h] > 0) /\ g = h
    <3>1. Holders(g)' = Holders(g)
      BY <1>0, <1>1, <2>1, <2>3 DEF Acquire, Holders, LimiterTypeOK
    <3>2. permits'[g] = permits[g] /\ permits[g] = 0
      BY <1>1, <1>g, <2>3 DEF Acquire
    <3>3. QED
      BY <1>g, <3>1, <3>2
  <2>4. CASE g # h
    <3>1. Holders(g)' = Holders(g)
      BY <1>0, <1>1, <2>1, <2>4 DEF Acquire, Holders, LimiterTypeOK
    <3>2. permits'[g] = permits[g] /\ permitQueue'[g] = permitQueue[g]
      BY <1>0, <1>1, <2>4 DEF Acquire, LimiterTypeOK
    <3>3. QED
      BY <1>s, <3>1, <3>2
  <2>5. QED
    BY <2>2, <2>3, <2>4
<1>2. ASSUME NEW w \in Workers, ReleasePermit(w) PROVE Goal
  <2> DEFINE h == host[w]
  <2>1. h \in Hosts /\ stage[w] = "granted"
    BY <1>0, <1>2 DEF LimiterTypeOK, ReleasePermit
  <2>2. CASE HandsOver(h)
    <3> DEFINE first == Head(permitQueue[h])
    <3>1. first \in Workers /\ stage[first] = "permit" /\ host[first] = h
      BY <2>1, <2>2, FirstInQueue DEF HandsOver
    <3>2. permits' = permits
      BY <1>2, <2>2 DEF ReleasePermit
    <3>3. CASE g = h
      <4>1. Holders(g)' = (Holders(g) \ {w}) \union {first}
        BY <1>0, <1>2, <2>1, <2>2, <3>1, <3>3
        DEF ReleasePermit, Holders, LimiterTypeOK
      <4>2. w \in Holders(g) /\ first \notin Holders(g)
        BY <2>1, <3>1, <3>3 DEF Holders
      <4>3. /\ IsFiniteSet(Holders(g) \ {w})
            /\ Cardinality(Holders(g) \ {w}) = Cardinality(Holders(g)) - 1
        BY <1>g, <4>2, FS_RemoveElement
      <4>4. Cardinality(Holders(g)') = Cardinality(Holders(g)) - 1 + 1
        <5>1. first \notin Holders(g) \ {w}
          BY <4>2
        <5>2. Cardinality((Holders(g) \ {w}) \union {first}) =
                Cardinality(Holders(g) \ {w}) + 1
          BY <4>3, <5>1, FS_AddElement
        <5>3. QED
          BY <4>1, <4>3, <5>2
      <4>5. permits[g] = 0
        BY <1>g, <2>2, <3>3 DEF HandsOver
      <4>6. QED
        BY <1>g, <3>2, <4>4, <4>5
    <3>4. CASE g # h
      <4>1. Holders(g)' = Holders(g)
        BY <1>0, <1>2, <2>1, <2>2, <3>1, <3>4
        DEF ReleasePermit, Holders, LimiterTypeOK
      <4>2. permitQueue'[g] = permitQueue[g]
        BY <1>0, <1>2, <2>1, <2>2, <3>4 DEF ReleasePermit, LimiterTypeOK
      <4>3. QED
        BY <1>s, <3>2, <4>1, <4>2
    <3>5. QED
      BY <3>3, <3>4
  <2>3. CASE ~HandsOver(h)
    <3>1. permitQueue' = permitQueue
      BY <1>2, <2>3 DEF ReleasePermit
    <3>2. CASE g = h
      <4>1. Holders(g)' = Holders(g) \ {w}
        BY <1>0, <1>2, <2>1, <2>3, <3>2
        DEF ReleasePermit, Holders, LimiterTypeOK
      <4>2. w \in Holders(g)
        BY <2>1, <3>2 DEF Holders
      <4>3. Cardinality(Holders(g)') = Cardinality(Holders(g)) - 1
        BY <1>g, <4>1, <4>2, FS_RemoveElement
      <4>4. permits'[g] = permits[g] + 1
        BY <1>0, <1>2, <2>3, <3>2 DEF ReleasePermit, LimiterTypeOK
      <4>5. permitQueue'[g] = <<>>
        BY <2>3, <3>1, <3>2 DEF HandsOver
      <4>6. QED
        BY <1>g, <4>3, <4>4, <4>5
    <3>3. CASE g # h
      <4>1. Holders(g)' = Holders(g)
        BY <1>0, <1>2, <2>1, <2>3, <3>3
        DEF ReleasePermit, Holders, LimiterTypeOK
      <4>2. permits'[g] = permits[g]
        BY <1>0, <1>2, <2>1, <2>3, <3>3 DEF ReleasePermit, LimiterTypeOK
      <4>3. QED
        BY <1>s, <3>1, <4>1, <4>2
    <3>4. QED
      BY <3>2, <3>3
  <2>4. QED
    BY <2>2, <2>3
<1>3. ASSUME NEW w \in Workers, WaitingStep(w) PROVE Goal
  <2>1. Holders(g)' = Holders(g)
    BY <1>0, <1>3 DEF WaitingStep, GrantAtOnce, FallAsleep, WakeUp, Grant,
                      Holders, LimiterTypeOK
  <2>2. permits' = permits /\ permitQueue' = permitQueue
    BY <1>3 DEF WaitingStep, GrantAtOnce, FallAsleep, WakeUp, Grant
  <2>3. QED
    BY <1>s, <2>1, <2>2
<1>4. ASSUME LimiterTick \/ UNCHANGED limiterVars PROVE Goal
  <2>1. Holders(g)' = Holders(g)
    BY <1>4 DEF LimiterTick, limiterVars, Holders
  <2>2. permits' = permits /\ permitQueue' = permitQueue
    BY <1>4 DEF LimiterTick, limiterVars
  <2>3. QED
    BY <1>s, <2>1, <2>2
<1>5. QED
  BY <1>1, <1>2, <1>3, <1>4 DEF LimiterNext

\* The invariant is inductive.
LEMMA LimiterInvStep ==
  LimiterInv /\ [LimiterNext]_limiterVars => LimiterInv'
BY LimiterTypeStep, QueueStep, SleepStep, PermitsStep DEF LimiterInv

\* A grant comes from one of two steps, and neither comes too early.
LEMMA GrantStep ==
  ASSUME LimiterInv, [LimiterNext]_limiterVars,
         NEW w \in Workers, stage'[w] = "granted", stage[w] # "granted"
  PROVE  since[host[w]] >= TargetDelay(host[w])
<1>0. LimiterTypeOK /\ SleepInv
  BY DEF LimiterInv
<1>1. GrantAtOnce(w) \/ WakeUp(w)
  <2>1. ASSUME NEW v \in Workers, NEW h \in Hosts, Acquire(v, h) PROVE FALSE
    BY <1>0, <2>1 DEF Acquire, LimiterTypeOK
  <2>2. ASSUME NEW v \in Workers, FallAsleep(v) PROVE FALSE
    BY <1>0, <2>2 DEF FallAsleep, LimiterTypeOK
  <2>3. ASSUME NEW v \in Workers, ReleasePermit(v) PROVE FALSE
    BY <1>0, <2>3 DEF ReleasePermit, LimiterTypeOK
  <2>4. ASSUME NEW v \in Workers, GrantAtOnce(v) \/ WakeUp(v) PROVE v = w
    BY <1>0, <2>4 DEF GrantAtOnce, WakeUp, Grant, LimiterTypeOK
  <2>5. ~LimiterTick /\ ~UNCHANGED limiterVars
    BY DEF LimiterTick, limiterVars
  <2>6. QED
    BY <2>1, <2>2, <2>3, <2>4, <2>5 DEF LimiterNext, WaitingStep
<1>2. CASE GrantAtOnce(w)
  BY <1>2 DEF GrantAtOnce
<1>3. CASE WakeUp(w)
  <2>1. since[host[w]] + nap[w] >= TargetDelay(host[w]) /\ nap[w] = 0
    BY <1>0, <1>3 DEF WakeUp, SleepInv
  <2>2. since[host[w]] \in Nat
    BY <1>0 DEF LimiterTypeOK
  <2>3. QED
    BY <2>1, <2>2
<1>4. QED
  BY <1>1, <1>2, <1>3
-----------------------------------------------------------------------------
(***************************************************************************)
(* Workers that fetch use the limiter as it is meant to be used.           *)
(***************************************************************************)

\* Every step of the workers is one of the limiter, or leaves it alone.
LEMMA LimiterUsed == [Next]_vars => [LimiterNext]_limiterVars
<1> SUFFICES ASSUME [Next]_vars PROVE [LimiterNext]_limiterVars
  OBVIOUS
<1>1. CASE Tick
  BY <1>1 DEF Tick, LimiterNext
<1>2. ASSUME NEW w \in Workers, LimiterStep(w) PROVE LimiterNext
  BY <1>2 DEF LimiterStep, LimiterNext
<1>3. ASSUME NEW w \in Workers, Release(w) PROVE LimiterNext
  BY <1>3 DEF Release, LimiterNext
<1>4. CASE UNCHANGED vars
  BY <1>4 DEF vars
<1>5. QED
  BY <1>1, <1>2, <1>3, <1>4 DEF Next

\* What the limiter promises holds of every worker's every fetch: this is
\* the limiter's own specification, whatever fetches do.
THEOREM FetchesUseLimiter == Spec => LimiterSpec
<1>1. Init => LimiterInit
  BY DEF Init
<1>2. QED
  BY <1>1, LimiterUsed, PTL DEF Spec, LimiterSpec

\* The limiter's invariant holds in every reachable state.
LEMMA LimiterInvAlways == LimiterSpec => []LimiterInv
BY LimiterInvInit, LimiterInvStep, PTL DEF LimiterSpec

\* Permits are conserved, whatever order workers ask, fail and release in:
\* at most max_concurrency_per_domain are past the semaphore of a host.
THEOREM PermitsConservedAlways == Spec => []PermitsConserved
<1>1. LimiterInv => PermitsConserved
  BY DEF LimiterInv
<1>2. QED
  BY <1>1, LimiterInvAlways, FetchesUseLimiter, PTL

\* Grants of a host keep the interval, and the start host's Crawl-delay.
THEOREM GrantsSpacedAlways == Spec => GrantsSpaced
<1> DEFINE Spaced ==
      \A w \in Workers :
        stage'[w] = "granted" /\ stage[w] # "granted" =>
          /\ since[host[w]] >= Interval
          /\ host[w] = StartHost => since[host[w]] >= CrawlDelay[StartHost]
<1>1. LimiterInv /\ [LimiterNext]_limiterVars => [Spaced]_limiterVars
  <2> SUFFICES ASSUME LimiterInv, [LimiterNext]_limiterVars,
                      NEW w \in Workers,
                      stage'[w] = "granted", stage[w] # "granted"
               PROVE  /\ since[host[w]] >= Interval
                      /\ host[w] = StartHost =>
                           since[host[w]] >= CrawlDelay[StartHost]
    OBVIOUS
  <2>1. since[host[w]] >= TargetDelay(host[w])
    BY GrantStep
  <2>2. host[w] \in Hosts /\ since[host[w]] \in Nat
    BY DEF LimiterInv, LimiterTypeOK
  <2>3. /\ TargetDelay(host[w]) \in Nat
        /\ TargetDelay(host[w]) >= Interval
        /\ host[w] = StartHost => TargetDelay(host[w]) >= CrawlDelay[StartHost]
    BY <2>2, TargetDelayBounds, LimiterAssumption
  <2>4. Interval \in Nat /\ CrawlDelay[StartHost] \in Nat
    BY LimiterAssumption
  <2>5. QED
    BY <2>1, <2>2, <2>3, <2>4
<1>2. LimiterSpec => [][Spaced]_limiterVars
  BY <1>1, LimiterInvAlways, PTL DEF LimiterSpec
<1>3. QED
  BY <1>2, FetchesUseLimiter, PTL DEF GrantsSpaced
-----------------------------------------------------------------------------
(***************************************************************************)
(* Requests of a fetch.                                                    *)
(***************************************************************************)

Attempts == MaxRetries + 1

FetchTypes ==
  /\ at \in [Workers -> Place]
  /\ redirects \in [Workers -> 0 .. MaxRedirects]
  /\ attempt \in [Workers -> 0 .. MaxRetries]
  /\ requests \in [Workers -> Nat]

\* Every round of the outer loop has cost at most Attempts requests so far,
\* the round under way at most those of the attempts made in it.
Spent(w) ==
  /\ at[w] \in {"idle", "ended"} => requests[w] = 0
  /\ at[w] = "checking" => requests[w] <= redirects[w] * Attempts
  /\ at[w] \in {"sending", "backoff", "reading"} =>
       requests[w] <= redirects[w] * Attempts + attempt[w] + 1

RequestInv == FetchTypes /\ \A w \in Workers : Spent(w)

\* Facts of arithmetic that the rounds need.
LEMMA Rounds ==
  ASSUME NEW r \in Nat, NEW m \in Nat, NEW k \in Nat
  PROVE  /\ r * k \in Nat
         /\ (r + 1) * k = r * k + k
         /\ 0 * k = 0
         /\ r <= m => r * k + k <= (m + 1) * k
<1>1. r * k \in Nat /\ m * k \in Nat /\ 0 * k = 0
  OBVIOUS
<1>2. (r + 1) * k = r * k + k /\ (m + 1) * k = m * k + k
  OBVIOUS
<1>3. r <= m => r * k <= m * k
  OBVIOUS
<1>4. QED
  BY <1>1, <1>2, <1>3

\* No request is sent before the first fetch.
LEMMA RequestInvInit == Init => RequestInv
BY FetchAssumption DEF Init, FetchInit, RequestInv, FetchTypes, Spent, Place

\* A step of one worker's fetch keeps the count of that worker in bounds and
\* leaves the others alone.
LEMMA FetchStepCounts ==
  ASSUME RequestInv, NEW w \in Workers, FetchStep(w)
  PROVE  /\ FetchTypes'
         /\ Spent(w)'
         /\ \A v \in Workers : v # w =>
              /\ at'[v] = at[v] /\ redirects'[v] = redirects[v]
              /\ attempt'[v] = attempt[v] /\ requests'[v] = requests[v]
<1> DEFINE Goal == /\ FetchTypes'
                   /\ Spent(w)'
                   /\ \A v \in Workers : v # w =>
                        /\ at'[v] = at[v] /\ redirects'[v] = redirects[v]
                        /\ attempt'[v] = attempt[v] /\ requests'[v] = requests[v]
<1>0. FetchTypes /\ Spent(w)
  BY DEF RequestInv
<1>k. Attempts \in Nat /\ Attempts = MaxRetries + 1 /\ MaxRedirects \in Nat
  BY FetchAssumption DEF Attempts
<1>r. /\ redirects[w] \in Nat /\ redirects[w] <= MaxRedirects
      /\ attempt[w] \in Nat /\ attempt[w] <= MaxRetries
      /\ requests[w] \in Nat
      /\ redirects[w] * Attempts \in Nat
      /\ (redirects[w] + 1) * Attempts = redirects[w] * Attempts + Attempts
      /\ 0 * Attempts = 0
  BY <1>0, <1>k, Rounds, FetchAssumption DEF FetchTypes
<1>1. ASSUME NEW r, End(w, r) PROVE Goal
  <2>1. FetchTypes'
    BY <1>0, <1>1, FetchAssumption DEF End, FetchTypes, Place
  <2>2. at'[w] = "ended" /\ requests'[w] = 0
    BY <1>0, <1>1 DEF End, FetchTypes
  <2>3. Spent(w)'
    BY <2>2 DEF Spent
  <2>4. QED
    BY <1>0, <1>1, <2>1, <2>3 DEF End, FetchTypes
<1>2. ASSUME NEW n, BackOff(w, n), at[w] = "sending" PROVE Goal
  <2>1. FetchTypes'
    BY <1>0, <1>2 DEF BackOff, FetchTypes, Place
  <2>2. Spent(w)'
    BY <1>0, <1>2 DEF BackOff, FetchTypes, Spent
  <2>3. QED
    BY <1>0, <1>2, <2>1, <2>2 DEF BackOff, FetchTypes
<1>3. CASE Begin(w)
  <2>1. FetchTypes'
    BY <1>0, <1>3 DEF Begin, FetchTypes, Place
  <2>2. requests'[w] = 0 /\ at'[w] = "checking" /\ redirects'[w] = redirects[w]
    BY <1>0, <1>3 DEF Begin, FetchTypes, Spent
  <2>3. Spent(w)'
    BY <1>r, <2>2 DEF Spent, Attempts
  <2>4. QED
    BY <1>0, <1>3, <2>1, <2>3 DEF Begin, FetchTypes
<1>4. CASE Accepted(w)
  <2>1. FetchTypes'
    BY <1>0, <1>4, FetchAssumption DEF Accepted, Send, FetchTypes, Place
  <2>2. /\ requests'[w] = requests[w] + 1 /\ attempt'[w] = 0
        /\ at'[w] = "sending" /\ redirects'[w] = redirects[w]
        /\ requests[w] <= redirects[w] * Attempts
    BY <1>0, <1>4 DEF Accepted, Send, FetchTypes, Spent
  <2>3. Spent(w)'
    BY <1>r, <2>2 DEF Spent, Attempts
  <2>4. QED
    BY <1>0, <1>4, <2>1, <2>3 DEF Accepted, Send, FetchTypes
<1>5. CASE Retry(w) /\ MayRetry(w)
  <2>1. attempt[w] + 1 \in 0 .. MaxRetries
    BY <1>r, <1>5, FetchAssumption DEF MayRetry
  <2>2. FetchTypes'
    BY <1>0, <1>5, <2>1 DEF Retry, Send, FetchTypes, Place
  <2>3. /\ requests'[w] = requests[w] + 1 /\ attempt'[w] = attempt[w] + 1
        /\ at'[w] = "sending" /\ redirects'[w] = redirects[w]
        /\ requests[w] <= redirects[w] * Attempts + attempt[w] + 1
    BY <1>0, <1>5 DEF Retry, Send, FetchTypes, Spent
  <2>4. Spent(w)'
    BY <1>r, <2>3 DEF Spent, Attempts
  <2>5. QED
    BY <1>0, <1>5, <2>2, <2>4 DEF Retry, Send, FetchTypes
<1>6. CASE Redirected(w)
  <2>1. redirects[w] + 1 \in 0 .. MaxRedirects
    BY <1>r, <1>6, FetchAssumption DEF Redirected, MayFollow
  <2>2. FetchTypes'
    BY <1>0, <1>6, <2>1 DEF Redirected, FetchTypes, Place
  <2>3. /\ requests'[w] = requests[w] /\ redirects'[w] = redirects[w] + 1
        /\ at'[w] = "checking"
        /\ requests[w] <= redirects[w] * Attempts + attempt[w] + 1
    BY <1>0, <1>6 DEF Redirected, FetchTypes, Spent
  <2>4. requests[w] <= (redirects[w] + 1) * Attempts
    BY <1>k, <1>r, <2>3, FetchAssumption
  <2>5. Spent(w)'
    BY <2>3, <2>4 DEF Spent, Attempts
  <2>6. QED
    BY <1>0, <1>6, <2>2, <2>5 DEF Redirected, FetchTypes
<1>7. CASE Answered(w)
  <2>1. FetchTypes'
    BY <1>0, <1>7 DEF Answered, FetchTypes, Place
  <2>2. Spent(w)'
    BY <1>0, <1>7 DEF Answered, FetchTypes, Spent
  <2>3. QED
    BY <1>0, <1>7, <2>1, <2>2 DEF Answered, FetchTypes
<1>8. CASE Retry(w) /\ ~MayRetry(w)
  BY <1>1, <1>8 DEF Retry
<1>9. CASE \/ Refused(w) \/ SendFailed(w) \/ RedirectFailed(w) \/ BodyRead(w)
  BY <1>1, <1>9 DEF Refused, SendFailed, RedirectFailed, BodyRead
<1>10. CASE Unavailable(w) \/ \E n \in Waits : TooManyRequests(w, n)
  BY <1>2, <1>10 DEF Unavailable, TooManyRequests
<1>11. QED
  BY <1>3, <1>4, <1>5, <1>6, <1>7, <1>8, <1>9, <1>10 DEF FetchStep

\* The count of requests is preserved by every step.
LEMMA RequestInvStep ==
  ASSUME RequestInv, [Next]_vars
  PROVE  RequestInv'
<1>0. FetchTypes /\ \A v \in Workers : Spent(v)
  BY DEF RequestInv
<1>1. ASSUME NEW w \in Workers, FetchStep(w) PROVE RequestInv'
  <2>1. FetchTypes' /\ Spent(w)'
    BY <1>1, FetchStepCounts
  <2>2. ASSUME NEW v \in Workers, v # w PROVE Spent(v)'
    BY <1>0, <1>1, <2>2, FetchStepCounts DEF Spent, Attempts
  <2>3. QED
    BY <2>1, <2>2 DEF RequestInv
<1>2. ASSUME NEW w \in Workers, Release(w) PROVE RequestInv'
  <2>1. FetchTypes'
    BY <1>0, <1>2 DEF Release, FetchTypes, Place
  <2>2. ASSUME NEW v \in Workers PROVE Spent(v)'
    BY <1>0, <1>2, <2>2 DEF Release, MayRelease, FetchTypes, Spent, Attempts
  <2>3. QED
    BY <2>1, <2>2 DEF RequestInv
<1>3. ASSUME UNCHANGED <<at, redirects, attempt, requests>> PROVE RequestInv'
  BY <1>0, <1>3 DEF RequestInv, FetchTypes, Spent, Attempts
<1>4. CASE Tick \/ \E w \in Workers : LimiterStep(w)
  BY <1>3, <1>4 DEF Tick, LimiterStep, fetchVars
<1>5. CASE UNCHANGED vars
  BY <1>3, <1>5 DEF vars, fetchVars
<1>6. QED
  BY <1>1, <1>2, <1>4, <1>5 DEF Next

\* However retries, 429 answers and redirects nest, one grant leads to at most
\* (max_redirects + 1) * (max_retries + 1) requests.
THEOREM RequestsBoundedAlways == Spec => []RequestsBounded
<1>1. RequestInv => RequestsBounded
  <2> SUFFICES ASSUME RequestInv, NEW w \in Workers
               PROVE  requests[w] <= (MaxRedirects + 1) * (MaxRetries + 1)
    BY DEF RequestsBounded
  <2>1. Attempts \in Nat /\ Attempts = MaxRetries + 1 /\ MaxRedirects \in Nat
    BY FetchAssumption DEF Attempts
  <2>2. /\ redirects[w] \in Nat /\ redirects[w] <= MaxRedirects
        /\ attempt[w] \in Nat /\ attempt[w] <= MaxRetries
        /\ requests[w] \in Nat /\ at[w] \in Place
    BY FetchAssumption DEF RequestInv, FetchTypes
  <2>3. /\ redirects[w] * Attempts \in Nat
        /\ redirects[w] * Attempts + Attempts <= (MaxRedirects + 1) * Attempts
    BY <2>1, <2>2, Rounds
  <2>4. requests[w] <= redirects[w] * Attempts + Attempts
    <3>1. Spent(w) /\ MaxRetries \in Nat
      BY FetchAssumption DEF RequestInv
    <3>2. QED
      BY <2>1, <2>2, <2>3, <3>1 DEF Spent, Place
  <2>5. (MaxRedirects + 1) * Attempts \in Nat
    BY <2>1, Rounds
  <2>6. requests[w] <= (MaxRedirects + 1) * Attempts
    BY <2>1, <2>2, <2>3, <2>4, <2>5
  <2>7. QED
    BY <2>6 DEF Attempts
<1>2. RequestInv /\ [Next]_vars => RequestInv'
  BY RequestInvStep
<1>3. QED
  BY <1>1, <1>2, RequestInvInit, PTL DEF Spec

-----------------------------------------------------------------------------
(***************************************************************************)
(* Types of a fetch.                                                       *)
(***************************************************************************)

\* There is a longest pause, and none is longer.
LEMMA PausesBounded ==
  /\ LongestPause \in Nat
  /\ \A n \in Pauses : n \in 0 .. LongestPause
<1> DEFINE Doubled == {Backoff * 2^k : k \in 0 .. MaxRetries}
<1>1. \A k \in 0 .. MaxRetries : Backoff * 2^k \in Nat
  <2>1. \A x \in Nat : Backoff * x \in Nat
    BY FetchAssumption
  <2>2. QED
    BY <2>1, FetchAssumption
<1>2. IsFiniteSet(Doubled)
  <2>1. IsFiniteSet(0 .. MaxRetries)
    BY FetchAssumption, FS_Interval
  <2> DEFINE f == [k \in 0 .. MaxRetries |-> Backoff * 2^k]
  <2>2. f \in Surjection(0 .. MaxRetries, Doubled)
    BY DEF Surjection
  <2>3. QED
    BY <2>1, <2>2, FS_Surjection
<1>3. Pauses = Waits \union Doubled
  BY DEF Pauses
<1>4. Doubled \in SUBSET Nat /\ Doubled # {}
  <2>1. 0 \in 0 .. MaxRetries
    BY FetchAssumption
  <2>2. QED
    BY <1>1, <2>1
<1> HIDE DEF Doubled
<1>5. IsFiniteSet(Pauses)
  BY <1>2, <1>3, FS_Union, FetchAssumption
<1>6. Pauses \in SUBSET Nat /\ Pauses # {}
  BY <1>3, <1>4, FetchAssumption
<1>7. \E n \in Pauses : \A m \in Pauses : m <= n
  BY <1>5, <1>6, FiniteGreatest
<1>8. LongestPause \in Pauses /\ \A m \in Pauses : m <= LongestPause
  BY <1>7 DEF LongestPause
<1>9. QED
  BY <1>6, <1>8

\* A fetch has a result from its end to the release, and sleeps no longer
\* than the longest pause.
ResultTypes ==
  /\ pause \in [Workers -> 0 .. LongestPause]
  /\ result \in [Workers -> Result]
  /\ \A w \in Workers : result[w] # "none" <=> at[w] = "ended"

\* Every step keeps result and pause typed.
LEMMA ResultTypesStep ==
  ASSUME FetchTypes, ResultTypes, [Next]_vars
  PROVE  ResultTypes'
<1>0. at \in [Workers -> Place] /\ attempt \in [Workers -> 0 .. MaxRetries]
  BY DEF FetchTypes
<1>1. LongestPause \in Nat /\ \A n \in Pauses : n \in 0 .. LongestPause
  BY PausesBounded
<1>2. ASSUME NEW w \in Workers, NEW r \in Result \ {"none"}, End(w, r)
      PROVE  ResultTypes'
  BY <1>0, <1>2 DEF End, ResultTypes, Result
<1>3. ASSUME NEW w \in Workers, NEW n \in Pauses, BackOff(w, n),
             at[w] = "sending"
      PROVE  ResultTypes'
  <2>1. n \in 0 .. LongestPause
    BY <1>1
  <2>2. QED
    BY <1>0, <1>3, <2>1 DEF BackOff, ResultTypes, Result
<1>4. ASSUME NEW w \in Workers, FetchStep(w) PROVE ResultTypes'
  <2>1. CASE Begin(w) \/ Accepted(w) \/ Redirected(w) \/ Answered(w)
    BY <1>0, <2>1
       DEF Begin, Accepted, Send, Redirected, Answered, ResultTypes, Result
  <2>2. CASE Refused(w) \/ SendFailed(w) \/ RedirectFailed(w) \/ BodyRead(w)
    BY <1>2, <2>2
       DEF Refused, SendFailed, RedirectFailed, BodyRead, Result
  <2>3. CASE \E n \in Waits : TooManyRequests(w, n)
    BY <1>3, <2>3 DEF TooManyRequests, Pauses
  <2>4. CASE Unavailable(w)
    <3>1. attempt[w] \in 0 .. MaxRetries
      BY <1>0
    <3>2. Backoff * 2^attempt[w] \in Pauses
      BY <3>1 DEF Pauses
    <3>3. QED
      BY <1>3, <2>4, <3>2 DEF Unavailable
  <2>5. CASE Retry(w) /\ MayRetry(w)
    BY <1>0, <2>5 DEF Retry, Send, ResultTypes, Result
  <2>6. CASE Retry(w) /\ ~MayRetry(w)
    BY <1>2, <2>6 DEF Retry, Result
  <2>7. QED
    BY <1>4, <2>1, <2>2, <2>3, <2>4, <2>5, <2>6 DEF FetchStep
<1>5. ASSUME NEW w \in Workers, Release(w) PROVE ResultTypes'
  BY <1>0, <1>5 DEF Release, ResultTypes, Result
<1>6. CASE Tick
  <2>1. \A n \in 0 .. LongestPause : (IF n > 0 THEN n - 1 ELSE 0) \in 0 .. LongestPause
    BY <1>1
  <2>2. pause' \in [Workers -> 0 .. LongestPause]
    BY <1>6, <2>1 DEF Tick, ResultTypes
  <2>3. QED
    BY <1>6, <2>2 DEF Tick, ResultTypes
<1>7. CASE UNCHANGED fetchVars
  BY <1>7 DEF fetchVars, ResultTypes
<1>8. QED
  BY <1>4, <1>5, <1>6, <1>7 DEF Next, LimiterStep, vars

\* Every variable of the limiter and of the fetches in it keeps its type: no
\* permit count leaves its range, no retry or redirect goes past its limit,
\* and no back-off is longer than the code's longest.
THEOREM TypeCorrect == Spec => []TypeOK
<1> DEFINE Inv == RequestInv /\ ResultTypes
<1>1. Init => Inv
  <2>1. ASSUME Init PROVE ResultTypes
    BY <2>1, PausesBounded DEF Init, FetchInit, ResultTypes, Result
  <2>2. QED
    BY <2>1, RequestInvInit
<1>2. Inv /\ [Next]_vars => Inv'
  BY RequestInvStep, ResultTypesStep DEF RequestInv
<1>3. Spec => []Inv
  BY <1>1, <1>2, PTL DEF Spec
<1>4. LimiterInv /\ Inv => TypeOK
  BY DEF LimiterInv, RequestInv, FetchTypes, ResultTypes, TypeOK
<1>5. QED
  BY <1>3, <1>4, LimiterInvAlways, FetchesUseLimiter, PTL
=============================================================================
