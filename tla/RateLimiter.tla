---------------------------- MODULE RateLimiter ----------------------------
(***************************************************************************)
(* DomainRateLimiter: for every host a semaphore that bounds how many      *)
(* workers may be between acquire and release, and a lock under which each *)
(* grant is delayed until the host's target delay has passed since the     *)
(* last one.                                                               *)
(*                                                                         *)
(* Both asyncio primitives are first in, first out: a woken waiter holds   *)
(* its place, a newcomer queues behind it.  The locks around the           *)
(* dictionaries never suspend and are part of the steps.                   *)
(*                                                                         *)
(* Time is counted in ticks.  The clock itself is not kept: since[h] is    *)
(* what acquire computes as `elapsed`, frozen once it is longer than any   *)
(* delay, and nap[w] what is left of a sleep.  A step may come any number  *)
(* of ticks after it became possible.                                      *)
(*                                                                         *)
(* The definitions named Faulty... are deliberate faults that no action    *)
(* uses: each stands in for the definition after it to show that a         *)
(* property notices.                                                       *)
(***************************************************************************)
EXTENDS Integers, FiniteSets, Sequences

CONSTANTS
  Workers,      \* users of the limiter: the worker tasks of one engine
  Hosts,        \* keys of the dictionaries, from get_domain
  StartHost,    \* the host of the start URL
  Permits,      \* max_concurrency_per_domain
  Interval,     \* ticks of 1 / requests_per_second
  CrawlDelay,   \* [Hosts -> ticks]: the Crawl-delay of each robots.txt
  LongAgo       \* bound: a span that no delay exceeds; since stops there

ASSUME LimiterAssumption ==
  /\ IsFiniteSet(Workers)
  /\ StartHost \in Hosts
  /\ Permits \in Nat \ {0}
  /\ Interval \in Nat
  /\ LongAgo \in Nat
  /\ Interval <= LongAgo
  /\ CrawlDelay \in [Hosts -> 0 .. LongAgo]

VARIABLES
  stage,        \* where each worker is: see Stage
  host,         \* the host it asked for
  permits,      \* _semaphores[h]._value
  permitQueue,  \* the waiters of _semaphores[h]
  lockQueue,    \* the waiters of _locks[h], its holder first
  since,        \* time since _last_request_time[h]
  nap           \* what is left of the sleep under the lock

limiterVars == <<stage, host, permits, permitQueue, lockQueue, since, nap>>

Stage == {"away", "permit", "lock", "asleep", "granted"}

\* run() hands the delay to the limiter for the host of the start URL only.
Delays == [h \in Hosts |-> IF h = StartHost THEN CrawlDelay[h] ELSE 0]

Longer(a, b) == IF a > b THEN a ELSE b

TargetDelay(h) == Longer(Interval, Delays[h])

LimiterTypeOK ==
  /\ stage \in [Workers -> Stage]
  /\ host \in [Workers -> Hosts]
  /\ permits \in [Hosts -> 0 .. Permits]
  /\ permitQueue \in [Hosts -> Seq(Workers)]
  /\ lockQueue \in [Hosts -> Seq(Workers)]
  /\ since \in [Hosts -> 0 .. LongAgo]
  /\ nap \in [Workers -> 0 .. LongAgo]

\* A host never asked has last == 0.0: long ago.
LimiterInit ==
  /\ stage = [w \in Workers |-> "away"]
  /\ host = [w \in Workers |-> StartHost]
  /\ permits = [h \in Hosts |-> Permits]
  /\ permitQueue = [h \in Hosts |-> <<>>]
  /\ lockQueue = [h \in Hosts |-> <<>>]
  /\ since = [h \in Hosts |-> LongAgo]
  /\ nap = [w \in Workers |-> 0]
-----------------------------------------------------------------------------
\* acquire: takes a permit if one is free and joins the lock, or waits for one.
Acquire(w, h) ==
  /\ stage[w] = "away"
  /\ host' = [host EXCEPT ![w] = h]
  /\ IF permits[h] > 0
       THEN /\ permits' = [permits EXCEPT ![h] = @ - 1]
            /\ stage' = [stage EXCEPT ![w] = "lock"]
            /\ lockQueue' = [lockQueue EXCEPT ![h] = Append(@, w)]
            /\ UNCHANGED permitQueue
       ELSE /\ stage' = [stage EXCEPT ![w] = "permit"]
            /\ permitQueue' = [permitQueue EXCEPT ![h] = Append(@, w)]
            /\ UNCHANGED <<permits, lockQueue>>
  /\ UNCHANGED <<since, nap>>

HoldsLock(w) ==
  /\ stage[w] \in {"lock", "asleep"}
  /\ lockQueue[host[w]] # <<>>
  /\ Head(lockQueue[host[w]]) = w

\* The end of acquire: the time is recorded, the lock passes to the next.
Grant(w) ==
  /\ stage' = [stage EXCEPT ![w] = "granted"]
  /\ since' = [since EXCEPT ![host[w]] = 0]
  /\ lockQueue' = [lockQueue EXCEPT ![host[w]] = Tail(@)]

\* Under the lock, the target delay has passed: no sleep.
GrantAtOnce(w) ==
  /\ stage[w] = "lock" /\ HoldsLock(w)
  /\ since[host[w]] >= TargetDelay(host[w])
  /\ Grant(w)
  /\ UNCHANGED <<host, permits, permitQueue, nap>>

\* Under the lock, it has not: sleep for the rest, keeping the lock.
FaultyFallAsleep(w) ==
  /\ stage[w] = "lock" /\ HoldsLock(w)
  /\ since[host[w]] < TargetDelay(host[w])
  /\ stage' = [stage EXCEPT ![w] = "asleep"]
  /\ nap' = [nap EXCEPT ![w] = TargetDelay(host[w]) - since[host[w]]]
  /\ lockQueue' = [lockQueue EXCEPT ![host[w]] = Append(Tail(@), w)]
  /\ UNCHANGED <<host, permits, permitQueue, since>>
FallAsleep(w) ==
  /\ stage[w] = "lock" /\ HoldsLock(w)
  /\ since[host[w]] < TargetDelay(host[w])
  /\ stage' = [stage EXCEPT ![w] = "asleep"]
  /\ nap' = [nap EXCEPT ![w] = TargetDelay(host[w]) - since[host[w]]]
  /\ UNCHANGED <<host, permits, permitQueue, lockQueue, since>>

\* The sleep is over.
WakeUp(w) ==
  /\ stage[w] = "asleep" /\ nap[w] = 0
  /\ Grant(w)
  /\ UNCHANGED <<host, permits, permitQueue, nap>>

FaultyHandsOver(h) == FALSE
HandsOver(h) == permitQueue[h] # <<>>

\* release: the permit goes back, or straight to the first that waits for it.
ReleasePermit(w) ==
  LET h == host[w]
  IN /\ stage[w] = "granted"
     /\ host' = [host EXCEPT ![w] = StartHost]
     /\ IF HandsOver(h)
          THEN /\ permitQueue' = [permitQueue EXCEPT ![h] = Tail(@)]
               /\ lockQueue' =
                    [lockQueue EXCEPT ![h] = Append(@, Head(permitQueue[h]))]
               /\ stage' = [stage EXCEPT ![w] = "away",
                                         ![Head(permitQueue[h])] = "lock"]
               /\ UNCHANGED permits
          ELSE /\ permits' = [permits EXCEPT ![h] = @ + 1]
               /\ stage' = [stage EXCEPT ![w] = "away"]
               /\ UNCHANGED <<permitQueue, lockQueue>>
     /\ UNCHANGED <<since, nap>>

\* One tick of the clock.
LimiterTick ==
  /\ since' = [h \in Hosts |-> IF since[h] < LongAgo THEN since[h] + 1 ELSE LongAgo]
  /\ nap' = [w \in Workers |-> IF nap[w] > 0 THEN nap[w] - 1 ELSE 0]
  /\ UNCHANGED <<stage, host, permits, permitQueue, lockQueue>>

WaitingStep(w) == GrantAtOnce(w) \/ FallAsleep(w) \/ WakeUp(w)

LimiterNext ==
  \/ LimiterTick
  \/ \E w \in Workers : WaitingStep(w) \/ ReleasePermit(w)
  \/ \E w \in Workers, h \in Hosts : Acquire(w, h)

LimiterSpec == LimiterInit /\ [][LimiterNext]_limiterVars
-----------------------------------------------------------------------------
Holders(h) == {w \in Workers : /\ host[w] = h
                               /\ stage[w] \in {"lock", "asleep", "granted"}}

(***************************************************************************)
(* No permit of a host is lost or made up, whatever happened between       *)
(* acquire and release, and nobody waits while one is free: at most        *)
(* max_concurrency_per_domain workers are ever past the semaphore.         *)
(***************************************************************************)
PermitsConserved ==
  \A h \in Hosts :
    /\ permits[h] + Cardinality(Holders(h)) = Permits
    /\ permitQueue[h] # <<>> => permits[h] = 0

(***************************************************************************)
(* Two grants of a host are never closer than 1 / requests_per_second, nor *)
(* on the start host closer than its Crawl-delay, although workers that    *)
(* wait for the lock have asked at any time before.                        *)
(***************************************************************************)
GrantsSpaced ==
  [][\A w \in Workers :
       stage'[w] = "granted" /\ stage[w] # "granted" =>
         /\ since[host[w]] >= Interval
         /\ host[w] = StartHost => since[host[w]] >= CrawlDelay[StartHost]]_limiterVars

(***************************************************************************)
(* The spacing holds for the Crawl-delay of every host whose robots.txt    *)
(* the crawl has read, as README.md:43 says ("adheres to Disallow paths    *)
(* and Crawl-delay").  False: run() calls set_crawl_delay only for the     *)
(* host of the start URL.                                                  *)
(***************************************************************************)
CrawlDelayKept ==
  [][\A w \in Workers :
       stage'[w] = "granted" /\ stage[w] # "granted" =>
         since[host[w]] >= CrawlDelay[host[w]]]_limiterVars
=============================================================================
