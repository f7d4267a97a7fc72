---------------------------- MODULE PoliteFetch ----------------------------
(***************************************************************************)
(* Workers of one engine that fetch pages through the rate limiter:        *)
(* AsyncHttpFetcher.fetch between acquire and release of _worker_loop.     *)
(*                                                                         *)
(* A fetch goes around two nested loops: over redirects, each preceded by  *)
(* a check of the host's addresses, and over attempts, with a sleep after  *)
(* an answer or an exception that is worth another one.  It may leave by   *)
(* an exception from parsing a redirect's URL or from reading the body;    *)
(* the finally of the worker loop gives the permit back all the same.      *)
(*                                                                         *)
(* Abstracted: the content of answers, of which only the kind matters, and *)
(* what the worker does with a page before it releases (CrawlEngine).      *)
(***************************************************************************)
EXTENDS RateLimiter

CONSTANTS
  MaxRedirects, \* max_redirects of the fetcher
  MaxRetries,   \* max_retries of fetch
  Backoff,      \* ticks of backoff_factor
  Waits         \* ticks a 429 may ask for: Retry-After capped, or the default

\* The cap makes Waits finite.  That powers of 2 are numbers is arithmetic,
\* but nothing the proof system knows.
ASSUME FetchAssumption ==
  /\ MaxRedirects \in Nat
  /\ MaxRetries \in Nat
  /\ Backoff \in Nat
  /\ Waits \subseteq Nat /\ IsFiniteSet(Waits)
  /\ \A k \in 0 .. MaxRetries : 2^k \in Nat

VARIABLES
  at,           \* where the worker's fetch is: see Place
  redirects,    \* redirects_followed
  attempt,      \* attempt of the inner loop
  pause,        \* what is left of the sleep before the next attempt
  result,       \* what fetch has returned: see Result
  requests      \* requests the fetch has sent, for the properties

fetchVars == <<at, redirects, attempt, pause, result, requests>>
vars == <<limiterVars, fetchVars>>

Place == {"idle", "checking", "sending", "backoff", "reading", "ended"}
Result == {"none", "page", "error", "exception"}

\* The sleeps between two attempts, and the longest of them.
Pauses == Waits \union {Backoff * 2^k : k \in 0 .. MaxRetries}
LongestPause == CHOOSE n \in Pauses : \A m \in Pauses : m <= n

TypeOK ==
  /\ LimiterTypeOK
  /\ at \in [Workers -> Place]
  /\ redirects \in [Workers -> 0 .. MaxRedirects]
  /\ attempt \in [Workers -> 0 .. MaxRetries]
  /\ pause \in [Workers -> 0 .. LongestPause]
  /\ result \in [Workers -> Result]
  /\ requests \in [Workers -> Nat]
  /\ \A w \in Workers : result[w] # "none" <=> at[w] = "ended"

FetchInit ==
  /\ at = [w \in Workers |-> "idle"]
  /\ redirects = [w \in Workers |-> 0]
  /\ attempt = [w \in Workers |-> 0]
  /\ pause = [w \in Workers |-> 0]
  /\ result = [w \in Workers |-> "none"]
  /\ requests = [w \in Workers |-> 0]

Init == LimiterInit /\ FetchInit
-----------------------------------------------------------------------------
\* acquire has returned: fetch looks up the addresses of the page's host.
Begin(w) ==
  /\ stage[w] = "granted" /\ at[w] = "idle"
  /\ at' = [at EXCEPT ![w] = "checking"]
  /\ UNCHANGED <<redirects, attempt, pause, result, requests>>

\* fetch returns, or raises: its variables are gone.
End(w, r) ==
  /\ at' = [at EXCEPT ![w] = "ended"]
  /\ result' = [result EXCEPT ![w] = r]
  /\ redirects' = [redirects EXCEPT ![w] = 0]
  /\ attempt' = [attempt EXCEPT ![w] = 0]
  /\ requests' = [requests EXCEPT ![w] = 0]
  /\ UNCHANGED pause

\* A request is sent.
Send(w) ==
  /\ at' = [at EXCEPT ![w] = "sending"]
  /\ requests' = [requests EXCEPT ![w] = @ + 1]

\* resolve_and_validate_host accepts the host: the first attempt.
Accepted(w) ==
  /\ at[w] = "checking"
  /\ Send(w)
  /\ attempt' = [attempt EXCEPT ![w] = 0]
  /\ UNCHANGED <<redirects, pause, result>>

\* It refuses the host, or raises: no try surrounds the look-up.
Refused(w) ==
  at[w] = "checking" /\ \E r \in {"error", "exception"} : End(w, r)

\* Sleep for n ticks before the next turn of the loop over attempts.
BackOff(w, n) ==
  /\ at' = [at EXCEPT ![w] = "backoff"]
  /\ pause' = [pause EXCEPT ![w] = n]
  /\ UNCHANGED <<redirects, attempt, result, requests>>

FaultyMayRetry(w) == TRUE
MayRetry(w) == attempt[w] < MaxRetries

\* 429: always another turn of the loop, the last attempt included.
TooManyRequests(w, n) == at[w] = "sending" /\ BackOff(w, n)

\* 502, 503, 504, a refused connection or a timeout, with attempts left.
Unavailable(w) ==
  /\ at[w] = "sending" /\ MayRetry(w)
  /\ BackOff(w, Backoff * 2^attempt[w])

\* An exception of the client that is not retried, or an answer that is too
\* long or of an excluded type by its headers.
SendFailed(w) == at[w] = "sending" /\ End(w, "error")

\* The sleep is over: the next attempt, or the end of the loop without answer.
Retry(w) ==
  /\ at[w] = "backoff" /\ pause[w] = 0
  /\ IF MayRetry(w)
       THEN /\ Send(w)
            /\ attempt' = [attempt EXCEPT ![w] = @ + 1]
            /\ UNCHANGED <<redirects, pause, result>>
       ELSE End(w, "error")

FaultyMayFollow(w) == redirects[w] <= MaxRedirects
MayFollow(w) == redirects[w] < MaxRedirects

\* A redirect: around the outer loop, to the same host or another one.
Redirected(w) ==
  /\ at[w] = "sending" /\ MayFollow(w)
  /\ at' = [at EXCEPT ![w] = "checking"]
  /\ redirects' = [redirects EXCEPT ![w] = @ + 1]
  /\ UNCHANGED <<attempt, pause, result, requests>>

\* A redirect that is one too many, without Location or without a host is an
\* error, one whose Location does not parse an exception.
RedirectFailed(w) ==
  at[w] = "sending" /\ \E r \in {"error", "exception"} : End(w, r)

\* Any other answer, on the last attempt a 503 too: its body is read.
Answered(w) ==
  /\ at[w] = "sending"
  /\ at' = [at EXCEPT ![w] = "reading"]
  /\ UNCHANGED <<redirects, attempt, pause, result, requests>>

\* The body is read: a page if the status is 2xx, an error otherwise or if it
\* is too long, an exception if it breaks off.
BodyRead(w) ==
  at[w] = "reading" /\ \E r \in Result \ {"none"} : End(w, r)

FetchStep(w) ==
  \/ Begin(w) \/ Accepted(w) \/ Refused(w)
  \/ \E n \in Waits : TooManyRequests(w, n)
  \/ Unavailable(w) \/ SendFailed(w) \/ Retry(w)
  \/ Redirected(w)
  \/ RedirectFailed(w) \/ Answered(w) \/ BodyRead(w)

FaultyMayRelease(w) == result[w] \in {"page", "error"}
MayRelease(w) == at[w] = "ended"

\* The finally of the worker loop: the permit of the page's own host goes back.
Release(w) ==
  /\ MayRelease(w)
  /\ ReleasePermit(w)
  /\ at' = [at EXCEPT ![w] = "idle"]
  /\ result' = [result EXCEPT ![w] = "none"]
  /\ UNCHANGED <<redirects, attempt, pause, requests>>

Tick ==
  /\ LimiterTick
  /\ pause' = [w \in Workers |-> IF pause[w] > 0 THEN pause[w] - 1 ELSE 0]
  /\ UNCHANGED <<at, redirects, attempt, result, requests>>

LimiterStep(w) ==
  /\ WaitingStep(w) \/ \E h \in Hosts : Acquire(w, h)
  /\ UNCHANGED fetchVars

Next ==
  \/ Tick
  \/ \E w \in Workers :
       \/ LimiterStep(w)
       \/ FetchStep(w) /\ UNCHANGED limiterVars
       \/ Release(w)

(***************************************************************************)
(* Time passes; sleeps end; the client's timeouts bound the wait for an    *)
(* answer; and the worker gets to the finally.  Nothing bounds the time a  *)
(* body takes that arrives in pieces: that it ends is assumed.             *)
(***************************************************************************)
Fairness ==
  /\ WF_vars(Tick)
  /\ \A w \in Workers :
       /\ WF_vars(WaitingStep(w) /\ UNCHANGED fetchVars)
       /\ WF_vars(FetchStep(w) /\ UNCHANGED limiterVars)
       /\ WF_vars(Release(w))

Spec == Init /\ [][Next]_vars /\ Fairness
-----------------------------------------------------------------------------
(***************************************************************************)
(* However attempts, 429 answers and redirects nest, one fetch, and so one *)
(* grant of the rate limiter, sends at most (max_redirects + 1) times      *)
(* (max_retries + 1) requests.                                             *)
(***************************************************************************)
RequestsBounded ==
  \A w \in Workers :
    requests[w] <= (MaxRedirects + 1) * (MaxRetries + 1)

(***************************************************************************)
(* Whoever asks for a host gets it, fetches and leaves: no order of        *)
(* grants, sleeps, failures and releases makes a worker wait for ever.     *)
(***************************************************************************)
EveryoneServed == \A w \in Workers : stage[w] # "away" ~> stage[w] = "away"
=============================================================================
