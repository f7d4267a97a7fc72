---------------------------- MODULE JobLifecycle ----------------------------
(***************************************************************************)
(* The life of crawl jobs: CrawlService.start_crawl and stop_crawl, the    *)
(* dispatch list and CrawlWorker, the phases of CrawlEngine.run, the       *)
(* status column of table crawl_jobs, the rows of table domains and the    *)
(* gauge of active crawls, with database errors and crashes.               *)
(*                                                                         *)
(* A job is started by the service, in whose process all engines and       *)
(* request handlers are coroutines, or dispatched: its row exists, its     *)
(* request is in a Redis list, and the process of CrawlWorker takes one    *)
(* after the other (nothing in the repository pushes to the list).  Every  *)
(* update of the status is a transaction of its own, and between two       *)
(* transactions everybody else may run.  What happens while a job crawls   *)
(* is the subject of CrawlEngine: here a crawl ends normally or raises.    *)
(*                                                                         *)
(* The definitions named Faulty... are deliberate faults that no action    *)
(* uses: each stands in for the definition after it to show that a         *)
(* property notices.                                                       *)
(***************************************************************************)
EXTENDS Integers, FiniteSets, Sequences

CONSTANTS
  Job,          \* crawl jobs
  Dispatched,   \* those that are dispatched; the service starts the others
  HostOf,       \* [Job -> host of the start URL]
  Handler,      \* POST /{crawl_id}/stop requests, each made at most once
  TargetOf,     \* [Handler -> Job]
  Unparsable,   \* jobs whose start URL makes CrawlEngine() raise, or whose
                \* entry in the dispatch list is no request
  MaxFailures,  \* bound: transactions, and replies of Redis, that fail
  MaxCrashes    \* bound: crashes of a process

ASSUME LifecycleAssumption ==
  /\ IsFiniteSet(Job) /\ Dispatched \subseteq Job
  /\ TargetOf \in [Handler -> Job]
  /\ Unparsable \subseteq Job
  /\ MaxFailures \in Nat
  /\ MaxCrashes \in Nat

VARIABLES
  phase,     \* where start_crawl and then run() are, for each job
  status,    \* crawl_jobs.status
  verdict,   \* the local final_status of run(); "unbound" until assigned
  stopFlag,  \* _is_stopped of the job's engine
  handler,   \* where each stop request is
  gauge,     \* ACTIVE_CRAWLS_GAUGE of each process
  dispatch,  \* the list crawler:dispatch_queue
  listening, \* _running of the worker
  domains,   \* hosts with a row in table domains
  failures,  \* transactions and replies that failed so far
  crashes,   \* crashes so far
  heard,     \* history: jobs whose engine was told to stop before it had
             \* reached its verdict
  lost       \* history: jobs hit by a crash, a failed transaction or reply,
             \* or a start URL that cannot be parsed

jobVars == <<phase, status, verdict, stopFlag>>
sharedVars == <<dispatch, listening, domains>>
vars == <<jobVars, sharedVars, handler, gauge, failures, crashes, heard, lost>>

(***************************************************************************)
(* none        no such job                                                 *)
(* listed      its request is in the dispatch list                         *)
(* created     its row is committed, its engine not constructed yet        *)
(* registered  constructed (and in _active_engines), run() has not begun   *)
(* opening     counted in the gauge, about to be marked running            *)
(* inspecting  reading the start host's robots.txt                         *)
(* adding      its host has no row: about to insert one                    *)
(* updating    its host has a row: about to update it                      *)
(* refusing    the start URL is disallowed, about to be marked failed      *)
(* crawling    sitemaps and workers                                        *)
(* failing     in the except clause, about to be marked failed             *)
(* reporting   in the finally clause, about to write final_status          *)
(* over        nothing runs for the job any more                           *)
(***************************************************************************)
Phase == {"none", "listed", "created", "registered", "opening", "inspecting",
          "adding", "updating", "refusing", "crawling", "failing",
          "reporting", "over"}

Process == {"service", "worker"}
ProcessOf(j) == IF j \in Dispatched THEN "worker" ELSE "service"

\* In _active_engines, of which the worker has none.
Registered(j) ==
  ProcessOf(j) = "service" /\ phase[j] \notin {"none", "created", "over"}

\* Between the increment of the gauge and its decrement.
Counted(j) ==
  phase[j] \in {"opening", "inspecting", "adding", "updating", "refusing",
                "crawling", "failing"}

\* Before final_status is assigned.
Undecided(j) == phase[j] = "registered" \/ (Counted(j) /\ phase[j] # "failing")

FaultyIsBusy ==
  \E j \in Dispatched :
    /\ phase[j] \notin {"none", "listed"}
    /\ phase[j] = "over" => j \in lost
\* The worker is inside an iteration of its loop: it awaits run().
IsBusy == \E j \in Dispatched : phase[j] \notin {"none", "listed", "over"}

Live == {"queued", "running"}
Final == {"completed", "failed", "stopped"}

-----------------------------------------------------------------------------
Init ==
  /\ phase = [j \in Job |-> "none"]
  /\ status = [j \in Job |-> "absent"]
  /\ verdict = [j \in Job |-> "unbound"]
  /\ stopFlag = [j \in Job |-> FALSE]
  /\ handler = [h \in Handler |-> "idle"]
  /\ gauge = [p \in Process |-> 0]
  /\ dispatch = <<>>
  /\ listening = TRUE
  /\ domains = {}
  /\ failures = 0
  /\ crashes = 0
  /\ heard = {}
  /\ lost = {}

GoTo(j, p) == phase' = [phase EXCEPT ![j] = p]

Write(j, s) == status' = [status EXCEPT ![j] = s]

Count(j, n) == gauge' = [gauge EXCEPT ![ProcessOf(j)] = @ + n]

\* A transaction fails and its write does not happen.
DatabaseError ==
  /\ failures < MaxFailures
  /\ failures' = failures + 1
  /\ UNCHANGED status

NoDatabaseError == UNCHANGED failures

-----------------------------------------------------------------------------
(***************************************************************************)
(* start_crawl.                                                            *)
(***************************************************************************)
\* The row is committed first.
Create(j) ==
  /\ phase[j] = "none" /\ j \notin Dispatched
  /\ GoTo(j, "created")
  /\ Write(j, "queued")
  /\ UNCHANGED <<verdict, stopFlag, handler, gauge, failures, crashes, heard,
                 lost, sharedVars>>

\* Then the engine is constructed, registered and its task created.
Register(j) ==
  /\ phase[j] = "created" /\ j \notin Unparsable
  /\ GoTo(j, "registered")
  /\ UNCHANGED <<status, verdict, stopFlag, handler, gauge, failures, crashes,
                 heard, lost, sharedVars>>

\* Or the constructor raises; nobody takes the row back.
ConstructionRaises(j) ==
  /\ phase[j] = "created" /\ j \in Unparsable
  /\ GoTo(j, "over")
  /\ lost' = lost \union {j}
  /\ UNCHANGED <<status, verdict, stopFlag, handler, gauge, failures, crashes,
                 heard, sharedVars>>

-----------------------------------------------------------------------------
(***************************************************************************)
(* The dispatch list and the loop of CrawlWorker.                          *)
(***************************************************************************)
\* Somebody commits a row and pushes the request.
Dispatch(j) ==
  /\ phase[j] = "none" /\ j \in Dispatched
  /\ GoTo(j, "listed")
  /\ Write(j, "queued")
  /\ dispatch' = Append(dispatch, j)
  /\ UNCHANGED <<verdict, stopFlag, handler, gauge, failures, crashes, heard,
                 lost, listening, domains>>

\* The worker waits in blpop, and the server removes the first entry.
Pop(j) ==
  /\ listening /\ ~IsBusy
  /\ dispatch # <<>> /\ j = Head(dispatch)
  /\ dispatch' = Tail(dispatch)

Take(j) ==
  /\ Pop(j)
  /\ GoTo(j, "created")
  /\ UNCHANGED <<status, verdict, stopFlag, handler, gauge, failures, crashes,
                 heard, lost, listening, domains>>

\* The reply does not arrive; the exception is logged and the loop goes on.
ReplyLost(j) ==
  /\ Pop(j)
  /\ DatabaseError
  /\ GoTo(j, "over")
  /\ lost' = lost \union {j}
  /\ UNCHANGED <<verdict, stopFlag, handler, gauge, crashes, heard, listening,
                 domains>>

\* SIGTERM: the job at work is finished, nothing more is taken.  (A stop that
\* finds the worker in blpop, which then returns a job, counts from there.)
StopWorker ==
  /\ listening /\ listening' = FALSE
  /\ UNCHANGED <<jobVars, dispatch, domains, handler, gauge, failures, crashes,
                 heard, lost>>

-----------------------------------------------------------------------------
(***************************************************************************)
(* run() and the cleanup after it.                                         *)
(***************************************************************************)
Begin(j) ==
  /\ phase[j] = "registered"
  /\ GoTo(j, "opening")
  /\ Count(j, 1)
  /\ UNCHANGED <<status, verdict, stopFlag, handler, failures, crashes, heard,
                 lost, sharedVars>>

MarkRunning(j) ==
  /\ phase[j] = "opening"
  /\ GoTo(j, "inspecting")
  /\ Write(j, "running")
  /\ NoDatabaseError
  /\ UNCHANGED <<verdict, stopFlag, handler, gauge, crashes, heard, lost,
                 sharedVars>>

\* This transaction comes before the try: run() ends at once, without the
\* finally clause and so without the decrement.
MarkRunningFails(j) ==
  /\ phase[j] = "opening"
  /\ DatabaseError
  /\ GoTo(j, "over")
  /\ lost' = lost \union {j}
  /\ UNCHANGED <<verdict, stopFlag, handler, gauge, crashes, heard,
                 sharedVars>>

FaultyAfterInspection(j, next) == next = "over"
\* Where an exception on the way to the start host's rules leads.
AfterInspection(j, next) == next = "failing"

\* With respect_robots_txt off there is nothing to inspect; otherwise the
\* host's row is looked for when the answer is there, or something raises.
Inspect(j) ==
  /\ phase[j] = "inspecting"
  /\ \E next \in Phase :
       /\ \/ next = IF HostOf[j] \in domains THEN "updating" ELSE "adding"
          \/ next = "crawling"
          \/ AfterInspection(j, next)
       /\ GoTo(j, next)
  /\ UNCHANGED <<status, verdict, stopFlag, handler, gauge, failures, crashes,
                 heard, lost, sharedVars>>

\* The row is written, and then robots.txt allows the start URL, disallows
\* it, or cannot be matched.
RecordDomain(j) ==
  /\ \/ phase[j] = "updating"
     \/ phase[j] = "adding" /\ HostOf[j] \notin domains
  /\ domains' = domains \union {HostOf[j]}
  /\ \E next \in {"crawling", "refusing", "failing"} : GoTo(j, next)
  /\ UNCHANGED <<status, verdict, stopFlag, handler, gauge, failures, crashes,
                 heard, lost, dispatch, listening>>

\* IntegrityError: another job has inserted the row since it was looked for.
DomainTaken(j) ==
  /\ phase[j] = "adding" /\ HostOf[j] \in domains
  /\ GoTo(j, "failing")
  /\ UNCHANGED <<status, verdict, stopFlag, handler, gauge, failures, crashes,
                 heard, lost, sharedVars>>

FaultyDecide(j, v) ==
  /\ GoTo(j, "reporting")
  /\ verdict' = [verdict EXCEPT ![j] = v]
  /\ Count(j, IF v = "unbound" THEN 0 ELSE -1)

\* The entry of the finally clause, reached with no suspension after v has
\* been assigned: the gauge goes down.
Decide(j, v) ==
  /\ GoTo(j, "reporting")
  /\ verdict' = [verdict EXCEPT ![j] = v]
  /\ Count(j, -1)

FaultyRefuse(j) ==
  /\ phase[j] = "refusing"
  /\ NoDatabaseError
  /\ Decide(j, "unbound")
  /\ UNCHANGED <<status, stopFlag, handler, crashes, heard, lost, sharedVars>>

\* The return leaves final_status unbound.
Refuse(j) ==
  /\ phase[j] = "refusing"
  /\ Write(j, "failed")
  /\ NoDatabaseError
  /\ Decide(j, "unbound")
  /\ UNCHANGED <<stopFlag, handler, crashes, heard, lost, sharedVars>>

RefuseFails(j) ==
  /\ phase[j] = "refusing"
  /\ DatabaseError
  /\ GoTo(j, "failing")
  /\ UNCHANGED <<verdict, stopFlag, handler, gauge, crashes, heard, lost,
                 sharedVars>>

FaultyVerdictOf(j) == "completed"

\* final_status after asyncio.gather has returned.
VerdictOf(j) == IF stopFlag[j] THEN "stopped" ELSE "completed"

CrawlReturns(j) ==
  /\ phase[j] = "crawling"
  /\ Decide(j, VerdictOf(j))
  /\ UNCHANGED <<status, stopFlag, handler, failures, crashes, heard, lost,
                 sharedVars>>

CrawlRaises(j) ==
  /\ phase[j] = "crawling"
  /\ GoTo(j, "failing")
  /\ UNCHANGED <<status, verdict, stopFlag, handler, gauge, failures, crashes,
                 heard, lost, sharedVars>>

\* The except clause writes the failure, and the finally clause once more.
RecordFailure(j) ==
  /\ phase[j] = "failing"
  /\ Decide(j, "failed")
  /\ \/ Write(j, "failed") /\ NoDatabaseError
     \/ DatabaseError
  /\ UNCHANGED <<stopFlag, handler, crashes, heard, lost, sharedVars>>

FaultyReported(j) == verdict[j]
FaultyReportedAnyway(j) ==
  IF verdict[j] = "unbound" THEN "completed" ELSE verdict[j]

\* What the last transaction of run() leaves in the row: an unbound
\* final_status raises before the update.
Reported(j) == IF verdict[j] = "unbound" THEN status[j] ELSE verdict[j]

\* run() ends, normally or not, and its engine is unregistered.
Report(j) ==
  /\ phase[j] = "reporting"
  /\ Write(j, Reported(j))
  /\ NoDatabaseError
  /\ GoTo(j, "over")
  /\ UNCHANGED <<verdict, stopFlag, handler, gauge, crashes, heard, lost,
                 sharedVars>>

\* The write fails, or the fetcher's close() before it raises and skips it.
ReportFails(j) ==
  /\ phase[j] = "reporting"
  /\ DatabaseError
  /\ GoTo(j, "over")
  /\ lost' = lost \union {j}
  /\ UNCHANGED <<verdict, stopFlag, handler, gauge, crashes, heard,
                 sharedVars>>

-----------------------------------------------------------------------------
(***************************************************************************)
(* stop_crawl, for a job whose id the caller has seen in the list of jobs. *)
(***************************************************************************)
\* The engine is told under the service's lock, if there is one.
Signal(h) ==
  LET j == TargetOf[h] IN
  /\ handler[h] = "idle" /\ phase[j] # "none"
  /\ handler' = [handler EXCEPT ![h] = "asked"]
  /\ stopFlag' = [stopFlag EXCEPT ![j] = @ \/ Registered(j)]
  /\ heard' = IF Registered(j) /\ Undecided(j) THEN heard \union {j} ELSE heard
  /\ UNCHANGED <<phase, status, verdict, gauge, failures, crashes, lost,
                 sharedVars>>

\* The status is read, and the answer is no if the job has ended.
ReadStatus(h) ==
  /\ handler[h] = "asked"
  /\ handler' = [handler EXCEPT ![h] =
       IF status[TargetOf[h]] \in Live THEN "deciding" ELSE "refused"]
  /\ UNCHANGED <<jobVars, gauge, failures, crashes, heard, lost, sharedVars>>

\* Otherwise the job is marked stopped, whatever its status is by now.
Acknowledge(h) ==
  /\ handler[h] = "deciding"
  /\ Write(TargetOf[h], "stopped")
  /\ NoDatabaseError
  /\ handler' = [handler EXCEPT ![h] = "acknowledged"]
  /\ UNCHANGED <<phase, verdict, stopFlag, gauge, crashes, heard, lost,
                 sharedVars>>

HandlerFails(h) ==
  /\ handler[h] \in {"asked", "deciding"}
  /\ DatabaseError
  /\ handler' = [handler EXCEPT ![h] = "dropped"]
  /\ UNCHANGED <<phase, verdict, stopFlag, gauge, crashes, heard, lost,
                 sharedVars>>

-----------------------------------------------------------------------------
\* A process dies and is started again: its engines, handlers and gauge are
\* gone, the rows and the dispatch list stay.  Start-up looks at no row.
Crash(p) ==
  LET hit == {j \in Job : /\ ProcessOf(j) = p
                          /\ phase[j] \notin {"none", "listed", "over"}}
  IN /\ crashes < MaxCrashes
     /\ crashes' = crashes + 1
     /\ phase' = [j \in Job |-> IF j \in hit THEN "over" ELSE phase[j]]
     /\ lost' = lost \union hit
     /\ handler' = [h \in Handler |->
          IF p = "service" /\ handler[h] \in {"asked", "deciding"}
            THEN "dropped" ELSE handler[h]]
     /\ gauge' = [gauge EXCEPT ![p] = 0]
     /\ UNCHANGED <<status, verdict, stopFlag, failures, heard, sharedVars>>

JobStep(j) ==
  \/ Take(j)
  \/ Register(j) \/ ConstructionRaises(j)
  \/ Begin(j) \/ MarkRunning(j) \/ MarkRunningFails(j) \/ Inspect(j)
  \/ RecordDomain(j) \/ DomainTaken(j)
  \/ Refuse(j) \/ RefuseFails(j) \/ CrawlReturns(j) \/ CrawlRaises(j)
  \/ RecordFailure(j) \/ Report(j) \/ ReportFails(j)

HandlerStep(h) == ReadStatus(h) \/ Acknowledge(h) \/ HandlerFails(h)

Next ==
  \/ \E j \in Job : Create(j) \/ Dispatch(j) \/ ReplyLost(j) \/ JobStep(j)
  \/ \E h \in Handler : Signal(h) \/ HandlerStep(h)
  \/ StopWorker
  \/ \E p \in Process : Crash(p)

\* Tasks and handlers that have begun go on, and the worker takes the next
\* entry when it is free; every crawl ends (CrawlEnds of CrawlEngine); nobody
\* has to start, dispatch or stop a job.
Fairness ==
  /\ \A j \in Job : WF_vars(JobStep(j))
  /\ \A h \in Handler : WF_vars(HandlerStep(h))

Spec == Init /\ [][Next]_vars /\ Fairness

-----------------------------------------------------------------------------
(***************************************************************************)
(* Properties.                                                             *)
(***************************************************************************)
\* Every variable keeps its type.
TypeOK ==
  /\ phase \in [Job -> Phase]
  /\ status \in [Job -> {"absent"} \union Live \union Final]
  /\ verdict \in [Job -> {"unbound"} \union Final]
  /\ stopFlag \in [Job -> BOOLEAN]
  /\ handler \in [Handler -> {"idle", "asked", "deciding", "acknowledged",
                              "refused", "dropped"}]
  /\ gauge \in [Process -> Int]
  /\ dispatch \in Seq(Dispatched)
  /\ listening \in BOOLEAN
  /\ domains \subseteq {HostOf[j] : j \in Job}
  /\ failures \in 0 .. MaxFailures
  /\ crashes \in 0 .. MaxCrashes
  /\ heard \subseteq Job
  /\ lost \subseteq Job

\* A job with status queued or running is waiting or worked on, unless a
\* crash, a failed transaction or reply or an unparsable start URL has hit it:
\* every other way out of run(), the refused start URL and its unbound
\* final_status included, leaves a final status behind, whatever the stop
\* handlers write meanwhile.
LiveJobHasEngine ==
  \A j \in Job : status[j] \in Live => phase[j] # "over" \/ j \in lost

\* The gauge of each process counts the jobs inside run(), plus at most one
\* job that is gone for each failed transaction (it leaks only in
\* MarkRunningFails).
GaugeLeakBounded ==
  \A p \in Process :
    LET inside == Cardinality({j \in Job : ProcessOf(j) = p /\ Counted(j)})
    IN inside <= gauge[p] /\ gauge[p] <= inside + failures

\* A stop that reached the engine before its verdict keeps the job from being
\* reported as completed, whoever writes the status last.
HeardStopNotCompleted ==
  \A j \in heard : phase[j] = "over" => status[j] # "completed"

\* A verdict in the row is replaced only by a stop handler that had read the
\* row before the verdict was written.
VerdictReplacedOnlyByStop ==
  [][\A j \in Job :
       status[j] \in {"completed", "failed"} /\ status'[j] # status[j] =>
         /\ status'[j] = "stopped"
         /\ \E h \in Handler : TargetOf[h] = j /\ handler[h] = "deciding"]_vars

\* Each job that was accepted ends with a final status and without an engine,
\* unless it was hit by a crash, an error or an unparsable start URL.
JobsSettle ==
  \A j \in Job :
    phase[j] = "created" ~>
      (phase[j] = "over" /\ (status[j] \in Final \/ j \in lost))

\* A dispatched job gets its turn, whatever becomes of those before it (start
\* URLs that do not parse, errors of the database, crashes), unless the worker
\* is told to stop: the list is served by one job at a time.
DispatchedIsServed ==
  \A j \in Dispatched :
    phase[j] = "listed" ~> phase[j] # "listed" \/ ~listening

\* What the stop request is told: "Crawl stopped successfully".
AcknowledgedStopHolds ==
  \A h \in Handler : handler[h] = "acknowledged" => status[TargetOf[h]] = "stopped"

=============================================================================
