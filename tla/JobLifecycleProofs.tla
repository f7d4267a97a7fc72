------------------------- MODULE JobLifecycleProofs -------------------------
(***************************************************************************)
(* Proofs about JobLifecycle, for every set of jobs, dispatched or not,    *)
(* every number of stop requests, failures and crashes.                    *)
(***************************************************************************)
EXTENDS JobLifecycle, FiniteSetTheorems, SequenceTheorems, TLAPS

-----------------------------------------------------------------------------
(***************************************************************************)
(* Types.                                                                  *)
(***************************************************************************)

\* What a failing transaction does to the counter of failures.
LEMMA DatabaseErrorType ==
  ASSUME failures \in 0 .. MaxFailures, DatabaseError
  PROVE  failures' \in 0 .. MaxFailures /\ failures' = failures + 1
BY LifecycleAssumption DEF DatabaseError

\* The worker takes the first entry of its list; the rest is a list of jobs.
LEMMA PopType ==
  ASSUME dispatch \in Seq(Dispatched), NEW j, Pop(j)
  PROVE  /\ j \in Dispatched /\ j = dispatch[1]
         /\ dispatch' \in Seq(Dispatched)
         /\ Len(dispatch) \in Nat /\ Len(dispatch) > 0
         /\ Len(dispatch') = Len(dispatch) - 1
         /\ \A i \in 1 .. Len(dispatch') : dispatch'[i] = dispatch[i + 1]
BY HeadTailProperties DEF Pop

\* The gauge of a process stays an integer.
LEMMA CountType ==
  ASSUME gauge \in [Process -> Int], NEW j, NEW n \in Int, Count(j, n)
  PROVE  gauge' \in [Process -> Int]
<1>1. gauge' = [gauge EXCEPT ![ProcessOf(j)] = gauge[ProcessOf(j)] + n]
  BY DEF Count
<1>2. ProcessOf(j) \in Process
  BY DEF ProcessOf, Process
<1>3. QED
  BY <1>1, <1>2

\* The initial states and every step keep the types.
LEMMA TypeInit == Init => TypeOK
<1> SUFFICES ASSUME Init PROVE TypeOK
  OBVIOUS
<1>1. phase \in [Job -> Phase] /\ handler \in [Handler -> {"idle"}]
  BY DEF Init, Phase
<1>2. /\ status \in [Job -> {"absent"}] /\ verdict \in [Job -> {"unbound"}]
      /\ stopFlag \in [Job -> {FALSE}]
  BY DEF Init
<1>3. gauge \in [Process -> Int] /\ dispatch \in Seq(Dispatched)
  BY DEF Init
<1>4. /\ failures \in 0 .. MaxFailures /\ crashes \in 0 .. MaxCrashes
      /\ domains = {} /\ heard = {} /\ lost = {}
  BY LifecycleAssumption DEF Init
<1>5. listening \in BOOLEAN
  BY DEF Init
<1>6. QED
  BY <1>1, <1>2, <1>3, <1>4, <1>5 DEF TypeOK

\* Every step keeps the types.
LEMMA TypeStep == TypeOK /\ [Next]_vars => TypeOK'
<1> SUFFICES ASSUME TypeOK, [Next]_vars PROVE TypeOK'
  OBVIOUS
<1> USE DEF TypeOK, GoTo, Write, NoDatabaseError, sharedVars, jobVars
<1>1. CASE UNCHANGED vars
  BY <1>1 DEF vars
<1>2. ASSUME NEW j \in Job,
             Create(j) \/ Register(j) \/ ConstructionRaises(j)
      PROVE  TypeOK'
  BY <1>2 DEF Create, Register, ConstructionRaises, Phase, Live
<1>3. ASSUME NEW j \in Job, Dispatch(j)
      PROVE  TypeOK'
  <2>1. dispatch' \in Seq(Dispatched)
    BY <1>3, AppendProperties DEF Dispatch
  <2>2. QED
    BY <1>3, <2>1 DEF Dispatch, Phase, Live
<1>4. ASSUME NEW j \in Job, Take(j) PROVE TypeOK'
  <2>1. dispatch' \in Seq(Dispatched)
    BY <1>4, PopType DEF Take
  <2>2. QED
    BY <1>4, <2>1 DEF Take, Phase
<1>5. ASSUME NEW j \in Job, ReplyLost(j) PROVE TypeOK'
  <2>1. dispatch' \in Seq(Dispatched)
    BY <1>5, PopType DEF ReplyLost
  <2>2. failures' \in 0 .. MaxFailures /\ status' = status
    BY <1>5, DatabaseErrorType DEF ReplyLost, DatabaseError
  <2>3. QED
    BY <1>5, <2>1, <2>2 DEF ReplyLost, Phase
<1>6. ASSUME NEW j \in Job, Begin(j) PROVE TypeOK'
  BY <1>6, CountType DEF Begin, Phase
<1>7. ASSUME NEW j \in Job, MarkRunning(j) PROVE TypeOK'
  BY <1>7 DEF MarkRunning, Phase, Live
<1>8. ASSUME NEW j \in Job,
             MarkRunningFails(j) \/ RefuseFails(j) \/ ReportFails(j)
      PROVE  TypeOK'
  <2>1. failures' \in 0 .. MaxFailures /\ status' = status
    BY <1>8, DatabaseErrorType
       DEF MarkRunningFails, RefuseFails, ReportFails, DatabaseError
  <2>2. QED
    BY <1>8, <2>1 DEF MarkRunningFails, RefuseFails, ReportFails, Phase
<1>9. ASSUME NEW j \in Job, Inspect(j) PROVE TypeOK'
  BY <1>9 DEF Inspect
<1>10. ASSUME NEW j \in Job, RecordDomain(j) PROVE TypeOK'
  BY <1>10 DEF RecordDomain, Phase
<1>11. ASSUME NEW j \in Job, DomainTaken(j) \/ CrawlRaises(j) PROVE TypeOK'
  BY <1>11 DEF DomainTaken, CrawlRaises, Phase
<1>12. ASSUME NEW j \in Job, Refuse(j) PROVE TypeOK'
  BY <1>12, CountType DEF Refuse, Decide, Phase, Final
<1>13. ASSUME NEW j \in Job, CrawlReturns(j) PROVE TypeOK'
  BY <1>13, CountType DEF CrawlReturns, Decide, VerdictOf, Phase, Final
<1>14. ASSUME NEW j \in Job, RecordFailure(j) PROVE TypeOK'
  <2>1. /\ failures' \in 0 .. MaxFailures
        /\ status' = status \/ status' = [status EXCEPT ![j] = "failed"]
    BY <1>14, DatabaseErrorType DEF RecordFailure, DatabaseError
  <2>2. gauge' \in [Process -> Int]
    BY <1>14, CountType DEF RecordFailure, Decide
  <2>3. QED
    BY <1>14, <2>1, <2>2 DEF RecordFailure, Decide, Phase, Final
<1>15. ASSUME NEW j \in Job, Report(j) PROVE TypeOK'
  BY <1>15 DEF Report, Reported, Phase
<1>16. ASSUME NEW h \in Handler, Signal(h) PROVE TypeOK'
  <2>1. TargetOf[h] \in Job
    BY LifecycleAssumption
  <2>2. stopFlag' \in [Job -> BOOLEAN]
    <3>1. Registered(TargetOf[h]) \in BOOLEAN
      BY DEF Registered
    <3>2. QED
      BY <1>16, <2>1, <3>1, Zenon DEF Signal
  <2>3. QED
    BY <1>16, <2>1, <2>2 DEF Signal
<1>17. ASSUME NEW h \in Handler, ReadStatus(h) PROVE TypeOK'
  BY <1>17 DEF ReadStatus
<1>18. ASSUME NEW h \in Handler, Acknowledge(h) PROVE TypeOK'
  BY <1>18, LifecycleAssumption DEF Acknowledge, Final
<1>19. ASSUME NEW h \in Handler, HandlerFails(h) PROVE TypeOK'
  BY <1>19, DatabaseErrorType DEF HandlerFails, DatabaseError
<1>20. CASE StopWorker
  BY <1>20 DEF StopWorker
<1>21. ASSUME NEW p \in Process, Crash(p) PROVE TypeOK'
  <2>1. phase' \in [Job -> Phase]
    BY <1>21 DEF Crash, Phase
  <2>2. gauge' \in [Process -> Int] /\ crashes' \in 0 .. MaxCrashes
    BY <1>21, LifecycleAssumption DEF Crash
  <2>3. lost' \subseteq Job
    BY <1>21 DEF Crash
  <2>4. QED
    BY <1>21, <2>1, <2>2, <2>3 DEF Crash
<1>22. QED
  BY <1>1, <1>2, <1>3, <1>4, <1>5, <1>6, <1>7, <1>8, <1>9, <1>10, <1>11,
     <1>12, <1>13, <1>14, <1>15, <1>16, <1>17, <1>18, <1>19, <1>20, <1>21
     DEF Next, JobStep, HandlerStep

\* Every variable of the life of jobs keeps its type: every status written is
\* one the column knows, and the list of the worker holds dispatched jobs only.
THEOREM TypeCorrect == Spec => []TypeOK
<1> QED
  BY TypeInit, TypeStep, PTL DEF Spec

-----------------------------------------------------------------------------
(***************************************************************************)
(* The dispatch list.                                                      *)
(***************************************************************************)

\* The entries of the dispatch list are jobs that wait in it, each once: what
\* the worker takes has not been started before.
ListedOnce ==
  /\ \A i \in 1 .. Len(dispatch) : phase[dispatch[i]] = "listed"
  /\ \A i, k \in 1 .. Len(dispatch) : dispatch[i] = dispatch[k] => i = k

\* An entry that is taken was waiting, and the rest of the list goes on
\* waiting whatever phase the taken job enters.
LEMMA PopKeepsListed ==
  ASSUME TypeOK, ListedOnce, NEW j \in Job, Pop(j),
         NEW next, phase' = [phase EXCEPT ![j] = next]
  PROVE  phase[j] = "listed" /\ ListedOnce'
<1>1. /\ j = dispatch[1]
      /\ Len(dispatch) \in Nat /\ Len(dispatch) > 0
      /\ Len(dispatch') = Len(dispatch) - 1
      /\ \A i \in 1 .. Len(dispatch') : dispatch'[i] = dispatch[i + 1]
  BY PopType DEF TypeOK
<1>2. \A i \in 1 .. Len(dispatch') :
        dispatch'[i] # j /\ phase[dispatch'[i]] = "listed"
  BY <1>1 DEF ListedOnce
<1>3. \A i \in 1 .. Len(dispatch') : dispatch'[i] \in Job
  BY PopType, LifecycleAssumption DEF TypeOK
<1>4. \A i \in 1 .. Len(dispatch') : phase'[dispatch'[i]] = "listed"
  BY <1>2, <1>3 DEF TypeOK
<1>5. \A i, k \in 1 .. Len(dispatch') :
        dispatch'[i] = dispatch'[k] => i = k
  BY <1>1 DEF ListedOnce
<1>6. QED
  BY <1>1, <1>4, <1>5 DEF ListedOnce

\* A step that leaves the list alone keeps ListedOnce if it takes no job out
\* of the phase "listed".
LEMMA StillListed ==
  ASSUME TypeOK, ListedOnce, UNCHANGED dispatch,
         \A j \in Job : phase[j] = "listed" => phase'[j] = "listed"
  PROVE  ListedOnce'
<1>1. \A i \in 1 .. Len(dispatch) : dispatch[i] \in Job
  BY LifecycleAssumption DEF TypeOK
<1>2. QED
  BY <1>1 DEF ListedOnce

\* Every step keeps ListedOnce.
LEMMA ListedOnceStep == TypeOK /\ ListedOnce /\ [Next]_vars => ListedOnce'
<1> SUFFICES ASSUME TypeOK, ListedOnce, [Next]_vars PROVE ListedOnce'
  OBVIOUS
<1>1. ASSUME NEW j \in Job, Dispatch(j) PROVE ListedOnce'
  <2>1. /\ Len(dispatch') = Len(dispatch) + 1 /\ Len(dispatch) \in Nat
        /\ \A i \in 1 .. Len(dispatch) :
             dispatch'[i] = dispatch[i] /\ dispatch[i] \in Job
        /\ dispatch'[Len(dispatch) + 1] = j
    BY <1>1, AppendProperties, LifecycleAssumption DEF Dispatch, TypeOK
  <2>2. /\ phase[j] = "none" /\ phase' = [phase EXCEPT ![j] = "listed"]
        /\ phase \in [Job -> Phase]
    BY <1>1 DEF Dispatch, GoTo, TypeOK
  <2>3. \A i \in 1 .. Len(dispatch) : dispatch[i] # j
    BY <2>2 DEF ListedOnce
  <2>4. QED
    BY <2>1, <2>2, <2>3 DEF ListedOnce
<1>2. ASSUME NEW j \in Job, ReplyLost(j) \/ Take(j) PROVE ListedOnce'
  BY <1>2, PopKeepsListed DEF ReplyLost, Take, GoTo
<1>3. ASSUME NEW j \in Job, Create(j) PROVE ListedOnce'
  BY <1>3, StillListed DEF Create, GoTo, TypeOK, sharedVars
<1>4. ASSUME NEW j \in Job, JobStep(j), ~Take(j) PROVE ListedOnce'
  <2>1. UNCHANGED dispatch /\ phase[j] # "listed"
    BY <1>4 DEF JobStep, Register, ConstructionRaises, Begin, MarkRunning,
         MarkRunningFails, Inspect, RecordDomain, DomainTaken, Refuse,
         RefuseFails, CrawlReturns, CrawlRaises, RecordFailure, Report,
         ReportFails, sharedVars
  <2>2. \E next : phase' = [phase EXCEPT ![j] = next]
    BY <1>4 DEF JobStep, Register, ConstructionRaises, Begin, MarkRunning,
         MarkRunningFails, Inspect, RecordDomain, DomainTaken, Refuse,
         RefuseFails, CrawlReturns, CrawlRaises, RecordFailure, Report,
         ReportFails, Decide, GoTo
  <2>3. QED
    BY <2>1, <2>2, StillListed DEF TypeOK
<1>5. ASSUME NEW h \in Handler, Signal(h) \/ HandlerStep(h)
      PROVE  ListedOnce'
  BY <1>5, StillListed
     DEF Signal, HandlerStep, ReadStatus, Acknowledge, HandlerFails, jobVars,
         sharedVars
<1>6. CASE StopWorker \/ UNCHANGED vars
  BY <1>6, StillListed DEF StopWorker, vars, jobVars, sharedVars
<1>7. ASSUME NEW p \in Process, Crash(p) PROVE ListedOnce'
  BY <1>7, StillListed DEF Crash, sharedVars
<1>8. QED
  BY <1>1, <1>2, <1>3, <1>4, <1>5, <1>6, <1>7 DEF Next

\* ListedOnce holds in every reachable state.
LEMMA ListedOnceAlways == Spec => []ListedOnce
<1>1. Init => ListedOnce
  BY DEF Init, ListedOnce
<1>2. QED
  BY <1>1, TypeCorrect, ListedOnceStep, PTL DEF Spec

-----------------------------------------------------------------------------
(***************************************************************************)
(* The status column.                                                      *)
(***************************************************************************)

\* What the phase p of a job allows as its status s and its verdict v; hit
\* says that the job is lost.  No verdict exists, and none is in the row,
\* before the finally clause; an unbound verdict enters it with a final status
\* already written; only a lost job ends with a live status.
Fits(p, s, v, hit) ==
  /\ p = "none" => s = "absent"
  /\ p \notin {"reporting", "over"} =>
       v = "unbound" /\ s \notin {"completed", "failed"}
  /\ p = "reporting" =>
       /\ s # "completed"
       /\ s = "failed" => v \in {"unbound", "failed"}
       /\ v = "unbound" => s \in Final
  /\ p = "over" => s \notin Live \/ hit

\* The inductive invariant behind LiveJobHasEngine and
\* VerdictReplacedOnlyByStop.
StatusInv ==
  \A j \in Job : Fits(phase[j], status[j], verdict[j], j \in lost)

\* The inductive invariant behind HeardStopNotCompleted: an engine that heard
\* the stop in time has no verdict "completed" left to write.
HeardInv ==
  \A j \in heard :
    stopFlag[j] /\ verdict[j] # "completed" /\ status[j] # "completed"

\* What a step of job j does to its row: the new phase, status and verdict fit
\* together, a verdict in the row stays as it is, and "completed" comes from a
\* verdict that was reached with the stop flag down.
RowStep(j, p, s, v) ==
  /\ phase' = [phase EXCEPT ![j] = p]
  /\ status' = [status EXCEPT ![j] = s]
  /\ verdict' = [verdict EXCEPT ![j] = v]
  /\ UNCHANGED <<stopFlag, heard>>
  /\ lost' \in {lost, lost \union {j}}
  /\ Fits(p, s, v, j \in lost')
  /\ status[j] \in {"completed", "failed"} => s = status[j]
  /\ s = "completed" => "completed" \in {status[j], verdict[j]}
  /\ v = "completed" => verdict[j] = "completed" \/ ~stopFlag[j]

\* Every step of start_crawl, the worker and run() is a RowStep.
LEMMA RowSteps ==
  ASSUME TypeOK, ListedOnce, StatusInv, NEW j \in Job,
         Create(j) \/ Dispatch(j) \/ ReplyLost(j) \/ JobStep(j)
  PROVE  \E p, s, v : RowStep(j, p, s, v)
<1> USE DEF RowStep, GoTo, Write, Decide, NoDatabaseError, DatabaseError, Live,
            Final
<1>1. /\ phase \in [Job -> Phase] /\ verdict \in [Job -> {"unbound"} \union Final]
      /\ status \in [Job -> {"absent"} \union Live \union Final]
      /\ Fits(phase[j], status[j], verdict[j], j \in lost)
  BY DEF TypeOK, StatusInv
<1> USE <1>1 DEF Fits
<1>2. CASE Create(j)
  <2>1. RowStep(j, "created", "queued", verdict[j])
    BY <1>2 DEF Create
  <2>2. QED
    BY <2>1
<1>3. CASE Dispatch(j)
  <2>1. RowStep(j, "listed", "queued", verdict[j])
    BY <1>3 DEF Dispatch
  <2>2. QED
    BY <2>1
<1>4. CASE ReplyLost(j) \/ Take(j)
  <2>1. phase[j] = "listed"
    BY <1>4, PopKeepsListed DEF ReplyLost, Take
  <2>2. RowStep(j, "over", status[j], verdict[j])
        \/ RowStep(j, "created", status[j], verdict[j])
    BY <1>4, <2>1 DEF ReplyLost, Take
  <2>3. QED
    BY <2>2
<1>5. CASE Register(j) \/ ConstructionRaises(j)
  <2>1. RowStep(j, "registered", status[j], verdict[j])
        \/ RowStep(j, "over", status[j], verdict[j])
    BY <1>5 DEF Register, ConstructionRaises
  <2>2. QED
    BY <2>1
<1>6. CASE Begin(j)
  <2>1. RowStep(j, "opening", status[j], verdict[j])
    BY <1>6 DEF Begin
  <2>2. QED
    BY <2>1
<1>7. CASE MarkRunning(j)
  <2>1. RowStep(j, "inspecting", "running", verdict[j])
    BY <1>7 DEF MarkRunning
  <2>2. QED
    BY <2>1
<1>8. CASE MarkRunningFails(j) \/ ReportFails(j)
  <2>1. RowStep(j, "over", status[j], verdict[j])
    BY <1>8 DEF MarkRunningFails, ReportFails
  <2>2. QED
    BY <2>1
<1>9. CASE Inspect(j)
  <2>1. PICK next \in {"updating", "adding", "crawling", "failing"} :
          GoTo(j, next)
    BY <1>9 DEF Inspect, AfterInspection
  <2>2. RowStep(j, next, status[j], verdict[j])
    BY <1>9, <2>1 DEF Inspect
  <2>3. QED
    BY <2>2
<1>10. CASE RecordDomain(j)
  <2>1. PICK next \in {"crawling", "refusing", "failing"} : GoTo(j, next)
    BY <1>10 DEF RecordDomain
  <2>2. RowStep(j, next, status[j], verdict[j])
    BY <1>10, <2>1 DEF RecordDomain
  <2>3. QED
    BY <2>2
<1>11. CASE DomainTaken(j) \/ CrawlRaises(j) \/ RefuseFails(j)
  <2>1. RowStep(j, "failing", status[j], verdict[j])
    BY <1>11 DEF DomainTaken, CrawlRaises, RefuseFails
  <2>2. QED
    BY <2>1
<1>12. CASE Refuse(j)
  <2>1. RowStep(j, "reporting", "failed", "unbound")
    BY <1>12 DEF Refuse
  <2>2. QED
    BY <2>1
<1>13. CASE CrawlReturns(j)
  <2>1. RowStep(j, "reporting", status[j], VerdictOf(j))
    BY <1>13 DEF CrawlReturns, VerdictOf
  <2>2. QED
    BY <2>1
<1>14. CASE RecordFailure(j)
  <2>1. RowStep(j, "reporting", "failed", "failed")
        \/ RowStep(j, "reporting", status[j], "failed")
    BY <1>14 DEF RecordFailure
  <2>2. QED
    BY <2>1
<1>15. CASE Report(j)
  <2>1. RowStep(j, "over", Reported(j), verdict[j])
    BY <1>15 DEF Report, Reported
  <2>2. QED
    BY <2>1
<1>16. QED
  BY <1>2, <1>3, <1>4, <1>5, <1>6, <1>7, <1>8, <1>9, <1>10, <1>11, <1>12,
     <1>13, <1>14, <1>15 DEF JobStep

\* A stop handler changes a status only by writing "stopped", after it has
\* read a live one.
LEMMA HandlerSteps ==
  ASSUME TypeOK, NEW h \in Handler, Signal(h) \/ HandlerStep(h)
  PROVE  /\ TargetOf[h] \in Job
         /\ UNCHANGED <<phase, verdict, lost>>
         /\ \/ status' = status
            \/ /\ handler[h] = "deciding"
               /\ status' = [status EXCEPT ![TargetOf[h]] = "stopped"]
BY LifecycleAssumption
   DEF Signal, HandlerStep, ReadStatus, Acknowledge, HandlerFails, Write,
       NoDatabaseError, DatabaseError, jobVars, sharedVars

\* A stop request is about a job that exists.
AskedOfJob == \A h \in Handler : handler[h] # "idle" => phase[TargetOf[h]] # "none"

\* What a crash leaves of the rows.
LEMMA CrashSteps ==
  ASSUME TypeOK, NEW p \in Process, Crash(p)
  PROVE  /\ UNCHANGED <<status, verdict, stopFlag, heard>>
         /\ lost \subseteq lost'
         /\ \A j \in Job :
              \/ phase'[j] = phase[j]
              \/ phase'[j] = "over" /\ j \in lost'
BY DEF Crash

\* Every step keeps AskedOfJob: no job goes back to "none".
LEMMA AskedOfJobStep ==
  TypeOK /\ ListedOnce /\ StatusInv /\ AskedOfJob /\ [Next]_vars => AskedOfJob'
<1> SUFFICES ASSUME TypeOK, ListedOnce, StatusInv, AskedOfJob, [Next]_vars
             PROVE  AskedOfJob'
  OBVIOUS
<1> USE LifecycleAssumption
<1>1. ASSUME NEW j \in Job,
             Create(j) \/ Dispatch(j) \/ ReplyLost(j) \/ JobStep(j)
      PROVE  AskedOfJob'
  <2>1. PICK p, s, v : RowStep(j, p, s, v)
    BY <1>1, RowSteps
  <2>2. p # "none"
    <3>1. \E next \in Phase \ {"none"} : GoTo(j, next)
      BY <1>1 DEF Create, Dispatch, ReplyLost, JobStep, Take, Register,
           ConstructionRaises, Begin, MarkRunning, MarkRunningFails, Inspect,
           AfterInspection, RecordDomain, DomainTaken, Refuse, RefuseFails,
           CrawlReturns, CrawlRaises, RecordFailure, Report, ReportFails,
           Decide, Phase
    <3>2. QED
      BY <2>1, <3>1 DEF RowStep, GoTo, TypeOK
  <2>3. handler' = handler
    BY <1>1 DEF Create, Dispatch, ReplyLost, JobStep, Take, Register,
         ConstructionRaises, Begin, MarkRunning, MarkRunningFails, Inspect,
         RecordDomain, DomainTaken, Refuse, RefuseFails, CrawlReturns,
         CrawlRaises, RecordFailure, Report, ReportFails
  <2>4. QED
    BY <2>1, <2>2, <2>3 DEF RowStep, AskedOfJob, TypeOK
<1>2. ASSUME NEW h \in Handler, Signal(h) \/ HandlerStep(h)
      PROVE  AskedOfJob'
  BY <1>2 DEF AskedOfJob, TypeOK, Signal, HandlerStep, ReadStatus,
       Acknowledge, HandlerFails, jobVars
<1>3. CASE StopWorker \/ UNCHANGED vars
  BY <1>3 DEF StopWorker, vars, jobVars, AskedOfJob
<1>4. ASSUME NEW p \in Process, Crash(p) PROVE AskedOfJob'
  BY <1>4 DEF Crash, AskedOfJob, TypeOK
<1>5. QED
  BY <1>1, <1>2, <1>3, <1>4 DEF Next

\* Every step keeps StatusInv.
LEMMA StatusInvStep ==
  TypeOK /\ ListedOnce /\ StatusInv /\ AskedOfJob /\ [Next]_vars => StatusInv'
<1> SUFFICES ASSUME TypeOK, ListedOnce, StatusInv, AskedOfJob, [Next]_vars
             PROVE  StatusInv'
  OBVIOUS
<1>1. ASSUME NEW j \in Job,
             Create(j) \/ Dispatch(j) \/ ReplyLost(j) \/ JobStep(j)
      PROVE  StatusInv'
  <2>1. PICK p, s, v : RowStep(j, p, s, v)
    BY <1>1, RowSteps
  <2>2. ASSUME NEW k \in Job
        PROVE  Fits(phase'[k], status'[k], verdict'[k], k \in lost')
    <3>1. CASE k = j
      BY <2>1, <3>1 DEF RowStep, TypeOK
    <3>2. CASE k # j
      <4>1. /\ phase'[k] = phase[k] /\ status'[k] = status[k]
            /\ verdict'[k] = verdict[k] /\ (k \in lost' <=> k \in lost)
        BY <2>1, <3>2 DEF RowStep, TypeOK
      <4>2. QED
        BY <4>1 DEF StatusInv, Fits
    <3>3. QED
      BY <3>1, <3>2
  <2>3. QED
    BY <2>2 DEF StatusInv
<1>2. ASSUME NEW h \in Handler, Signal(h) \/ HandlerStep(h)
      PROVE  StatusInv'
  <2>1. \A k \in Job : status'[k] = status[k] \/ status'[k] = "stopped"
    BY <1>2, HandlerSteps DEF TypeOK
  <2>2. UNCHANGED <<phase, verdict, lost>>
    BY <1>2, HandlerSteps
  <2>3. ASSUME NEW k \in Job
        PROVE  Fits(phase'[k], status'[k], verdict'[k], k \in lost')
    <3>1. phase[k] # "none" \/ status'[k] = status[k]
      BY <1>2, HandlerSteps DEF AskedOfJob, TypeOK
    <3>2. QED
      BY <2>1, <2>2, <3>1 DEF StatusInv, Fits, Live, Final
  <2>4. QED
    BY <2>3 DEF StatusInv
<1>3. CASE StopWorker \/ UNCHANGED vars
  BY <1>3 DEF StopWorker, vars, jobVars, StatusInv
<1>4. ASSUME NEW p \in Process, Crash(p) PROVE StatusInv'
  <2>1. ASSUME NEW k \in Job
        PROVE  Fits(phase'[k], status'[k], verdict'[k], k \in lost')
    BY <1>4, CrashSteps DEF StatusInv, Fits
  <2>2. QED
    BY <2>1 DEF StatusInv
<1>5. QED
  BY <1>1, <1>2, <1>3, <1>4 DEF Next

\* StatusInv and what it rests on hold in every reachable state.
LEMMA StatusInvAlways == Spec => [](TypeOK /\ ListedOnce /\ StatusInv)
<1>1. Init => StatusInv /\ AskedOfJob
  BY DEF Init, StatusInv, Fits, Live, AskedOfJob
<1>2. QED
  BY <1>1, TypeCorrect, ListedOnceAlways, StatusInvStep, AskedOfJobStep, PTL
     DEF Spec

\* No job is left behind as queued or running: whichever way run() ends, the
\* refused start URL with its unbound final_status included, a final status is
\* in the row before the engine is gone, unless a crash, a failed transaction
\* or reply or an unparsable start URL has hit the job.
THEOREM LiveJobHasEngineAlways == Spec => []LiveJobHasEngine
<1>1. StatusInv => LiveJobHasEngine
  BY DEF StatusInv, Fits, LiveJobHasEngine
<1>2. QED
  BY <1>1, StatusInvAlways, PTL

\* A verdict, once in the row, is overwritten only by a stop handler that has
\* read the row before: run() itself, in any of its transactions, never
\* replaces one verdict by another.
THEOREM VerdictReplacedOnlyByStopAlways == Spec => VerdictReplacedOnlyByStop
<1>1. ASSUME TypeOK, ListedOnce, StatusInv, [Next]_vars, NEW k \in Job,
             status[k] \in {"completed", "failed"}, status'[k] # status[k]
      PROVE  /\ status'[k] = "stopped"
             /\ \E h \in Handler : TargetOf[h] = k /\ handler[h] = "deciding"
  <2>1. ASSUME NEW j \in Job,
               Create(j) \/ Dispatch(j) \/ ReplyLost(j) \/ JobStep(j)
        PROVE  FALSE
    <3>1. PICK p, s, v : RowStep(j, p, s, v)
      BY <2>1, <1>1, RowSteps
    <3>2. QED
      BY <1>1, <3>1 DEF RowStep, TypeOK
  <2>2. ASSUME NEW h \in Handler, Signal(h) \/ HandlerStep(h)
        PROVE  /\ status'[k] = "stopped"
               /\ TargetOf[h] = k /\ handler[h] = "deciding"
    BY <1>1, <2>2, HandlerSteps DEF TypeOK
  <2>3. ~(StopWorker \/ UNCHANGED vars) /\ \A p \in Process : ~Crash(p)
    BY <1>1, CrashSteps DEF StopWorker, vars, jobVars
  <2>4. QED
    BY <1>1, <2>1, <2>2, <2>3 DEF Next
<1>2. TypeOK /\ ListedOnce /\ StatusInv /\ [Next]_vars =>
        [\A j \in Job :
           status[j] \in {"completed", "failed"} /\ status'[j] # status[j] =>
             /\ status'[j] = "stopped"
             /\ \E h \in Handler :
                  TargetOf[h] = j /\ handler[h] = "deciding"]_vars
  BY <1>1
<1>3. QED
  BY <1>2, StatusInvAlways, PTL DEF Spec, VerdictReplacedOnlyByStop

\* Every step keeps HeardInv: the flag stays up, and a verdict reached with
\* the flag up is not "completed".
LEMMA HeardInvStep ==
  TypeOK /\ ListedOnce /\ StatusInv /\ HeardInv /\ [Next]_vars => HeardInv'
<1> SUFFICES ASSUME TypeOK, ListedOnce, StatusInv, HeardInv, [Next]_vars
             PROVE  HeardInv'
  OBVIOUS
<1>1. ASSUME NEW j \in Job,
             Create(j) \/ Dispatch(j) \/ ReplyLost(j) \/ JobStep(j)
      PROVE  HeardInv'
  <2>1. PICK p, s, v : RowStep(j, p, s, v)
    BY <1>1, RowSteps
  <2>2. QED
    BY <2>1 DEF RowStep, HeardInv, TypeOK
<1>2. ASSUME NEW h \in Handler, Signal(h)
      PROVE  HeardInv'
  <2> DEFINE j == TargetOf[h]
  <2>1. j \in Job /\ UNCHANGED <<phase, status, verdict>>
    BY <1>2, LifecycleAssumption DEF Signal
  <2>2. stopFlag' = [stopFlag EXCEPT ![j] = stopFlag[j] \/ Registered(j)]
    BY <1>2, Zenon DEF Signal
  <2>3. \/ heard' = heard
        \/ heard' = heard \union {j} /\ Registered(j) /\ Undecided(j)
    BY <1>2 DEF Signal
  <2>4. \A k \in Job : stopFlag[k] => stopFlag'[k]
    BY <2>1, <2>2 DEF TypeOK
  <2>5. ASSUME Registered(j), Undecided(j)
        PROVE  stopFlag'[j] /\ verdict[j] # "completed"
               /\ status[j] # "completed"
    <3>1. phase[j] \notin {"reporting", "over"}
      BY <2>5 DEF Undecided, Counted
    <3>2. verdict[j] # "completed" /\ status[j] # "completed"
      BY <2>1, <3>1 DEF StatusInv, Fits
    <3>3. stopFlag'[j]
      BY <2>1, <2>2, <2>5, Zenon DEF TypeOK
    <3>4. QED
      BY <3>2, <3>3
  <2> HIDE DEF j
  <2>6. QED
    BY <2>1, <2>3, <2>4, <2>5 DEF HeardInv, TypeOK
<1>3. ASSUME NEW h \in Handler, HandlerStep(h)
      PROVE  HeardInv'
  <2>1. UNCHANGED <<stopFlag, heard>>
    BY <1>3 DEF HandlerStep, ReadStatus, Acknowledge, HandlerFails, jobVars
  <2>2. QED
    BY <1>3, <2>1, HandlerSteps DEF HeardInv, TypeOK
<1>4. CASE StopWorker \/ UNCHANGED vars
  BY <1>4 DEF StopWorker, vars, jobVars, HeardInv
<1>5. ASSUME NEW p \in Process, Crash(p) PROVE HeardInv'
  BY <1>5, CrashSteps DEF HeardInv, TypeOK
<1>6. QED
  BY <1>1, <1>2, <1>3, <1>4, <1>5 DEF Next

\* A stop that the engine heard before its verdict was reached is honoured:
\* the job never ends as "completed", whoever writes the status last.
THEOREM HeardStopNotCompletedAlways == Spec => []HeardStopNotCompleted
<1>1. Init => HeardInv
  BY DEF Init, HeardInv
<1>2. HeardInv => HeardStopNotCompleted
  BY DEF HeardInv, HeardStopNotCompleted
<1>3. QED
  BY <1>1, <1>2, StatusInvAlways, HeardInvStep, PTL DEF Spec

-----------------------------------------------------------------------------
(***************************************************************************)
(* The gauge.                                                              *)
(***************************************************************************)

\* The phases between the increment of the gauge and its decrement.
CountedPhase == {"opening", "inspecting", "adding", "updating", "refusing",
                 "crawling", "failing"}

\* The jobs inside run(), by process.
Inside(p) == {j \in Job : ProcessOf(j) = p /\ Counted(j)}

\* 1 for a phase that the gauge counts.
Weight(phas) == IF phas \in CountedPhase THEN 1 ELSE 0

\* When a job changes its phase, the jobs inside run() of its process become
\* one more, one fewer or as many; those of the other process stay.
LEMMA InsideMoved ==
  ASSUME phase \in [Job -> Phase], NEW j \in Job, NEW next,
         phase' = [phase EXCEPT ![j] = next], NEW p
  PROVE  /\ IsFiniteSet(Inside(p)) /\ Cardinality(Inside(p)) \in Nat
         /\ Cardinality(Inside(p)') = Cardinality(Inside(p)) +
              (IF p = ProcessOf(j) THEN Weight(next) - Weight(phase[j]) ELSE 0)
<1>1. IsFiniteSet(Inside(p)) /\ Cardinality(Inside(p)) \in Nat
  BY LifecycleAssumption, FS_Subset, FS_CardinalityType DEF Inside
<1>2. j \in Inside(p) <=> p = ProcessOf(j) /\ phase[j] \in CountedPhase
  BY DEF Inside, Counted, CountedPhase
<1>3. CASE p = ProcessOf(j) /\ next \in CountedPhase
  <2>1. Inside(p)' = Inside(p) \union {j}
    BY <1>3 DEF Inside, Counted, CountedPhase, ProcessOf
  <2>2. Cardinality(Inside(p) \union {j}) =
          IF j \in Inside(p) THEN Cardinality(Inside(p))
                             ELSE Cardinality(Inside(p)) + 1
    BY <1>1, FS_AddElement
  <2>3. Weight(next) = 1
        /\ Weight(phase[j]) = (IF j \in Inside(p) THEN 1 ELSE 0)
    BY <1>2, <1>3 DEF Weight
  <2>4. QED
    BY <1>1, <1>3, <2>1, <2>2, <2>3
<1>4. CASE p = ProcessOf(j) /\ next \notin CountedPhase
  <2>1. Inside(p)' = Inside(p) \ {j}
    BY <1>4 DEF Inside, Counted, CountedPhase, ProcessOf
  <2>2. Cardinality(Inside(p) \ {j}) =
          IF j \in Inside(p) THEN Cardinality(Inside(p)) - 1
                             ELSE Cardinality(Inside(p))
    BY <1>1, FS_RemoveElement
  <2>3. Weight(next) = 0
        /\ Weight(phase[j]) = (IF j \in Inside(p) THEN 1 ELSE 0)
    BY <1>2, <1>4 DEF Weight
  <2>4. QED
    BY <1>1, <1>4, <2>1, <2>2, <2>3
<1>5. CASE p # ProcessOf(j)
  <2>1. Inside(p)' = Inside(p)
    BY <1>5 DEF Inside, Counted, ProcessOf
  <2>2. QED
    BY <1>1, <1>5, <2>1
<1>6. QED
  BY <1>3, <1>4, <1>5

\* What a step of job j does to the gauge: it follows the job in and out of
\* run(), or a transaction fails and the job leaves uncounted.
GaugeStep(j, next) ==
  /\ phase' = [phase EXCEPT ![j] = next]
  /\ \/ Count(j, Weight(next) - Weight(phase[j])) /\ failures' >= failures
     \/ /\ UNCHANGED gauge /\ failures' = failures + 1
        /\ Weight(next) = 0 /\ Weight(phase[j]) = 1

\* A step that leaves the gauge alone, between phases of the same weight.
LEMMA GaugeStays ==
  ASSUME TypeOK, NEW j \in Job, NEW next, GoTo(j, next), UNCHANGED gauge,
         Weight(next) = Weight(phase[j]), failures' >= failures
  PROVE  GaugeStep(j, next)
<1>1. Weight(next) - Weight(phase[j]) = 0
  BY DEF Weight
<1>2. ProcessOf(j) \in Process
  BY DEF ProcessOf, Process
<1>3. gauge' = [gauge EXCEPT ![ProcessOf(j)] = gauge[ProcessOf(j)] + 0]
  BY <1>2 DEF TypeOK
<1>4. QED
  BY <1>1, <1>3 DEF GaugeStep, GoTo, Count

\* Every step of start_crawl, the worker and run() is a GaugeStep.
LEMMA GaugeSteps ==
  ASSUME TypeOK, ListedOnce, NEW j \in Job,
         Create(j) \/ Dispatch(j) \/ ReplyLost(j) \/ JobStep(j)
  PROVE  \E next : GaugeStep(j, next)
<1>1. failures \in Nat /\ phase \in [Job -> Phase]
  BY LifecycleAssumption DEF TypeOK
<1>2. CASE Create(j) \/ Dispatch(j) \/ Register(j) \/ ConstructionRaises(j)
           \/ MarkRunning(j) \/ DomainTaken(j) \/ RefuseFails(j)
           \/ CrawlRaises(j) \/ Report(j) \/ ReportFails(j)
  <2>1. PICK next \in Phase :
          /\ GoTo(j, next) /\ UNCHANGED gauge
          /\ Weight(next) = Weight(phase[j]) /\ failures' >= failures
    BY <1>1, <1>2
       DEF Create, Dispatch, Register, ConstructionRaises, MarkRunning,
           DomainTaken, RefuseFails, CrawlRaises, Report, ReportFails, Weight,
           CountedPhase, NoDatabaseError, DatabaseError, Phase
  <2>2. QED
    BY <2>1, GaugeStays
<1>3. CASE ReplyLost(j) \/ Take(j)
  <2>1. phase[j] = "listed"
    BY <1>3, PopKeepsListed DEF ReplyLost, Take, GoTo
  <2>2. PICK next \in {"over", "created"} :
          GoTo(j, next) /\ UNCHANGED gauge /\ failures' >= failures
    BY <1>1, <1>3 DEF ReplyLost, Take, DatabaseError
  <2>3. QED
    BY <2>1, <2>2, GaugeStays DEF Weight, CountedPhase
<1>4. CASE Inspect(j) \/ RecordDomain(j)
  <2>1. PICK next \in CountedPhase : GoTo(j, next)
    BY <1>4 DEF Inspect, AfterInspection, RecordDomain, CountedPhase
  <2>2. /\ UNCHANGED gauge /\ phase[j] \in CountedPhase
        /\ failures' >= failures
    BY <1>1, <1>4 DEF Inspect, RecordDomain, CountedPhase
  <2>3. QED
    BY <2>1, <2>2, GaugeStays DEF Weight
<1>5. CASE Begin(j)
  <2>1. GoTo(j, "opening") /\ Count(j, 1) /\ failures' >= failures
    BY <1>1, <1>5 DEF Begin
  <2>2. Weight("opening") - Weight(phase[j]) = 1
    BY <1>5 DEF Begin, Weight, CountedPhase
  <2>3. GaugeStep(j, "opening")
    BY <2>1, <2>2 DEF GaugeStep, GoTo
  <2>4. QED
    BY <2>3
<1>6. CASE MarkRunningFails(j)
  <2>1. GaugeStep(j, "over")
    BY <1>6 DEF MarkRunningFails, DatabaseError, GaugeStep, GoTo, Weight,
         CountedPhase
  <2>2. QED
    BY <2>1
<1>7. CASE Refuse(j) \/ CrawlReturns(j) \/ RecordFailure(j)
  <2>1. GoTo(j, "reporting") /\ Count(j, -1) /\ failures' >= failures
    BY <1>1, <1>7 DEF Refuse, CrawlReturns, RecordFailure, Decide,
         NoDatabaseError, DatabaseError
  <2>2. Weight("reporting") - Weight(phase[j]) = -1
    BY <1>7 DEF Refuse, CrawlReturns, RecordFailure, Weight, CountedPhase
  <2>3. GaugeStep(j, "reporting")
    BY <2>1, <2>2 DEF GaugeStep, GoTo
  <2>4. QED
    BY <2>3
<1>8. QED
  BY <1>2, <1>3, <1>4, <1>5, <1>6, <1>7 DEF JobStep

\* Every step keeps GaugeLeakBounded.
LEMMA GaugeLeakBoundedStep ==
  TypeOK /\ ListedOnce /\ GaugeLeakBounded /\ [Next]_vars => GaugeLeakBounded'
<1> SUFFICES ASSUME TypeOK, ListedOnce, GaugeLeakBounded, [Next]_vars,
                    NEW p \in Process
             PROVE  /\ Cardinality(Inside(p)') <= gauge'[p]
                    /\ gauge'[p] <= Cardinality(Inside(p)') + failures'
  BY DEF GaugeLeakBounded, Inside
<1> DEFINE n == Cardinality(Inside(p))
<1>1. /\ n \in Nat /\ failures \in Nat /\ gauge[p] \in Int
      /\ n <= gauge[p] /\ gauge[p] <= n + failures
  BY LifecycleAssumption, FS_Subset, FS_CardinalityType
     DEF GaugeLeakBounded, Inside, TypeOK
<1>2. ASSUME NEW j \in Job,
             Create(j) \/ Dispatch(j) \/ ReplyLost(j) \/ JobStep(j)
      PROVE  n' <= gauge'[p] /\ gauge'[p] <= n' + failures'
  <2>1. PICK next : GaugeStep(j, next)
    BY <1>2, GaugeSteps
  <2>2. n' = n + (IF p = ProcessOf(j) THEN Weight(next) - Weight(phase[j])
                                      ELSE 0)
    BY <2>1, InsideMoved DEF GaugeStep, TypeOK
  <2>3. Weight(next) \in {0, 1} /\ Weight(phase[j]) \in {0, 1}
        /\ failures' \in Nat
    BY <1>2, LifecycleAssumption, TypeStep DEF Weight, TypeOK
  <2>4. CASE Count(j, Weight(next) - Weight(phase[j])) /\ failures' >= failures
    <3>1. gauge'[p] = gauge[p] +
            (IF p = ProcessOf(j) THEN Weight(next) - Weight(phase[j]) ELSE 0)
      BY <1>1, <2>3, <2>4 DEF Count, TypeOK
    <3> HIDE DEF n
    <3>2. QED
      BY <1>1, <2>2, <2>3, <2>4, <3>1
  <2>5. CASE UNCHANGED gauge /\ failures' = failures + 1
             /\ Weight(next) = 0 /\ Weight(phase[j]) = 1
    <3> HIDE DEF n
    <3>1. QED
      BY <1>1, <2>2, <2>3, <2>5
  <2>6. QED
    BY <2>1, <2>4, <2>5 DEF GaugeStep
<1>3. ASSUME UNCHANGED <<phase, gauge>>, failures' >= failures,
             failures' \in Nat
      PROVE  n' <= gauge'[p] /\ gauge'[p] <= n' + failures'
  <2>1. n' = n
    BY <1>3 DEF Inside, Counted, ProcessOf
  <2> HIDE DEF n
  <2>2. QED
    BY <1>1, <1>3, <2>1
<1>4. CASE StopWorker \/ UNCHANGED vars
           \/ \E h \in Handler : Signal(h) \/ HandlerStep(h)
  <2>1. UNCHANGED <<phase, gauge>>
    BY <1>4 DEF StopWorker, vars, jobVars, Signal, HandlerStep, ReadStatus,
         Acknowledge, HandlerFails
  <2>2. failures' = failures \/ failures' = failures + 1
    BY <1>4 DEF StopWorker, vars, jobVars, Signal, HandlerStep, ReadStatus,
         Acknowledge, HandlerFails, NoDatabaseError, DatabaseError
  <2>3. QED
    BY <1>1, <1>3, <2>1, <2>2
<1>5. ASSUME NEW q \in Process, Crash(q)
      PROVE  n' <= gauge'[p] /\ gauge'[p] <= n' + failures'
  <2>1. failures' = failures /\ gauge' = [gauge EXCEPT ![q] = 0]
    BY <1>5 DEF Crash
  <2>2. CASE p = q
    <3>1. \A j \in Job : ProcessOf(j) = p => phase'[j] \notin CountedPhase
      BY <1>5, <2>2 DEF Crash, CountedPhase
    <3>2. Inside(p)' = {}
      BY <3>1 DEF Inside, Counted, CountedPhase, ProcessOf
    <3>3. n' = 0 /\ gauge'[p] = 0
      BY <2>1, <2>2, <3>2, FS_EmptySet DEF TypeOK
    <3> HIDE DEF n
    <3>4. QED
      BY <1>1, <2>1, <3>3
  <2>3. CASE p # q
    <3>1. \A j \in Job : ProcessOf(j) = p => phase'[j] = phase[j]
      BY <1>5, <2>3 DEF Crash
    <3>2. Inside(p)' = Inside(p)
      BY <3>1 DEF Inside, Counted, ProcessOf
    <3>3. gauge'[p] = gauge[p]
      BY <2>1, <2>3 DEF TypeOK
    <3>4. QED
      BY <1>1, <2>1, <3>2, <3>3
  <2>4. QED
    BY <2>2, <2>3
<1>6. QED
  BY <1>2, <1>4, <1>5 DEF Next

\* The gauge of active crawls never counts less than the jobs inside run(),
\* and what it counts too much is at most one job for each transaction that
\* failed: every other way through run() and its finally clause is balanced,
\* and a crash takes gauge and jobs away together.
THEOREM GaugeLeakBoundedAlways == Spec => []GaugeLeakBounded
<1>1. ASSUME Init PROVE GaugeLeakBounded
  <2>1. \A p \in Process : Inside(p) = {} /\ gauge[p] = 0
    BY <1>1 DEF Init, Inside, Counted
  <2>2. failures = 0
    BY <1>1 DEF Init
  <2>3. QED
    BY <2>1, <2>2, FS_EmptySet DEF GaugeLeakBounded, Inside
<1>2. Init => GaugeLeakBounded
  BY <1>1
<1>3. QED
  BY <1>2, TypeCorrect, ListedOnceAlways, GaugeLeakBoundedStep, PTL DEF Spec

=============================================================================
