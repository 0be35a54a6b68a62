---------------------------- MODULE ModelingJobs ----------------------------
(***************************************************************************)
(* Long-running tuning jobs of the modelling stage: start, read, step and  *)
(* cancel in apps/api/routers/modeling_session.py, with the contract of    *)
(* apps/api/model_jobs.py.                                                 *)
(*                                                                         *)
(* A job is a record inside the session document.  A request reads a copy  *)
(* of the whole document, works on it (a step trains a model, which takes  *)
(* up to minutes) and saves it; the Redis and Postgres stores refuse the   *)
(* save when storage_revision has moved on, and the request then answers   *)
(* from the document as it is by now, or with 409.  Starting, stepping and *)
(* cancelling are two steps here, a read and a save; the other requests of *)
(* a session have no effect unless their save wins, so each is one step.   *)
(* An answer made of what is stored changes nothing and is left out.       *)
(***************************************************************************)
EXTENDS Integers, FiniteSets

CONSTANTS
  Requests,      \* requests in flight that start, step or cancel a job
  Models,        \* models that can be tuned
  Tasks,         \* what a start asks for: model, work plan, metric, idempotency key
  TotalSteps,    \* trials of a work plan (total_steps)
  JobBound,      \* bound of the model: jobs ever started
  ChangeBound,   \* bound of the model: saves by the other requests of the session
  None

ASSUME JobsAssumption ==
  /\ TotalSteps \in Nat \ {0}
  /\ {JobBound, ChangeBound} \subseteq Nat
  /\ \A t \in Tasks : t.model \in Models
  /\ None \notin Requests \cup Models

VARIABLES
  doc,       \* the stored session document
  request,   \* the document a request means to save, Idle, or Overtaken by a save
  issued,    \* number of jobs ever saved; a job is named by its number
  late,      \* jobs whose deadline_at has passed
  changes    \* bounds the model: saves by the other requests

vars == <<doc, request, issued, late, changes>>

JobIds == 1..JobBound
Terminal == {"completed", "failed", "cancelled", "stale"}
Live == {"in_progress", "completed"}
Elsewhere == 0     \* a tuning result that no job produced

NoJobs == [j \in {} |-> None]
Untuned == [m \in Models |-> None]

\* What was made of another series is dropped; s is the series it will be made of next.
Cleared(d, s) == [d EXCEPT !.source = s, !.jobs = NoJobs, !.tuning = Untuned, !.skips = {}]

Idle == [kind |-> "idle"]
Overtaken == [kind |-> "overtaken"]

Init ==
  /\ doc = [series |-> 1, confirmed |-> 1, contract |-> 1, source |-> 0,
            jobs |-> NoJobs, tuning |-> Untuned, skips |-> {}]
  /\ request = [r \in Requests |-> Idle]
  /\ issued = 0
  /\ late = {}
  /\ changes = 0
-----------------------------------------------------------------------------
(* What a request makes of the document it has read.                       *)

\* The modeling_entry checkpoint is of the series as it is now.
Ready(d) == d.confirmed = d.series

\* A request that needs the data begins with this.
Prepared(d) == IF d.source = d.series THEN d ELSE Cleared(d, d.series)

Cohort(d) == <<d.series, d.contract>>

\* The metric is no part of the signature.
Signature(t, d) == <<t.model, t.plan, Cohort(d)>>

First(S) == CHOOSE j \in S : \A k \in S : j <= k

Keyed(d, t) == {j \in DOMAIN d.jobs : t.key # None /\ d.jobs[j].task.key = t.key}

\* 409: the key belongs to a job with another plan, whatever became of that job.
KeyTaken(d, t, sig) == Keyed(d, t) # {} /\ d.jobs[First(Keyed(d, t))].sig # sig

\* Mutant: a start without a key never meets a job.
ReplayableByKey(d, t, sig) ==
  {j \in Keyed(d, t) : j = First(Keyed(d, t)) /\ d.jobs[j].status \in Live}

\* The jobs a start may be answered with instead of a new one.
Replayable(d, t, sig) ==
  LET first == {j \in Keyed(d, t) : j = First(Keyed(d, t)) /\ d.jobs[j].status \in Live}
  IN IF first # {} THEN first
     ELSE {j \in DOMAIN d.jobs : d.jobs[j].sig = sig /\ d.jobs[j].status \in Live}

NewJob(t, d) == [task |-> t, sig |-> Signature(t, d), cohort |-> Cohort(d), next |-> 0,
                 good |-> FALSE, status |-> "in_progress"]

AddJob(d, j, t) ==
  [d EXCEPT !.jobs = [k \in DOMAIN d.jobs \cup {j} |-> IF k = j THEN NewJob(t, d) ELSE d.jobs[k]],
            !.skips = @ \ {t.model}]

\* Mutant: the decision to do without tuning outlives the tuning.
FinishKeepsSkip(d, j) ==
  LET job == d.jobs[j] IN
  IF job.next < TotalSteps THEN d
  ELSE IF ~job.good THEN [d EXCEPT !.jobs[j].status = "failed"]
  ELSE [d EXCEPT !.jobs[j].status = "completed", !.tuning[job.task.model] = j]

\* A finished plan promotes its best trial, and fails when no trial succeeded.
Finish(d, j) ==
  LET job == d.jobs[j] IN
  IF job.next < TotalSteps THEN d
  ELSE IF ~job.good THEN [d EXCEPT !.jobs[j].status = "failed"]
  ELSE [d EXCEPT !.jobs[j].status = "completed",
                 !.tuning[job.task.model] = j,
                 !.skips = @ \ {job.task.model}]

\* Mutant: the last trial does not end the job.
RunTrialOnly(d, j, ok) == [d EXCEPT !.jobs[j].next = @ + 1, !.jobs[j].good = @ \/ ok]

\* One trial, which may fail (an exception, or a budget exceeded).
RunTrial(d, j, ok) ==
  Finish([d EXCEPT !.jobs[j].next = @ + 1, !.jobs[j].good = @ \/ ok], j)

Close(d, j, status) == IF j \in DOMAIN d.jobs THEN [d EXCEPT !.jobs[j].status = status] ELSE d
-----------------------------------------------------------------------------
(* The requests.                                                           *)

\* Mutant: a save leaves the revision as it is.
NotOutdated == request

\* A save moves storage_revision on: what every other request has read is out of date.
Outdated == [r \in Requests |-> IF request[r] = Idle THEN Idle ELSE Overtaken]

\* The request has read the document and made of it what it means to save.
Holds(r, kind, new) ==
  /\ request[r] = Idle
  /\ request' = [request EXCEPT ![r] = [kind |-> kind, new |-> new]]
  /\ UNCHANGED <<doc, issued, late, changes>>

\* Start: no job is or was at work on the plan, so there will be a new one.
StartReads(r, t) ==
  LET d == Prepared(doc) sig == Signature(t, d) IN
  /\ issued < JobBound
  /\ Ready(doc)
  /\ ~KeyTaken(d, t, sig)
  /\ Replayable(d, t, sig) = {}
  /\ Holds(r, "start", AddJob(d, issued + 1, t))

\* Step: the client names the step the job is at, and the job is in progress.
Steps(j) == j \in DOMAIN doc.jobs /\ doc.jobs[j].status = "in_progress"

\* Mutant: the deadline is looked at once the data has been.
StepFindsLateReady(r, j) ==
  /\ Steps(j)
  /\ j \in late
  /\ Ready(doc)
  /\ Holds(r, "step", Close(doc, j, "failed"))

\* The deadline is looked at before the data is.
StepFindsLate(r, j) ==
  /\ Steps(j)
  /\ j \in late
  /\ Holds(r, "step", Close(doc, j, "failed"))

\* The series or the folds are not those of the job.
StepFindsStale(r, j) ==
  LET d == Prepared(doc) IN
  /\ Steps(j)
  /\ j \notin late
  /\ Ready(doc)
  /\ Cohort(d) # doc.jobs[j].cohort
  /\ Holds(r, "step", Close(d, j, "stale"))

StepRuns(r, j, ok) ==
  LET d == Prepared(doc) IN
  /\ Steps(j)
  /\ j \notin late
  /\ Ready(doc)
  /\ Cohort(d) = doc.jobs[j].cohort
  /\ Holds(r, "step", RunTrial(d, j, ok))

\* Cancel: anything but a completed or cancelled job.
CancelReads(r, j) ==
  /\ j \in DOMAIN doc.jobs
  /\ doc.jobs[j].status \notin {"completed", "cancelled"}
  /\ Holds(r, "cancel", Close(doc, j, "cancelled"))

\* The save compares the revision and wins.
Saves(r) ==
  /\ request[r] \notin {Idle, Overtaken}
  /\ doc' = request[r].new
  /\ request' = [Outdated EXCEPT ![r] = Idle]
  /\ issued' = IF request[r].kind = "start" THEN issued + 1 ELSE issued
  /\ UNCHANGED <<late, changes>>

\* The save loses; the answer is made of the document as it is by now, or a 409.
Loses(r) ==
  /\ request[r] = Overtaken
  /\ request' = [request EXCEPT ![r] = Idle]
  /\ UNCHANGED <<doc, issued, late, changes>>
-----------------------------------------------------------------------------
(* The other writers of the document, and the clock.                       *)

Writes(d) ==
  /\ changes < ChangeBound
  /\ changes' = changes + 1
  /\ doc' = d
  /\ request' = Outdated
  /\ UNCHANGED <<issued, late>>

\* POST /tune: a whole plan in one request.
TuneAtOnce(m) ==
  LET d == Prepared(doc) IN
  /\ Ready(doc)
  /\ d.tuning[m] # Elsewhere
  /\ Writes([d EXCEPT !.tuning[m] = Elsewhere, !.skips = @ \ {m}])

\* POST /tuning/skip: keep the defaults of one model.  The candidates and backtests a
\* skip also needs are those of the series, and are not told apart.
SkipTuning(m) ==
  LET d == Prepared(doc) IN
  /\ Ready(doc)
  /\ d.tuning[m] = None
  /\ Writes([d EXCEPT !.skips = @ \cup {m}])

\* POST /tuning/skip-pending: keep the defaults of every model without a decision.
SkipPending ==
  LET d == Prepared(doc)
      pending == {m \in Models : d.tuning[m] = None /\ m \notin d.skips}
  IN
  /\ Ready(doc)
  /\ pending # {}
  /\ \A j \in DOMAIN d.jobs : d.jobs[j].status = "in_progress" => d.jobs[j].task.model \notin pending
  /\ Writes([d EXCEPT !.skips = @ \cup pending])

\* GET /state and the like: a document of another series is begun anew.
Prepares ==
  /\ Ready(doc)
  /\ doc.source # doc.series
  /\ Writes(Prepared(doc))

\* POST /candidates: another validation strategy, with the same series.
ContractChanges ==
  /\ Ready(doc)
  /\ Writes([Prepared(doc) EXCEPT !.contract = @ + 1])

\* A correction leaves the artifacts; another dataset, target or date resets them.
SeriesChanges(reset) ==
  Writes(LET d == [doc EXCEPT !.series = @ + 1] IN IF reset THEN Cleared(d, 0) ELSE d)

\* The analyst confirms the checkpoint for the series as it is.
Confirms ==
  /\ ~Ready(doc)
  /\ doc' = [doc EXCEPT !.confirmed = doc.series]
  /\ request' = Outdated
  /\ UNCHANGED <<issued, late, changes>>

\* Any other request of the same session.
OtherSaves == Writes(doc)

DeadlinePasses(j) ==
  /\ Steps(j)
  /\ j \notin late
  /\ late' = late \cup {j}
  /\ UNCHANGED <<doc, request, issued, changes>>

StepReads(r, j) == StepFindsLate(r, j) \/ StepFindsStale(r, j) \/ \E ok \in BOOLEAN : StepRuns(r, j, ok)

Next ==
  \/ \E r \in Requests, t \in Tasks : StartReads(r, t)
  \/ \E r \in Requests, j \in JobIds : StepFindsLate(r, j)
  \/ \E r \in Requests, j \in JobIds : StepFindsStale(r, j)
  \/ \E r \in Requests, j \in JobIds, ok \in BOOLEAN : StepRuns(r, j, ok)
  \/ \E r \in Requests, j \in JobIds : CancelReads(r, j)
  \/ \E r \in Requests : Saves(r)
  \/ \E r \in Requests : Loses(r)
  \/ \E m \in Models : TuneAtOnce(m)
  \/ \E m \in Models : SkipTuning(m)
  \/ SkipPending
  \/ Prepares
  \/ ContractChanges
  \/ \E reset \in BOOLEAN : SeriesChanges(reset)
  \/ Confirms
  \/ OtherSaves
  \/ \E j \in JobIds : DeadlinePasses(j)

Spec == Init /\ [][Next]_vars

\* A request that is being handled is handled to its end, time passes, and somebody
\* goes on asking for the next step of a job until it is no longer in progress.
Fairness ==
  /\ \A r \in Requests : WF_vars(Saves(r)) /\ WF_vars(Loses(r))
  /\ \A j \in JobIds : WF_vars(DeadlinePasses(j))
  /\ \A j \in JobIds : WF_vars(\E r \in Requests : StepReads(r, j))

FairSpec == Spec /\ Fairness
-----------------------------------------------------------------------------
(* What must hold.                                                         *)

InProgress(j) == j \in DOMAIN doc.jobs /\ doc.jobs[j].status = "in_progress"

Jobs == [task : Tasks, sig : Models \X {t.plan : t \in Tasks} \X (Nat \X Nat), cohort : Nat \X Nat,
         next : 0..TotalSteps, good : BOOLEAN, status : {"in_progress"} \cup Terminal]

IsDocument(d) ==
  /\ {d.series, d.confirmed, d.contract, d.source} \subseteq Nat
  /\ DOMAIN d.jobs \subseteq JobIds
  /\ \A j \in DOMAIN d.jobs : d.jobs[j] \in Jobs
  /\ d.tuning \in [Models -> {None, Elsewhere} \cup JobIds]
  /\ d.skips \subseteq Models

\* The shape of the document and of what the requests hold; a job in progress has
\* trials left, and none has succeeded before one was run.
TypeOK ==
  /\ IsDocument(doc)
  /\ issued \in 0..JobBound /\ DOMAIN doc.jobs \subseteq 1..issued
  /\ late \subseteq JobIds
  /\ \A r \in Requests : request[r] \notin {Idle, Overtaken} => IsDocument(request[r].new)
  /\ \A j \in DOMAIN doc.jobs :
       /\ doc.jobs[j].good => doc.jobs[j].next > 0
       /\ doc.jobs[j].status = "in_progress" => doc.jobs[j].next < TotalSteps

\* What a client can have been told of a job stays true as long as the artifacts are
\* those of the same series: the job is still there, its trials are still counted,
\* and an end is not taken back, whichever requests step it, cancel it or save the
\* document for another reason at the same time (the compare-and-save of
\* session_store.py under the handlers of modeling_session.py).
JobIsKept(j) ==
  /\ j \in DOMAIN doc'.jobs
  /\ doc'.jobs[j].next >= doc.jobs[j].next
  /\ doc.jobs[j].status \in {"completed", "cancelled"} => doc'.jobs[j].status = doc.jobs[j].status
  /\ doc.jobs[j].status \in Terminal => doc'.jobs[j].next = doc.jobs[j].next

NothingIsTakenBack ==
  [][doc'.source = doc.source => \A j \in DOMAIN doc.jobs : JobIsKept(j)]_vars

\* Two starts of one plan, however they interleave, do not both get a job
\* (_find_replayable_model_job on what was read, and a save that must not be late).
OneLiveJobPerPlan ==
  \A j, k \in DOMAIN doc.jobs :
    doc.jobs[j].sig = doc.jobs[k].sig /\ {doc.jobs[j].status, doc.jobs[k].status} \subseteq Live => j = k

\* No model has both a tuning result and a recorded decision to do without one,
\* whichever of a skip and a running job comes first.
TunedIsNotSkipped == \A m \in doc.skips : doc.tuning[m] = None

\* A job does not stay in progress for ever, whatever happens to the series and the
\* validation strategy meanwhile: it finishes, is cancelled, goes stale with its
\* data, or runs into its deadline, which needs no confirmed series.
JobsSettle == \A j \in JobIds : InProgress(j) ~> ~InProgress(j)
-----------------------------------------------------------------------------
(* Claims the code does not keep: TLC refutes each, as the README says.     *)

\* "... изменились; запустите job заново": a job that went stale can be started again.
StaleCanStartAgain ==
  \A j \in DOMAIN doc.jobs :
    doc.jobs[j].status = "stale" /\ Ready(doc) /\ doc.source = doc.series
      => ~KeyTaken(doc, doc.jobs[j].task, Signature(doc.jobs[j].task, doc))

\* The result shown with a completed job is the one that job produced.
ResultIsOfTheJob ==
  \A j \in DOMAIN doc.jobs :
    doc.jobs[j].status = "completed" => doc.tuning[doc.jobs[j].task.model] = j

\* A start is not answered with a job that optimises another metric.
ReplayHasTheMetric ==
  \A t \in Tasks : Ready(doc) /\ doc.source = doc.series =>
    \A j \in Replayable(doc, t, Signature(t, doc)) :
      KeyTaken(doc, t, Signature(t, doc)) \/ doc.jobs[j].task.metric = t.metric

\* Defaults are not kept for a model while a job is tuning it.
NotSkippedWhileTuning ==
  \A j \in DOMAIN doc.jobs : doc.jobs[j].status = "in_progress" => doc.jobs[j].task.model \notin doc.skips
=============================================================================
