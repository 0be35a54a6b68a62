----------------------------- MODULE RenderJobs -----------------------------
(***************************************************************************)
(* Asynchronous rendering of documents: apps/api/document_jobs.py          *)
(* (DocumentDeliveryService over PostgresDocumentRegistry) and             *)
(* apps/api/document_render_worker.py.                                     *)
(*                                                                         *)
(* Request handlers run on the API's thread pool and render workers run on *)
(* daemon threads; they share the tables document_jobs (jobs) and          *)
(* document_renditions (rows) and the content-addressed object store.  A   *)
(* call of the registry or of the object store is one transaction and one  *)
(* step here; the service methods are sequences of such calls with no lock *)
(* around them, so any two threads interleave between the calls, and a     *)
(* thread writes back the copy of a record that it read some steps ago.    *)
(***************************************************************************)
EXTENDS Integers, FiniteSets, Sequences

CONSTANTS
  Clients,            \* threads that serve requests
  Workers,            \* threads that run DocumentRenderWorker._loop
  Targets,            \* (snapshot or print revision, format, redaction profile)
  Heavy,              \* targets rendered only by a worker (HEAVY_RENDITION_FORMATS, print)
  Profiled,           \* targets whose job names an organisational profile
  Tenants,
  TenantOf,           \* the tenant that asks for a target
  Contents,           \* the byte strings a render may produce
  MaxJobAttempts,     \* MAX_JOB_ATTEMPTS: jobs one target may have
  MaxOpenJobs,        \* MAX_OPEN_JOBS_PER_TENANT
  MaxAttempts,        \* DEFAULT_MAX_ATTEMPTS: renders of one job
  Batch,              \* DEFAULT_BATCH_SIZE
  PerTenant,          \* DEFAULT_PER_TENANT_LIMIT
  ListLimit,          \* default limit of list_open_jobs
  JobBound,           \* bound of the model: jobs ever registered
  AbortBound,         \* bound of the model: threads that die or raise
  None

ASSUME ConstantsAssumption ==
  /\ Clients \cap Workers = {}
  /\ Heavy \subseteq Targets
  /\ Profiled \subseteq Targets
  /\ TenantOf \in [Targets -> Tenants]
  /\ {MaxJobAttempts, MaxAttempts} \subseteq Nat \ {0}
  /\ {MaxOpenJobs, Batch, PerTenant, ListLimit, JobBound, AbortBound} \subseteq Nat
VARIABLES
  jobs,      \* document_jobs, in the order of registration
  rows,      \* document_renditions: at most one row per target (UNIQUE key)
  objects,   \* contents committed to the object store
  pc,        \* what a thread does next
  cur,       \* the job record in the hands of a thread
  found,     \* the rendition row a thread has read
  bytes,     \* the content a thread has rendered
  todo,      \* the job records a worker has listed and not yet dealt with
  aborts     \* threads lost so far (bounds the model)

vars == <<jobs, rows, objects, pc, cur, found, bytes, todo, aborts>>
local == <<pc, cur, found, bytes, todo>>

Threads == Clients \cup Workers

OpenStates == {"queued", "rendering"}
JobStates == OpenStates \cup {"ready", "failed", "cancelled"}

\* A rendition id is generated by the thread that found no row (new_rendition_id).
RenditionIds == Nat \X Threads

(***************************************************************************)
(* DocumentJobRecord.  lease is lease_expires_at against the clock; the    *)
(* code reads it for rendering jobs only, so it is "none" in other states. *)
(***************************************************************************)
JobRecord ==
  [id: Nat, target: Targets, state: JobStates, attempt: Nat,
   lease: {"none", "live", "expired"}, rendition: RenditionIds \cup {None}]

RenditionRow ==
  [id: RenditionIds, state: {"ready", "failed"}, key: Contents, job: Nat]

ASSUME NoneAssumption == None \notin RenditionIds /\ None \notin RenditionRow

ClientPCs == {"idle", "listing", "counting", "registering", "starting", "cancelling"}
RenderPCs == {"rendering", "completing", "finding", "committing", "publishing",
              "confirming", "finishing", "discarding", "failing", "marking"}
WorkerPCs == {"idle", "reclaiming", "selecting", "processing"}

TypeOK ==
  /\ jobs \in Seq(JobRecord)
  /\ rows \in [Targets -> RenditionRow \cup {None}]
  /\ objects \subseteq Contents
  /\ pc \in [Threads -> ClientPCs \cup RenderPCs \cup WorkerPCs]
  /\ cur \in [Threads -> JobRecord \cup {None}]
  /\ found \in [Threads -> RenditionRow \cup {None}]
  /\ bytes \in [Threads -> Contents \cup {None}]
  /\ todo \in [Threads -> SUBSET JobRecord]
  /\ aborts \in 0..AbortBound

Init ==
  /\ jobs = <<>>
  /\ rows = [x \in Targets |-> None]
  /\ objects = {}
  /\ pc = [t \in Threads |-> "idle"]
  /\ cur = [t \in Threads |-> None]
  /\ found = [t \in Threads |-> None]
  /\ bytes = [t \in Threads |-> None]
  /\ todo = [t \in Threads |-> {}]
  /\ aborts = 0

-----------------------------------------------------------------------------
(***************************************************************************)
(* The registry.                                                           *)
(***************************************************************************)
IsOpen(job) == job.state \in OpenStates

\* list_open_jobs: the oldest open jobs, at most limit of them.
OpenJobs(limit) ==
  LET open == {j \in DOMAIN jobs : IsOpen(jobs[j])}
  IN  {jobs[j] : j \in {j \in open : Cardinality({i \in open : i < j}) < limit}}

JobsOf(x) == {j \in DOMAIN jobs : jobs[j].target = x}

\* update_job: the whole record is written, whatever the row now holds.
UpdateJob(job) == jobs' = [jobs EXCEPT ![job.id] = job]

Moved(job, state) == [job EXCEPT !.state = state, !.lease = "none"]

\* update_rendition: UPDATE ... WHERE rendition_id; another id matches no row.
UpdateRendition(x, row) ==
  rows' = IF rows[x] # None /\ rows[x].id = row.id
          THEN [rows EXCEPT ![x] = row] ELSE rows

\* register_rendition: INSERT ... ON CONFLICT (target) DO UPDATE keeps the id
\* of the row that is there.
RegisterRendition(x, row) ==
  rows' = [rows EXCEPT ![x] = IF @ = None THEN row ELSE [row EXCEPT !.id = rows[x].id]]

Goto(t, label) == pc' = [pc EXCEPT ![t] = label]

\* The thread is through with its job: a handler answers, a worker takes the
\* next job of its list.
Done(t) ==
  /\ pc' = [pc EXCEPT ![t] = IF t \in Workers THEN "processing" ELSE "idle"]
  /\ cur' = [cur EXCEPT ![t] = None]
  /\ found' = [found EXCEPT ![t] = None]
  /\ bytes' = [bytes EXCEPT ![t] = None]

-----------------------------------------------------------------------------
(***************************************************************************)
(* Requests: request_rendition and request_print_rendition, cancel_job.    *)
(***************************************************************************)
Draft(x) == [id |-> 0, target |-> x, state |-> "queued", attempt |-> 1,
             lease |-> "none", rendition |-> None]

Requesting == {c \in Clients : pc[c] \in {"listing", "counting", "registering"}}

\* A target with a ready row is answered with that row and its job; nothing changes.
IsServed(x) == rows[x] # None /\ rows[x].state = "ready"

RequestFinds(c) ==
  /\ pc[c] = "idle"
  /\ Len(jobs) + Cardinality(Requesting) < JobBound
  /\ \E x \in Targets : ~IsServed(x) /\ cur' = [cur EXCEPT ![c] = Draft(x)]
  /\ Goto(c, "listing")
  /\ UNCHANGED <<jobs, rows, objects, found, bytes, todo, aborts>>

\* Another job of the target is open: the request is answered with that job.
HasActive(x) == \E j \in JobsOf(x) : IsOpen(jobs[j])

RetriesExhausted(x) == Cardinality(JobsOf(x)) >= MaxJobAttempts

QuotaReached(x) ==
  Cardinality({job \in OpenJobs(ListLimit) : TenantOf[job.target] = TenantOf[x]})
    >= MaxOpenJobs

RequestLists(c) ==
  LET x == cur[c].target IN
  /\ pc[c] = "listing"
  /\ IF HasActive(x) \/ RetriesExhausted(x)
     THEN Done(c)
     ELSE /\ cur' = [cur EXCEPT ![c].attempt = Cardinality(JobsOf(x)) + 1]
          /\ Goto(c, "counting")
          /\ UNCHANGED <<found, bytes>>
  /\ UNCHANGED <<jobs, rows, objects, todo, aborts>>

RequestCounts(c) ==
  /\ pc[c] = "counting"
  /\ IF QuotaReached(cur[c].target)
     THEN Done(c)
     ELSE Goto(c, "registering") /\ UNCHANGED <<cur, found, bytes>>
  /\ UNCHANGED <<jobs, rows, objects, todo, aborts>>

\* A heavy target is left to the workers; any other is rendered by this thread.
RequestRegisters(c) ==
  LET job == [cur[c] EXCEPT !.id = Len(jobs) + 1] IN
  /\ pc[c] = "registering"
  /\ jobs' = Append(jobs, job)
  /\ IF job.target \in Heavy
     THEN Done(c)
     ELSE /\ cur' = [cur EXCEPT ![c] = job]
          /\ Goto(c, "starting")
          /\ UNCHANGED <<found, bytes>>
  /\ UNCHANGED <<rows, objects, todo, aborts>>

SyncStarts(c) ==
  LET job == [cur[c] EXCEPT !.state = "rendering"] IN
  /\ pc[c] = "starting"
  /\ UpdateJob(job)
  /\ cur' = [cur EXCEPT ![c] = job]
  /\ Goto(c, "rendering")
  /\ UNCHANGED <<rows, objects, found, bytes, todo, aborts>>

\* Any state but an open one makes the call a no-op.
CancelReads(c) ==
  /\ pc[c] = "idle"
  /\ \E j \in DOMAIN jobs : IsOpen(jobs[j]) /\ cur' = [cur EXCEPT ![c] = jobs[j]]
  /\ Goto(c, "cancelling")
  /\ UNCHANGED <<jobs, rows, objects, found, bytes, todo, aborts>>

CancelWrites(c) ==
  /\ pc[c] = "cancelling"
  /\ UpdateJob(Moved(cur[c], "cancelled"))
  /\ Done(c)
  /\ UNCHANGED <<rows, objects, todo, aborts>>

-----------------------------------------------------------------------------
(***************************************************************************)
(* A cycle of a worker (run_once): reclaim, select, process in order.      *)
(***************************************************************************)
\* Mutant: the test for a missing lease is the wrong way round.
HasNoLease(job) == job.state = "rendering" /\ job.lease = "none"

IsAbandoned(job) == job.state = "rendering" /\ job.lease = "expired"

ReclaimLists(w) ==
  /\ pc[w] = "idle"
  /\ todo' = [todo EXCEPT ![w] = {job \in OpenJobs(ListLimit) : IsAbandoned(job)}]
  /\ Goto(w, "reclaiming")
  /\ UNCHANGED <<jobs, rows, objects, cur, found, bytes, aborts>>

IsOldest(job, S) == job \in S /\ \A other \in S : job.id <= other.id

\* Mutant: the count of attempts starts again.
ReclaimForgetsAttempts(w) ==
  /\ pc[w] = "reclaiming"
  /\ \E job \in todo[w] :
       /\ IsOldest(job, todo[w])
       /\ UpdateJob([Moved(job, "queued") EXCEPT !.attempt = 1])
       /\ todo' = [todo EXCEPT ![w] = @ \ {job}]
  /\ UNCHANGED <<rows, objects, pc, cur, found, bytes, aborts>>

ReclaimWrites(w) ==
  /\ pc[w] = "reclaiming"
  /\ \E job \in todo[w] :
       /\ IsOldest(job, todo[w])
       /\ UpdateJob(Moved(job, "queued"))
       /\ todo' = [todo EXCEPT ![w] = @ \ {job}]
  /\ UNCHANGED <<rows, objects, pc, cur, found, bytes, aborts>>

\* Oldest first, at most PerTenant renders of a tenant (those that run with a
\* live or no lease included) and at most Batch jobs.
Claims ==
  LET open == OpenJobs(Batch * 4 + 16)
      Queued(job) == job.state = "queued"
      Running(job) == job.state = "rendering" /\ job.lease # "expired"
      SameTenant(a, b) == TenantOf[a.target] = TenantOf[b.target]
      Ahead(job) == {o \in open : SameTenant(o, job) /\
                       (Running(o) \/ (Queued(o) /\ o.id < job.id))}
      eligible == {job \in open : Queued(job) /\ Cardinality(Ahead(job)) < PerTenant}
  IN  {job \in eligible : Cardinality({o \in eligible : o.id < job.id}) < Batch}

SelectClaims(w) ==
  /\ pc[w] = "reclaiming" /\ todo[w] = {}
  /\ todo' = [todo EXCEPT ![w] = Claims]
  /\ Goto(w, "processing")
  /\ UNCHANGED <<jobs, rows, objects, cur, found, bytes, aborts>>

\* Mutant: the claim sets no lease.
ClaimWithoutLease(w) ==
  /\ pc[w] = "processing"
  /\ \E job \in todo[w] :
       LET claimed == [job EXCEPT !.state = "rendering"] IN
       /\ IsOldest(job, todo[w])
       /\ UpdateJob(claimed)
       /\ cur' = [cur EXCEPT ![w] = claimed]
       /\ todo' = [todo EXCEPT ![w] = @ \ {job}]
  /\ Goto(w, "rendering")
  /\ UNCHANGED <<rows, objects, found, bytes, aborts>>

ClaimJob(w) ==
  /\ pc[w] = "processing"
  /\ \E job \in todo[w] :
       LET claimed == [job EXCEPT !.state = "rendering", !.lease = "live"] IN
       /\ IsOldest(job, todo[w])
       /\ UpdateJob(claimed)
       /\ cur' = [cur EXCEPT ![w] = claimed]
       /\ todo' = [todo EXCEPT ![w] = @ \ {job}]
  /\ Goto(w, "rendering")
  /\ UNCHANGED <<rows, objects, found, bytes, aborts>>

CycleEnds(w) ==
  /\ pc[w] = "processing" /\ todo[w] = {}
  /\ Goto(w, "idle")
  /\ UNCHANGED <<jobs, rows, objects, cur, found, bytes, todo, aborts>>

-----------------------------------------------------------------------------
(***************************************************************************)
(* Rendering, the same code in a handler and in a worker.                  *)
(***************************************************************************)
RenderSucceeds(t) ==
  /\ pc[t] = "rendering"
  /\ \E c \in Contents : bytes' = [bytes EXCEPT ![t] = c]
  /\ Goto(t, "completing")
  /\ UNCHANGED <<jobs, rows, objects, cur, found, todo, aborts>>

MayRetry(job) == job.attempt < MaxAttempts

\* _fail_or_requeue, transient error.
Requeues(w) ==
  /\ pc[w] = "rendering" /\ w \in Workers
  /\ MayRetry(cur[w])
  /\ UpdateJob([Moved(cur[w], "queued") EXCEPT !.attempt = @ + 1])
  /\ Done(w)
  /\ UNCHANGED <<rows, objects, todo, aborts>>

\* fail_render: the job, then the row of its target if there is one.
FailRender(t) ==
  /\ UpdateJob(Moved(cur[t], "failed"))
  /\ cur' = [cur EXCEPT ![t] = Moved(@, "failed")]
  /\ Goto(t, "failing")
  /\ UNCHANGED <<rows, objects, found, bytes, todo, aborts>>

RenderFails(t) == pc[t] = "rendering" /\ FailRender(t)

FailFinds(t) ==
  LET row == rows[cur[t].target] IN
  /\ pc[t] = "failing"
  /\ IF row = None
     THEN Done(t)
     ELSE /\ found' = [found EXCEPT ![t] = row]
          /\ Goto(t, "marking")
          /\ UNCHANGED <<cur, bytes>>
  /\ UNCHANGED <<jobs, rows, objects, todo, aborts>>

FailMarks(t) ==
  /\ pc[t] = "marking"
  /\ UpdateRendition(cur[t].target,
                     [found[t] EXCEPT !.state = "failed", !.job = cur[t].id])
  /\ Done(t)
  /\ UNCHANGED <<jobs, objects, todo, aborts>>

-----------------------------------------------------------------------------
(***************************************************************************)
(* complete_render: bytes, then the row, then the job.                     *)
(***************************************************************************)
\* The record of the registry replaces the thread's copy when the state differs.
Fresh(job) == IF jobs[job.id].state # job.state THEN jobs[job.id] ELSE job

CompleteChecks(t) ==
  /\ pc[t] = "completing"
  /\ IF Fresh(cur[t]).state = "cancelled"
     THEN Done(t)
     ELSE /\ cur' = [cur EXCEPT ![t] = Fresh(@)]
          /\ Goto(t, "finding")
          /\ UNCHANGED <<found, bytes>>
  /\ UNCHANGED <<jobs, rows, objects, todo, aborts>>

\* The profile is retired, its validator refuses the bytes, or no signing key.
ProfileRefuses(t) ==
  /\ pc[t] = "finding" /\ cur[t].target \in Profiled
  /\ FailRender(t)

CompleteFinds(t) ==
  /\ pc[t] = "finding"
  /\ found' = [found EXCEPT ![t] = rows[cur[t].target]]
  /\ Goto(t, "committing")
  /\ UNCHANGED <<jobs, rows, objects, cur, bytes, todo, aborts>>

\* Mutant: the staged bytes are never moved to their place.
StageOnly(t) ==
  /\ pc[t] = "committing"
  /\ Goto(t, "publishing")
  /\ UNCHANGED <<jobs, rows, objects, cur, found, bytes, todo, aborts>>

CommitBytes(t) ==
  /\ pc[t] = "committing"
  /\ objects' = objects \cup {bytes[t]}
  /\ Goto(t, "publishing")
  /\ UNCHANGED <<jobs, rows, cur, found, bytes, todo, aborts>>

\* Mutant: a new rendition id even when the target has a row.
PublishUnderNewId(t) ==
  LET row == [id |-> <<cur[t].id, t>>, state |-> "ready", key |-> bytes[t],
              job |-> cur[t].id] IN
  /\ pc[t] = "publishing"
  /\ IF found[t] = None
     THEN RegisterRendition(cur[t].target, row)
     ELSE UpdateRendition(cur[t].target, row)
  /\ found' = [found EXCEPT ![t] = row]
  /\ Goto(t, "confirming")
  /\ UNCHANGED <<jobs, objects, cur, bytes, todo, aborts>>

PublishRow(t) ==
  LET row == [id |-> IF found[t] = None THEN <<cur[t].id, t>> ELSE found[t].id,
              state |-> "ready", key |-> bytes[t], job |-> cur[t].id] IN
  /\ pc[t] = "publishing"
  /\ IF found[t] = None
     THEN RegisterRendition(cur[t].target, row)
     ELSE UpdateRendition(cur[t].target, row)
  /\ found' = [found EXCEPT ![t] = row]
  /\ Goto(t, "confirming")
  /\ UNCHANGED <<jobs, objects, cur, bytes, todo, aborts>>

\* The second look at the job, before it is made ready.
Confirm(t) ==
  /\ pc[t] = "confirming"
  /\ Goto(t, IF jobs[cur[t].id].state = "cancelled" THEN "discarding" ELSE "finishing")
  /\ UNCHANGED <<jobs, rows, objects, cur, found, bytes, todo, aborts>>

\* Mutant: the row takes the state of the job.
DiscardAsCancelled(t) ==
  /\ pc[t] = "discarding"
  /\ UpdateRendition(cur[t].target, [found[t] EXCEPT !.state = "cancelled"])
  /\ Done(t)
  /\ UNCHANGED <<jobs, objects, todo, aborts>>

Discard(t) ==
  /\ pc[t] = "discarding"
  /\ UpdateRendition(cur[t].target, [found[t] EXCEPT !.state = "failed"])
  /\ Done(t)
  /\ UNCHANGED <<jobs, objects, todo, aborts>>

Finish(t) ==
  /\ pc[t] = "finishing"
  /\ UpdateJob([Moved(cur[t], "ready") EXCEPT !.rendition = found[t].id])
  /\ Done(t)
  /\ UNCHANGED <<rows, objects, todo, aborts>>

-----------------------------------------------------------------------------
(***************************************************************************)
(* The environment: a thread dies with its process or leaves its code by   *)
(* an exception no one handles; the lease of a rendering job lapses.       *)
(***************************************************************************)
Abort(t) ==
  /\ pc[t] # "idle" /\ aborts < AbortBound
  /\ aborts' = aborts + 1
  /\ pc' = [pc EXCEPT ![t] = "idle"]
  /\ cur' = [cur EXCEPT ![t] = None]
  /\ found' = [found EXCEPT ![t] = None]
  /\ bytes' = [bytes EXCEPT ![t] = None]
  /\ todo' = [todo EXCEPT ![t] = {}]
  /\ UNCHANGED <<jobs, rows, objects>>

LeaseExpires(j) ==
  /\ jobs[j].lease = "live"
  /\ jobs' = [jobs EXCEPT ![j].lease = "expired"]
  /\ UNCHANGED <<rows, objects, local, aborts>>

-----------------------------------------------------------------------------
RenderStep(t) ==
  \/ RenderSucceeds(t) \/ RenderFails(t) \/ FailFinds(t) \/ FailMarks(t)
  \/ CompleteChecks(t) \/ ProfileRefuses(t) \/ CompleteFinds(t)
  \/ CommitBytes(t) \/ PublishRow(t) \/ Confirm(t) \/ Discard(t) \/ Finish(t)

\* What a request does once it has begun.
ClientStep(c) ==
  \/ RequestLists(c) \/ RequestCounts(c) \/ RequestRegisters(c)
  \/ SyncStarts(c) \/ CancelWrites(c) \/ RenderStep(c)

WorkerStep(w) ==
  \/ ReclaimLists(w) \/ ReclaimWrites(w) \/ SelectClaims(w) \/ ClaimJob(w)
  \/ CycleEnds(w) \/ Requeues(w) \/ RenderStep(w)

Next ==
  \/ \E c \in Clients : RequestFinds(c) \/ CancelReads(c) \/ ClientStep(c)
  \/ \E w \in Workers : WorkerStep(w)
  \/ \E t \in Threads : Abort(t)
  \/ \E j \in DOMAIN jobs : LeaseExpires(j)

Spec == Init /\ [][Next]_vars

(***************************************************************************)
(* Threads that are alive are scheduled, a lease ends with time; nothing   *)
(* obliges a client to ask or a render to succeed.                         *)
(***************************************************************************)
Fairness ==
  /\ \A c \in Clients : WF_vars(ClientStep(c))
  /\ \A w \in Workers : WF_vars(WorkerStep(w))
  /\ \A j \in 1..JobBound : WF_vars(j \in DOMAIN jobs /\ LeaseExpires(j))

FairSpec == Spec /\ Fairness

-----------------------------------------------------------------------------
(***************************************************************************)
(* What holds whatever the number of threads.                              *)
(***************************************************************************)
\* AC08: the bytes of a rendition that is ready are in the object store.
ServedBytesExist == \A x \in Targets : IsServed(x) => rows[x].key \in objects

\* A job that is ready names a rendition, and its target has a row.
ReadyJobHasRow ==
  \A j \in DOMAIN jobs :
    jobs[j].state = "ready" => jobs[j].rendition # None /\ rows[jobs[j].target] # None

\* A worker can always get back to a heavy job that is being rendered: it has a
\* lease, live or lapsed (reclaim skips a rendering job without one).
RenderingIsRecoverable ==
  \A j \in DOMAIN jobs :
    jobs[j].state = "rendering" /\ jobs[j].target \in Heavy => jobs[j].lease # "none"

(***************************************************************************)
(* What holds as deployed: one worker, and a request that leaves heavy     *)
(* targets to it.                                                          *)
(***************************************************************************)
\* Whoever writes a job back, from a record read before: one that is ready is not queued
\* or rendered again, and the attempts of an open one are not forgotten, so that retries
\* come to an end.
JobsGoForward ==
  [][\A j \in DOMAIN jobs :
       /\ jobs[j].state = "ready" => ~IsOpen(jobs'[j])
       /\ IsOpen(jobs[j]) /\ IsOpen(jobs'[j]) => jobs[j].attempt <= jobs'[j].attempt]_vars

\* The rendition that a ready job names is the row of its target, so that the
\* answer to GET /jobs/{id} carries it.
ReadyJobNamesItsRow ==
  \A j \in DOMAIN jobs :
    jobs[j].state = "ready" =>
      /\ rows[jobs[j].target] # None
      /\ rows[jobs[j].target].id = jobs[j].rendition

\* Nobody has the job in hand any more and there is no lease that could lapse: reclaim
\* skips it, and only a client that cancels it ends it.
IsLost(j) ==
  /\ jobs[j].state = "rendering" /\ jobs[j].lease = "none"
  /\ \A t \in Threads : cur[t] # None => cur[t].id # j

\* Lost jobs take up all that a tenant may have rendered at a time.
IsStarved(j) ==
  Cardinality({i \in DOMAIN jobs :
                 IsLost(i) /\ TenantOf[jobs[i].target] = TenantOf[jobs[j].target]})
    >= PerTenant

\* Older jobs that are lost or starved fill what reclaim lists, or what claims are chosen
\* from.
IsOutOfSight(j) ==
  LET stuck == Cardinality({i \in DOMAIN jobs : i < j /\ IsOpen(jobs[i]) /\ (IsLost(i) \/ IsStarved(i))})
  IN  stuck >= ListLimit \/ stuck >= Batch * 4 + 16

\* Whatever dies, a heavy job comes to an end, unless light jobs that lost their handlers
\* starve it, or jobs that are stuck so keep it out of sight; while neither is the case
\* nothing stops it (run_once; _select_claims counts a job without a lease).
HeavyJobsSettle ==
  \A j \in 1..JobBound :
    (j \in DOMAIN jobs /\ IsOpen(jobs[j]) /\ jobs[j].target \in Heavy)
      ~> (j \in DOMAIN jobs /\ (~IsOpen(jobs[j]) \/ IsStarved(j) \/ IsOutOfSight(j)))

(***************************************************************************)
(* What the comments of the code say and the interleavings refute.         *)
(***************************************************************************)
\* Every heavy job comes to an end: what counts against a tenant are live leases.
HeavyJobsAllSettle ==
  \A j \in 1..JobBound :
    (j \in DOMAIN jobs /\ IsOpen(jobs[j]) /\ jobs[j].target \in Heavy)
      ~> (j \in DOMAIN jobs /\ ~IsOpen(jobs[j]))

\* The completion of a render does not overwrite a cancelled job.
CompletionKeepsCancelled ==
  [][\A j \in DOMAIN jobs : jobs[j].state = "cancelled" => jobs'[j].state # "ready"]_vars

\* The decision to cancel is not rewritten: the job is not queued or rendered again.
CancelledIsNotReopened ==
  [][\A j \in DOMAIN jobs : jobs[j].state = "cancelled" => ~IsOpen(jobs'[j])]_vars

\* Cancelling a job that is ready or failed changes nothing.
CancelKeepsOutcome ==
  [][\A j \in DOMAIN jobs :
       jobs[j].state \in {"ready", "failed"} => jobs'[j].state # "cancelled"]_vars

\* However two requests for a target interleave, it has one open job at most.
OneOpenJobPerTarget ==
  \A i, j \in DOMAIN jobs :
    jobs[i].target = jobs[j].target /\ IsOpen(jobs[i]) /\ IsOpen(jobs[j]) => i = j

\* A tenant has no more open jobs than its quota.
TenantQuotaHolds ==
  \A n \in Tenants :
    Cardinality({j \in DOMAIN jobs : IsOpen(jobs[j]) /\ TenantOf[jobs[j].target] = n})
      <= MaxOpenJobs

\* A failed attempt marks rows that have failed: it leaves a ready row of another job alone.
FailureKeepsReadyRows ==
  [][\A x \in Targets, t \in Threads :
       pc[t] = "marking" /\ IsServed(x) /\ rows[x].job # cur[t].id /\ pc'[t] # "marking"
         => rows'[x] # None /\ rows'[x].state = "ready"]_vars

\* A worker does not take a job from another worker whose lease on it is live.
LiveLeaseIsKept ==
  [][\A w, v \in Workers :
       pc[w] = "rendering" /\ cur[w] = jobs[cur[w].id] /\ cur[w].lease = "live" =>
         ~(v # w /\ pc[v] = "processing" /\ pc'[v] = "rendering"
             /\ cur'[v].id = cur[w].id)]_vars


=============================================================================
