------------------------- MODULE ModelingJobsProofs -------------------------
(***************************************************************************)
(* What ModelingJobs guarantees for every number of requests, models,      *)
(* plans, trials and jobs: the type of the document, the two properties of *)
(* every stored document, and that no save takes back what was told of a   *)
(* job.  All rest on one fact: a request that has not been overtaken holds *)
(* a document made of the stored one.                                      *)
(***************************************************************************)
EXTENDS ModelingJobs, TLAPS

Document ==
  [series : Nat, confirmed : Nat, contract : Nat, source : Nat,
   jobs : UNION {[S -> Jobs] : S \in SUBSET JobIds},
   tuning : [Models -> {None, Elsewhere} \cup JobIds],
   skips : SUBSET Models]

Requested == {Idle, Overtaken} \cup [kind : {"start", "step", "cancel"}, new : Document]

\* A job of d is still there in e, and no end and no trial of it is taken back.
Kept(d, e, j) ==
  /\ j \in DOMAIN e.jobs
  /\ e.jobs[j].next >= d.jobs[j].next
  /\ d.jobs[j].status \in {"completed", "cancelled"} => e.jobs[j].status = d.jobs[j].status
  /\ d.jobs[j].status \in Terminal => e.jobs[j].next = d.jobs[j].next

Follows(d, e) == e.source = d.source => \A j \in DOMAIN d.jobs : Kept(d, e, j)
Keeps(d, e) == e.source = d.source /\ \A j \in DOMAIN d.jobs : Kept(d, e, j)

OneLive(d) ==
  \A j, k \in DOMAIN d.jobs :
    d.jobs[j].sig = d.jobs[k].sig /\ {d.jobs[j].status, d.jobs[k].status} \subseteq Live => j = k

Counts(d) ==
  \A j \in DOMAIN d.jobs :
    /\ d.jobs[j].good => d.jobs[j].next > 0
    /\ d.jobs[j].status = "in_progress" => d.jobs[j].next < TotalSteps

\* Jobs are those of the series the document was made of; one about no series yet
\* has none.
OfSource(d) ==
  /\ d.source = 0 => DOMAIN d.jobs = {}
  /\ \A j \in DOMAIN d.jobs : d.jobs[j].cohort[1] = d.source

Sound(d) ==
  /\ d.series > 0
  /\ OfSource(d)
  /\ OneLive(d)
  /\ \A m \in d.skips : d.tuning[m] = None
  /\ Counts(d)

\* What a request means to save was made of the document as it is stored.
Promises(q) ==
  /\ Sound(q.new)
  /\ Follows(doc, q.new)
  /\ DOMAIN q.new.jobs \subseteq 1..(IF q.kind = "start" THEN issued + 1 ELSE issued)
  /\ q.kind = "start" => issued < JobBound

Inv ==
  /\ doc \in Document /\ Sound(doc)
  /\ issued \in 0..JobBound /\ DOMAIN doc.jobs \subseteq 1..issued
  /\ late \subseteq JobIds
  /\ request \in [Requests -> Requested]
  /\ \A r \in Requests : request[r] \notin {Idle, Overtaken} => Promises(request[r])
-----------------------------------------------------------------------------
(* Documents.                                                              *)

LEMMA JobTable ==
  ASSUME NEW S \in SUBSET JobIds, NEW f \in [S -> Jobs]
  PROVE  f \in UNION {[T -> Jobs] : T \in SUBSET JobIds}
OBVIOUS

LEMMA DocumentJobs ==
  ASSUME NEW d \in Document
  PROVE  /\ DOMAIN d.jobs \in SUBSET JobIds
         /\ d.jobs \in [DOMAIN d.jobs -> Jobs]
<1>1. PICK S \in SUBSET JobIds : d.jobs \in [S -> Jobs] BY DEF Document
<1>2. QED BY <1>1

\* A document with another table of jobs, and other tunings and skips; a job with
\* another state.  They keep what the provers know of an EXCEPT out of the proofs below.
Changed(d, f, u, k) == [d EXCEPT !.jobs = f, !.tuning = u, !.skips = k]
JobAs(job, s) == [job EXCEPT !.status = s]
Ran(job, ok) == [job EXCEPT !.next = @ + 1, !.good = @ \/ ok]

LEMMA ChangedDocument ==
  ASSUME NEW d \in Document, NEW S \in SUBSET JobIds, NEW f \in [S -> Jobs],
         NEW u \in [Models -> {None, Elsewhere} \cup JobIds], NEW k \in SUBSET Models
  PROVE  /\ Changed(d, f, u, k) \in Document
         /\ Changed(d, f, u, k).jobs = f
         /\ Changed(d, f, u, k).tuning = u
         /\ Changed(d, f, u, k).skips = k
         /\ Changed(d, f, u, k).series = d.series
         /\ Changed(d, f, u, k).source = d.source
BY JobTable DEF Document, Changed

LEMMA JobAsJob ==
  ASSUME NEW job \in Jobs, NEW s \in {"in_progress"} \cup Terminal
  PROVE  /\ JobAs(job, s) \in Jobs
         /\ JobAs(job, s).sig = job.sig
         /\ JobAs(job, s).cohort = job.cohort
         /\ JobAs(job, s).next = job.next
         /\ JobAs(job, s).good = job.good
         /\ JobAs(job, s).status = s
BY DEF Jobs, JobAs

LEMMA RanJob ==
  ASSUME NEW job \in Jobs, NEW ok \in BOOLEAN, job.next + 1 \in 0..TotalSteps
  PROVE  /\ Ran(job, ok) \in Jobs
         /\ Ran(job, ok).sig = job.sig
         /\ Ran(job, ok).cohort = job.cohort
         /\ Ran(job, ok).task = job.task
         /\ Ran(job, ok).next = job.next + 1
         /\ Ran(job, ok).status = job.status
BY DEF Jobs, Ran

LEMMA DocumentParts ==
  ASSUME NEW d \in Document
  PROVE  /\ d.tuning \in [Models -> {None, Elsewhere} \cup JobIds]
         /\ d.skips \in SUBSET Models
         /\ d.series \in Nat /\ d.source \in Nat /\ d.contract \in Nat /\ d.confirmed \in Nat
BY DEF Document

LEMMA ClearedSound ==
  ASSUME NEW d \in Document, NEW s \in Nat, d.series > 0
  PROVE  /\ Cleared(d, s) \in Document
         /\ Sound(Cleared(d, s))
         /\ Cleared(d, s).source = s
         /\ DOMAIN Cleared(d, s).jobs = {}
         /\ Cleared(d, s).series = d.series
<1>1. NoJobs \in [{} -> Jobs] /\ DOMAIN NoJobs = {} BY DEF NoJobs
<1>2. NoJobs \in UNION {[T -> Jobs] : T \in SUBSET JobIds} BY <1>1, JobTable
<1>3. Untuned \in [Models -> {None, Elsewhere} \cup JobIds] BY DEF Untuned
<1>4. /\ Cleared(d, s) \in Document
      /\ Cleared(d, s).source = s
      /\ Cleared(d, s).jobs = NoJobs
      /\ Cleared(d, s).skips = {}
      /\ Cleared(d, s).series = d.series
      BY <1>2, <1>3 DEF Cleared, Document
<1>5. QED BY <1>1, <1>4 DEF Sound, OfSource, OneLive, Counts

\* A request that needs the data works on a document of the same series: the stored
\* one, or an empty one that has another source.
LEMMA PreparedSound ==
  ASSUME NEW d \in Document, Sound(d)
  PROVE  /\ Prepared(d) \in Document
         /\ Sound(Prepared(d))
         /\ Prepared(d).source = Prepared(d).series
         /\ Prepared(d).source = d.series
         /\ DOMAIN Prepared(d).jobs \subseteq DOMAIN d.jobs
         /\ Prepared(d) = d \/ (Prepared(d).source # d.source /\ DOMAIN Prepared(d).jobs = {})
<1>1. d.series \in Nat /\ d.series > 0 BY DEF Document, Sound
<1>2. CASE d.source = d.series BY <1>1, <1>2 DEF Prepared
<1>3. CASE d.source # d.series BY <1>1, <1>3, ClearedSound DEF Prepared
<1>4. QED BY <1>2, <1>3

LEMMA KeepsFollows ==
  ASSUME NEW d \in Document, Sound(d), NEW e, Keeps(Prepared(d), e)
  PROVE  Follows(d, e)
<1>1. Prepared(d) = d \/ Prepared(d).source # d.source BY PreparedSound
<1>2. QED BY <1>1 DEF Keeps, Follows

LEMMA SameJobsKept ==
  ASSUME NEW d \in Document, NEW e, e.jobs = d.jobs
  PROVE  \A j \in DOMAIN d.jobs : Kept(d, e, j)
<1> SUFFICES ASSUME NEW j \in DOMAIN d.jobs PROVE Kept(d, e, j) OBVIOUS
<1>1. d.jobs[j].next \in Nat BY DocumentJobs, JobsAssumption DEF Jobs
<1>2. QED BY <1>1 DEF Kept
-----------------------------------------------------------------------------
(* What a request makes of a document.                                     *)

\* One job is replaced by another state of it.
LEMMA JobReplaced ==
  ASSUME NEW d \in Document, Sound(d), NEW j \in DOMAIN d.jobs, NEW job \in Jobs,
         job.sig = d.jobs[j].sig, job.cohort = d.jobs[j].cohort,
         job.status \in Live => d.jobs[j].status \in Live,
         job.good => job.next > 0,
         job.status = "in_progress" => job.next < TotalSteps,
         NEW e \in Document, e.jobs = [d.jobs EXCEPT ![j] = job],
         e.series = d.series, e.source = d.source,
         \A m \in e.skips : e.tuning[m] = None
  PROVE  Sound(e)
<1>1. /\ DOMAIN e.jobs = DOMAIN d.jobs
      /\ \A k \in DOMAIN d.jobs : e.jobs[k] = IF k = j THEN job ELSE d.jobs[k]
      BY DocumentJobs
<1>2. OneLive(e) BY <1>1 DEF Sound, OneLive
<1>3. Counts(e) BY <1>1 DEF Sound, Counts
<1>4. OfSource(e) BY <1>1 DEF Sound, OfSource
<1>5. QED BY <1>2, <1>3, <1>4 DEF Sound

LEMMA JobMoved ==
  ASSUME NEW d \in Document, NEW j \in DOMAIN d.jobs, NEW job \in Jobs, NEW e,
         e.jobs = [d.jobs EXCEPT ![j] = job], e.source = d.source,
         job.next >= d.jobs[j].next,
         d.jobs[j].status \in {"completed", "cancelled"} => job.status = d.jobs[j].status,
         d.jobs[j].status \in Terminal => job.next = d.jobs[j].next
  PROVE  Keeps(d, e) /\ DOMAIN e.jobs = DOMAIN d.jobs
<1>1. /\ DOMAIN e.jobs = DOMAIN d.jobs
      /\ \A k \in DOMAIN d.jobs : e.jobs[k] = IF k = j THEN job ELSE d.jobs[k]
      BY DocumentJobs
<1>2. \A k \in DOMAIN d.jobs : d.jobs[k].next \in Nat BY DocumentJobs, JobsAssumption DEF Jobs
<1>3. QED BY <1>1, <1>2 DEF Keeps, Kept

LEMMA JobFacts ==
  ASSUME NEW d \in Document, NEW j \in DOMAIN d.jobs
  PROVE  /\ d.jobs[j] \in Jobs
         /\ d.jobs[j].next \in 0..TotalSteps /\ d.jobs[j].next \in Nat
         /\ d.jobs[j].good \in BOOLEAN
         /\ d.jobs[j].task.model \in Models
         /\ \A job \in Jobs : [d.jobs EXCEPT ![j] = job] \in [DOMAIN d.jobs -> Jobs]
<1>1. d.jobs[j] \in Jobs BY DocumentJobs
<1>2. QED BY <1>1, DocumentJobs, JobsAssumption DEF Jobs

\* A job that is not completed is closed, and stays as it is but for that.
LEMMA CloseSound ==
  ASSUME NEW d \in Document, Sound(d), NEW j \in DOMAIN d.jobs,
         NEW status \in {"failed", "stale", "cancelled"},
         d.jobs[j].status \notin {"completed", "cancelled"}
  PROVE  /\ Close(d, j, status) \in Document
         /\ Sound(Close(d, j, status))
         /\ Keeps(d, Close(d, j, status))
         /\ DOMAIN Close(d, j, status).jobs = DOMAIN d.jobs
<1> DEFINE old == d.jobs[j]
           job == JobAs(old, status)
           f   == [d.jobs EXCEPT ![j] = job]
           e   == Close(d, j, status)
<1>1. old \in Jobs /\ old.next \in Nat BY JobFacts
<1>2. /\ job \in Jobs
      /\ job.status = status /\ job.sig = old.sig /\ job.cohort = old.cohort
      /\ job.next = old.next /\ job.good = old.good
      <2>1. status \in {"in_progress"} \cup Terminal BY DEF Terminal
      <2>2. QED BY <1>1, <2>1, JobAsJob
<1>3. f \in [DOMAIN d.jobs -> Jobs] BY <1>2, JobFacts
<1>4. e = Changed(d, f, d.tuning, d.skips)
      <2>1. [old EXCEPT !.status = status] = job BY DEF JobAs
      <2>2. e = [d EXCEPT !.jobs = [d.jobs EXCEPT ![j] = [old EXCEPT !.status = status]]]
            BY DEF Close
      <2>3. e = [d EXCEPT !.jobs = f] BY <2>1, <2>2
      <2>4. QED BY <2>3 DEF Changed, Document
<1> HIDE DEF job, e
<1>5. /\ e \in Document /\ e.jobs = f
      /\ e.series = d.series /\ e.source = d.source
      /\ e.skips = d.skips /\ e.tuning = d.tuning
      BY <1>3, <1>4, DocumentJobs, DocumentParts, ChangedDocument
<1>6. job.good => job.next > 0 BY <1>2 DEF Sound, Counts
<1>7. \A m \in e.skips : e.tuning[m] = None BY <1>5 DEF Sound
<1>8. Sound(e) BY <1>2, <1>5, <1>6, <1>7, JobReplaced DEF Live
<1>9. Keeps(d, e) /\ DOMAIN e.jobs = DOMAIN d.jobs
      <2>1. job.next >= old.next BY <1>1, <1>2
      <2>2. QED BY <1>2, <1>5, <2>1, JobMoved
<1>10. QED BY <1>5, <1>8, <1>9 DEF e

\* A trial counts, and the last one ends the job, with a result or without.
LEMMA TrialSound ==
  ASSUME NEW d \in Document, Sound(d), NEW j \in DOMAIN d.jobs, NEW ok \in BOOLEAN,
         d.jobs[j].status = "in_progress"
  PROVE  /\ RunTrial(d, j, ok) \in Document
         /\ Sound(RunTrial(d, j, ok))
         /\ Keeps(d, RunTrial(d, j, ok))
         /\ DOMAIN RunTrial(d, j, ok).jobs = DOMAIN d.jobs
<1> DEFINE old  == d.jobs[j]
           ran  == Ran(old, ok)
           f    == [d.jobs EXCEPT ![j] = ran]
           step == Changed(d, f, d.tuning, d.skips)
           e    == RunTrial(d, j, ok)
<1>1. /\ old \in Jobs /\ old.next \in Nat /\ old.next < TotalSteps /\ TotalSteps \in Nat
      /\ old.task.model \in Models
      BY JobFacts, JobsAssumption DEF Sound, Counts
<1>2. old.next + 1 \in 0..TotalSteps BY <1>1
<1>3. /\ ran \in Jobs
      /\ ran.next = old.next + 1 /\ ran.sig = old.sig /\ ran.cohort = old.cohort
      /\ ran.task = old.task /\ ran.status = "in_progress"
      BY <1>1, <1>2, RanJob
<1>4. f \in [DOMAIN d.jobs -> Jobs] BY <1>3, JobFacts
<1>5. e = Finish(step, j)
      <2>1. e = Finish([d EXCEPT !.jobs = f], j) BY DEF RunTrial, Ran, Document
      <2>2. [d EXCEPT !.jobs = f] = step BY DEF Changed, Document
      <2>3. QED BY <2>1, <2>2
<1> HIDE DEF ran, step, e
<1>6. /\ step \in Document /\ step.jobs = f
      /\ step.series = d.series /\ step.source = d.source
      /\ step.skips = d.skips /\ step.tuning = d.tuning
      BY <1>4, DocumentJobs, DocumentParts, ChangedDocument DEF step
<1>7. step.jobs[j] = ran BY <1>6, DocumentJobs
<1>8. \A m \in d.skips : d.tuning[m] = None BY DEF Sound
<1>9. ran.next > 0 /\ ran.next >= old.next BY <1>1, <1>3
\* The end of the job, or none: what is left to show of each.
<1>10. ASSUME NEW job \in Jobs, job.sig = ran.sig, job.cohort = ran.cohort, job.next = ran.next,
              job.status = "in_progress" => job.next < TotalSteps,
              NEW u \in [Models -> {None, Elsewhere} \cup JobIds], NEW k \in SUBSET Models,
              \A m \in k : u[m] = None,
              e = Changed(d, [d.jobs EXCEPT ![j] = job], u, k)
       PROVE  e \in Document /\ Sound(e) /\ Keeps(d, e) /\ DOMAIN e.jobs = DOMAIN d.jobs
       <2>1. [d.jobs EXCEPT ![j] = job] \in [DOMAIN d.jobs -> Jobs] BY JobFacts
       <2>2. /\ e \in Document /\ e.jobs = [d.jobs EXCEPT ![j] = job]
             /\ e.series = d.series /\ e.source = d.source
             /\ e.skips = k /\ e.tuning = u
             BY <1>10, <2>1, DocumentJobs, ChangedDocument
       <2>3. Sound(e) BY <1>3, <1>9, <1>10, <2>2, JobReplaced DEF Live
       <2>4. Keeps(d, e) /\ DOMAIN e.jobs = DOMAIN d.jobs
             BY <1>3, <1>9, <1>10, <2>2, JobMoved DEF Terminal
       <2>5. QED BY <2>2, <2>3, <2>4
<1>11. CASE ran.next < TotalSteps
       <2>1. e = Changed(d, f, d.tuning, d.skips) BY <1>5, <1>7, <1>11 DEF Finish, step
       <2>2. QED BY <1>3, <1>8, <1>10, <1>11, <2>1, DocumentParts DEF e
<1>12. CASE ~(ran.next < TotalSteps) /\ ~ran.good
       <2> DEFINE job == JobAs(ran, "failed")
       <2>1. /\ job \in Jobs /\ job.status = "failed"
             /\ job.sig = ran.sig /\ job.cohort = ran.cohort /\ job.next = ran.next
             BY <1>3, JobAsJob DEF Terminal
       <2>2. e = Changed(d, [d.jobs EXCEPT ![j] = job], d.tuning, d.skips)
             <3>1. [ran EXCEPT !.status = "failed"] = job BY DEF JobAs
             <3>2. e = [step EXCEPT !.jobs = [step.jobs EXCEPT ![j] = [ran EXCEPT !.status = "failed"]]]
                   BY <1>5, <1>7, <1>12 DEF Finish
             <3>3. [step.jobs EXCEPT ![j] = job] = [d.jobs EXCEPT ![j] = job]
                   BY <1>6, DocumentJobs
             <3>4. e = [step EXCEPT !.jobs = [d.jobs EXCEPT ![j] = job]] BY <3>1, <3>2, <3>3
             <3> HIDE DEF job
             <3>5. QED BY <3>4, <1>6 DEF Changed, Document, step
       <2> HIDE DEF job
       <2>3. QED BY <1>8, <1>10, <2>1, <2>2, DocumentParts DEF e
<1>13. CASE ~(ran.next < TotalSteps) /\ ran.good
       <2> DEFINE job == JobAs(ran, "completed")
                  m0  == ran.task.model
                  u   == [d.tuning EXCEPT ![m0] = j]
                  k   == d.skips \ {m0}
       <2>1. /\ job \in Jobs /\ job.status = "completed"
             /\ job.sig = ran.sig /\ job.cohort = ran.cohort /\ job.next = ran.next
             BY <1>3, JobAsJob DEF Terminal
       <2>2. e = Changed(d, [d.jobs EXCEPT ![j] = job], u, k)
             <3>1. [ran EXCEPT !.status = "completed"] = job BY DEF JobAs
             <3>2. e = [step EXCEPT
                          !.jobs = [step.jobs EXCEPT ![j] = [ran EXCEPT !.status = "completed"]],
                          !.tuning = [step.tuning EXCEPT ![m0] = j],
                          !.skips = step.skips \ {m0}]
                   BY <1>5, <1>7, <1>13 DEF Finish
             <3>3. [step.jobs EXCEPT ![j] = job] = [d.jobs EXCEPT ![j] = job]
                   BY <1>6, DocumentJobs
             <3>4. e = [step EXCEPT !.jobs = [d.jobs EXCEPT ![j] = job], !.tuning = u, !.skips = k]
                   BY <1>6, <3>1, <3>2, <3>3
             <3> HIDE DEF job, u, k
             <3>5. QED BY <3>4, <1>6 DEF Changed, Document, step
       <2>3. u \in [Models -> {None, Elsewhere} \cup JobIds] /\ k \in SUBSET Models
             BY DocumentJobs, DocumentParts
       <2>4. \A m \in k : u[m] = None BY <1>8, DocumentParts
       <2> HIDE DEF job, u, k
       <2>5. QED BY <1>10, <2>1, <2>2, <2>3, <2>4 DEF e
<1> QED BY <1>11, <1>12, <1>13 DEF e

\* A new job is the only live one of its plan: a start that meets one adds none.
LEMMA AddSound ==
  ASSUME NEW d \in Document, Sound(d), d.source = d.series, NEW t \in Tasks,
         NEW j \in JobIds \ DOMAIN d.jobs, Replayable(d, t, Signature(t, d)) = {}
  PROVE  /\ AddJob(d, j, t) \in Document
         /\ Sound(AddJob(d, j, t))
         /\ Keeps(d, AddJob(d, j, t))
         /\ DOMAIN AddJob(d, j, t).jobs = DOMAIN d.jobs \cup {j}
<1> DEFINE e == AddJob(d, j, t)
           S == DOMAIN d.jobs \cup {j}
           f == [k \in S |-> IF k = j THEN NewJob(t, d) ELSE d.jobs[k]]
           k == d.skips \ {t.model}
<1>1. /\ NewJob(t, d) \in Jobs
      /\ NewJob(t, d).sig = Signature(t, d) /\ NewJob(t, d).next = 0
      /\ NewJob(t, d).cohort = <<d.series, d.contract>>
      /\ NewJob(t, d).good = FALSE /\ NewJob(t, d).status = "in_progress"
      <2>1. Cohort(d) \in Nat \X Nat BY DocumentParts DEF Cohort
      <2>2. Signature(t, d) \in Models \X {x.plan : x \in Tasks} \X (Nat \X Nat)
            BY <2>1, JobsAssumption DEF Signature
      <2>3. 0 \in 0..TotalSteps BY JobsAssumption
      <2>4. QED BY <2>1, <2>2, <2>3 DEF NewJob, Jobs, Cohort
<1>2. S \in SUBSET JobIds /\ f \in [S -> Jobs] BY <1>1, DocumentJobs
<1>3. e = Changed(d, f, d.tuning, k)
      <2>1. e = [d EXCEPT !.jobs = f, !.skips = k] BY DEF AddJob
      <2> HIDE DEF f, k
      <2>2. QED BY <2>1 DEF Changed, Document
<1>4. k \in SUBSET Models BY DocumentParts
<1> HIDE DEF e
<1>5. /\ e \in Document /\ e.jobs = f /\ e.series = d.series /\ e.source = d.source
      /\ e.skips = k /\ e.tuning = d.tuning
      BY <1>2, <1>3, <1>4, DocumentParts, ChangedDocument
<1>6. \A i \in DOMAIN d.jobs : ~(d.jobs[i].sig = Signature(t, d) /\ d.jobs[i].status \in Live)
      BY DEF Replayable
<1>7. /\ e.jobs[j] = NewJob(t, d)
      /\ \A i \in DOMAIN e.jobs : i = j \/ (i \in DOMAIN d.jobs /\ e.jobs[i] = d.jobs[i])
      BY <1>5
<1>8. OneLive(e) BY <1>1, <1>6, <1>7 DEF OneLive, Sound
<1>9. Counts(e)
      <2> SUFFICES ASSUME NEW i \in DOMAIN e.jobs
                   PROVE  /\ e.jobs[i].good => e.jobs[i].next > 0
                          /\ e.jobs[i].status = "in_progress" => e.jobs[i].next < TotalSteps
          BY DEF Counts
      <2>1. CASE i = j BY <1>1, <1>7, <2>1, JobsAssumption
      <2>2. CASE i # j BY <1>7, <2>2 DEF Counts, Sound
      <2>3. QED BY <2>1, <2>2
<1>10. OfSource(e)
      <2>1. e.source # 0 BY <1>5 DEF Sound
      <2>2. NewJob(t, d).cohort[1] = d.source BY <1>1
      <2>3. QED BY <1>1, <1>5, <1>7, <2>1, <2>2 DEF OfSource, Sound
<1>11. Sound(e) BY <1>5, <1>8, <1>9, <1>10 DEF Sound
<1>12. Keeps(d, e)
      <2> SUFFICES ASSUME NEW i \in DOMAIN d.jobs PROVE Kept(d, e, i) BY <1>5 DEF Keeps
      <2>1. e.jobs[i] = d.jobs[i] /\ i \in DOMAIN e.jobs BY <1>5
      <2>2. d.jobs[i].next \in Nat BY JobFacts
      <2>3. QED BY <2>1, <2>2 DEF Kept
<1> QED BY <1>5, <1>11, <1>12 DEF e
-----------------------------------------------------------------------------
(* Steps.                                                                  *)

LEMMA InitInv == Init => Inv
<1> SUFFICES ASSUME Init PROVE Inv OBVIOUS
<1>1. NoJobs \in [{} -> Jobs] /\ DOMAIN NoJobs = {} BY DEF NoJobs
<1>2. NoJobs \in UNION {[T -> Jobs] : T \in SUBSET JobIds} BY <1>1, JobTable
<1>3. Untuned \in [Models -> {None, Elsewhere} \cup JobIds] BY DEF Untuned
<1>4. /\ doc \in Document /\ doc.series = 1 /\ doc.jobs = NoJobs /\ doc.skips = {}
      BY <1>2, <1>3 DEF Init, Document
<1>5. Sound(doc) /\ DOMAIN doc.jobs = {} BY <1>1, <1>4 DEF Sound, OfSource, OneLive, Counts
<1>6. \A r \in Requests : request[r] = Idle BY DEF Init
<1>7. request \in [Requests -> Requested] BY DEF Init, Requested
<1>8. QED BY <1>4, <1>5, <1>6, <1>7, JobsAssumption DEF Init, Inv

LEMMA StoredSound ==
  ASSUME Inv
  PROVE  doc \in Document /\ Sound(doc) /\ doc.series > 0 /\ doc.series \in Nat
BY DocumentParts DEF Inv, Sound

\* What a request reads and works out is made of the stored document.
LEMMA HoldsStep ==
  ASSUME Inv, NEW r \in Requests, NEW kind \in {"start", "step", "cancel"},
         NEW e \in Document, Sound(e), Follows(doc, e), Holds(r, kind, e),
         DOMAIN e.jobs \subseteq 1..(IF kind = "start" THEN issued + 1 ELSE issued),
         kind = "start" => issued < JobBound
  PROVE  Inv'
<1> DEFINE q == [kind |-> kind, new |-> e]
<1>1. /\ request' = [request EXCEPT ![r] = q]
      /\ UNCHANGED <<doc, issued, late>>
      BY DEF Holds
<1>2. q \in Requested /\ q.kind = kind /\ q.new = e BY DEF Requested
<1>3. Promises(q)' BY <1>1 DEF Promises
<1> HIDE DEF q
<1>4. request' \in [Requests -> Requested] BY <1>1, <1>2 DEF Inv
<1>5. ASSUME NEW t \in Requests, request'[t] \notin {Idle, Overtaken}
      PROVE  Promises(request[t])'
      <2>1. CASE t = r BY <1>1, <1>3, <2>1 DEF Inv
      <2>2. CASE t # r
            <3>1. request'[t] = request[t] BY <1>1, <2>2 DEF Inv
            <3>2. Promises(request[t]) BY <1>5, <3>1 DEF Inv
            <3>3. QED BY <1>1, <3>1, <3>2 DEF Promises
      <2>3. QED BY <2>1, <2>2
<1>6. QED BY <1>1, <1>4, <1>5 DEF Inv

\* A save of a good document: nobody holds one made of the old one any more.
LEMMA OutdatedStep ==
  ASSUME Inv, NEW d \in Document, Sound(d), doc' = d,
         issued' \in 0..JobBound, DOMAIN d.jobs \subseteq 1..issued', late' = late,
         request' \in [Requests -> {Idle, Overtaken}]
  PROVE  Inv'
<1>1. request' \in [Requests -> Requested] BY DEF Requested
<1>2. \A r \in Requests : request'[r] \in {Idle, Overtaken} OBVIOUS
<1>3. QED BY <1>1, <1>2 DEF Inv

LEMMA OutdatedType == Outdated \in [Requests -> {Idle, Overtaken}]
BY DEF Outdated

LEMMA WritesStep ==
  ASSUME Inv, NEW d \in Document, Sound(d), DOMAIN d.jobs \subseteq DOMAIN doc.jobs, Writes(d)
  PROVE  Inv'
BY OutdatedStep, OutdatedType DEF Writes, Inv

LEMMA SavesStep ==
  ASSUME Inv, NEW r \in Requests, Saves(r)
  PROVE  Inv' /\ Follows(doc, doc')
<1> DEFINE q == request[r]
<1>1. Promises(q) /\ q \in Requested /\ q \notin {Idle, Overtaken} BY DEF Inv, Saves
<1>2. q \in [kind : {"start", "step", "cancel"}, new : Document] BY <1>1 DEF Requested
<1>3. q.new \in Document /\ q.kind \in {"start", "step", "cancel"} BY <1>2
<1>4. /\ doc' = q.new
      /\ issued' = IF q.kind = "start" THEN issued + 1 ELSE issued
      /\ late' = late
      BY DEF Saves
<1>5. issued' \in 0..JobBound
      BY <1>1, <1>4, JobsAssumption DEF Inv, Promises
<1>6. DOMAIN q.new.jobs \subseteq 1..issued' BY <1>1, <1>4 DEF Promises
<1>7. request' \in [Requests -> {Idle, Overtaken}] BY OutdatedType DEF Saves
<1>8. Sound(q.new) /\ Follows(doc, q.new) BY <1>1 DEF Promises
<1> HIDE DEF q
<1>9. Inv' BY <1>3, <1>4, <1>5, <1>6, <1>7, <1>8, OutdatedStep
<1>10. QED BY <1>4, <1>8, <1>9
\* The jobs of a start, a step and a cancellation.
LEMMA StartStep ==
  ASSUME Inv, NEW r \in Requests, NEW t \in Tasks, StartReads(r, t)
  PROVE  Inv'
<1> DEFINE d == Prepared(doc)
           j == issued + 1
           e == AddJob(d, j, t)
<1>1. /\ issued \in Nat /\ issued < JobBound /\ Replayable(d, t, Signature(t, d)) = {}
      /\ Holds(r, "start", e)
      BY JobsAssumption DEF StartReads, Inv
<1>2. d \in Document /\ Sound(d) /\ d.source = d.series /\ DOMAIN d.jobs \subseteq 1..issued
      BY StoredSound, PreparedSound DEF Inv
<1>3. j \in JobIds \ DOMAIN d.jobs BY <1>1, <1>2, JobsAssumption DEF JobIds
<1>4. /\ e \in Document /\ Sound(e) /\ Keeps(d, e)
      /\ DOMAIN e.jobs = DOMAIN d.jobs \cup {j}
      BY <1>1, <1>2, <1>3, AddSound
<1>5. Follows(doc, e) BY <1>4, StoredSound, KeepsFollows
<1>6. DOMAIN e.jobs \subseteq 1..(issued + 1) BY <1>1, <1>2, <1>4
<1> HIDE DEF e
<1>7. QED BY <1>1, <1>4, <1>5, <1>6, HoldsStep

LEMMA StepStep ==
  ASSUME Inv, NEW r \in Requests, NEW j \in JobIds, NEW e \in Document, Sound(e),
         Keeps(Prepared(doc), e) \/ Keeps(doc, e),
         DOMAIN e.jobs \subseteq DOMAIN doc.jobs,
         Holds(r, "step", e) \/ Holds(r, "cancel", e)
  PROVE  Inv'
<1>1. Follows(doc, e) BY StoredSound, KeepsFollows DEF Keeps, Follows
<1>2. DOMAIN e.jobs \subseteq 1..issued BY DEF Inv
<1>3. QED BY <1>1, <1>2, HoldsStep

LEMMA LateStep ==
  ASSUME Inv, NEW r \in Requests, NEW j \in JobIds, StepFindsLate(r, j)
  PROVE  Inv'
<1> DEFINE e == Close(doc, j, "failed")
<1>1. j \in DOMAIN doc.jobs /\ doc.jobs[j].status = "in_progress" /\ Holds(r, "step", e)
      BY DEF StepFindsLate, Steps
<1>2. e \in Document /\ Sound(e) /\ Keeps(doc, e) /\ DOMAIN e.jobs = DOMAIN doc.jobs
      BY <1>1, StoredSound, CloseSound
<1> HIDE DEF e
<1>3. QED BY <1>1, <1>2, StepStep

LEMMA CancelStep ==
  ASSUME Inv, NEW r \in Requests, NEW j \in JobIds, CancelReads(r, j)
  PROVE  Inv'
<1> DEFINE e == Close(doc, j, "cancelled")
<1>1. /\ j \in DOMAIN doc.jobs /\ doc.jobs[j].status \notin {"completed", "cancelled"}
      /\ Holds(r, "cancel", e)
      BY DEF CancelReads
<1>2. e \in Document /\ Sound(e) /\ Keeps(doc, e) /\ DOMAIN e.jobs = DOMAIN doc.jobs
      BY <1>1, StoredSound, CloseSound
<1> HIDE DEF e
<1>3. QED BY <1>1, <1>2, StepStep

\* On a document of another series there is no job left to close.
LEMMA StaleStep ==
  ASSUME Inv, NEW r \in Requests, NEW j \in JobIds, StepFindsStale(r, j)
  PROVE  Inv'
<1> DEFINE d == Prepared(doc)
           e == Close(d, j, "stale")
<1>1. j \in DOMAIN doc.jobs /\ doc.jobs[j].status = "in_progress" /\ Holds(r, "step", e)
      BY DEF StepFindsStale, Steps
<1>2. /\ d \in Document /\ Sound(d) /\ DOMAIN d.jobs \subseteq DOMAIN doc.jobs
      /\ d = doc \/ DOMAIN d.jobs = {}
      BY StoredSound, PreparedSound
<1>3. CASE d = doc
      <2>1. e \in Document /\ Sound(e) /\ Keeps(d, e) /\ DOMAIN e.jobs = DOMAIN d.jobs
            BY <1>1, <1>2, <1>3, CloseSound
      <2> HIDE DEF e
      <2>2. QED BY <1>1, <1>2, <2>1, StepStep
<1>4. CASE DOMAIN d.jobs = {}
      <2>1. e = d BY <1>4 DEF Close
      <2>2. Keeps(d, d) BY <1>4 DEF Keeps
      <2>3. Holds(r, "step", d) BY <1>1, <2>1
      <2> HIDE DEF e
      <2>4. QED BY <1>2, <2>2, <2>3, StepStep
<1>5. QED BY <1>2, <1>3, <1>4

LEMMA RunStep ==
  ASSUME Inv, NEW r \in Requests, NEW j \in JobIds, NEW ok \in BOOLEAN, StepRuns(r, j, ok)
  PROVE  Inv'
<1> DEFINE d == Prepared(doc)
           e == RunTrial(d, j, ok)
<1>1. /\ j \in DOMAIN doc.jobs /\ doc.jobs[j].status = "in_progress" /\ Holds(r, "step", e)
      /\ Cohort(d) = doc.jobs[j].cohort
      BY DEF StepRuns, Steps
<1>2. /\ d \in Document /\ Sound(d)
      /\ d = doc \/ DOMAIN d.jobs = {}
      BY StoredSound, PreparedSound
<1>3. CASE d = doc
      <2>1. e \in Document /\ Sound(e) /\ Keeps(d, e) /\ DOMAIN e.jobs = DOMAIN d.jobs
            BY <1>1, <1>2, <1>3, TrialSound
      <2> HIDE DEF e
      <2>2. QED BY <1>1, <1>3, <2>1, StepStep
<1>4. CASE d # doc
      <2>1. d.source = d.series /\ d.source # doc.source BY <1>4, StoredSound, PreparedSound
      <2>2. doc.jobs[j].cohort[1] = doc.source BY <1>1, StoredSound DEF Sound, OfSource
      <2>3. Cohort(d)[1] = d.series BY DEF Cohort
      <2>4. QED BY <1>1, <2>1, <2>2, <2>3
<1>5. QED BY <1>3, <1>4
LEMMA LosesStep ==
  ASSUME Inv, NEW r \in Requests, Loses(r)
  PROVE  Inv'
<1>1. /\ request' = [request EXCEPT ![r] = Idle]
      /\ UNCHANGED <<doc, issued, late>>
      BY DEF Loses
<1>2. request' \in [Requests -> Requested] BY <1>1 DEF Inv, Requested
<1>3. ASSUME NEW t \in Requests, request'[t] \notin {Idle, Overtaken}
      PROVE  Promises(request[t])'
      <2>1. request'[t] = request[t] BY <1>1, <1>3 DEF Inv
      <2>2. Promises(request[t]) BY <1>3, <2>1 DEF Inv
      <2>3. QED BY <1>1, <2>1, <2>2 DEF Promises
<1>4. QED BY <1>1, <1>2, <1>3 DEF Inv

\* The other writers: what they write is good, and made of the stored document.
Fits(e) == e \in Document /\ Sound(e) /\ Follows(doc, e) /\ DOMAIN e.jobs \subseteq DOMAIN doc.jobs

LEMMA PartsSound ==
  ASSUME Inv, NEW d \in Document, Sound(d), d = doc \/ d = Prepared(doc),
         NEW u \in [Models -> {None, Elsewhere} \cup JobIds], NEW k \in SUBSET Models,
         \A m \in k : u[m] = None,
         NEW e \in Document, e.jobs = d.jobs, e.tuning = u, e.skips = k,
         e.source = d.source, e.series >= d.series
  PROVE  Fits(e)
<1>1. Sound(e)
      <2>1. e.series > 0 BY DocumentParts DEF Sound
      <2>2. QED BY <2>1 DEF Sound, OfSource, OneLive, Counts
<1>2. Keeps(d, e) BY SameJobsKept DEF Keeps
<1>3. Follows(doc, e)
      <2>1. CASE d = doc BY <1>2, <2>1 DEF Keeps, Follows
      <2>2. CASE d = Prepared(doc) BY <1>2, <2>2, StoredSound, KeepsFollows
      <2>3. QED BY <2>1, <2>2
<1>4. DOMAIN e.jobs \subseteq DOMAIN doc.jobs BY StoredSound, PreparedSound
<1>5. QED BY <1>1, <1>3, <1>4 DEF Fits

LEMMA PreparedFits ==
  ASSUME Inv
  PROVE  Fits(doc) /\ Fits(Prepared(doc))
<1>1. doc \in Document /\ Sound(doc) /\ Prepared(doc) \in Document /\ Sound(Prepared(doc))
      BY StoredSound, PreparedSound
<1>2. \A m \in doc.skips : doc.tuning[m] = None BY <1>1 DEF Sound
<1>3. \A m \in Prepared(doc).skips : Prepared(doc).tuning[m] = None BY <1>1 DEF Sound
<1>4. Fits(doc)
      <2>1. /\ doc.tuning \in [Models -> {None, Elsewhere} \cup JobIds]
            /\ doc.skips \in SUBSET Models
            /\ doc.series >= doc.series
            BY <1>1, DocumentParts
      <2>2. QED BY <1>1, <1>2, <2>1, PartsSound
<1>5. Fits(Prepared(doc)) BY <1>1, <1>3, DocumentParts, PartsSound
<1>6. QED BY <1>4, <1>5

\* A tuning, a skip or both skips: the parts of a prepared document that they change.
LEMMA DecisionFits ==
  ASSUME Inv, NEW u \in [Models -> {None, Elsewhere} \cup JobIds], NEW k \in SUBSET Models,
         \A m \in k : u[m] = None
  PROVE  Fits(Changed(Prepared(doc), Prepared(doc).jobs, u, k))
<1> DEFINE d == Prepared(doc)
           e == Changed(d, d.jobs, u, k)
<1>1. d \in Document /\ Sound(d) BY StoredSound, PreparedSound
<1> HIDE DEF d
<1>2. /\ e \in Document /\ e.jobs = d.jobs /\ e.tuning = u /\ e.skips = k
      /\ e.series = d.series /\ e.source = d.source
      BY <1>1, DocumentJobs, ChangedDocument
<1> HIDE DEF e
<1>3. e.series >= d.series BY <1>1, <1>2, DocumentParts
<1>4. QED BY <1>1, <1>2, <1>3, PartsSound DEF d, e

LEMMA TuneFits ==
  ASSUME Inv, NEW m \in Models, TuneAtOnce(m)
  PROVE  \E e : Fits(e) /\ Writes(e)
<1> DEFINE d == Prepared(doc)
           u == [d.tuning EXCEPT ![m] = Elsewhere]
           k == d.skips \ {m}
           e == Changed(d, d.jobs, u, k)
<1>1. d \in Document /\ Sound(d) BY StoredSound, PreparedSound
<1>2. /\ u \in [Models -> {None, Elsewhere} \cup JobIds] /\ k \in SUBSET Models
      /\ \A x \in k : u[x] = None
      BY <1>1, DocumentParts DEF Sound
<1>3. Fits(e) BY <1>2, DecisionFits
<1>4. Writes([d EXCEPT !.tuning = u, !.skips = k]) BY DEF TuneAtOnce
<1>5. [d EXCEPT !.tuning = u, !.skips = k] = e
      <2> HIDE DEF d, u, k
      <2>1. QED BY <1>1 DEF Changed, Document
<1> HIDE DEF e
<1>6. QED BY <1>3, <1>4, <1>5

LEMMA SkipFits ==
  ASSUME Inv, NEW K \in SUBSET Models,
         \A m \in K : Prepared(doc).tuning[m] = None,
         Writes([Prepared(doc) EXCEPT !.skips = @ \cup K])
  PROVE  \E e : Fits(e) /\ Writes(e)
<1> DEFINE d == Prepared(doc)
           k == d.skips \cup K
           e == Changed(d, d.jobs, d.tuning, k)
<1>1. d \in Document /\ Sound(d) BY StoredSound, PreparedSound
<1>2. d.tuning \in [Models -> {None, Elsewhere} \cup JobIds] /\ k \in SUBSET Models
      BY <1>1, DocumentParts
<1>3. \A x \in k : d.tuning[x] = None BY <1>1 DEF Sound
<1>4. Fits(e) BY <1>2, <1>3, DecisionFits
<1>5. [d EXCEPT !.skips = k] = e
      <2> HIDE DEF d, k
      <2>1. QED BY <1>1 DEF Changed, Document
<1>6. Writes([d EXCEPT !.skips = k]) OBVIOUS
<1> HIDE DEF e
<1>7. QED BY <1>4, <1>5, <1>6

LEMMA ContractFits ==
  ASSUME Inv, ContractChanges
  PROVE  \E e : Fits(e) /\ Writes(e)
<1> DEFINE d == Prepared(doc)
           e == [d EXCEPT !.contract = @ + 1]
<1>1. d \in Document /\ Sound(d) BY StoredSound, PreparedSound
<1>2. /\ e \in Document /\ e.jobs = d.jobs /\ e.tuning = d.tuning /\ e.skips = d.skips
      /\ e.series = d.series /\ e.source = d.source
      <2> HIDE DEF d
      <2>1. QED BY <1>1 DEF Document
<1>3. Writes(e) BY DEF ContractChanges
<1> HIDE DEF e
<1>4. \A m \in d.skips : d.tuning[m] = None BY <1>1 DEF Sound
<1>5. Fits(e) BY <1>1, <1>2, <1>4, DocumentParts, PartsSound
<1>6. QED BY <1>3, <1>5

\* Another series: the same jobs, or none.
LEMMA SeriesFits ==
  ASSUME Inv, NEW reset \in BOOLEAN, SeriesChanges(reset)
  PROVE  \E e : Fits(e) /\ Writes(e)
<1> DEFINE d == [doc EXCEPT !.series = @ + 1]
<1>1. doc \in Document /\ Sound(doc) /\ doc.series \in Nat BY StoredSound
<1>2. /\ d \in Document /\ d.jobs = doc.jobs /\ d.tuning = doc.tuning /\ d.skips = doc.skips
      /\ d.series = doc.series + 1 /\ d.source = doc.source
      BY <1>1 DEF Document
<1>3. Writes(IF reset THEN Cleared(d, 0) ELSE d) BY DEF SeriesChanges
<1> HIDE DEF d
<1>4. \A m \in doc.skips : doc.tuning[m] = None BY <1>1 DEF Sound
<1>5. Fits(d)
      <2>1. /\ doc.tuning \in [Models -> {None, Elsewhere} \cup JobIds]
            /\ doc.skips \in SUBSET Models
            /\ d.series >= doc.series
            BY <1>1, <1>2, DocumentParts
      <2>2. QED BY <1>1, <1>2, <1>4, <2>1, PartsSound
<1>6. Fits(Cleared(d, 0))
      <2>1. /\ Cleared(d, 0) \in Document /\ Sound(Cleared(d, 0))
            /\ Cleared(d, 0).source = 0 /\ DOMAIN Cleared(d, 0).jobs = {}
            BY <1>1, <1>2, ClearedSound
      <2>2. doc.source = 0 => DOMAIN doc.jobs = {} BY <1>1 DEF Sound, OfSource
      <2>3. QED BY <2>1, <2>2 DEF Fits, Follows
<1>7. QED BY <1>3, <1>5, <1>6

LEMMA ConfirmStep ==
  ASSUME Inv, Confirms
  PROVE  Inv' /\ Follows(doc, doc')
<1> DEFINE e == [doc EXCEPT !.confirmed = doc.series]
<1>1. doc \in Document /\ Sound(doc) /\ doc.series \in Nat BY StoredSound
<1>2. /\ e \in Document /\ e.jobs = doc.jobs /\ e.tuning = doc.tuning /\ e.skips = doc.skips
      /\ e.series = doc.series /\ e.source = doc.source
      BY <1>1 DEF Document
<1>3. doc' = e /\ request' = Outdated /\ UNCHANGED <<issued, late>> BY DEF Confirms
<1> HIDE DEF e
<1>4. \A m \in doc.skips : doc.tuning[m] = None BY <1>1 DEF Sound
<1>5. Fits(e) BY <1>1, <1>2, <1>4, DocumentParts, PartsSound
<1>6. Inv' BY <1>3, <1>5, OutdatedStep, OutdatedType DEF Fits, Inv
<1>7. QED BY <1>3, <1>5, <1>6 DEF Fits

LEMMA FitsStep ==
  ASSUME Inv, NEW e, Fits(e), Writes(e)
  PROVE  Inv' /\ Follows(doc, doc')
<1>1. Inv' BY WritesStep DEF Fits
<1>2. doc' = e BY DEF Writes
<1>3. QED BY <1>1, <1>2 DEF Fits

\* Follows is reflexive on the stored document.
LEMMA NoChange ==
  ASSUME Inv, doc' = doc
  PROVE  Follows(doc, doc')
BY PreparedFits DEF Fits

\* The strengthening is kept by every step, and no step takes anything back.
LEMMA InvStep == Inv /\ [Next]_vars => Inv' /\ Follows(doc, doc')
<1> SUFFICES ASSUME Inv, [Next]_vars PROVE Inv' /\ Follows(doc, doc') OBVIOUS
<1>1. ASSUME NEW r \in Requests, NEW t \in Tasks, StartReads(r, t) PROVE Inv' /\ Follows(doc, doc')
      BY <1>1, StartStep, NoChange DEF StartReads, Holds
<1>2. ASSUME NEW r \in Requests, NEW j \in JobIds, StepFindsLate(r, j)
      PROVE  Inv' /\ Follows(doc, doc')
      BY <1>2, LateStep, NoChange DEF StepFindsLate, Holds
<1>3. ASSUME NEW r \in Requests, NEW j \in JobIds, StepFindsStale(r, j)
      PROVE  Inv' /\ Follows(doc, doc')
      BY <1>3, StaleStep, NoChange DEF StepFindsStale, Holds
<1>4. ASSUME NEW r \in Requests, NEW j \in JobIds, NEW ok \in BOOLEAN, StepRuns(r, j, ok)
      PROVE  Inv' /\ Follows(doc, doc')
      BY <1>4, RunStep, NoChange DEF StepRuns, Holds
<1>5. ASSUME NEW r \in Requests, NEW j \in JobIds, CancelReads(r, j)
      PROVE  Inv' /\ Follows(doc, doc')
      BY <1>5, CancelStep, NoChange DEF CancelReads, Holds
<1>6. ASSUME NEW r \in Requests, Saves(r) PROVE Inv' /\ Follows(doc, doc')
      BY <1>6, SavesStep
<1>7. ASSUME NEW r \in Requests, Loses(r) PROVE Inv' /\ Follows(doc, doc')
      BY <1>7, LosesStep, NoChange DEF Loses
<1>8. ASSUME NEW m \in Models, TuneAtOnce(m) PROVE Inv' /\ Follows(doc, doc')
      BY <1>8, TuneFits, FitsStep
<1>9. ASSUME NEW m \in Models, SkipTuning(m) PROVE Inv' /\ Follows(doc, doc')
      <2>1. {m} \in SUBSET Models /\ \A x \in {m} : Prepared(doc).tuning[x] = None
            BY <1>9 DEF SkipTuning
      <2>2. Writes([Prepared(doc) EXCEPT !.skips = @ \cup {m}]) BY <1>9 DEF SkipTuning
      <2>3. QED BY <2>1, <2>2, SkipFits, FitsStep
<1>10. ASSUME SkipPending PROVE Inv' /\ Follows(doc, doc')
      <2> DEFINE K == {m \in Models : Prepared(doc).tuning[m] = None /\ m \notin Prepared(doc).skips}
      <2>1. K \in SUBSET Models /\ \A x \in K : Prepared(doc).tuning[x] = None OBVIOUS
      <2>2. Writes([Prepared(doc) EXCEPT !.skips = @ \cup K]) BY <1>10 DEF SkipPending
      <2> HIDE DEF K
      <2>3. QED BY <2>1, <2>2, SkipFits, FitsStep
<1>11. ASSUME Prepares PROVE Inv' /\ Follows(doc, doc')
      BY <1>11, PreparedFits, FitsStep DEF Prepares
<1>12. ASSUME ContractChanges PROVE Inv' /\ Follows(doc, doc')
      BY <1>12, ContractFits, FitsStep
<1>13. ASSUME NEW reset \in BOOLEAN, SeriesChanges(reset) PROVE Inv' /\ Follows(doc, doc')
      BY <1>13, SeriesFits, FitsStep
<1>14. ASSUME Confirms PROVE Inv' /\ Follows(doc, doc')
      BY <1>14, ConfirmStep
<1>15. ASSUME OtherSaves PROVE Inv' /\ Follows(doc, doc')
      BY <1>15, PreparedFits, FitsStep DEF OtherSaves
<1>16. ASSUME NEW j \in JobIds, DeadlinePasses(j) PROVE Inv' /\ Follows(doc, doc')
      <2>1. UNCHANGED <<doc, request, issued>> /\ late' \subseteq JobIds
            BY <1>16 DEF DeadlinePasses, Inv
      <2>2. Inv' BY <2>1 DEF Inv, Promises
      <2>3. QED BY <2>1, <2>2, NoChange
<1>17. ASSUME UNCHANGED vars PROVE Inv' /\ Follows(doc, doc')
      <2>1. Inv' BY <1>17 DEF vars, Inv, Promises
      <2>2. QED BY <1>17, <2>1, NoChange DEF vars
<1>18. QED
      BY <1>1, <1>2, <1>3, <1>4, <1>5, <1>6, <1>7, <1>8, <1>9, <1>10, <1>11, <1>12, <1>13,
         <1>14, <1>15, <1>16, <1>17 DEF Next
-----------------------------------------------------------------------------
(* Theorems.                                                               *)

LEMMA Invariant == Spec => []Inv
<1>1. Inv /\ [Next]_vars => Inv' BY InvStep
<1>2. QED BY InitInv, <1>1, PTL DEF Spec

\* The stored document, and each that a request means to save, has its shape; a job in
\* progress has trials left (the handlers of modeling_session.py).
THEOREM TypeCorrect == Spec => []TypeOK
<1>1. ASSUME NEW d \in Document PROVE IsDocument(d)
      BY DocumentJobs, DocumentParts DEF IsDocument
<1>2. Inv => TypeOK
      <2> SUFFICES ASSUME Inv PROVE TypeOK OBVIOUS
      <2>1. ASSUME NEW r \in Requests, request[r] \notin {Idle, Overtaken}
            PROVE  IsDocument(request[r].new)
            <3>1. request[r] \in [kind : {"start", "step", "cancel"}, new : Document]
                  BY <2>1 DEF Inv, Requested
            <3>2. QED BY <1>1, <3>1
      <2>2. QED BY <1>1, <2>1 DEF Inv, TypeOK, Sound, Counts
<1>3. QED BY <1>2, Invariant, PTL

\* Two starts of one plan do not both get a job, for any number of requests
\* (start_modeling_job and the compare-and-save of the session stores).
THEOREM PlanHasOneLiveJob == Spec => []OneLiveJobPerPlan
<1>1. Inv => OneLiveJobPerPlan BY DEF Inv, Sound, OneLive, OneLiveJobPerPlan
<1>2. QED BY <1>1, Invariant, PTL

\* No model has both a tuning result and a decision to do without one (the two skips,
\* the tuning at once, and the end of a job).
THEOREM TunedNeverSkipped == Spec => []TunedIsNotSkipped
<1>1. Inv => TunedIsNotSkipped BY DEF Inv, Sound, TunedIsNotSkipped
<1>2. QED BY <1>1, Invariant, PTL

\* What a client was told of a job is not taken back while the artifacts are those of
\* the same series, whichever requests save meanwhile.
THEOREM NothingTakenBack == Spec => NothingIsTakenBack
<1>1. Inv /\ [Next]_vars => [doc'.source = doc.source => \A j \in DOMAIN doc.jobs : JobIsKept(j)]_vars
      <2> SUFFICES ASSUME Inv, [Next]_vars, doc'.source = doc.source, NEW j \in DOMAIN doc.jobs
                   PROVE  JobIsKept(j)
          OBVIOUS
      <2>1. Kept(doc, doc', j) BY InvStep DEF Follows
      <2>2. QED BY <2>1 DEF Kept, JobIsKept
<1>2. QED BY <1>1, Invariant, PTL DEF Spec, NothingIsTakenBack
=============================================================================
