-------------------------- MODULE RenderJobsProofs --------------------------
(***************************************************************************)
(* What RenderJobs guarantees for every number of threads, targets and     *)
(* attempts: its type, and the three properties that do not depend on how  *)
(* many workers run; and the two that hold as long as one worker renders.  *)
(***************************************************************************)
EXTENDS RenderJobs, FiniteSetTheorems, SequenceTheorems, TLAPS

(***************************************************************************)
(* The strengthening of the type.  Keyed: the table is indexed by job id.  *)
(* HandsOK: the records a thread holds name registered jobs, and its       *)
(* program counter tells which of its locals hold a value.                 *)
(***************************************************************************)
Keyed == \A j \in DOMAIN jobs : jobs[j].id = j

HandsOK(t) ==
  /\ \A job \in todo[t] : job.id \in DOMAIN jobs
  /\ pc[t] \in RenderPCs \cup {"starting", "cancelling"} =>
       cur[t] \in JobRecord /\ cur[t].id \in DOMAIN jobs
  /\ pc[t] \in {"listing", "counting", "registering"} => cur[t] \in JobRecord
  /\ pc[t] \in {"completing", "finding", "committing", "publishing"} => bytes[t] \in Contents
  /\ pc[t] \in {"marking", "confirming", "discarding", "finishing"} => found[t] \in RenditionRow

TypeInv == TypeOK /\ Keyed /\ \A t \in Threads : HandsOK(t)

\* A step of t leaves the locals of the other threads alone.
Others(t) ==
  \A u \in Threads \ {t} :
    /\ pc'[u] = pc[u] /\ cur'[u] = cur[u] /\ found'[u] = found[u]
    /\ bytes'[u] = bytes[u] /\ todo'[u] = todo[u]

-----------------------------------------------------------------------------
LEMMA JobsType ==
  ASSUME TypeOK
  PROVE  /\ DOMAIN jobs = 1..Len(jobs) /\ Len(jobs) \in Nat
         /\ \A j \in DOMAIN jobs : jobs[j] \in JobRecord
BY LenProperties, ElementOfSeq DEF TypeOK

\* update_job keeps the table well-typed and its keys what they are.
LEMMA UpdateJobType ==
  ASSUME TypeOK, Keyed, NEW job \in JobRecord, job.id \in DOMAIN jobs, UpdateJob(job)
  PROVE  /\ jobs' \in Seq(JobRecord)
         /\ DOMAIN jobs' = DOMAIN jobs
         /\ \A j \in DOMAIN jobs : jobs'[j] = IF j = job.id THEN job ELSE jobs[j]
         /\ Keyed'
<1>1. /\ jobs \in Seq(JobRecord) /\ DOMAIN jobs = 1..Len(jobs) /\ Len(jobs) \in Nat
      BY JobsType DEF TypeOK
<1>2. jobs' \in Seq(JobRecord) /\ DOMAIN jobs' = DOMAIN jobs
      BY <1>1, ExceptSeq, LenProperties DEF UpdateJob
<1>3. \A j \in DOMAIN jobs : jobs'[j] = IF j = job.id THEN job ELSE jobs[j]
      BY <1>1 DEF UpdateJob
<1>4. QED BY <1>2, <1>3 DEF Keyed

\* So does register_job, which adds a key.
LEMMA AppendType ==
  ASSUME TypeOK, Keyed, NEW job \in JobRecord, job.id = Len(jobs) + 1,
         jobs' = Append(jobs, job)
  PROVE  /\ jobs' \in Seq(JobRecord)
         /\ DOMAIN jobs' = DOMAIN jobs \cup {job.id}
         /\ \A j \in DOMAIN jobs' : jobs'[j] = IF j = job.id THEN job ELSE jobs[j]
         /\ Keyed'
<1>1. /\ jobs \in Seq(JobRecord) /\ DOMAIN jobs = 1..Len(jobs) /\ Len(jobs) \in Nat
      BY JobsType DEF TypeOK
<1>2. /\ jobs' \in Seq(JobRecord) /\ Len(jobs') = Len(jobs) + 1
      /\ DOMAIN jobs' = 1..(Len(jobs) + 1)
      /\ \A j \in DOMAIN jobs' : jobs'[j] = IF j = Len(jobs) + 1 THEN job ELSE jobs[j]
      BY <1>1, AppendProperties, LenProperties
<1>3. QED BY <1>1, <1>2 DEF Keyed

LEMMA MovedType ==
  ASSUME NEW job \in JobRecord, NEW state \in JobStates
  PROVE  /\ Moved(job, state) \in JobRecord
         /\ Moved(job, state).id = job.id
         /\ Moved(job, state).state = state
         /\ Moved(job, state).lease = "none"
         /\ Moved(job, state).target = job.target
         /\ Moved(job, state).attempt = job.attempt
         /\ Moved(job, state).rendition = job.rendition
BY DEF Moved, JobRecord

\* Open jobs are registered jobs.
LEMMA OpenJobsType ==
  ASSUME TypeOK, Keyed, NEW limit
  PROVE  \A job \in OpenJobs(limit) : job \in JobRecord /\ job.id \in DOMAIN jobs
<1>1. \A job \in OpenJobs(limit) : \E j \in DOMAIN jobs : job = jobs[j]
      BY DEF OpenJobs
<1>2. QED BY <1>1, JobsType DEF Keyed

\* A row written by update_rendition or register_rendition keeps the table typed.
LEMMA RowsType ==
  ASSUME TypeOK, NEW x \in Targets, NEW row \in RenditionRow,
         UpdateRendition(x, row) \/ RegisterRendition(x, row)
  PROVE  rows' \in [Targets -> RenditionRow \cup {None}]
<1>1. CASE UpdateRendition(x, row)
      BY <1>1 DEF UpdateRendition, TypeOK
<1>2. CASE RegisterRendition(x, row)
  <2> DEFINE new == IF rows[x] = None THEN row ELSE [row EXCEPT !.id = rows[x].id]
  <2>1. rows[x] \in RenditionRow \cup {None} BY DEF TypeOK
  <2>2. new \in RenditionRow BY <2>1 DEF RenditionRow
  <2>3. rows' = [rows EXCEPT ![x] = new] BY <1>2 DEF RegisterRendition
  <2> HIDE DEF new
  <2>4. QED BY <2>2, <2>3 DEF TypeOK
<1>3. QED BY <1>1, <1>2

(***************************************************************************)
(* Whatever a thread does, only its own locals and the jobs it writes are  *)
(* at stake.                                                               *)
(***************************************************************************)
LEMMA StepType ==
  ASSUME TypeInv, NEW t \in Threads, TypeOK', Keyed', DOMAIN jobs \subseteq DOMAIN jobs',
         Others(t), HandsOK(t)'
  PROVE  TypeInv'
<1>1. ASSUME NEW u \in Threads \ {t} PROVE HandsOK(u)'
      BY <1>1 DEF TypeInv, HandsOK, Others
<1>2. QED BY <1>1 DEF TypeInv

\* The end of a call.
LEMMA DoneType ==
  ASSUME TypeInv, NEW t \in Threads, Done(t), UNCHANGED <<todo, aborts>>,
         jobs' \in Seq(JobRecord), Keyed', DOMAIN jobs \subseteq DOMAIN jobs',
         rows' \in [Targets -> RenditionRow \cup {None}], objects' \subseteq Contents
  PROVE  TypeInv'
<1>1. TypeOK' BY DEF Done, TypeInv, TypeOK, ClientPCs, WorkerPCs
<1>2. Others(t) BY DEF Done, Others, TypeInv, TypeOK
<1>3. HandsOK(t)' BY DEF Done, TypeInv, TypeOK, HandsOK, RenderPCs
<1>4. QED BY <1>1, <1>2, <1>3, StepType

\* A write of a job at the end of a call.
LEMMA WriteAndDone ==
  ASSUME TypeInv, NEW t \in Threads, NEW job \in JobRecord, job.id \in DOMAIN jobs,
         UpdateJob(job), Done(t), UNCHANGED <<rows, objects, todo, aborts>>
  PROVE  TypeInv'
BY UpdateJobType, DoneType DEF TypeInv, TypeOK

-----------------------------------------------------------------------------
LEMMA InitType == Init => TypeInv
<1>1. <<>> \in Seq(JobRecord) /\ DOMAIN <<>> = {} BY EmptySeq
<1>2. QED
  BY <1>1, ConstantsAssumption
  DEF Init, TypeInv, TypeOK, Keyed, HandsOK, Threads, ClientPCs, RenderPCs

\* A step that only reads the tables.
LEMMA ReadType ==
  ASSUME TypeInv, NEW t \in Threads, UNCHANGED <<jobs, rows, objects, aborts>>,
         pc' \in [Threads -> ClientPCs \cup RenderPCs \cup WorkerPCs],
         cur' \in [Threads -> JobRecord \cup {None}],
         found' \in [Threads -> RenditionRow \cup {None}],
         bytes' \in [Threads -> Contents \cup {None}],
         todo' \in [Threads -> SUBSET JobRecord],
         Others(t), HandsOK(t)'
  PROVE  TypeInv'
<1>1. TypeOK' BY DEF TypeInv, TypeOK
<1>2. Keyed' BY DEF TypeInv, Keyed
<1>3. QED BY <1>1, <1>2, StepType

LEMMA JobsOfType ==
  ASSUME TypeOK, NEW x
  PROVE  Cardinality(JobsOf(x)) \in Nat
<1>1. JobsOf(x) \subseteq 1..Len(jobs) BY JobsType DEF JobsOf
<1>2. Len(jobs) \in Nat BY JobsType
<1>3. IsFiniteSet(1..Len(jobs)) BY <1>2, FS_Interval
<1>4. IsFiniteSet(JobsOf(x)) BY <1>1, <1>3, FS_Subset
<1>5. QED BY <1>4, FS_CardinalityType

LEMMA DraftType == \A x \in Targets : Draft(x) \in JobRecord
BY DEF Draft, JobRecord, JobStates, OpenStates

LEMMA RequestType ==
  ASSUME TypeInv, NEW c \in Clients,
         RequestFinds(c) \/ CancelReads(c) \/ RequestLists(c) \/ RequestCounts(c)
  PROVE  TypeInv'
<1> c \in Threads /\ c \notin Workers BY ConstantsAssumption DEF Threads
<1>1. CASE RequestFinds(c)
  <2>1. PICK x \in Targets : cur' = [cur EXCEPT ![c] = Draft(x)] BY <1>1 DEF RequestFinds
  <2>2. Draft(x) \in JobRecord BY DraftType
  <2>3. Others(c) BY <1>1, <2>1 DEF RequestFinds, Goto, Others, TypeInv, TypeOK
  <2>4. HandsOK(c)' BY <1>1, <2>1, <2>2 DEF RequestFinds, Goto, HandsOK, RenderPCs, TypeInv, TypeOK
  <2>5. QED BY <1>1, <2>1, <2>2, <2>3, <2>4, ReadType
            DEF RequestFinds, Goto, TypeInv, TypeOK, ClientPCs
<1>2. CASE CancelReads(c)
  <2>1. PICK j \in DOMAIN jobs : cur' = [cur EXCEPT ![c] = jobs[j]] BY <1>2 DEF CancelReads
  <2>2. jobs[j] \in JobRecord /\ jobs[j].id = j BY JobsType DEF TypeInv, Keyed
  <2>3. Others(c) BY <1>2, <2>1 DEF CancelReads, Goto, Others, TypeInv, TypeOK
  <2>4. HandsOK(c)' BY <1>2, <2>1, <2>2 DEF CancelReads, Goto, HandsOK, RenderPCs, TypeInv, TypeOK
  <2>5. QED BY <1>2, <2>1, <2>2, <2>3, <2>4, ReadType
            DEF CancelReads, Goto, TypeInv, TypeOK, ClientPCs
<1>3. ASSUME Done(c), UNCHANGED <<jobs, rows, objects, todo, aborts>> PROVE TypeInv'
      BY <1>3, DoneType DEF TypeInv, TypeOK, Keyed
<1>4. CASE RequestLists(c)
  <2>1. CASE Done(c) BY <1>3, <1>4, <2>1 DEF RequestLists
  <2>2. CASE ~Done(c)
    <3> DEFINE draft == [cur[c] EXCEPT !.attempt = Cardinality(JobsOf(cur[c].target)) + 1]
    <3>1. cur[c] \in JobRecord BY <1>4 DEF RequestLists, TypeInv, HandsOK
    <3>2. draft \in JobRecord BY <3>1, JobsOfType DEF JobRecord, TypeInv
    <3>3. cur' = [cur EXCEPT ![c] = draft]
          BY <1>4, <2>2 DEF RequestLists, TypeInv, TypeOK
    <3>4. Goto(c, "counting") /\ UNCHANGED <<found, bytes, todo, jobs, rows, objects, aborts>>
          BY <1>4, <2>2 DEF RequestLists
    <3> HIDE DEF draft
    <3>5. Others(c) BY <3>3, <3>4 DEF Goto, Others, TypeInv, TypeOK
    <3>6. HandsOK(c)' BY <3>2, <3>3, <3>4 DEF Goto, HandsOK, RenderPCs, TypeInv, TypeOK
    <3>7. QED BY <3>2, <3>3, <3>4, <3>5, <3>6, ReadType DEF Goto, TypeInv, TypeOK, ClientPCs
  <2>3. QED BY <2>1, <2>2
<1>5. CASE RequestCounts(c)
  <2>1. CASE Done(c) BY <1>3, <1>5, <2>1 DEF RequestCounts
  <2>2. CASE ~Done(c)
    <3>1. /\ Goto(c, "registering") /\ pc[c] = "counting"
          /\ UNCHANGED <<cur, found, bytes, todo, jobs, rows, objects, aborts>>
          BY <1>5, <2>2 DEF RequestCounts
    <3>2. Others(c) BY <3>1 DEF Goto, Others, TypeInv, TypeOK
    <3>3. HandsOK(c)' BY <3>1 DEF Goto, HandsOK, RenderPCs, TypeInv, TypeOK
    <3>4. QED BY <3>1, <3>2, <3>3, ReadType DEF Goto, TypeInv, TypeOK, ClientPCs
  <2>3. QED BY <2>1, <2>2
<1>6. QED BY <1>1, <1>2, <1>4, <1>5

LEMMA ClientWriteType ==
  ASSUME TypeInv, NEW c \in Clients,
         RequestRegisters(c) \/ SyncStarts(c) \/ CancelWrites(c)
  PROVE  TypeInv'
<1> c \in Threads /\ c \notin Workers BY ConstantsAssumption DEF Threads
<1>1. CASE RequestRegisters(c)
  <2> DEFINE job == [cur[c] EXCEPT !.id = Len(jobs) + 1]
  <2>1. cur[c] \in JobRecord BY <1>1 DEF RequestRegisters, TypeInv, HandsOK
  <2>2. job \in JobRecord /\ job.id = Len(jobs) + 1
        BY <2>1, JobsType DEF JobRecord, TypeInv
  <2>3. jobs' = Append(jobs, job) /\ UNCHANGED <<rows, objects, todo, aborts>>
        BY <1>1 DEF RequestRegisters
  <2>4. \/ Done(c)
        \/ /\ cur' = [cur EXCEPT ![c] = job] /\ Goto(c, "starting")
           /\ UNCHANGED <<found, bytes>>
        BY <1>1 DEF RequestRegisters
  <2> HIDE DEF job
  <2>5. /\ jobs' \in Seq(JobRecord) /\ Keyed' /\ DOMAIN jobs \subseteq DOMAIN jobs'
        /\ job.id \in DOMAIN jobs'
        BY <2>2, <2>3, AppendType DEF TypeInv
  <2>6. CASE Done(c) BY <2>3, <2>5, <2>6, DoneType DEF TypeInv, TypeOK
  <2>7. CASE ~Done(c)
    <3>1. TypeOK' BY <2>2, <2>3, <2>4, <2>5, <2>7 DEF Goto, TypeInv, TypeOK, ClientPCs
    <3>2. Others(c) BY <2>3, <2>4, <2>7 DEF Goto, Others, TypeInv, TypeOK
    <3>3. HandsOK(c)'
          BY <2>2, <2>3, <2>4, <2>5, <2>7 DEF Goto, HandsOK, RenderPCs, TypeInv, TypeOK
    <3>4. QED BY <2>5, <3>1, <3>2, <3>3, StepType
  <2>8. QED BY <2>6, <2>7
<1>2. CASE SyncStarts(c)
  <2> DEFINE job == [cur[c] EXCEPT !.state = "rendering"]
  <2>1. cur[c] \in JobRecord /\ cur[c].id \in DOMAIN jobs
        BY <1>2 DEF SyncStarts, TypeInv, HandsOK
  <2>2. job \in JobRecord /\ job.id \in DOMAIN jobs
        BY <2>1 DEF JobRecord, JobStates, OpenStates
  <2>3. /\ UpdateJob(job) /\ cur' = [cur EXCEPT ![c] = job] /\ Goto(c, "rendering")
        /\ UNCHANGED <<rows, objects, found, bytes, todo, aborts>>
        BY <1>2 DEF SyncStarts
  <2> HIDE DEF job
  <2>4. jobs' \in Seq(JobRecord) /\ Keyed' /\ DOMAIN jobs = DOMAIN jobs'
        BY <2>2, <2>3, UpdateJobType DEF TypeInv
  <2>5. TypeOK' BY <2>2, <2>3, <2>4 DEF Goto, TypeInv, TypeOK, RenderPCs
  <2>6. Others(c) BY <2>3 DEF Goto, Others, TypeInv, TypeOK
  <2>7. HandsOK(c)' BY <2>2, <2>3, <2>4 DEF Goto, HandsOK, RenderPCs, TypeInv, TypeOK
  <2>8. QED BY <2>4, <2>5, <2>6, <2>7, StepType
<1>3. CASE CancelWrites(c)
  <2>1. cur[c] \in JobRecord /\ cur[c].id \in DOMAIN jobs
        BY <1>3 DEF CancelWrites, TypeInv, HandsOK
  <2>2. QED BY <1>3, <2>1, MovedType, WriteAndDone DEF CancelWrites, JobStates
<1>4. QED BY <1>1, <1>2, <1>3

LEMMA CycleType ==
  ASSUME TypeInv, NEW w \in Workers,
         \/ ReclaimLists(w) \/ ReclaimWrites(w) \/ SelectClaims(w) \/ ClaimJob(w)
         \/ CycleEnds(w)
  PROVE  TypeInv'
<1> w \in Threads BY DEF Threads
<1>1. ASSUME NEW S, \A job \in S : job \in JobRecord /\ job.id \in DOMAIN jobs,
             todo' = [todo EXCEPT ![w] = S], UNCHANGED <<jobs, rows, objects, cur, found, bytes, aborts>>,
             Goto(w, "reclaiming") \/ Goto(w, "processing")
      PROVE  TypeInv'
  <2>1. Others(w) BY <1>1 DEF Goto, Others, TypeInv, TypeOK
  <2>2. HandsOK(w)' BY <1>1 DEF Goto, HandsOK, RenderPCs, TypeInv, TypeOK
  <2>3. QED BY <1>1, <2>1, <2>2, ReadType DEF Goto, TypeInv, TypeOK, WorkerPCs
<1>2. CASE ReclaimLists(w)
  <2>1. \A job \in {job \in OpenJobs(ListLimit) : IsAbandoned(job)} :
          job \in JobRecord /\ job.id \in DOMAIN jobs
        BY OpenJobsType DEF TypeInv
  <2>2. QED BY <1>1, <1>2, <2>1 DEF ReclaimLists
<1>3. CASE SelectClaims(w)
  <2>1. \A job \in Claims : job \in JobRecord /\ job.id \in DOMAIN jobs
        BY OpenJobsType DEF TypeInv, Claims
  <2>2. QED BY <1>1, <1>3, <2>1 DEF SelectClaims
<1>4. CASE ReclaimWrites(w)
  <2>1. PICK job \in todo[w] : /\ UpdateJob(Moved(job, "queued"))
                               /\ todo' = [todo EXCEPT ![w] = @ \ {job}]
        BY <1>4 DEF ReclaimWrites
  <2>2. job \in JobRecord /\ job.id \in DOMAIN jobs BY DEF TypeInv, TypeOK, HandsOK
  <2>3. Moved(job, "queued") \in JobRecord /\ Moved(job, "queued").id \in DOMAIN jobs
        BY <2>2, MovedType DEF JobStates, OpenStates
  <2>4. jobs' \in Seq(JobRecord) /\ Keyed' /\ DOMAIN jobs = DOMAIN jobs'
        BY <2>1, <2>3, UpdateJobType DEF TypeInv
  <2>5. TypeOK' BY <1>4, <2>1, <2>4 DEF ReclaimWrites, TypeInv, TypeOK
  <2>6. Others(w) BY <1>4, <2>1 DEF ReclaimWrites, Others, TypeInv, TypeOK
  <2>7. HandsOK(w)'
        BY <1>4, <2>1, <2>4 DEF ReclaimWrites, HandsOK, RenderPCs, TypeInv, TypeOK
  <2>8. QED BY <2>4, <2>5, <2>6, <2>7, StepType
<1>5. CASE ClaimJob(w)
  <2> DEFINE Claimed(job) == [job EXCEPT !.state = "rendering", !.lease = "live"]
  <2>1. PICK job \in todo[w] :
          /\ UpdateJob(Claimed(job)) /\ cur' = [cur EXCEPT ![w] = Claimed(job)]
          /\ todo' = [todo EXCEPT ![w] = @ \ {job}]
        BY <1>5 DEF ClaimJob
  <2>2. job \in JobRecord /\ job.id \in DOMAIN jobs BY DEF TypeInv, TypeOK, HandsOK
  <2>3. Claimed(job) \in JobRecord /\ Claimed(job).id \in DOMAIN jobs
        BY <2>2 DEF JobRecord, JobStates, OpenStates
  <2> HIDE DEF Claimed
  <2>4. jobs' \in Seq(JobRecord) /\ Keyed' /\ DOMAIN jobs = DOMAIN jobs'
        BY <2>1, <2>3, UpdateJobType DEF TypeInv
  <2>5. TypeOK' BY <1>5, <2>1, <2>3, <2>4 DEF ClaimJob, Goto, TypeInv, TypeOK, RenderPCs
  <2>6. Others(w) BY <1>5, <2>1 DEF ClaimJob, Goto, Others, TypeInv, TypeOK
  <2>7. HandsOK(w)'
        BY <1>5, <2>1, <2>3, <2>4 DEF ClaimJob, Goto, HandsOK, RenderPCs, TypeInv, TypeOK
  <2>8. QED BY <2>4, <2>5, <2>6, <2>7, StepType
<1>6. CASE CycleEnds(w)
  <2>1. Others(w) BY <1>6 DEF CycleEnds, Goto, Others, TypeInv, TypeOK
  <2>2. HandsOK(w)' BY <1>6 DEF CycleEnds, Goto, HandsOK, RenderPCs, TypeInv, TypeOK
  <2>3. QED BY <1>6, <2>1, <2>2, ReadType DEF CycleEnds, Goto, TypeInv, TypeOK, WorkerPCs
<1>7. QED BY <1>2, <1>3, <1>4, <1>5, <1>6

LEMMA RenderType ==
  ASSUME TypeInv, NEW t \in Threads,
         \/ RenderSucceeds(t) \/ CompleteFinds(t) \/ CommitBytes(t) \/ Confirm(t)
         \/ CompleteChecks(t) \/ FailFinds(t)
  PROVE  TypeInv'
<1>1. CASE RenderSucceeds(t)
  <2>1. Others(t) BY <1>1 DEF RenderSucceeds, Goto, Others, TypeInv, TypeOK
  <2>2. HandsOK(t)' BY <1>1 DEF RenderSucceeds, Goto, HandsOK, RenderPCs, TypeInv, TypeOK
  <2>3. QED BY <1>1, <2>1, <2>2, ReadType DEF RenderSucceeds, Goto, TypeInv, TypeOK, RenderPCs
<1>2. CASE CompleteFinds(t)
  <2>1. rows[cur[t].target] \in RenditionRow \cup {None}
        BY <1>2 DEF CompleteFinds, TypeInv, TypeOK, HandsOK, RenderPCs, JobRecord
  <2>2. Others(t) BY <1>2 DEF CompleteFinds, Goto, Others, TypeInv, TypeOK
  <2>3. HandsOK(t)' BY <1>2 DEF CompleteFinds, Goto, HandsOK, RenderPCs, TypeInv, TypeOK
  <2>4. QED BY <1>2, <2>1, <2>2, <2>3, ReadType
            DEF CompleteFinds, Goto, TypeInv, TypeOK, RenderPCs
<1>3. CASE CommitBytes(t)
  <2>1. bytes[t] \in Contents BY <1>3 DEF CommitBytes, TypeInv, HandsOK
  <2>2. TypeOK' BY <1>3, <2>1 DEF CommitBytes, Goto, TypeInv, TypeOK, RenderPCs
  <2>3. Others(t) BY <1>3 DEF CommitBytes, Goto, Others, TypeInv, TypeOK
  <2>4. HandsOK(t)' BY <1>3 DEF CommitBytes, Goto, HandsOK, RenderPCs, TypeInv, TypeOK
  <2>5. Keyed' /\ DOMAIN jobs = DOMAIN jobs' BY <1>3 DEF CommitBytes, TypeInv, Keyed
  <2>6. QED BY <2>2, <2>3, <2>4, <2>5, StepType
<1>4. CASE Confirm(t)
  <2>1. Others(t) BY <1>4 DEF Confirm, Goto, Others, TypeInv, TypeOK
  <2>2. HandsOK(t)' BY <1>4 DEF Confirm, Goto, HandsOK, RenderPCs, TypeInv, TypeOK
  <2>3. QED BY <1>4, <2>1, <2>2, ReadType DEF Confirm, Goto, TypeInv, TypeOK, RenderPCs
<1>5. ASSUME Done(t), UNCHANGED <<jobs, rows, objects, todo, aborts>> PROVE TypeInv'
      BY <1>5, DoneType DEF TypeInv, TypeOK, Keyed
<1>6. CASE CompleteChecks(t)
  <2>1. CASE Done(t) BY <1>5, <1>6, <2>1 DEF CompleteChecks
  <2>2. CASE ~Done(t)
    <3>1. cur[t] \in JobRecord /\ cur[t].id \in DOMAIN jobs
          BY <1>6 DEF CompleteChecks, TypeInv, HandsOK, RenderPCs
    <3>2. Fresh(cur[t]) \in JobRecord /\ Fresh(cur[t]).id \in DOMAIN jobs
          BY <3>1, JobsType DEF Fresh, TypeInv, Keyed
    <3>3. /\ cur' = [cur EXCEPT ![t] = Fresh(cur[t])] /\ Goto(t, "finding")
          /\ pc[t] = "completing"
          /\ UNCHANGED <<found, bytes, todo, jobs, rows, objects, aborts>>
          BY <1>6, <2>2 DEF CompleteChecks, TypeInv, TypeOK
    <3>4. Others(t) BY <3>3 DEF Goto, Others, TypeInv, TypeOK
    <3>5. HandsOK(t)' BY <3>2, <3>3 DEF Goto, HandsOK, RenderPCs, TypeInv, TypeOK
    <3>6. QED BY <3>2, <3>3, <3>4, <3>5, ReadType DEF Goto, TypeInv, TypeOK, RenderPCs
  <2>3. QED BY <2>1, <2>2
<1>7. CASE FailFinds(t)
  <2>1. CASE Done(t) BY <1>5, <1>7, <2>1 DEF FailFinds
  <2>2. CASE ~Done(t)
    <3>1. cur[t].target \in Targets
          BY <1>7 DEF FailFinds, TypeInv, HandsOK, RenderPCs, JobRecord
    <3>2. rows[cur[t].target] \in RenditionRow
          BY <1>7, <2>2, <3>1 DEF FailFinds, TypeInv, TypeOK
    <3>3. /\ found' = [found EXCEPT ![t] = rows[cur[t].target]] /\ Goto(t, "marking")
          /\ pc[t] = "failing"
          /\ UNCHANGED <<cur, bytes, todo, jobs, rows, objects, aborts>>
          BY <1>7, <2>2 DEF FailFinds
    <3>4. Others(t) BY <3>3 DEF Goto, Others, TypeInv, TypeOK
    <3>5. HandsOK(t)' BY <3>2, <3>3 DEF Goto, HandsOK, RenderPCs, TypeInv, TypeOK
    <3>6. QED BY <3>2, <3>3, <3>4, <3>5, ReadType DEF Goto, TypeInv, TypeOK, RenderPCs
  <2>3. QED BY <2>1, <2>2
<1>8. QED BY <1>1, <1>2, <1>3, <1>4, <1>6, <1>7

LEMMA JobWriteType ==
  ASSUME TypeInv, NEW t \in Threads, Requeues(t) \/ RenderFails(t) \/ ProfileRefuses(t) \/ Finish(t)
  PROVE  TypeInv'
<1>1. cur[t] \in JobRecord /\ cur[t].id \in DOMAIN jobs
      BY DEF Requeues, RenderFails, ProfileRefuses, Finish, TypeInv, HandsOK, RenderPCs
<1>2. CASE Requeues(t)
  <2> DEFINE job == [Moved(cur[t], "queued") EXCEPT !.attempt = @ + 1]
  <2>1. job \in JobRecord /\ job.id \in DOMAIN jobs
        BY <1>1, MovedType DEF JobRecord, JobStates, OpenStates
  <2>2. UpdateJob(job) /\ Done(t) /\ UNCHANGED <<rows, objects, todo, aborts>>
        BY <1>2 DEF Requeues
  <2> HIDE DEF job
  <2>3. QED BY <2>1, <2>2, WriteAndDone
<1>3. CASE Finish(t)
  <2> DEFINE job == [Moved(cur[t], "ready") EXCEPT !.rendition = found[t].id]
  <2>1. found[t].id \in RenditionIds BY <1>3 DEF Finish, TypeInv, HandsOK, RenditionRow
  <2>2. job \in JobRecord /\ job.id \in DOMAIN jobs
        BY <1>1, <2>1, MovedType DEF JobRecord, JobStates
  <2>3. UpdateJob(job) /\ Done(t) /\ UNCHANGED <<rows, objects, todo, aborts>>
        BY <1>3 DEF Finish
  <2> HIDE DEF job
  <2>4. QED BY <2>2, <2>3, WriteAndDone
<1>4. CASE FailRender(t)
  <2> DEFINE job == Moved(cur[t], "failed")
  <2>1. job \in JobRecord /\ job.id \in DOMAIN jobs BY <1>1, MovedType DEF JobStates
  <2>2. /\ UpdateJob(job) /\ cur' = [cur EXCEPT ![t] = job] /\ Goto(t, "failing")
        /\ UNCHANGED <<rows, objects, found, bytes, todo, aborts>>
        BY <1>4 DEF FailRender, TypeInv, TypeOK
  <2> HIDE DEF job
  <2>3. jobs' \in Seq(JobRecord) /\ Keyed' /\ DOMAIN jobs = DOMAIN jobs'
        BY <2>1, <2>2, UpdateJobType DEF TypeInv
  <2>4. TypeOK' BY <2>1, <2>2, <2>3 DEF Goto, TypeInv, TypeOK, RenderPCs
  <2>5. Others(t) BY <2>2 DEF Goto, Others, TypeInv, TypeOK
  <2>6. HandsOK(t)' BY <2>1, <2>2, <2>3 DEF Goto, HandsOK, RenderPCs, TypeInv, TypeOK
  <2>7. QED BY <2>3, <2>4, <2>5, <2>6, StepType
<1>5. QED BY <1>2, <1>3, <1>4 DEF RenderFails, ProfileRefuses

\* The row that PublishRow writes.
PublishedRow(t) ==
  [id |-> IF found[t] = None THEN <<cur[t].id, t>> ELSE found[t].id,
   state |-> "ready", key |-> bytes[t], job |-> cur[t].id]

LEMMA PublishedRowType ==
  ASSUME TypeInv, NEW t \in Threads, cur[t] \in JobRecord, PublishRow(t)
  PROVE  PublishedRow(t) \in RenditionRow
<1>1. bytes[t] \in Contents BY DEF PublishRow, TypeInv, HandsOK
<1>2. cur[t].id \in Nat BY DEF JobRecord
<1>3. (IF found[t] = None THEN <<cur[t].id, t>> ELSE found[t].id) \in RenditionIds
      BY <1>2 DEF RenditionIds, TypeInv, TypeOK, RenditionRow
<1>4. QED BY <1>1, <1>2, <1>3 DEF PublishedRow, RenditionRow

LEMMA RowWriteType ==
  ASSUME TypeInv, NEW t \in Threads, PublishRow(t) \/ Discard(t) \/ FailMarks(t)
  PROVE  TypeInv'
<1>1. cur[t] \in JobRecord /\ cur[t].id \in DOMAIN jobs /\ cur[t].target \in Targets
      BY DEF PublishRow, Discard, FailMarks, TypeInv, HandsOK, RenderPCs, JobRecord
<1>2. Keyed' /\ DOMAIN jobs = DOMAIN jobs' /\ jobs' \in Seq(JobRecord)
      BY DEF PublishRow, Discard, FailMarks, TypeInv, TypeOK, Keyed
<1>3. ASSUME NEW row \in RenditionRow, UpdateRendition(cur[t].target, row), Done(t),
             UNCHANGED <<jobs, objects, todo, aborts>>
      PROVE  TypeInv'
      BY <1>1, <1>2, <1>3, RowsType, DoneType DEF TypeInv, TypeOK
<1>4. CASE Discard(t)
  <2>1. [found[t] EXCEPT !.state = "failed"] \in RenditionRow
        BY <1>4 DEF Discard, TypeInv, HandsOK, RenditionRow
  <2>2. QED BY <1>3, <1>4, <2>1 DEF Discard
<1>5. CASE FailMarks(t)
  <2>1. [found[t] EXCEPT !.state = "failed", !.job = cur[t].id] \in RenditionRow
        BY <1>1, <1>5 DEF FailMarks, TypeInv, HandsOK, RenditionRow, JobRecord
  <2>2. QED BY <1>3, <1>5, <2>1 DEF FailMarks
<1>6. CASE PublishRow(t)
  <2> DEFINE row == PublishedRow(t)
  <2>1. row \in RenditionRow BY <1>1, <1>6, PublishedRowType
  <2>2. /\ UpdateRendition(cur[t].target, row) \/ RegisterRendition(cur[t].target, row)
        /\ found' = [found EXCEPT ![t] = row] /\ Goto(t, "confirming")
        /\ UNCHANGED <<jobs, objects, cur, bytes, todo, aborts>>
        BY <1>6 DEF PublishRow, PublishedRow
  <2> HIDE DEF row
  <2>3. rows' \in [Targets -> RenditionRow \cup {None}]
        BY <1>1, <2>1, <2>2, RowsType DEF TypeInv
  <2>4. TypeOK' BY <1>2, <2>1, <2>2, <2>3 DEF Goto, TypeInv, TypeOK, RenderPCs
  <2>5. Others(t) BY <2>2 DEF Goto, Others, TypeInv, TypeOK
  <2>6. HandsOK(t)' BY <1>1, <1>2, <2>1, <2>2 DEF Goto, HandsOK, RenderPCs, TypeInv, TypeOK
  <2>7. QED BY <1>2, <2>4, <2>5, <2>6, StepType
<1>7. QED BY <1>4, <1>5, <1>6

\* A lease that lapses is a write of the row with one field changed.
LEMMA ExpiredJob ==
  ASSUME TypeInv, NEW j \in DOMAIN jobs, LeaseExpires(j)
  PROVE  LET job == [jobs[j] EXCEPT !.lease = "expired"]
         IN  job \in JobRecord /\ job.id = j /\ UpdateJob(job)
<1>1. jobs[j] \in JobRecord /\ jobs[j].id = j BY JobsType DEF TypeInv, Keyed
<1>2. QED BY <1>1 DEF LeaseExpires, UpdateJob, JobRecord

LEMMA EnvironmentType ==
  ASSUME TypeInv,
         (\E t \in Threads : Abort(t)) \/ (\E j \in DOMAIN jobs : LeaseExpires(j))
  PROVE  TypeInv'
<1>1. ASSUME NEW t \in Threads, Abort(t) PROVE TypeInv'
  <2>0. AbortBound \in Nat BY ConstantsAssumption
  <2>1. aborts + 1 \in 0..AbortBound BY <1>1, <2>0 DEF Abort, TypeInv, TypeOK
  <2>2. TypeOK' BY <1>1, <2>1 DEF Abort, TypeInv, TypeOK, ClientPCs
  <2>3. Others(t) BY <1>1 DEF Abort, Others, TypeInv, TypeOK
  <2>4. HandsOK(t)' BY <1>1 DEF Abort, HandsOK, RenderPCs, TypeInv, TypeOK
  <2>5. Keyed' /\ DOMAIN jobs = DOMAIN jobs' BY <1>1 DEF Abort, TypeInv, Keyed
  <2>6. QED BY <2>2, <2>3, <2>4, <2>5, StepType
<1>2. ASSUME NEW j \in DOMAIN jobs, LeaseExpires(j) PROVE TypeInv'
  <2> DEFINE job == [jobs[j] EXCEPT !.lease = "expired"]
  <2>1. job \in JobRecord /\ job.id \in DOMAIN jobs /\ UpdateJob(job) BY <1>2, ExpiredJob
  <2> HIDE DEF job
  <2>2. jobs' \in Seq(JobRecord) /\ Keyed' /\ DOMAIN jobs = DOMAIN jobs'
        BY <2>1, UpdateJobType DEF TypeInv
  <2>3. UNCHANGED <<rows, objects, pc, cur, found, bytes, todo, aborts>>
        BY <1>2 DEF LeaseExpires, local
  <2>4. TypeOK' BY <2>2, <2>3 DEF TypeInv, TypeOK
  <2>5. QED BY <2>2, <2>3, <2>4 DEF TypeInv, HandsOK
<1>3. QED BY <1>1, <1>2

\* Stuttering.
LEMMA StutterType == TypeInv /\ UNCHANGED vars => TypeInv'
BY DEF TypeInv, TypeOK, Keyed, HandsOK, vars

(***************************************************************************)
(* The tables and the locals of every thread keep their types, and a       *)
(* thread never holds a job that is not registered nor lacks the value its *)
(* next step uses, however many threads run.                               *)
(***************************************************************************)
LEMMA TypeStep == TypeInv /\ [Next]_vars => TypeInv'
<1> SUFFICES ASSUME TypeInv, [Next]_vars PROVE TypeInv' OBVIOUS
<1>1. ASSUME NEW t \in Threads, RenderStep(t) PROVE TypeInv'
      BY <1>1, RenderType, JobWriteType, RowWriteType DEF RenderStep
<1>2. ASSUME NEW c \in Clients, RequestFinds(c) \/ CancelReads(c) \/ ClientStep(c)
      PROVE  TypeInv'
      BY <1>1, <1>2, RequestType, ClientWriteType DEF ClientStep, Threads
<1>3. ASSUME NEW w \in Workers, WorkerStep(w) PROVE TypeInv'
      BY <1>1, <1>3, CycleType, JobWriteType DEF WorkerStep, Threads
<1>4. QED BY <1>2, <1>3, EnvironmentType, StutterType DEF Next

THEOREM TypeInvariant == Spec => []TypeInv
BY InitType, TypeStep, PTL DEF Spec

THEOREM TypeCorrect == Spec => []TypeOK
<1>1. TypeInv => TypeOK BY DEF TypeInv
<1>2. QED BY <1>1, TypeInvariant, PTL

-----------------------------------------------------------------------------
(***************************************************************************)
(* The leases of heavy jobs.  A thread writes back copies of records, so   *)
(* the invariant speaks of those it has in hand as well.                   *)
(***************************************************************************)
LeaseOK(job) == job.state = "rendering" /\ job.target \in Heavy => job.lease # "none"

CopiesOK(t) ==
  /\ pc[t] \in {"listing", "counting", "registering"} => cur[t].state = "queued"
  /\ pc[t] = "starting" => cur[t].target \notin Heavy

JobInv ==
  /\ \A j \in DOMAIN jobs : LeaseOK(jobs[j])
  /\ \A t \in Threads : CopiesOK(t)

(***************************************************************************)
(* Bytes before row before job.                                            *)
(***************************************************************************)
ReadyOK(job) ==
  job.state = "ready" => job.rendition # None /\ rows[job.target] # None

PublicationOK(t) ==
  /\ pc[t] \in {"listing", "counting", "registering"} => cur[t].state = "queued"
  /\ pc[t] \in {"committing", "publishing"} /\ found[t] # None => rows[cur[t].target] # None
  /\ pc[t] = "publishing" => bytes[t] \in objects
  /\ pc[t] \in {"confirming", "finishing"} => rows[cur[t].target] # None

RowInv ==
  /\ ServedBytesExist
  /\ \A j \in DOMAIN jobs : ReadyOK(jobs[j])
  /\ \A t \in Threads : PublicationOK(t)

-----------------------------------------------------------------------------
\* Every step is of one thread or of the environment, and a thread's step
\* changes no locals but its own.
LEMMA OthersKept ==
  ASSUME TypeInv, NEW t \in Threads,
         \/ t \in Clients /\ (RequestFinds(t) \/ CancelReads(t) \/ ClientStep(t))
         \/ t \in Workers /\ WorkerStep(t)
         \/ Abort(t)
  PROVE  Others(t)
<1>1. ASSUME RenderStep(t) PROVE Others(t)
  <2>1. CASE RenderSucceeds(t) \/ RenderFails(t) \/ FailFinds(t) \/ FailMarks(t)
        BY <2>1 DEF RenderSucceeds, RenderFails, FailRender, FailFinds, FailMarks,
                    Done, Goto, Others, TypeInv, TypeOK
  <2>2. CASE CompleteChecks(t) \/ ProfileRefuses(t) \/ CompleteFinds(t) \/ CommitBytes(t)
        BY <2>2 DEF CompleteChecks, ProfileRefuses, FailRender, CompleteFinds, CommitBytes,
                    Done, Goto, Others, TypeInv, TypeOK
  <2>3. CASE PublishRow(t) \/ Confirm(t) \/ Discard(t) \/ Finish(t)
        BY <2>3 DEF PublishRow, Confirm, Discard, Finish, Done, Goto, Others, TypeInv, TypeOK
  <2>4. QED BY <1>1, <2>1, <2>2, <2>3 DEF RenderStep
<1>2. ASSUME RequestFinds(t) \/ CancelReads(t) \/ ClientStep(t) PROVE Others(t)
  <2>1. CASE RequestFinds(t) \/ CancelReads(t) \/ RequestLists(t) \/ RequestCounts(t)
        BY <2>1 DEF RequestFinds, CancelReads, RequestLists, RequestCounts,
                    Done, Goto, Others, TypeInv, TypeOK
  <2>2. CASE RequestRegisters(t) \/ SyncStarts(t) \/ CancelWrites(t)
        BY <2>2 DEF RequestRegisters, SyncStarts, CancelWrites,
                    Done, Goto, Others, TypeInv, TypeOK
  <2>3. QED BY <1>1, <1>2, <2>1, <2>2 DEF ClientStep
<1>3. ASSUME WorkerStep(t) PROVE Others(t)
  <2>1. CASE ReclaimLists(t) \/ ReclaimWrites(t) \/ SelectClaims(t)
        BY <2>1 DEF ReclaimLists, ReclaimWrites, SelectClaims, Goto, Others, TypeInv, TypeOK
  <2>2. CASE ClaimJob(t) \/ CycleEnds(t) \/ Requeues(t)
        BY <2>2 DEF ClaimJob, CycleEnds, Requeues, Done, Goto, Others, TypeInv, TypeOK
  <2>3. QED BY <1>1, <1>3, <2>1, <2>2 DEF WorkerStep
<1>4. ASSUME Abort(t) PROVE Others(t)
      BY <1>4 DEF Abort, Others, TypeInv, TypeOK
<1>5. QED BY <1>2, <1>3, <1>4

\* The job a thread is about to write or to render.
LEMMA CurType ==
  ASSUME TypeInv, NEW t \in Threads
  PROVE  /\ pc[t] \in RenderPCs \cup {"starting", "cancelling"} =>
              cur[t] \in JobRecord /\ cur[t].id \in DOMAIN jobs
         /\ pc[t] \in {"listing", "counting", "registering"} => cur[t] \in JobRecord
BY DEF TypeInv, HandsOK

LEMMA JobInvInit == Init => JobInv
<1>1. DOMAIN <<>> = {} BY EmptySeq
<1>2. QED BY <1>1 DEF Init, JobInv, CopiesOK, RenderPCs

LEMMA JobFrame ==
  ASSUME TypeInv, JobInv, NEW t \in Threads, Others(t), CopiesOK(t)',
         \A j \in DOMAIN jobs' : LeaseOK(jobs'[j])
  PROVE  JobInv'
<1>1. ASSUME NEW u \in Threads \ {t} PROVE CopiesOK(u)'
      BY <1>1 DEF Others, CopiesOK, JobInv
<1>2. QED BY <1>1 DEF JobInv, LeaseOK

LEMMA JobWrite ==
  ASSUME TypeInv, JobInv, NEW job \in JobRecord, job.id \in DOMAIN jobs, UpdateJob(job),
         LeaseOK(job)
  PROVE  \A j \in DOMAIN jobs' : LeaseOK(jobs'[j])
BY UpdateJobType DEF TypeInv, JobInv

LEMMA CopiesDone ==
  ASSUME TypeInv, JobInv, NEW t \in Threads, Done(t), UNCHANGED todo
  PROVE  CopiesOK(t)'
BY DEF Done, CopiesOK, JobInv, TypeInv, TypeOK, RenderPCs

\* The copies after a step that writes no job.
LEMMA CopiesRead ==
  ASSUME TypeInv, JobInv, NEW t \in Threads,
         \/ t \in Clients /\ (RequestFinds(t) \/ CancelReads(t) \/ RequestLists(t) \/ RequestCounts(t))
         \/ t \in Workers /\ (ReclaimLists(t) \/ SelectClaims(t) \/ CycleEnds(t))
         \/ RenderSucceeds(t) \/ FailFinds(t) \/ FailMarks(t) \/ CompleteChecks(t)
         \/ CompleteFinds(t) \/ CommitBytes(t) \/ PublishRow(t) \/ Confirm(t) \/ Discard(t)
         \/ Abort(t)
  PROVE  CopiesOK(t)'
<1>1. CASE RequestFinds(t)
      BY <1>1, ConstantsAssumption
      DEF RequestFinds, Draft, Goto, CopiesOK, JobInv, TypeInv, TypeOK, RenderPCs
<1>2. CASE CancelReads(t)
      BY <1>2 DEF CancelReads, Goto, CopiesOK, JobInv, TypeInv, TypeOK, RenderPCs
<1>3. CASE Done(t) /\ UNCHANGED todo BY <1>3, CopiesDone
<1>4. CASE RequestLists(t) /\ ~Done(t)
  <2>1. cur' = [cur EXCEPT ![t] = [cur[t] EXCEPT !.attempt = Cardinality(JobsOf(cur[t].target)) + 1]]
        BY <1>4 DEF RequestLists, TypeInv, TypeOK
  <2>2. cur[t] \in JobRecord BY <1>4, CurType DEF RequestLists
  <2>3. QED BY <1>4, <2>1, <2>2
            DEF RequestLists, Goto, CopiesOK, JobInv, TypeInv, TypeOK, RenderPCs, JobRecord
<1>5. CASE RequestCounts(t) /\ ~Done(t)
      BY <1>5 DEF RequestCounts, Goto, CopiesOK, JobInv, TypeInv, TypeOK, RenderPCs
<1>7. CASE ReclaimLists(t)
      BY <1>7 DEF ReclaimLists, Goto, CopiesOK, JobInv, TypeInv, TypeOK, RenderPCs
<1>8. CASE SelectClaims(t)
      BY <1>8 DEF SelectClaims, Goto, CopiesOK, JobInv, TypeInv, TypeOK, RenderPCs
<1>9. CASE CycleEnds(t)
      BY <1>9 DEF CycleEnds, Goto, CopiesOK, JobInv, TypeInv, TypeOK, RenderPCs
<1>10. CASE CompleteChecks(t) /\ ~Done(t)
      BY <1>10 DEF CompleteChecks, Goto, CopiesOK, JobInv, TypeInv, TypeOK, RenderPCs
<1>11. CASE FailFinds(t) /\ ~Done(t)
      BY <1>11 DEF FailFinds, Goto, CopiesOK, JobInv, TypeInv, TypeOK, RenderPCs
<1>12. CASE RenderSucceeds(t) \/ CompleteFinds(t) \/ CommitBytes(t)
      BY <1>12 DEF RenderSucceeds, CompleteFinds, CommitBytes,
         Goto, CopiesOK, JobInv, TypeInv, TypeOK, RenderPCs
<1>13. CASE PublishRow(t) \/ Confirm(t)
      BY <1>13 DEF PublishRow, Confirm, Goto, CopiesOK, JobInv, TypeInv, TypeOK, RenderPCs
<1>14. CASE Abort(t)
      BY <1>14 DEF Abort, CopiesOK, JobInv, TypeInv, TypeOK, RenderPCs
<1>15. RequestLists(t) \/ RequestCounts(t) \/ CompleteChecks(t) \/ FailFinds(t) \/ FailMarks(t)
          \/ Discard(t) => UNCHANGED todo
      BY DEF RequestLists, RequestCounts, CompleteChecks, FailFinds, FailMarks, Discard
<1>16. FailMarks(t) \/ Discard(t) => Done(t) BY DEF FailMarks, Discard
<1>17. QED BY <1>1, <1>2, <1>3, <1>4, <1>5, <1>7, <1>8, <1>9, <1>10, <1>11, <1>12, <1>13,
              <1>14, <1>15, <1>16

LEMMA JobInvRead ==
  ASSUME TypeInv, JobInv, NEW t \in Threads,
         \/ t \in Clients /\ (RequestFinds(t) \/ CancelReads(t) \/ RequestLists(t) \/ RequestCounts(t))
         \/ t \in Workers /\ (ReclaimLists(t) \/ SelectClaims(t) \/ CycleEnds(t))
         \/ RenderSucceeds(t) \/ FailFinds(t) \/ FailMarks(t) \/ CompleteChecks(t)
         \/ CompleteFinds(t) \/ CommitBytes(t) \/ PublishRow(t) \/ Confirm(t) \/ Discard(t)
         \/ Abort(t)
  PROVE  JobInv'
<1>1. CopiesOK(t)' BY CopiesRead
<1>2. Others(t) BY OthersKept DEF ClientStep, WorkerStep, RenderStep, Threads
<1>3. jobs' = jobs
      BY DEF RequestFinds, CancelReads, RequestLists, RequestCounts, ReclaimLists, SelectClaims,
             CycleEnds, RenderSucceeds, FailFinds, FailMarks, CompleteChecks, CompleteFinds,
             CommitBytes, PublishRow, Confirm, Discard, Abort
<1>4. QED BY <1>1, <1>2, <1>3, JobFrame DEF JobInv

LEMMA JobInvClient ==
  ASSUME TypeInv, JobInv, NEW c \in Clients,
         RequestRegisters(c) \/ SyncStarts(c) \/ CancelWrites(c)
  PROVE  JobInv'
<1> c \in Threads BY DEF Threads
<1>0. Others(c) BY OthersKept DEF ClientStep
<1>1. CASE RequestRegisters(c)
  <2> DEFINE job == [cur[c] EXCEPT !.id = Len(jobs) + 1]
  <2>1. cur[c] \in JobRecord /\ cur[c].state = "queued"
        BY <1>1, CurType DEF RequestRegisters, JobInv, CopiesOK
  <2>2. /\ job \in JobRecord /\ job.id = Len(jobs) + 1 /\ LeaseOK(job)
        /\ job.target = cur[c].target
        BY <2>1, JobsType DEF JobRecord, TypeInv, LeaseOK
  <2>3. jobs' = Append(jobs, job) /\ UNCHANGED todo BY <1>1 DEF RequestRegisters
  <2>4. \/ Done(c)
        \/ /\ job.target \notin Heavy /\ Goto(c, "starting")
           /\ cur' = [cur EXCEPT ![c] = job]
        BY <1>1 DEF RequestRegisters
  <2> HIDE DEF job
  <2>5. \A j \in DOMAIN jobs' : LeaseOK(jobs'[j])
        BY <2>2, <2>3, AppendType DEF TypeInv, JobInv
  <2>6. CASE Done(c) BY <1>0, <2>3, <2>5, <2>6, CopiesDone, JobFrame
  <2>7. CASE ~Done(c)
    <3>1. CopiesOK(c)'
          BY <2>2, <2>3, <2>4, <2>7
          DEF Goto, CopiesOK, JobInv, TypeInv, TypeOK, RenderPCs
    <3>2. QED BY <1>0, <2>5, <3>1, JobFrame
  <2>8. QED BY <2>6, <2>7
<1>2. CASE SyncStarts(c)
  <2> DEFINE job == [cur[c] EXCEPT !.state = "rendering"]
  <2>1. /\ cur[c] \in JobRecord /\ cur[c].id \in DOMAIN jobs
        /\ cur[c].target \notin Heavy
        BY <1>2, CurType DEF SyncStarts, JobInv, CopiesOK
  <2>2. job \in JobRecord /\ job.id \in DOMAIN jobs /\ LeaseOK(job)
        BY <2>1 DEF JobRecord, JobStates, OpenStates, LeaseOK
  <2>3. /\ UpdateJob(job) /\ cur' = [cur EXCEPT ![c] = job] /\ Goto(c, "rendering")
        /\ UNCHANGED todo
        BY <1>2 DEF SyncStarts
  <2> HIDE DEF job
  <2>4. CopiesOK(c)'
        BY <2>2, <2>3 DEF Goto, CopiesOK, JobInv, TypeInv, TypeOK, RenderPCs
  <2>5. QED BY <1>0, <2>2, <2>3, <2>4, JobWrite, JobFrame
<1>3. CASE CancelWrites(c)
  <2>1. cur[c] \in JobRecord /\ cur[c].id \in DOMAIN jobs
        BY <1>3, CurType DEF CancelWrites, JobInv, CopiesOK
  <2>2. Moved(cur[c], "cancelled") \in JobRecord /\ Moved(cur[c], "cancelled").id \in DOMAIN jobs
        BY <2>1, MovedType DEF JobStates
  <2>3. LeaseOK(Moved(cur[c], "cancelled"))
        BY <2>1, MovedType DEF JobStates, LeaseOK
  <2>4. QED BY <1>0, <1>3, <2>2, <2>3, JobWrite, CopiesDone, JobFrame DEF CancelWrites
<1>4. QED BY <1>1, <1>2, <1>3

LEMMA JobInvWorker ==
  ASSUME TypeInv, JobInv, NEW w \in Workers,
         ReclaimWrites(w) \/ ClaimJob(w) \/ Requeues(w)
  PROVE  JobInv'
<1> w \in Threads BY DEF Threads
<1>0. Others(w) BY OthersKept DEF WorkerStep
<1>1. ASSUME NEW job \in todo[w]
      PROVE  job \in JobRecord /\ job.id \in DOMAIN jobs
      BY DEF TypeInv, TypeOK, HandsOK, JobInv, CopiesOK
<1>2. CASE ReclaimWrites(w)
  <2>1. PICK job \in todo[w] : UpdateJob(Moved(job, "queued"))
                               /\ todo' = [todo EXCEPT ![w] = @ \ {job}]
        BY <1>2 DEF ReclaimWrites
  <2>2. Moved(job, "queued") \in JobRecord /\ Moved(job, "queued").id \in DOMAIN jobs
        BY <1>1, MovedType DEF JobStates, OpenStates
  <2>3. LeaseOK(Moved(job, "queued"))
        BY <1>1, MovedType DEF JobStates, OpenStates, LeaseOK
  <2>4. CopiesOK(w)'
        BY <1>2, <2>1 DEF ReclaimWrites, CopiesOK, JobInv, TypeInv, TypeOK, RenderPCs
  <2>5. QED BY <1>0, <2>1, <2>2, <2>3, <2>4, JobWrite, JobFrame
<1>3. CASE ClaimJob(w)
  <2> DEFINE Claimed(job) == [job EXCEPT !.state = "rendering", !.lease = "live"]
  <2>1. PICK job \in todo[w] :
          /\ UpdateJob(Claimed(job)) /\ cur' = [cur EXCEPT ![w] = Claimed(job)]
          /\ todo' = [todo EXCEPT ![w] = @ \ {job}]
        BY <1>3 DEF ClaimJob
  <2>2. /\ Claimed(job) \in JobRecord /\ Claimed(job).id \in DOMAIN jobs
        /\ LeaseOK(Claimed(job))
        BY <1>1 DEF JobRecord, JobStates, OpenStates, LeaseOK
  <2> HIDE DEF Claimed
  <2>3. CopiesOK(w)'
        BY <1>3, <2>1, <2>2
        DEF ClaimJob, Goto, CopiesOK, JobInv, TypeInv, TypeOK, RenderPCs
  <2>4. QED BY <1>0, <2>1, <2>2, <2>3, JobWrite, JobFrame
<1>4. CASE Requeues(w)
  <2> DEFINE job == [Moved(cur[w], "queued") EXCEPT !.attempt = @ + 1]
  <2>1. cur[w] \in JobRecord /\ cur[w].id \in DOMAIN jobs
        BY <1>4, CurType DEF Requeues, RenderPCs
  <2>2. job \in JobRecord /\ job.id \in DOMAIN jobs /\ LeaseOK(job)
        BY <2>1, MovedType
        DEF JobRecord, JobStates, OpenStates, LeaseOK
  <2>3. UpdateJob(job) /\ Done(w) /\ UNCHANGED todo BY <1>4 DEF Requeues
  <2> HIDE DEF job
  <2>4. QED BY <1>0, <2>2, <2>3, JobWrite, CopiesDone, JobFrame
<1>5. QED BY <1>2, <1>3, <1>4

LEMMA JobInvRender ==
  ASSUME TypeInv, JobInv, NEW t \in Threads, RenderFails(t) \/ ProfileRefuses(t) \/ Finish(t),
         Others(t)
  PROVE  JobInv'
<1>1. cur[t] \in JobRecord /\ cur[t].id \in DOMAIN jobs
      BY CurType DEF RenderFails, ProfileRefuses, Finish, RenderPCs, JobInv, CopiesOK
<1>2. CASE Finish(t)
  <2> DEFINE job == [Moved(cur[t], "ready") EXCEPT !.rendition = found[t].id]
  <2>1. found[t].id \in RenditionIds BY <1>2 DEF Finish, TypeInv, HandsOK, RenditionRow
  <2>2. job \in JobRecord /\ job.id \in DOMAIN jobs /\ LeaseOK(job)
        BY <1>1, <2>1, MovedType DEF JobRecord, JobStates, LeaseOK
  <2>3. UpdateJob(job) /\ Done(t) /\ UNCHANGED todo BY <1>2 DEF Finish
  <2> HIDE DEF job
  <2>4. QED BY <2>2, <2>3, JobWrite, CopiesDone, JobFrame
<1>3. CASE FailRender(t)
  <2> DEFINE job == Moved(cur[t], "failed")
  <2>1. job \in JobRecord /\ job.id \in DOMAIN jobs /\ LeaseOK(job)
        BY <1>1, MovedType DEF JobStates, LeaseOK
  <2>2. UpdateJob(job) /\ cur' = [cur EXCEPT ![t] = job] /\ Goto(t, "failing") /\ UNCHANGED todo
        BY <1>3 DEF FailRender, TypeInv, TypeOK
  <2> HIDE DEF job
  <2>3. CopiesOK(t)'
        BY <2>1, <2>2 DEF Goto, CopiesOK, JobInv, TypeInv, TypeOK, RenderPCs
  <2>4. QED BY <2>1, <2>2, <2>3, JobWrite, JobFrame
<1>4. QED BY <1>2, <1>3 DEF RenderFails, ProfileRefuses

LEMMA JobInvExpires ==
  ASSUME TypeInv, JobInv, NEW j \in DOMAIN jobs, LeaseExpires(j)
  PROVE  JobInv'
<1> DEFINE job == [jobs[j] EXCEPT !.lease = "expired"]
<1>1. job \in JobRecord /\ job.id \in DOMAIN jobs /\ UpdateJob(job) BY ExpiredJob
<1>2. LeaseOK(job)
  <2>1. jobs[j] \in JobRecord BY JobsType DEF JobInv, TypeInv
  <2>2. QED BY <2>1 DEF LeaseOK, JobRecord
<1> HIDE DEF job
<1>3. \A i \in DOMAIN jobs' : LeaseOK(jobs'[i])
      BY <1>1, <1>2, JobWrite
<1>4. \A t \in Threads : CopiesOK(t)' BY DEF LeaseExpires, local, JobInv, CopiesOK
<1>5. QED BY <1>3, <1>4 DEF JobInv, LeaseOK

LEMMA JobInvStep == TypeInv /\ JobInv /\ [Next]_vars => JobInv'
<1> SUFFICES ASSUME TypeInv, JobInv, [Next]_vars PROVE JobInv' OBVIOUS
<1>1. ASSUME NEW t \in Threads, RenderStep(t), Others(t) PROVE JobInv'
      BY <1>1, JobInvRead, JobInvRender DEF RenderStep
<1>2. ASSUME NEW c \in Clients, RequestFinds(c) \/ CancelReads(c) \/ ClientStep(c)
      PROVE  JobInv'
  <2>1. Others(c) /\ c \in Threads BY <1>2, OthersKept DEF Threads
  <2>2. QED BY <1>1, <1>2, <2>1, JobInvRead, JobInvClient DEF ClientStep
<1>3. ASSUME NEW w \in Workers, WorkerStep(w) PROVE JobInv'
  <2>1. Others(w) /\ w \in Threads BY <1>3, OthersKept DEF Threads
  <2>2. QED BY <1>1, <1>3, <2>1, JobInvRead, JobInvWorker DEF WorkerStep
<1>4. CASE UNCHANGED vars
      BY <1>4 DEF vars, JobInv, CopiesOK, LeaseOK
<1>5. QED BY <1>2, <1>3, <1>4, JobInvRead, JobInvExpires DEF Next

(***************************************************************************)
(* A job that a worker renders can always be taken back.                   *)
(***************************************************************************)
THEOREM Recoverable == Spec => []RenderingIsRecoverable
<1>1. JobInv => RenderingIsRecoverable BY DEF JobInv, LeaseOK, RenderingIsRecoverable
<1>2. QED BY <1>1, TypeInvariant, JobInvInit, JobInvStep, PTL DEF Spec

-----------------------------------------------------------------------------
RowsKept == \A x \in Targets : rows[x] # None => rows'[x] # None

ReadyJobsOK == \A j \in DOMAIN jobs : ReadyOK(jobs[j])

LEMMA RowInvInit == Init => RowInv
<1>1. DOMAIN <<>> = {} BY EmptySeq
<1>2. QED BY <1>1 DEF Init, RowInv, ServedBytesExist, IsServed, PublicationOK

\* What either kind of write does to the table.
LEMMA RowWrite ==
  ASSUME TypeOK, NEW x \in Targets, NEW row \in RenditionRow,
         UpdateRendition(x, row) \/ RegisterRendition(x, row)
  PROVE  /\ RowsKept
         /\ \A y \in Targets :
              rows'[y] = rows[y] \/ (rows'[y].state = row.state /\ rows'[y].key = row.key)
         /\ RegisterRendition(x, row) => rows'[x] # None
<1>1. CASE UpdateRendition(x, row)
      BY <1>1, NoneAssumption DEF UpdateRendition, RegisterRendition, RowsKept, TypeOK
<1>2. CASE RegisterRendition(x, row)
  <2> DEFINE new == IF rows[x] = None THEN row ELSE [row EXCEPT !.id = rows[x].id]
  <2>1. rows[x] \in RenditionRow \cup {None} BY DEF TypeOK
  <2>2. new \in RenditionRow /\ new.state = row.state /\ new.key = row.key
        BY <2>1 DEF RenditionRow
  <2>3. rows' = [rows EXCEPT ![x] = new] BY <1>2 DEF RegisterRendition
  <2> HIDE DEF new
  <2>4. QED BY <2>2, <2>3, NoneAssumption DEF TypeOK, RowsKept
<1>3. QED BY <1>1, <1>2

LEMMA RowFrame ==
  ASSUME TypeInv, RowInv, NEW t \in Threads, Others(t), PublicationOK(t)',
         RowsKept, objects \subseteq objects', ServedBytesExist', ReadyJobsOK'
  PROVE  RowInv'
<1>1. ASSUME NEW u \in Threads \ {t} PROVE PublicationOK(u)'
  <2>1. pc[u] \in RenderPCs => cur[u].target \in Targets
        BY CurType DEF JobRecord
  <2>2. QED BY <1>1, <2>1 DEF Others, PublicationOK, RowInv, RowsKept, RenderPCs
<1>2. QED BY <1>1 DEF RowInv, ReadyJobsOK

\* A step that writes no row.
LEMMA RowsUnchanged ==
  ASSUME TypeInv, RowInv, rows' = rows, objects \subseteq objects'
  PROVE  RowsKept /\ ServedBytesExist'
BY DEF RowsKept, ServedBytesExist, IsServed, RowInv

\* A row written over the table of a sound state.
LEMMA RowsWritten ==
  ASSUME TypeInv, RowInv, NEW x \in Targets, NEW row \in RenditionRow,
         UpdateRendition(x, row) \/ RegisterRendition(x, row),
         UNCHANGED <<jobs, objects>>, row.state = "ready" => row.key \in objects
  PROVE  RowsKept /\ ServedBytesExist' /\ ReadyJobsOK'
<1>1. RowsKept /\ \A y \in Targets :
        rows'[y] = rows[y] \/ (rows'[y].state = row.state /\ rows'[y].key = row.key)
      BY RowWrite DEF TypeInv
<1>2. ServedBytesExist' BY <1>1 DEF ServedBytesExist, IsServed, RowInv
<1>3. ReadyJobsOK'
  <2>1. \A j \in DOMAIN jobs : jobs[j].target \in Targets BY JobsType DEF TypeInv, JobRecord
  <2>2. QED BY <1>1, <2>1 DEF ReadyJobsOK, ReadyOK, RowInv, RowsKept
<1>4. QED BY <1>1, <1>2, <1>3

LEMMA PublicationDone ==
  ASSUME TypeInv, NEW t \in Threads, Done(t)
  PROVE  PublicationOK(t)'
BY DEF Done, PublicationOK, TypeInv, TypeOK

\* A job written by update_job.
LEMMA ReadyWrite ==
  ASSUME TypeInv, RowInv, NEW job \in JobRecord, job.id \in DOMAIN jobs, UpdateJob(job),
         ReadyOK(job), rows' = rows
  PROVE  ReadyJobsOK'
BY UpdateJobType DEF TypeInv, RowInv, ReadyJobsOK, ReadyOK

LEMMA PublicationRead ==
  ASSUME TypeInv, RowInv, NEW t \in Threads,
         \/ t \in Clients /\ (RequestFinds(t) \/ CancelReads(t) \/ RequestLists(t) \/ RequestCounts(t))
         \/ t \in Workers /\ (ReclaimLists(t) \/ SelectClaims(t) \/ CycleEnds(t))
         \/ RenderSucceeds(t) \/ FailFinds(t) \/ CompleteChecks(t)
         \/ CompleteFinds(t) \/ CommitBytes(t) \/ Confirm(t) \/ Abort(t)
  PROVE  PublicationOK(t)'
<1>1. CASE RequestFinds(t)
      BY <1>1 DEF RequestFinds, Draft, Goto, PublicationOK, TypeInv, TypeOK
<1>2. CASE CancelReads(t) BY <1>2 DEF CancelReads, Goto, PublicationOK, TypeInv, TypeOK
<1>3. CASE Done(t) BY <1>3, PublicationDone
<1>4. CASE RequestLists(t) /\ ~Done(t)
  <2>1. cur[t] \in JobRecord /\ cur[t].state = "queued"
        BY <1>4, CurType DEF RequestLists, RowInv, PublicationOK
  <2>2. cur' = [cur EXCEPT ![t] = [cur[t] EXCEPT !.attempt = Cardinality(JobsOf(cur[t].target)) + 1]]
        BY <1>4 DEF RequestLists, TypeInv, TypeOK
  <2>3. QED BY <1>4, <2>1, <2>2 DEF RequestLists, Goto, PublicationOK, TypeInv, TypeOK, JobRecord
<1>5. CASE RequestCounts(t) /\ ~Done(t)
      BY <1>5 DEF RequestCounts, Goto, PublicationOK, TypeInv, TypeOK, RowInv
<1>6. CASE ReclaimLists(t) \/ SelectClaims(t) \/ CycleEnds(t)
      BY <1>6 DEF ReclaimLists, SelectClaims, CycleEnds, Goto, PublicationOK, TypeInv, TypeOK
<1>7. CASE RenderSucceeds(t) \/ (CompleteChecks(t) /\ ~Done(t)) \/ (FailFinds(t) /\ ~Done(t))
      BY <1>7 DEF RenderSucceeds, CompleteChecks, FailFinds, Goto, PublicationOK, TypeInv, TypeOK
<1>8. CASE CompleteFinds(t)
      BY <1>8 DEF CompleteFinds, Goto, PublicationOK, TypeInv, TypeOK
<1>9. CASE CommitBytes(t)
      BY <1>9 DEF CommitBytes, Goto, PublicationOK, TypeInv, TypeOK, RowInv
<1>10. CASE Confirm(t)
      BY <1>10 DEF Confirm, Goto, PublicationOK, TypeInv, TypeOK, RowInv
<1>11. CASE Abort(t) BY <1>11 DEF Abort, PublicationOK, TypeInv, TypeOK
<1>12. QED BY <1>1, <1>2, <1>3, <1>4, <1>5, <1>6, <1>7, <1>8, <1>9, <1>10, <1>11

LEMMA RowInvRead ==
  ASSUME TypeInv, RowInv, NEW t \in Threads,
         \/ t \in Clients /\ (RequestFinds(t) \/ CancelReads(t) \/ RequestLists(t) \/ RequestCounts(t))
         \/ t \in Workers /\ (ReclaimLists(t) \/ SelectClaims(t) \/ CycleEnds(t))
         \/ RenderSucceeds(t) \/ FailFinds(t) \/ CompleteChecks(t)
         \/ CompleteFinds(t) \/ CommitBytes(t) \/ Confirm(t) \/ Abort(t)
  PROVE  RowInv'
<1>1. PublicationOK(t)' BY PublicationRead
<1>2. Others(t) BY OthersKept DEF ClientStep, WorkerStep, RenderStep, Threads
<1>3. jobs' = jobs /\ rows' = rows /\ objects \subseteq objects'
      BY DEF RequestFinds, CancelReads, RequestLists, RequestCounts, ReclaimLists, SelectClaims,
             CycleEnds, RenderSucceeds, FailFinds, CompleteChecks, CompleteFinds,
             CommitBytes, Confirm, Abort
<1>4. ReadyJobsOK' BY <1>3 DEF ReadyJobsOK, ReadyOK, RowInv
<1>5. QED BY <1>1, <1>2, <1>3, <1>4, RowsUnchanged, RowFrame

LEMMA RowInvRow ==
  ASSUME TypeInv, RowInv, NEW t \in Threads, Others(t),
         PublishRow(t) \/ Discard(t) \/ FailMarks(t)
  PROVE  RowInv'
<1>1. cur[t] \in JobRecord /\ cur[t].target \in Targets
      BY CurType DEF PublishRow, Discard, FailMarks, RenderPCs, JobRecord
<1>2. ASSUME NEW row \in RenditionRow, row.state = "failed",
             UpdateRendition(cur[t].target, row), Done(t), UNCHANGED <<jobs, objects>>
      PROVE  RowInv'
      BY <1>1, <1>2, RowsWritten, PublicationDone, RowFrame
<1>3. CASE Discard(t)
  <2>1. [found[t] EXCEPT !.state = "failed"] \in RenditionRow
        BY <1>3 DEF Discard, TypeInv, HandsOK, RenditionRow
  <2>2. [found[t] EXCEPT !.state = "failed"].state = "failed"
        BY <1>3 DEF Discard, TypeInv, HandsOK, RenditionRow
  <2>3. QED BY <1>2, <1>3, <2>1, <2>2 DEF Discard
<1>4. CASE FailMarks(t)
  <2> DEFINE row == [found[t] EXCEPT !.state = "failed", !.job = cur[t].id]
  <2>1. row \in RenditionRow /\ row.state = "failed"
        BY <1>1, <1>4 DEF FailMarks, TypeInv, HandsOK, RenditionRow, JobRecord
  <2>2. UpdateRendition(cur[t].target, row) /\ Done(t) /\ UNCHANGED <<jobs, objects>>
        BY <1>4 DEF FailMarks
  <2> HIDE DEF row
  <2>3. QED BY <1>2, <2>1, <2>2
<1>5. CASE PublishRow(t)
  <2> DEFINE row == PublishedRow(t)
  <2>1. row \in RenditionRow BY <1>1, <1>5, PublishedRowType
  <2>2. row.key \in objects BY <1>5 DEF PublishRow, PublishedRow, RowInv, PublicationOK
  <2>3. /\ IF found[t] = None THEN RegisterRendition(cur[t].target, row)
                              ELSE UpdateRendition(cur[t].target, row)
        /\ found' = [found EXCEPT ![t] = row] /\ Goto(t, "confirming") /\ pc[t] = "publishing"
        /\ UNCHANGED <<jobs, objects, cur, bytes>>
        BY <1>5 DEF PublishRow, PublishedRow
  <2> HIDE DEF row
  <2>4. RowsKept /\ ServedBytesExist' /\ ReadyJobsOK'
        BY <1>1, <2>1, <2>2, <2>3, RowsWritten
  <2>5. rows'[cur[t].target] # None
        BY <1>1, <2>1, <2>3, <2>4, RowWrite DEF RowsKept, RowInv, PublicationOK, TypeInv
  <2>6. PublicationOK(t)' BY <2>3, <2>5 DEF Goto, PublicationOK, TypeInv, TypeOK
  <2>7. QED BY <2>3, <2>4, <2>6, RowFrame
<1>6. QED BY <1>3, <1>4, <1>5

LEMMA RowInvClient ==
  ASSUME TypeInv, RowInv, NEW c \in Clients,
         RequestRegisters(c) \/ SyncStarts(c) \/ CancelWrites(c)
  PROVE  RowInv'
<1> c \in Threads BY DEF Threads
<1>0. /\ Others(c) /\ UNCHANGED <<rows, objects>>
      /\ RowsKept /\ ServedBytesExist'
      BY OthersKept, RowsUnchanged DEF ClientStep, RequestRegisters, SyncStarts, CancelWrites
<1>1. CASE RequestRegisters(c)
  <2> DEFINE job == [cur[c] EXCEPT !.id = Len(jobs) + 1]
  <2>1. cur[c] \in JobRecord /\ cur[c].state = "queued"
        BY <1>1, CurType DEF RequestRegisters, RowInv, PublicationOK
  <2>2. job \in JobRecord /\ job.id = Len(jobs) + 1 /\ ReadyOK(job)
        BY <2>1, JobsType DEF JobRecord, TypeInv, ReadyOK
  <2>3. jobs' = Append(jobs, job) BY <1>1 DEF RequestRegisters
  <2>4. Done(c) \/ (Goto(c, "starting") /\ cur' = [cur EXCEPT ![c] = job])
        BY <1>1 DEF RequestRegisters
  <2> HIDE DEF job
  <2>5. ReadyJobsOK'
        BY <1>0, <2>2, <2>3, AppendType DEF TypeInv, RowInv, ReadyJobsOK, ReadyOK
  <2>6. PublicationOK(c)'
        BY <2>4, PublicationDone DEF Goto, PublicationOK, TypeInv, TypeOK
  <2>7. QED BY <1>0, <2>5, <2>6, RowFrame
<1>2. CASE SyncStarts(c)
  <2> DEFINE job == [cur[c] EXCEPT !.state = "rendering"]
  <2>1. cur[c] \in JobRecord /\ cur[c].id \in DOMAIN jobs BY <1>2, CurType DEF SyncStarts
  <2>2. job \in JobRecord /\ job.id \in DOMAIN jobs /\ ReadyOK(job)
        BY <2>1 DEF JobRecord, JobStates, OpenStates, ReadyOK
  <2>3. UpdateJob(job) /\ Goto(c, "rendering") BY <1>2 DEF SyncStarts
  <2> HIDE DEF job
  <2>4. PublicationOK(c)' BY <2>3 DEF Goto, PublicationOK, TypeInv, TypeOK
  <2>5. QED BY <1>0, <2>2, <2>3, <2>4, ReadyWrite, RowFrame
<1>3. CASE CancelWrites(c)
  <2>1. cur[c] \in JobRecord /\ cur[c].id \in DOMAIN jobs BY <1>3, CurType DEF CancelWrites
  <2>2. /\ Moved(cur[c], "cancelled") \in JobRecord
        /\ Moved(cur[c], "cancelled").id \in DOMAIN jobs /\ ReadyOK(Moved(cur[c], "cancelled"))
        BY <2>1, MovedType DEF JobStates, ReadyOK
  <2>3. QED BY <1>0, <1>3, <2>2, ReadyWrite, PublicationDone, RowFrame DEF CancelWrites
<1>4. QED BY <1>1, <1>2, <1>3

LEMMA RowInvWorker ==
  ASSUME TypeInv, RowInv, NEW w \in Workers,
         ReclaimWrites(w) \/ ClaimJob(w) \/ Requeues(w)
  PROVE  RowInv'
<1> w \in Threads BY DEF Threads
<1>0. /\ Others(w) /\ UNCHANGED <<rows, objects>>
      /\ RowsKept /\ ServedBytesExist'
      BY OthersKept, RowsUnchanged DEF WorkerStep, ReclaimWrites, ClaimJob, Requeues
<1>1. ASSUME NEW job \in todo[w] PROVE job \in JobRecord /\ job.id \in DOMAIN jobs
      BY DEF TypeInv, TypeOK, HandsOK
<1>2. CASE ReclaimWrites(w)
  <2>1. PICK job \in todo[w] : UpdateJob(Moved(job, "queued")) BY <1>2 DEF ReclaimWrites
  <2>2. /\ Moved(job, "queued") \in JobRecord /\ Moved(job, "queued").id \in DOMAIN jobs
        /\ ReadyOK(Moved(job, "queued"))
        BY <1>1, MovedType DEF JobStates, OpenStates, ReadyOK
  <2>3. PublicationOK(w)' BY <1>2 DEF ReclaimWrites, PublicationOK
  <2>4. QED BY <1>0, <2>1, <2>2, <2>3, ReadyWrite, RowFrame
<1>3. CASE ClaimJob(w)
  <2> DEFINE Claimed(job) == [job EXCEPT !.state = "rendering", !.lease = "live"]
  <2>1. PICK job \in todo[w] : UpdateJob(Claimed(job)) BY <1>3 DEF ClaimJob
  <2>2. Claimed(job) \in JobRecord /\ Claimed(job).id \in DOMAIN jobs /\ ReadyOK(Claimed(job))
        BY <1>1 DEF JobRecord, JobStates, OpenStates, ReadyOK
  <2> HIDE DEF Claimed
  <2>3. PublicationOK(w)' BY <1>3 DEF ClaimJob, Goto, PublicationOK, TypeInv, TypeOK
  <2>4. QED BY <1>0, <2>1, <2>2, <2>3, ReadyWrite, RowFrame
<1>4. CASE Requeues(w)
  <2> DEFINE job == [Moved(cur[w], "queued") EXCEPT !.attempt = @ + 1]
  <2>1. cur[w] \in JobRecord /\ cur[w].id \in DOMAIN jobs
        BY <1>4, CurType DEF Requeues, RenderPCs
  <2>2. job \in JobRecord /\ job.id \in DOMAIN jobs /\ ReadyOK(job)
        BY <2>1, MovedType DEF JobRecord, JobStates, OpenStates, ReadyOK
  <2>3. UpdateJob(job) /\ Done(w) BY <1>4 DEF Requeues
  <2> HIDE DEF job
  <2>4. QED BY <1>0, <2>2, <2>3, ReadyWrite, PublicationDone, RowFrame
<1>5. QED BY <1>2, <1>3, <1>4

LEMMA RowInvRender ==
  ASSUME TypeInv, RowInv, NEW t \in Threads, Others(t),
         RenderFails(t) \/ ProfileRefuses(t) \/ Finish(t)
  PROVE  RowInv'
<1>0. UNCHANGED <<rows, objects>> /\ RowsKept /\ ServedBytesExist'
      BY RowsUnchanged DEF RenderFails, ProfileRefuses, FailRender, Finish
<1>1. cur[t] \in JobRecord /\ cur[t].id \in DOMAIN jobs
      BY CurType DEF RenderFails, ProfileRefuses, Finish, RenderPCs
<1>2. CASE Finish(t)
  <2> DEFINE job == [Moved(cur[t], "ready") EXCEPT !.rendition = found[t].id]
  <2>1. found[t].id \in RenditionIds /\ rows[cur[t].target] # None
        BY <1>2 DEF Finish, TypeInv, HandsOK, RenditionRow, RowInv, PublicationOK
  <2>2. job \in JobRecord /\ job.id \in DOMAIN jobs /\ ReadyOK(job)
        BY <1>1, <2>1, MovedType, NoneAssumption DEF JobRecord, JobStates, ReadyOK
  <2>3. UpdateJob(job) /\ Done(t) BY <1>2 DEF Finish
  <2> HIDE DEF job
  <2>4. QED BY <1>0, <2>2, <2>3, ReadyWrite, PublicationDone, RowFrame
<1>3. CASE FailRender(t)
  <2> DEFINE job == Moved(cur[t], "failed")
  <2>1. job \in JobRecord /\ job.id \in DOMAIN jobs /\ ReadyOK(job)
        BY <1>1, MovedType DEF JobStates, ReadyOK
  <2>2. UpdateJob(job) /\ Goto(t, "failing") BY <1>3 DEF FailRender
  <2> HIDE DEF job
  <2>3. PublicationOK(t)' BY <2>2 DEF Goto, PublicationOK, TypeInv, TypeOK
  <2>4. QED BY <1>0, <2>1, <2>2, <2>3, ReadyWrite, RowFrame
<1>4. QED BY <1>2, <1>3 DEF RenderFails, ProfileRefuses

LEMMA RowInvExpires ==
  ASSUME TypeInv, RowInv, NEW j \in DOMAIN jobs, LeaseExpires(j)
  PROVE  RowInv'
<1> DEFINE job == [jobs[j] EXCEPT !.lease = "expired"]
<1>1. job \in JobRecord /\ job.id \in DOMAIN jobs /\ UpdateJob(job) BY ExpiredJob
<1>2. ReadyOK(job)
  <2>1. jobs[j] \in JobRecord /\ ReadyOK(jobs[j]) BY JobsType DEF RowInv, TypeInv
  <2>2. QED BY <2>1 DEF ReadyOK, JobRecord
<1> HIDE DEF job
<1>3. UNCHANGED <<rows, objects, pc, cur, found, bytes>> BY DEF LeaseExpires, local
<1>4. ReadyJobsOK' BY <1>1, <1>2, <1>3, ReadyWrite
<1>5. QED BY <1>3, <1>4 DEF RowInv, ReadyJobsOK, PublicationOK, ServedBytesExist, IsServed

LEMMA RowInvStep == TypeInv /\ RowInv /\ [Next]_vars => RowInv'
<1> SUFFICES ASSUME TypeInv, RowInv, [Next]_vars PROVE RowInv' OBVIOUS
<1>1. ASSUME NEW t \in Threads, RenderStep(t), Others(t) PROVE RowInv'
      BY <1>1, RowInvRead, RowInvRow, RowInvRender DEF RenderStep
<1>2. ASSUME NEW c \in Clients, RequestFinds(c) \/ CancelReads(c) \/ ClientStep(c)
      PROVE  RowInv'
  <2>1. Others(c) /\ c \in Threads BY <1>2, OthersKept DEF Threads
  <2>2. QED BY <1>1, <1>2, <2>1, RowInvRead, RowInvClient DEF ClientStep
<1>3. ASSUME NEW w \in Workers, WorkerStep(w) PROVE RowInv'
  <2>1. Others(w) /\ w \in Threads BY <1>3, OthersKept DEF Threads
  <2>2. QED BY <1>1, <1>3, <2>1, RowInvRead, RowInvWorker DEF WorkerStep
<1>4. CASE UNCHANGED vars
      BY <1>4 DEF vars, RowInv, ReadyOK, PublicationOK, ServedBytesExist, IsServed
<1>5. QED BY <1>2, <1>3, <1>4, RowInvRead, RowInvExpires DEF Next

(***************************************************************************)
(* AC08: whatever threads die and however their steps interleave, a row    *)
(* that is ready has its bytes, and a job that is ready has its row.       *)
(***************************************************************************)
THEOREM ServedBytesAlwaysExist == Spec => []ServedBytesExist
<1>1. RowInv => ServedBytesExist BY DEF RowInv
<1>2. QED BY <1>1, TypeInvariant, RowInvInit, RowInvStep, PTL DEF Spec

THEOREM ReadyJobsHaveRows == Spec => []ReadyJobHasRow
<1>1. RowInv => ReadyJobHasRow BY DEF RowInv, ReadyOK, ReadyJobHasRow
<1>2. QED BY <1>1, TypeInvariant, RowInvInit, RowInvStep, PTL DEF Spec
-----------------------------------------------------------------------------
(***************************************************************************)
(* As deployed: one worker, and every target is left to it.  Then only the *)
(* worker renders, and a copy it holds is overtaken by cancellations alone.*)
(* Neither property below holds with a second worker, nor with threads     *)
(* that render a light target.                                             *)
(***************************************************************************)
OneWorker == Heavy = Targets /\ \A v, w \in Workers : v = w

NamesRow(x, id) == rows[x] # None /\ rows[x].id = id

NamedJobs ==
  \A j \in DOMAIN jobs :
    jobs[j].state = "ready" => NamesRow(jobs[j].target, jobs[j].rendition)

\* A copy of a job that may be written back: the table has not made it ready, nor
\* counted more attempts, since the copy was read.
Held(job) ==
  /\ jobs[job.id].state # "ready"
  /\ IsOpen(jobs[job.id]) => jobs[job.id].attempt <= job.attempt

\* What the worker has listed is of different jobs, and none is the one it renders.
WorkerOwns(w) ==
  /\ \A job \in todo[w] : Held(job)
  /\ \A a, b \in todo[w] : a.id = b.id => a = b
  /\ pc[w] \in RenderPCs => Held(cur[w]) /\ \A job \in todo[w] : job.id # cur[w].id
  /\ pc[w] \in {"committing", "publishing"} =>
       IF found[w] = None THEN rows[cur[w].target] = None
                          ELSE NamesRow(cur[w].target, found[w].id)
  /\ pc[w] \in {"confirming", "finishing"} => NamesRow(cur[w].target, found[w].id)

DeployedInv ==
  /\ \A c \in Clients : pc[c] \notin RenderPCs \cup {"starting"}
  /\ \A w \in Workers : WorkerOwns(w)
  /\ NamedJobs

\* What JobsGoForward says of one job, before and after a step.
Forward(old, new) ==
  /\ old.state = "ready" => ~IsOpen(new)
  /\ IsOpen(old) /\ IsOpen(new) => old.attempt <= new.attempt

AllForward == \A j \in DOMAIN jobs : Forward(jobs[j], jobs'[j])

\* A write that is not the worker's cancels the job, or changes its lease.
Mild(old, new) ==
  \/ new.state = "cancelled"
  \/ /\ new.state = old.state /\ new.attempt = old.attempt
     /\ new.target = old.target /\ new.rendition = old.rendition

Mildly ==
  /\ DOMAIN jobs \subseteq DOMAIN jobs'
  /\ \A j \in DOMAIN jobs : Mild(jobs[j], jobs'[j])
  /\ \A j \in DOMAIN jobs' \ DOMAIN jobs : jobs'[j].state # "ready"

\* A row keeps the rendition id it was registered with.
IdsKept == \A x \in Targets : \A id : NamesRow(x, id) => NamesRow(x, id)'

LEMMA DeployedInit == Init => DeployedInv
<1>1. DOMAIN <<>> = {} BY EmptySeq
<1>2. QED BY <1>1, ConstantsAssumption DEF Init, DeployedInv, NamedJobs, WorkerOwns, RenderPCs, Threads

LEMMA RowsKeepIds ==
  ASSUME TypeInv, NEW x \in Targets, NEW row \in RenditionRow,
         UpdateRendition(x, row) \/ RegisterRendition(x, row)
  PROVE  /\ IdsKept
         /\ RegisterRendition(x, row) /\ rows[x] = None => NamesRow(x, row.id)'
<1>1. rows \in [Targets -> RenditionRow \cup {None}] BY DEF TypeInv, TypeOK
<1>2. CASE UpdateRendition(x, row)
      BY <1>1, <1>2, NoneAssumption
      DEF UpdateRendition, RegisterRendition, IdsKept, NamesRow
<1>3. CASE RegisterRendition(x, row)
  <2> DEFINE new == IF rows[x] = None THEN row ELSE [row EXCEPT !.id = rows[x].id]
  <2>1. /\ new \in RenditionRow
        /\ rows[x] = None => new.id = row.id
        /\ rows[x] # None => new.id = rows[x].id
        BY <1>1 DEF RenditionRow
  <2>2. rows' = [rows EXCEPT ![x] = new] BY <1>3 DEF RegisterRendition
  <2> HIDE DEF new
  <2>3. QED BY <1>1, <2>1, <2>2, NoneAssumption DEF IdsKept, NamesRow
<1>4. QED BY <1>2, <1>3

LEMMA MildForward ==
  ASSUME TypeInv, Mildly
  PROVE  AllForward
<1>1. ASSUME NEW j \in DOMAIN jobs PROVE Forward(jobs[j], jobs'[j])
  <2>1. Mild(jobs[j], jobs'[j]) BY DEF Mildly
  <2>2. jobs[j].attempt \in Nat BY JobsType DEF TypeInv, JobRecord
  <2>3. CASE jobs'[j].state = "cancelled" BY <2>3 DEF Forward, IsOpen, OpenStates
  <2>4. CASE jobs'[j].state = jobs[j].state /\ jobs'[j].attempt = jobs[j].attempt
        BY <2>2, <2>4 DEF Forward, IsOpen, OpenStates
  <2>5. QED BY <2>1, <2>3, <2>4 DEF Mild
<1>2. QED BY <1>1 DEF AllForward

LEMMA MildNamed ==
  ASSUME TypeInv, DeployedInv, Mildly, rows' = rows
  PROVE  NamedJobs'
<1>1. ASSUME NEW j \in DOMAIN jobs', jobs'[j].state = "ready"
      PROVE  rows'[jobs'[j].target] # None /\ rows'[jobs'[j].target].id = jobs'[j].rendition
  <2>1. j \in DOMAIN jobs /\ Mild(jobs[j], jobs'[j]) BY <1>1 DEF Mildly
  <2>2. /\ jobs[j].state = "ready" /\ jobs'[j].target = jobs[j].target
        /\ jobs'[j].rendition = jobs[j].rendition
        BY <1>1, <2>1 DEF Mild
  <2>3. QED BY <2>1, <2>2 DEF DeployedInv, NamedJobs, NamesRow
<1>2. QED BY <1>1 DEF NamedJobs, NamesRow

LEMMA MildOwns ==
  ASSUME TypeInv, DeployedInv, Mildly, rows' = rows, NEW w \in Workers,
         pc'[w] = pc[w], cur'[w] = cur[w], found'[w] = found[w], todo'[w] = todo[w]
  PROVE  WorkerOwns(w)'
<1>1. ASSUME NEW job, job.id \in DOMAIN jobs, Held(job) PROVE Held(job)'
  <2>1. Mild(jobs[job.id], jobs'[job.id]) BY <1>1 DEF Mildly
  <2>2. QED BY <1>1, <2>1 DEF Mild, Held, IsOpen, OpenStates
<1>2. /\ \A job \in todo[w] : job.id \in DOMAIN jobs
      /\ pc[w] \in RenderPCs => cur[w].id \in DOMAIN jobs
      BY CurType DEF TypeInv, HandsOK, Threads
<1>3. WorkerOwns(w) BY DEF DeployedInv
<1>4. \A job \in todo[w] : Held(job)' BY <1>1, <1>2, <1>3 DEF WorkerOwns
<1>5. ASSUME NEW job, job = cur[w], pc[w] \in RenderPCs PROVE Held(job)'
      BY <1>1, <1>2, <1>3, <1>5 DEF WorkerOwns
<1>6. pc'[w] \in RenderPCs => Held(cur[w])' BY <1>5 DEF Held
<1>7. QED BY <1>3, <1>4, <1>6 DEF WorkerOwns, NamesRow

(***************************************************************************)
(* The steps that are not the worker's.                                    *)
(***************************************************************************)
LEMMA MildFrame ==
  ASSUME OneWorker, TypeInv, DeployedInv, Mildly, rows' = rows,
         \/ \E c \in Clients : Others(c) /\ pc'[c] \notin RenderPCs \cup {"starting"}
         \/ UNCHANGED local
  PROVE  DeployedInv' /\ AllForward
<1>1. Clients \cap Workers = {} BY ConstantsAssumption
<1>2. ASSUME NEW w \in Workers PROVE WorkerOwns(w)'
  <2>1. /\ pc'[w] = pc[w] /\ cur'[w] = cur[w]
        /\ found'[w] = found[w] /\ todo'[w] = todo[w]
        BY <1>1 DEF Others, Threads, local
  <2>2. QED BY <2>1, MildOwns
<1>3. \A c \in Clients : pc'[c] \notin RenderPCs \cup {"starting"}
      BY DEF Others, Threads, local, DeployedInv
<1>4. QED BY <1>2, <1>3, MildNamed, MildForward DEF DeployedInv

\* A step that leaves the tables alone is mild.
LEMMA NothingIsMild ==
  ASSUME jobs' = jobs
  PROVE  Mildly
BY DEF Mildly, Mild

LEMMA DeployedClient ==
  ASSUME OneWorker, TypeInv, RowInv, DeployedInv, NEW c \in Clients,
         RequestFinds(c) \/ CancelReads(c) \/ ClientStep(c)
  PROVE  DeployedInv' /\ AllForward
<1>1. c \in Threads /\ c \notin Workers BY ConstantsAssumption DEF Threads
<1>2. Others(c) BY <1>1, OthersKept
<1>3. pc \in [Threads -> ClientPCs \cup RenderPCs \cup WorkerPCs] BY DEF TypeInv, TypeOK
<1>4. pc[c] \notin RenderPCs \cup {"starting"} BY DEF DeployedInv
<1>5. ~RenderStep(c) /\ ~SyncStarts(c)
      BY <1>4 DEF RenderStep, RenderSucceeds, RenderFails, FailFinds, FailMarks, CompleteChecks,
                  ProfileRefuses, CompleteFinds, CommitBytes, PublishRow, Confirm, Discard, Finish,
                  SyncStarts, RenderPCs
<1>6. CASE RequestFinds(c) \/ CancelReads(c) \/ RequestLists(c) \/ RequestCounts(c)
  <2>1. jobs' = jobs /\ rows' = rows
        BY <1>6 DEF RequestFinds, CancelReads, RequestLists, RequestCounts
  <2>2. pc'[c] \notin RenderPCs \cup {"starting"}
        BY <1>1, <1>3, <1>6
        DEF RequestFinds, CancelReads, RequestLists, RequestCounts, Goto, Done, RenderPCs
  <2>3. QED BY <1>2, <2>1, <2>2, NothingIsMild, MildFrame
<1>7. CASE RequestRegisters(c)
  <2> DEFINE job == [cur[c] EXCEPT !.id = Len(jobs) + 1]
  <2>1. cur[c] \in JobRecord /\ cur[c].state = "queued"
        BY <1>1, <1>7, CurType DEF RequestRegisters, RowInv, PublicationOK
  <2>2. job \in JobRecord /\ job.id = Len(jobs) + 1 /\ job.state = "queued"
        BY <2>1, JobsType DEF JobRecord, TypeInv
  <2>3. job.target \in Heavy BY <2>2 DEF OneWorker, JobRecord
  <2>4. jobs' = Append(jobs, job) /\ rows' = rows /\ Done(c)
        BY <1>7, <2>3 DEF RequestRegisters
  <2> HIDE DEF job
  <2>5. /\ DOMAIN jobs' = DOMAIN jobs \cup {job.id}
        /\ \A j \in DOMAIN jobs' : jobs'[j] = IF j = job.id THEN job ELSE jobs[j]
        BY <2>2, <2>4, AppendType DEF TypeInv
  <2>6. job.id \notin DOMAIN jobs BY <2>2, JobsType DEF TypeInv
  <2>7. Mildly BY <2>2, <2>5, <2>6 DEF Mildly, Mild
  <2>8. pc'[c] \notin RenderPCs \cup {"starting"} BY <1>1, <1>3, <2>4 DEF Done, RenderPCs
  <2>9. QED BY <1>2, <2>4, <2>7, <2>8, MildFrame
<1>8. CASE CancelWrites(c)
  <2>1. cur[c] \in JobRecord /\ cur[c].id \in DOMAIN jobs
        BY <1>1, <1>8, CurType DEF CancelWrites
  <2> DEFINE job == Moved(cur[c], "cancelled")
  <2>2. job \in JobRecord /\ job.id \in DOMAIN jobs /\ job.state = "cancelled"
        BY <2>1, MovedType DEF JobStates
  <2>3. UpdateJob(job) /\ rows' = rows /\ Done(c) BY <1>8 DEF CancelWrites
  <2> HIDE DEF job
  <2>4. /\ DOMAIN jobs' = DOMAIN jobs
        /\ \A j \in DOMAIN jobs : jobs'[j] = IF j = job.id THEN job ELSE jobs[j]
        BY <2>2, <2>3, UpdateJobType DEF TypeInv
  <2>5. Mildly BY <2>2, <2>4 DEF Mildly, Mild
  <2>6. pc'[c] \notin RenderPCs \cup {"starting"} BY <1>1, <1>3, <2>3 DEF Done, RenderPCs
  <2>7. QED BY <1>2, <2>3, <2>5, <2>6, MildFrame
<1>9. QED BY <1>5, <1>6, <1>7, <1>8 DEF ClientStep

LEMMA DeployedExpires ==
  ASSUME OneWorker, TypeInv, DeployedInv, NEW j \in DOMAIN jobs, LeaseExpires(j)
  PROVE  DeployedInv' /\ AllForward
<1> DEFINE job == [jobs[j] EXCEPT !.lease = "expired"]
<1>1. job \in JobRecord /\ job.id = j /\ UpdateJob(job) BY ExpiredJob
<1>2. Mild(jobs[j], job) BY JobsType DEF TypeInv, JobRecord, Mild
<1> HIDE DEF job
<1>3. /\ DOMAIN jobs' = DOMAIN jobs
      /\ \A i \in DOMAIN jobs : jobs'[i] = IF i = job.id THEN job ELSE jobs[i]
      BY <1>1, UpdateJobType DEF TypeInv
<1>4. Mildly BY <1>1, <1>2, <1>3 DEF Mildly, Mild
<1>5. rows' = rows /\ UNCHANGED local BY DEF LeaseExpires
<1>6. QED BY <1>4, <1>5, MildFrame

(***************************************************************************)
(* The steps of the worker.                                                *)
(***************************************************************************)
LEMMA WorkerFrame ==
  ASSUME OneWorker, TypeInv, DeployedInv, NEW w \in Workers, Others(w), WorkerOwns(w)', NamedJobs'
  PROVE  DeployedInv'
<1>1. \A v \in Workers : v = w BY DEF OneWorker
<1>2. \A c \in Clients : pc'[c] \notin RenderPCs \cup {"starting"}
      BY ConstantsAssumption DEF Others, Threads, DeployedInv
<1>3. QED BY <1>1, <1>2 DEF DeployedInv

\* A copy of another job than the one that is written is as good as before.
LEMMA HeldKept ==
  ASSUME TypeInv, NEW job \in JobRecord, job.id \in DOMAIN jobs, UpdateJob(job),
         NEW other, other.id \in DOMAIN jobs, other.id # job.id, Held(other)
  PROVE  Held(other)'
BY UpdateJobType DEF TypeInv, Held

LEMMA WriteForward ==
  ASSUME TypeInv, NEW job \in JobRecord, job.id \in DOMAIN jobs, UpdateJob(job),
         Forward(jobs[job.id], job)
  PROVE  AllForward
<1>1. \A j \in DOMAIN jobs : jobs[j].attempt \in Nat BY JobsType DEF TypeInv, JobRecord
<1>2. \A j \in DOMAIN jobs : Forward(jobs[j], jobs[j])
      BY <1>1 DEF Forward, IsOpen, OpenStates
<1>3. QED BY <1>2, UpdateJobType DEF TypeInv, AllForward

\* The worker writes back a copy that it holds.
LEMMA HeldForward ==
  ASSUME TypeInv, NEW copy \in JobRecord, Held(copy),
         NEW job \in JobRecord, job.id = copy.id, job.id \in DOMAIN jobs, UpdateJob(job),
         copy.attempt <= job.attempt
  PROVE  AllForward
<1>1. /\ jobs[job.id].attempt \in Nat /\ copy.attempt \in Nat /\ job.attempt \in Nat
      BY JobsType DEF TypeInv, JobRecord
<1>2. jobs[job.id].state # "ready" BY DEF Held
<1>3. ASSUME IsOpen(jobs[job.id]) PROVE jobs[job.id].attempt <= job.attempt
      <2>1. jobs[job.id].attempt <= copy.attempt BY <1>3 DEF Held
      <2>2. QED BY <1>1, <2>1
<1>4. Forward(jobs[job.id], job) BY <1>2, <1>3 DEF Forward
<1>5. QED BY <1>4, WriteForward

LEMMA WriteNamed ==
  ASSUME TypeInv, DeployedInv, NEW job \in JobRecord, job.id \in DOMAIN jobs, UpdateJob(job),
         rows' = rows, job.state = "ready" => NamesRow(job.target, job.rendition)
  PROVE  NamedJobs'
BY UpdateJobType DEF TypeInv, DeployedInv, NamedJobs, NamesRow

LEMMA RowsNamed ==
  ASSUME TypeInv, DeployedInv, IdsKept, jobs' = jobs
  PROVE  NamedJobs' /\ AllForward
<1>1. \A j \in DOMAIN jobs : jobs[j].target \in Targets BY JobsType DEF TypeInv, JobRecord
<1>2. NamedJobs' BY <1>1 DEF DeployedInv, NamedJobs, IdsKept, NamesRow
<1>3. QED BY <1>2, NothingIsMild, MildForward

LEMMA SameRowsKeepIds ==
  ASSUME rows' = rows
  PROVE  IdsKept
BY DEF IdsKept, NamesRow

\* Between two jobs the worker owns what it has listed.
LEMMA OwnsBetween ==
  ASSUME NEW w \in Workers, pc'[w] \notin RenderPCs,
         \A job \in todo'[w] : Held(job)',
         \A a, b \in todo'[w] : a.id = b.id => a = b
  PROVE  WorkerOwns(w)'
BY DEF WorkerOwns, RenderPCs

LEMMA OwnsListed ==
  ASSUME TypeInv, jobs' = jobs, NEW w \in Workers, pc'[w] \notin RenderPCs,
         NEW limit, todo'[w] \subseteq OpenJobs(limit)
  PROVE  WorkerOwns(w)'
<1>1. ASSUME NEW job \in todo'[w] PROVE job = jobs[job.id] /\ IsOpen(job) /\ job.attempt \in Nat
      <2>1. PICK j \in DOMAIN jobs : job = jobs[j] /\ IsOpen(jobs[j]) BY <1>1 DEF OpenJobs
      <2>2. QED BY <2>1, JobsType DEF TypeInv, Keyed, JobRecord
<1>2. ASSUME NEW job \in todo'[w] PROVE Held(job)'
      BY <1>1 DEF Held, IsOpen, OpenStates
<1>3. QED BY <1>1, <1>2, OwnsBetween

\* What remains of the list when a job has been taken from it, or none.
LEMMA OwnsRest ==
  ASSUME TypeInv, DeployedInv, NEW w \in Workers, pc'[w] \notin RenderPCs,
         todo'[w] \subseteq todo[w], \A job \in todo'[w] : Held(job)'
  PROVE  WorkerOwns(w)'
BY OwnsBetween DEF DeployedInv, WorkerOwns

LEMMA DeployedReads ==
  ASSUME OneWorker, TypeInv, DeployedInv, NEW w \in Workers, Others(w),
         \/ ReclaimLists(w) \/ SelectClaims(w) \/ CycleEnds(w)
         \/ RenderSucceeds(w) \/ FailFinds(w) \/ CompleteChecks(w)
         \/ CompleteFinds(w) \/ CommitBytes(w) \/ Confirm(w) \/ Abort(w)
  PROVE  DeployedInv' /\ AllForward
<1>0. w \in Threads /\ WorkerOwns(w) BY DEF Threads, DeployedInv
<1>1. /\ pc \in [Threads -> ClientPCs \cup RenderPCs \cup WorkerPCs]
      /\ cur \in [Threads -> JobRecord \cup {None}]
      /\ found \in [Threads -> RenditionRow \cup {None}]
      /\ todo \in [Threads -> SUBSET JobRecord]
      BY DEF TypeInv, TypeOK
<1>2. jobs' = jobs /\ rows' = rows
      BY DEF ReclaimLists, SelectClaims, CycleEnds, RenderSucceeds, FailFinds, CompleteChecks,
             CompleteFinds, CommitBytes, Confirm, Abort
<1>3. \A job : Held(job) => Held(job)' BY <1>2 DEF Held
<1>4. WorkerOwns(w)'
  <2>1. CASE ReclaimLists(w) \/ SelectClaims(w)
    <3>1. PICK limit : todo'[w] \subseteq OpenJobs(limit)
          BY <1>0, <1>1, <2>1 DEF ReclaimLists, SelectClaims, Claims
    <3>2. pc'[w] \in {"reclaiming", "processing"}
          BY <1>0, <1>1, <2>1 DEF ReclaimLists, SelectClaims, Goto
    <3>3. QED BY <1>2, <3>1, <3>2, OwnsListed DEF RenderPCs
  <2>2. CASE CycleEnds(w) \/ Abort(w)
    <3>1. todo'[w] \subseteq todo[w] /\ pc'[w] = "idle"
          BY <1>0, <1>1, <2>2 DEF CycleEnds, Abort, Goto
    <3>2. QED BY <1>0, <1>3, <3>1, OwnsRest DEF RenderPCs, WorkerOwns
  <2>3. CASE Done(w) /\ (FailFinds(w) \/ CompleteChecks(w))
    <3>1. todo'[w] \subseteq todo[w] /\ pc'[w] = "processing"
          BY <1>0, <1>1, <2>3 DEF FailFinds, CompleteChecks, Done
    <3>2. QED BY <1>0, <1>3, <3>1, OwnsRest DEF RenderPCs, WorkerOwns
  <2>4. CASE RenderSucceeds(w) \/ CommitBytes(w) \/ Confirm(w)
    <3>1. /\ cur'[w] = cur[w] /\ todo'[w] = todo[w] /\ found'[w] = found[w]
          /\ pc[w] \in RenderPCs
          /\ \/ pc'[w] \in {"completing", "discarding"}
             \/ pc[w] = "committing" /\ pc'[w] = "publishing"
             \/ pc[w] = "confirming" /\ pc'[w] = "finishing"
          BY <1>0, <1>1, <2>4 DEF RenderSucceeds, CommitBytes, Confirm, Goto, RenderPCs
    <3>2. QED BY <1>0, <1>2, <3>1 DEF WorkerOwns, NamesRow, Held, RenderPCs
  <2>5. CASE FailFinds(w) /\ ~Done(w)
    <3>1. /\ cur'[w] = cur[w] /\ todo'[w] = todo[w]
          /\ pc[w] \in RenderPCs /\ pc'[w] = "marking"
          BY <1>0, <1>1, <2>5 DEF FailFinds, Goto, RenderPCs
    <3>2. QED BY <1>0, <1>2, <3>1 DEF WorkerOwns, NamesRow, Held, RenderPCs
  <2>6. CASE CompleteChecks(w) /\ ~Done(w)
    <3>1. /\ cur'[w] = Fresh(cur[w]) /\ todo'[w] = todo[w]
          /\ pc[w] \in RenderPCs /\ pc'[w] = "finding"
          BY <1>0, <1>1, <2>6 DEF CompleteChecks, Goto, RenderPCs
    <3>2. cur[w] \in JobRecord /\ cur[w].id \in DOMAIN jobs BY <1>0, <3>1, CurType
    <3>3. /\ jobs[cur[w].id].id = cur[w].id /\ jobs[cur[w].id].attempt \in Nat
          BY <3>2, JobsType DEF TypeInv, Keyed, JobRecord
    <3>4. Held(cur[w]) /\ \A job \in todo[w] : job.id # cur[w].id BY <1>0, <3>1 DEF WorkerOwns
    <3>5. Fresh(cur[w]).id = cur[w].id BY <3>3 DEF Fresh
    <3>6. Held(Fresh(cur[w])) BY <3>3, <3>4 DEF Fresh, Held
    <3>7. Held(cur[w])' BY <1>2, <3>1, <3>6 DEF Held
    <3>8. \A job \in todo[w] : Held(job)' BY <1>0, <1>3 DEF WorkerOwns
    <3>9. QED BY <1>0, <3>1, <3>4, <3>5, <3>7, <3>8 DEF WorkerOwns
  <2>7. CASE CompleteFinds(w)
    <3>1. /\ cur'[w] = cur[w] /\ todo'[w] = todo[w] /\ found'[w] = rows[cur[w].target]
          /\ pc[w] \in RenderPCs /\ pc'[w] = "committing"
          BY <1>0, <1>1, <2>7 DEF CompleteFinds, Goto, RenderPCs
    <3>2. QED BY <1>0, <1>2, <3>1 DEF WorkerOwns, NamesRow, Held
  <2>8. QED BY <2>1, <2>2, <2>3, <2>4, <2>5, <2>6, <2>7
<1>5. NamedJobs' /\ AllForward BY <1>2, SameRowsKeepIds, RowsNamed
<1>6. QED BY <1>4, <1>5, WorkerFrame

\* Taking a job from the list, to queue it again or to render it.
LEMMA DeployedTakes ==
  ASSUME OneWorker, TypeInv, DeployedInv, NEW w \in Workers, Others(w),
         ReclaimWrites(w) \/ ClaimJob(w)
  PROVE  DeployedInv' /\ AllForward
<1>0. w \in Threads /\ WorkerOwns(w) BY DEF Threads, DeployedInv
<1>1. /\ pc \in [Threads -> ClientPCs \cup RenderPCs \cup WorkerPCs]
      /\ cur \in [Threads -> JobRecord \cup {None}]
      /\ todo \in [Threads -> SUBSET JobRecord]
      BY DEF TypeInv, TypeOK
<1> DEFINE Claimed(job) == [job EXCEPT !.state = "rendering", !.lease = "live"]
<1>2. PICK job \in todo[w] :
        /\ todo'[w] = todo[w] \ {job} /\ rows' = rows
        /\ \/ UpdateJob(Moved(job, "queued")) /\ pc'[w] = "reclaiming"
           \/ UpdateJob(Claimed(job)) /\ cur'[w] = Claimed(job) /\ pc'[w] = "rendering"
      BY <1>0, <1>1 DEF ReclaimWrites, ClaimJob, Goto
<1>3. job \in JobRecord /\ job.id \in DOMAIN jobs /\ Held(job) /\ job.attempt \in Nat
      BY <1>0 DEF TypeInv, TypeOK, HandsOK, WorkerOwns, JobRecord
<1>4. PICK new \in JobRecord :
        /\ UpdateJob(new) /\ new.id = job.id /\ new.attempt = job.attempt
        /\ new.state \in {"queued", "rendering"}
        /\ pc'[w] = "reclaiming" \/ (pc'[w] = "rendering" /\ cur'[w] = new)
  <2>1. /\ Claimed(job) \in JobRecord /\ Claimed(job).id = job.id
        /\ Claimed(job).attempt = job.attempt /\ Claimed(job).state = "rendering"
        BY <1>3 DEF JobRecord, JobStates, OpenStates
  <2>2. /\ Moved(job, "queued") \in JobRecord /\ Moved(job, "queued").id = job.id
        /\ Moved(job, "queued").attempt = job.attempt /\ Moved(job, "queued").state = "queued"
        BY <1>3, MovedType DEF JobStates, OpenStates
  <2> HIDE DEF Claimed
  <2>3. QED BY <1>2, <2>1, <2>2
<1> HIDE DEF Claimed
<1>5. AllForward BY <1>3, <1>4, HeldForward
<1>6. NamedJobs' BY <1>2, <1>3, <1>4, WriteNamed
<1>7. ASSUME NEW other \in todo'[w] PROVE Held(other)' /\ other.id # job.id
      <2>1. other \in todo[w] /\ other.id # job.id BY <1>0, <1>2 DEF WorkerOwns
      <2>2. Held(other) /\ other.id \in DOMAIN jobs
            BY <1>0, <2>1 DEF WorkerOwns, TypeInv, HandsOK
      <2>3. QED BY <1>3, <1>4, <2>1, <2>2, HeldKept
<1>8. WorkerOwns(w)'
  <2>1. CASE pc'[w] = "reclaiming"
        BY <1>2, <1>7, <2>1, OwnsRest DEF RenderPCs
  <2>2. CASE pc'[w] = "rendering" /\ cur'[w] = new
    <3>1. jobs'[new.id] = new BY <1>3, <1>4, UpdateJobType DEF TypeInv
    <3>2. Held(cur[w])' BY <1>3, <1>4, <2>2, <3>1 DEF Held
    <3>3. QED BY <1>0, <1>2, <1>4, <1>7, <2>2, <3>2 DEF WorkerOwns
  <2>3. QED BY <1>4, <2>1, <2>2
<1>9. QED BY <1>5, <1>6, <1>8, WorkerFrame

\* The ways a render ends: queued again, failed, or ready with the row it has published.
LEMMA DeployedEnds ==
  ASSUME OneWorker, TypeInv, DeployedInv, NEW w \in Workers, Others(w),
         Requeues(w) \/ RenderFails(w) \/ ProfileRefuses(w) \/ Finish(w)
  PROVE  DeployedInv' /\ AllForward
<1>0. w \in Threads /\ WorkerOwns(w) BY DEF Threads, DeployedInv
<1>1. /\ pc \in [Threads -> ClientPCs \cup RenderPCs \cup WorkerPCs]
      /\ cur \in [Threads -> JobRecord \cup {None}]
      /\ todo \in [Threads -> SUBSET JobRecord]
      BY DEF TypeInv, TypeOK
<1>2. /\ pc[w] \in RenderPCs /\ rows' = rows /\ todo'[w] = todo[w]
      BY DEF Requeues, RenderFails, ProfileRefuses, FailRender, Finish, RenderPCs
<1>3. cur[w] \in JobRecord /\ cur[w].id \in DOMAIN jobs /\ cur[w].attempt \in Nat
      BY <1>0, <1>2, CurType DEF JobRecord
<1>4. Held(cur[w]) /\ \A job \in todo[w] : job.id # cur[w].id BY <1>0, <1>2 DEF WorkerOwns
<1>5. PICK new \in JobRecord :
        /\ UpdateJob(new) /\ new.id = cur[w].id /\ cur[w].attempt <= new.attempt
        /\ new.state = "ready" => NamesRow(new.target, new.rendition)
        /\ \/ pc'[w] = "processing"
           \/ pc'[w] = "failing" /\ cur'[w] = new /\ new.state = "failed"
  <2>1. CASE Requeues(w)
    <3> DEFINE new == [Moved(cur[w], "queued") EXCEPT !.attempt = @ + 1]
    <3>1. /\ new \in JobRecord /\ new.id = cur[w].id /\ new.state = "queued"
          /\ new.attempt = cur[w].attempt + 1
          BY <1>3, MovedType DEF JobRecord, JobStates, OpenStates
    <3>2. UpdateJob(new) /\ pc'[w] = "processing"
          BY <1>0, <1>1, <2>1 DEF Requeues, Done
    <3> HIDE DEF new
    <3>3. cur[w].attempt <= new.attempt BY <1>3, <3>1
    <3>4. QED BY <3>1, <3>2, <3>3
  <2>2. CASE RenderFails(w) \/ ProfileRefuses(w)
    <3> DEFINE new == Moved(cur[w], "failed")
    <3>1. /\ new \in JobRecord /\ new.id = cur[w].id /\ new.state = "failed"
          /\ new.attempt = cur[w].attempt
          BY <1>3, MovedType DEF JobStates
    <3>2. UpdateJob(new) /\ pc'[w] = "failing" /\ cur'[w] = new
          BY <1>0, <1>1, <2>2 DEF RenderFails, ProfileRefuses, FailRender, Goto
    <3> HIDE DEF new
    <3>3. cur[w].attempt <= new.attempt BY <1>3, <3>1
    <3>4. QED BY <3>1, <3>2, <3>3
  <2>3. CASE Finish(w)
    <3> DEFINE new == [Moved(cur[w], "ready") EXCEPT !.rendition = found[w].id]
    <3>0. NamesRow(cur[w].target, found[w].id) /\ found[w].id \in RenditionIds
          BY <1>0, <2>3 DEF Finish, WorkerOwns, TypeInv, HandsOK, RenditionRow
    <3>1. /\ new \in JobRecord /\ new.id = cur[w].id /\ new.attempt = cur[w].attempt
          /\ new.target = cur[w].target /\ new.rendition = found[w].id
          BY <1>3, <3>0, MovedType DEF JobRecord, JobStates
    <3>2. UpdateJob(new) /\ pc'[w] = "processing"
          BY <1>0, <1>1, <2>3 DEF Finish, Done
    <3> HIDE DEF new
    <3>3. cur[w].attempt <= new.attempt BY <1>3, <3>1
    <3>4. QED BY <3>0, <3>1, <3>2, <3>3
  <2>4. QED BY <2>1, <2>2, <2>3
<1>6. AllForward BY <1>3, <1>4, <1>5, HeldForward
<1>7. NamedJobs' BY <1>2, <1>3, <1>5, WriteNamed
<1>8. ASSUME NEW other \in todo[w] PROVE Held(other)'
      <2>1. other.id # new.id /\ Held(other) /\ other.id \in DOMAIN jobs
            BY <1>0, <1>4, <1>5 DEF WorkerOwns, TypeInv, HandsOK
      <2>2. QED BY <1>3, <1>5, <2>1, HeldKept
<1>9. WorkerOwns(w)'
  <2>1. CASE pc'[w] = "processing" BY <1>2, <1>8, <2>1, OwnsRest DEF RenderPCs
  <2>2. CASE pc'[w] = "failing" /\ cur'[w] = new /\ new.state = "failed"
    <3>1. jobs'[new.id] = new BY <1>3, <1>5, UpdateJobType DEF TypeInv
    <3>2. Held(cur[w])' BY <2>2, <3>1 DEF Held, IsOpen, OpenStates
    <3>3. QED BY <1>0, <1>2, <1>4, <1>5, <1>8, <2>2, <3>2 DEF WorkerOwns
  <2>3. QED BY <1>5, <2>1, <2>2
<1>10. QED BY <1>6, <1>7, <1>9, WorkerFrame

\* The writes of the row.
LEMMA DeployedRows ==
  ASSUME OneWorker, TypeInv, DeployedInv, NEW w \in Workers, Others(w),
         PublishRow(w) \/ Discard(w) \/ FailMarks(w)
  PROVE  DeployedInv' /\ AllForward
<1>0. w \in Threads /\ WorkerOwns(w) BY DEF Threads, DeployedInv
<1>1. /\ pc \in [Threads -> ClientPCs \cup RenderPCs \cup WorkerPCs]
      /\ found \in [Threads -> RenditionRow \cup {None}]
      BY DEF TypeInv, TypeOK
<1>2. /\ jobs' = jobs /\ todo'[w] = todo[w] /\ pc[w] \in RenderPCs
      BY DEF PublishRow, Discard, FailMarks, RenderPCs
<1>3. cur[w] \in JobRecord /\ cur[w].target \in Targets BY <1>0, <1>2, CurType DEF JobRecord
<1>4. \A job : Held(job) => Held(job)' BY <1>2 DEF Held
<1>5. CASE Discard(w) \/ FailMarks(w)
  <2>1. PICK row \in RenditionRow : UpdateRendition(cur[w].target, row)
    <3>1. CASE Discard(w)
      <4>1. [found[w] EXCEPT !.state = "failed"] \in RenditionRow
            BY <1>0, <3>1 DEF Discard, TypeInv, HandsOK, RenditionRow
      <4>2. QED BY <3>1, <4>1 DEF Discard
    <3>2. CASE FailMarks(w)
      <4>1. [found[w] EXCEPT !.state = "failed", !.job = cur[w].id] \in RenditionRow
            BY <1>0, <1>3, <3>2 DEF FailMarks, TypeInv, HandsOK, RenditionRow, JobRecord
      <4>2. QED BY <3>2, <4>1 DEF FailMarks
    <3>3. QED BY <1>5, <3>1, <3>2
  <2>2. IdsKept BY <1>3, <2>1, RowsKeepIds
  <2>3. pc'[w] = "processing" BY <1>0, <1>1, <1>5 DEF Discard, FailMarks, Done
  <2>4. WorkerOwns(w)' BY <1>0, <1>2, <1>4, <2>3, OwnsRest DEF WorkerOwns, RenderPCs
  <2>5. QED BY <1>2, <2>2, <2>4, RowsNamed, WorkerFrame
<1>6. CASE PublishRow(w)
  <2>1. PICK row \in RenditionRow : row = PublishedRow(w)
        BY <1>0, <1>3, <1>6, PublishedRowType
  <2>2. /\ IF found[w] = None THEN RegisterRendition(cur[w].target, row)
                              ELSE UpdateRendition(cur[w].target, row)
        /\ found'[w] = row /\ pc'[w] = "confirming" /\ pc[w] = "publishing" /\ cur'[w] = cur[w]
        BY <1>0, <1>1, <1>6, <2>1 DEF PublishRow, PublishedRow, Goto
  <2>3. found[w] # None => row.id = found[w].id BY <2>1 DEF PublishedRow
  <2>4. PICK x \in Targets : x = cur[w].target BY <1>3
  <2>5. IdsKept /\ NamesRow(x, row.id)'
    <3>1. /\ IdsKept
          /\ RegisterRendition(x, row) /\ rows[x] = None => NamesRow(x, row.id)'
          BY <2>1, <2>2, <2>4, RowsKeepIds
    <3>2. IF found[w] = None THEN rows[x] = None ELSE NamesRow(x, row.id)
          BY <1>0, <2>2, <2>3, <2>4 DEF WorkerOwns
    <3>3. QED BY <2>2, <2>4, <3>1, <3>2 DEF IdsKept
  <2>6. NamesRow(cur[w].target, found[w].id)' BY <2>2, <2>4, <2>5 DEF NamesRow
  <2>7. Held(cur[w])' BY <1>0, <1>2, <2>2 DEF WorkerOwns, Held
  <2>8. WorkerOwns(w)' BY <1>0, <1>2, <1>4, <2>2, <2>6, <2>7 DEF WorkerOwns
  <2>9. QED BY <1>2, <2>5, <2>8, RowsNamed, WorkerFrame
<1>7. QED BY <1>5, <1>6

LEMMA DeployedStep ==
  OneWorker /\ TypeInv /\ RowInv /\ DeployedInv /\ [Next]_vars => DeployedInv' /\ AllForward
<1> SUFFICES ASSUME OneWorker, TypeInv, RowInv, DeployedInv, [Next]_vars
             PROVE  DeployedInv' /\ AllForward
    OBVIOUS
<1>1. ASSUME NEW c \in Clients, RequestFinds(c) \/ CancelReads(c) \/ ClientStep(c)
      PROVE  DeployedInv' /\ AllForward
      BY <1>1, DeployedClient
<1>2. ASSUME NEW w \in Workers, WorkerStep(w) PROVE DeployedInv' /\ AllForward
  <2>1. Others(w) BY <1>2, OthersKept DEF Threads
  <2>2. QED BY <1>2, <2>1, DeployedReads, DeployedTakes, DeployedEnds, DeployedRows
            DEF WorkerStep, RenderStep
<1>3. ASSUME NEW t \in Threads, Abort(t) PROVE DeployedInv' /\ AllForward
  <2>1. Others(t) BY <1>3, OthersKept
  <2>2. CASE t \in Workers BY <1>3, <2>1, <2>2, DeployedReads
  <2>3. CASE t \in Clients
    <3>1. jobs' = jobs /\ rows' = rows /\ pc'[t] \notin RenderPCs \cup {"starting"}
          BY <1>3 DEF Abort, RenderPCs, TypeInv, TypeOK
    <3>2. QED BY <2>1, <2>3, <3>1, NothingIsMild, MildFrame
  <2>4. QED BY <2>2, <2>3 DEF Threads
<1>4. CASE UNCHANGED vars
      BY <1>4, NothingIsMild, MildFrame DEF vars, local
<1>5. QED BY <1>1, <1>2, <1>3, <1>4, DeployedExpires DEF Next

(***************************************************************************)
(* The row a ready job names is there, under that id, for any number of    *)
(* handlers, deaths and cancellations, as long as one worker renders.      *)
(***************************************************************************)
THEOREM ReadyJobsNameTheirRows == OneWorker => (Spec => []ReadyJobNamesItsRow)
<1> SUFFICES ASSUME OneWorker PROVE Spec => []ReadyJobNamesItsRow OBVIOUS
<1>1. DeployedInv => ReadyJobNamesItsRow BY DEF DeployedInv, NamedJobs, NamesRow, ReadyJobNamesItsRow
<1>2. TypeInv /\ RowInv /\ DeployedInv /\ [Next]_vars => DeployedInv' BY DeployedStep
<1>3. QED BY <1>1, <1>2, TypeInvariant, RowInvInit, RowInvStep, DeployedInit, PTL DEF Spec

\* As deployed, nobody reopens a ready job or forgets the attempts of an open one, whatever
\* copy a thread writes back.
THEOREM JobsOnlyGoForward == OneWorker => (Spec => JobsGoForward)
<1> SUFFICES ASSUME OneWorker PROVE Spec => JobsGoForward OBVIOUS
<1>1. TypeInv /\ RowInv /\ DeployedInv /\ [Next]_vars => DeployedInv' BY DeployedStep
<1>2. TypeInv /\ RowInv /\ DeployedInv /\ [Next]_vars =>
        [\A j \in DOMAIN jobs :
           /\ jobs[j].state = "ready" => ~IsOpen(jobs'[j])
           /\ IsOpen(jobs[j]) /\ IsOpen(jobs'[j]) => jobs[j].attempt <= jobs'[j].attempt]_vars
      BY DeployedStep DEF AllForward, Forward
<1>3. QED BY <1>1, <1>2, TypeInvariant, RowInvInit, RowInvStep, DeployedInit, PTL
          DEF Spec, JobsGoForward

=============================================================================
