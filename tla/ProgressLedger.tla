--------------------------- MODULE ProgressLedger ---------------------------
(***************************************************************************)
(* The journal of a research run and its delivery to the session:          *)
(* apps/api/research_runs.py (commit_event_batch and its producers),       *)
(* routers/progress.py (pause_run, resume_run), progress_maps.py (strict   *)
(* reports), trace_hook.py (TraceHookMiddleware) and delivery_outbox.py    *)
(* with delivery_worker.py.                                                *)
(*                                                                         *)
(* The ledger, its receipts and the outbox are tables of one database, and *)
(* commit_event_batch is one transaction, serialised per run by a row      *)
(* lock: one step here.  The session (layer 1) is a document of the        *)
(* session store, which a thread reads in one step and saves in another;   *)
(* a save succeeds only if the revision has not moved.                     *)
(***************************************************************************)
EXTENDS Integers, Sequences

CONSTANTS
  Handlers,        \* threads that serve requests
  Workers,         \* threads that run DeliveryWorker._loop or the recovery runner
  Sessions,
  Reports,         \* report ids that clients choose
  Contexts,        \* data contexts (dataset, revision, target) a session may be in
  MaxAttempts,     \* max_attempts of a delivery task
  OpBound,         \* bound of the model: requests ever served
  AbortBound,      \* bound of the model: threads that die
  LossBound,       \* bound of the model: sessions that are lost
  None

ASSUME ConstantsAssumption ==
  /\ Handlers \cap Workers = {}
  /\ MaxAttempts \in Nat \ {0}
  /\ {OpBound, AbortBound, LossBound} \subseteq Nat
  /\ Reports \cap Nat = {}
  /\ None \notin Contexts \cup Nat

VARIABLES
  runs,       \* research_runs
  ledger,     \* trace_events of a run, by commit_seq
  receipts,   \* run_commit_receipts
  tasks,      \* progress_delivery_outbox
  sessions,   \* documents of the session store
  drafts,     \* the reports that clients have composed
  ops,        \* requests served so far; the next unused identifier
  aborts,     \* threads that have died (bounds the model)
  losses,     \* sessions that have been lost (bounds the model)
  pc,         \* what a thread does next
  my,         \* what a thread has read
  todo        \* the tasks a worker has listed and not yet dealt with

tables == <<runs, ledger, receipts, tasks>>
vars == <<tables, sessions, drafts, ops, aborts, losses, pc, my, todo>>

Threads == Handlers \cup Workers

(***************************************************************************)
(* Identifiers are fresh (uuid4): an event takes the number of the request *)
(* that makes it, a run the number of the request that opens it.  The      *)
(* operation of a report is its report id, of any other fact its event id. *)
(***************************************************************************)
Ids == 1..OpBound
OpIds == Ids \cup Reports
Kinds == {"traced", "paused", "resumed", "reported"}
Event == [id: Ids, run: Ids \cup {0}, kind: Kinds]

Run == [status: {"active", "paused", "abandoned"}, ctx: Contexts \cup {None},
        session: Sessions]
Receipt == [run: Ids, op: OpIds, body: Contexts \cup {None}, event: Event, mark: Nat]
Task == [session: Sessions, event: Event, attempts: Nat,
         state: {"pending", "delivered", "failed"}, due: BOOLEAN]
Session == [run: Ids \cup {None}, ctx: Contexts, rev: Nat, trace: Seq(Event)]
Draft == [run: Ids, ctx: Contexts]
Local == [session: Sessions, event: Event, op: OpIds, owes: BOOLEAN,
          base: Run \cup {None}, expected: Contexts \cup {None},
          copy: Session \cup {None}]

ASSUME NoneAssumption ==
  None \notin Run /\ None \notin Task /\ None \notin Session /\ None \notin Draft /\ None \notin Local

HandlerPCs == {"idle", "tracing", "tracesaving", "gating", "basing", "superseding",
               "looking", "owing", "committing", "saving", "mirroring",
               "mirrorsaving", "marking"}
WorkerPCs == {"idle", "delivering", "deliversaving", "marking", "failing"}

TypeOK ==
  /\ runs \in [Ids -> Run \cup {None}]
  /\ ledger \in [Ids -> Seq(Event)]
  /\ receipts \subseteq Receipt
  /\ tasks \in [OpIds -> Task \cup {None}]
  /\ sessions \in [Sessions -> Session \cup {None}]
  /\ drafts \in [Reports -> Draft \cup {None}]
  /\ ops \in 0..OpBound
  /\ aborts \in 0..AbortBound
  /\ losses \in 0..LossBound
  /\ pc \in [Threads -> HandlerPCs \cup WorkerPCs]
  /\ my \in [Threads -> Local \cup {None}]
  /\ todo \in [Threads -> SUBSET OpIds]

Init ==
  /\ runs = [r \in Ids |-> None]
  /\ ledger = [r \in Ids |-> <<>>]
  /\ receipts = {}
  /\ tasks = [op \in OpIds |-> None]
  /\ sessions = [s \in Sessions |-> None]
  /\ drafts = [p \in Reports |-> None]
  /\ ops = 0
  /\ aborts = 0
  /\ losses = 0
  /\ pc = [t \in Threads |-> "idle"]
  /\ my = [t \in Threads |-> None]
  /\ todo = [t \in Threads |-> {}]

-----------------------------------------------------------------------------
(***************************************************************************)
(* The session store.                                                      *)
(***************************************************************************)
Goto(t, label) == pc' = [pc EXCEPT ![t] = label]

\* The request is answered; a worker takes the next task of its list.
Done(t) ==
  /\ Goto(t, IF t \in Workers THEN "delivering" ELSE "idle")
  /\ my' = [my EXCEPT ![t] = None]

\* An absent document counts as revision 0.
Revision(s) == IF sessions[s] = None THEN 0 ELSE sessions[s].rev

\* Mutant: the revision is not compared.
AlwaysCurrent(t) == TRUE

\* Save: compare the revision and write; it may also fail with the store.
IsCurrent(t) == Revision(my[t].session) = my[t].copy.rev

Save(t) ==
  /\ IsCurrent(t)
  /\ sessions' = [sessions EXCEPT ![my[t].session] = [my[t].copy EXCEPT !.rev = @ + 1]]

\* Mutant: a delivery does not look whether the event is there.
NeverHeld(doc, e) == FALSE

Holds(doc, e) == \E i \in DOMAIN doc.trace : doc.trace[i] = e

With(doc, e) == [doc EXCEPT !.trace = Append(@, e)]

Begin(h, s, kind, op, label) ==
  /\ pc[h] = "idle" /\ ops < OpBound
  /\ ops' = ops + 1
  /\ my' = [my EXCEPT ![h] =
       [session |-> s, event |-> [id |-> ops + 1, run |-> 0, kind |-> kind],
        op |-> op, owes |-> FALSE, base |-> None, expected |-> None, copy |-> None]]
  /\ Goto(h, label)

-----------------------------------------------------------------------------
(***************************************************************************)
(* A traced request.  Its own read-modify-save of the session is one step, *)
(* since it takes effect only if nothing came between; TraceHookMiddleware *)
(* then records it, after the answer, in steps of its own.  Its _record    *)
(* awaits nothing, so the event loop runs one hook at a time, while the    *)
(* threads of the pool and the worker go on.                               *)
(***************************************************************************)
\* set_dataset: another dataset is another research.
Upload(h, s) ==
  /\ Begin(h, s, "traced", ops + 1, "tracing")
  /\ \E c \in Contexts :
       sessions' = [sessions EXCEPT ![s] =
         [run |-> None, ctx |-> c, rev |-> Revision(s) + 1, trace |-> <<>>]]
  /\ UNCHANGED <<tables, drafts, aborts, losses, todo>>

\* A correction or a choice of target puts the session in another context.
Edit(h, s) ==
  /\ Begin(h, s, "traced", ops + 1, "tracing")
  /\ sessions[s] # None
  /\ \E c \in Contexts \ {sessions[s].ctx} :
       sessions' = [sessions EXCEPT ![s].ctx = c, ![s].rev = @ + 1]
  /\ UNCHANGED <<tables, drafts, aborts, losses, todo>>

\* The event loop is running the hook of another request.
LoopIsBusy ==
  \E k \in Handlers :
    my[k] # None /\ my[k].event.kind = "traced" /\ pc[k] # "tracing"

\* Mutant: the session gets no run before its first event.
RunAsItIs(h) == sessions[my[h].session].run

\* ensure_run_id: a session without a run opens one.
EnsuredRun(h) ==
  LET r == sessions[my[h].session].run IN IF r = None THEN my[h].event.id ELSE r

HookReads(h) ==
  LET s == my[h].session
      r == EnsuredRun(h)
      e == [my[h].event EXCEPT !.run = r]
  IN
  /\ pc[h] = "tracing" /\ ~LoopIsBusy
  /\ IF sessions[s] = None
     THEN Done(h)
     ELSE /\ my' = [my EXCEPT ![h].event = e,
                              ![h].copy = [With(sessions[s], e) EXCEPT !.run = r]]
          /\ Goto(h, "tracesaving")
  /\ UNCHANGED <<tables, sessions, drafts, ops, aborts, losses, todo>>

\* A conflict, or a store that is down, ends the hook with a warning.
HookSaves(h) ==
  /\ pc[h] = "tracesaving"
  /\ \/ Save(h) /\ Goto(h, "basing") /\ UNCHANGED my
     \/ Done(h) /\ UNCHANGED sessions
  /\ UNCHANGED <<tables, drafts, ops, aborts, losses, todo>>

-----------------------------------------------------------------------------
(***************************************************************************)
(* The record of the run that a mirror writes back (_mirror_run_base): as  *)
(* it is read, with the session and the context of the caller.  A traced   *)
(* fact expects the context it reads here, a report the one its gate read. *)
(***************************************************************************)
Mirrored(t, row) == [row EXCEPT !.session = my[t].session, !.ctx = my[t].copy.ctx]

Expected(t, row) == IF my[t].event.kind = "reported" THEN my[t].expected ELSE row.ctx

ReadBase(h) ==
  LET row == runs[my[h].event.run] IN
  /\ pc[h] = "basing"
  /\ IF row = None
     THEN /\ my' = [my EXCEPT ![h].base = Mirrored(h,
                     [status |-> "active", ctx |-> None, session |-> my[h].session])]
          /\ Goto(h, "superseding")
     ELSE /\ my' = [my EXCEPT ![h].base = Mirrored(h, row),
                              ![h].expected = Expected(h, row)]
          /\ Goto(h, "looking")
  /\ UNCHANGED <<tables, sessions, drafts, ops, aborts, losses, todo>>

\* supersede_active_runs, a transaction of its own before the new run is written.
Supersede(h) ==
  /\ pc[h] = "superseding"
  /\ runs' = [r \in Ids |->
       IF /\ runs[r] # None /\ r # my[h].event.run
          /\ runs[r].session = my[h].session /\ runs[r].status = "active"
       THEN [runs[r] EXCEPT !.status = "abandoned"] ELSE runs[r]]
  /\ Goto(h, "looking")
  /\ UNCHANGED <<ledger, receipts, tasks, sessions, drafts, ops, aborts, losses, my, todo>>

-----------------------------------------------------------------------------
(***************************************************************************)
(* commit_event_batch.                                                     *)
(***************************************************************************)
\* Mutant: the key of a receipt is not unique.
NeverThere(r, op) == FALSE

HasReceipt(r, op) == \E x \in receipts : x.run = r /\ x.op = op

\* The key is looked up first.  A receipt that is there is returned, or refused
\* when the body differs: nothing is written either way.
LookUp(h) ==
  /\ pc[h] = "looking"
  /\ IF HasReceipt(my[h].event.run, my[h].op)
     THEN Done(h)
     ELSE Goto(h, "committing") /\ UNCHANGED my
  /\ UNCHANGED <<tables, sessions, drafts, ops, aborts, losses, todo>>

\* Mutant: a context is never compared.
NeverMoved(h) == FALSE

\* The stored context is not the one the producer expects.
ContextMoved(h) ==
  LET row == runs[my[h].event.run] IN
  /\ my[h].expected # None /\ row # None
  /\ row.ctx \notin {None, my[h].expected}

Body(h) == IF my[h].op \in Reports THEN drafts[my[h].op].ctx ELSE None

IsLogged(r, e) == \E i \in DOMAIN ledger[r] : ledger[r][i] = e

\* Mutant: the watermark is taken before the event is counted.
MarkBefore(log) == Len(log) - 1

Watermark(log) == Len(log)

\* Run metadata (an absent context keeps the stored one), event, receipt and task.
WriteBatch(h) ==
  LET r == my[h].event.run
      e == my[h].event
      log == IF IsLogged(r, e) THEN ledger[r] ELSE Append(ledger[r], e)
      op == my[h].op
  IN
  /\ runs' = [runs EXCEPT ![r] =
       IF @ # None /\ my[h].base.ctx = None
       THEN [my[h].base EXCEPT !.ctx = runs[r].ctx] ELSE my[h].base]
  /\ ledger' = [ledger EXCEPT ![r] = log]
  /\ receipts' = receipts \cup
       {[run |-> r, op |-> op, body |-> Body(h), event |-> e, mark |-> Watermark(log)]}
  /\ tasks' = IF my[h].owes /\ tasks[op] = None
              THEN [tasks EXCEPT ![op] =
                     [session |-> my[h].session, event |-> e, attempts |-> 0,
                      state |-> "pending", due |-> TRUE]]
              ELSE tasks

\* The layer 1 of a report is the session its handler has loaded.
AfterCommit(h) ==
  CASE my[h].event.kind = "traced" -> Done(h)
    [] my[h].event.kind = "reported" ->
         /\ my' = [my EXCEPT ![h].copy = With(@, my[h].event)]
         /\ Goto(h, "saving")
    [] OTHER -> Goto(h, "mirroring") /\ UNCHANGED my

\* The batch is refused as a whole when the context has moved, or when the key
\* has been taken since it was looked up (primary key of run_commit_receipts).
Commit(h) ==
  /\ pc[h] = "committing"
  /\ IF ContextMoved(h) \/ HasReceipt(my[h].event.run, my[h].op)
     THEN Done(h) /\ UNCHANGED tables
     ELSE WriteBatch(h) /\ AfterCommit(h)
  /\ UNCHANGED <<sessions, drafts, ops, aborts, losses, todo>>

-----------------------------------------------------------------------------
(***************************************************************************)
(* pause_run and resume_run.  The guard on the status reads a record that  *)
(* the transaction writes back whole.                                      *)
(***************************************************************************)
RunLevelReads(h, s, r, kind, from, to) ==
  /\ runs[r] # None /\ runs[r].status = from
  /\ pc[h] = "idle" /\ ops < OpBound
  /\ ops' = ops + 1
  /\ my' = [my EXCEPT ![h] =
       [session |-> s, event |-> [id |-> ops + 1, run |-> r, kind |-> kind],
        op |-> ops + 1, owes |-> FALSE, base |-> [runs[r] EXCEPT !.status = to],
        expected |-> runs[r].ctx, copy |-> None]]
  /\ Goto(h, "owing")
  /\ UNCHANGED <<tables, sessions, drafts, aborts, losses, todo>>

PauseReads(h, s, r) == RunLevelReads(h, s, r, "paused", "active", "paused")
ResumeReads(h, s, r) == RunLevelReads(h, s, r, "resumed", "paused", "active")

IsSessionOf(s, r) == sessions[s] # None /\ sessions[s].run = r

\* _run_level_delivery_task: a session that follows another run is owed nothing.
OwesDelivery(h) ==
  /\ pc[h] = "owing"
  /\ my' = [my EXCEPT ![h].owes = IsSessionOf(my[h].session, my[h].event.run)]
  /\ Goto(h, "committing")
  /\ UNCHANGED <<tables, sessions, drafts, ops, aborts, losses, todo>>

AfterMirror(h) ==
  IF my[h].owes THEN Goto(h, "marking") /\ UNCHANGED my ELSE Done(h)

\* _mirror_to_layer1 appends the event whether or not the session has it.
MirrorReads(h) ==
  LET s == my[h].session IN
  /\ pc[h] = "mirroring"
  /\ IF IsSessionOf(s, my[h].event.run)
     THEN /\ my' = [my EXCEPT ![h].copy = With(sessions[s], my[h].event)]
          /\ Goto(h, "mirrorsaving")
     ELSE AfterMirror(h)
  /\ UNCHANGED <<tables, sessions, drafts, ops, aborts, losses, todo>>

\* A save that fails is logged, and the request goes on as if it had not.
MirrorSaves(h) ==
  /\ pc[h] = "mirrorsaving"
  /\ Save(h) \/ UNCHANGED sessions
  /\ AfterMirror(h)
  /\ UNCHANGED <<tables, drafts, ops, aborts, losses, todo>>

-----------------------------------------------------------------------------
(***************************************************************************)
(* A strict report of a map of statuses (progress_maps.py).                *)
(***************************************************************************)
\* A client composes a report once, for the run and the context it sees, and
\* may send it any number of times.
ReportLoads(h, s, p) ==
  LET r == sessions[s].run
      e == [id |-> ops + 1, run |-> r, kind |-> "reported"]
  IN
  /\ pc[h] = "idle" /\ ops < OpBound
  /\ sessions[s] # None /\ r # None /\ runs[r] # None
  /\ \/ drafts[p] = None /\ runs[r].ctx # None
     \/ drafts[p] # None /\ drafts[p].run = r
  /\ ops' = ops + 1
  /\ drafts' = IF drafts[p] # None THEN drafts
               ELSE [drafts EXCEPT ![p] = [run |-> r, ctx |-> runs[r].ctx]]
  /\ my' = [my EXCEPT ![h] =
       [session |-> s, event |-> e, op |-> p, owes |-> TRUE,
        base |-> None, expected |-> None, copy |-> sessions[s]]]
  /\ Goto(h, "gating")
  /\ UNCHANGED <<tables, sessions, aborts, losses, todo>>

\* Refused unless it was composed in the context the run has.
ReportGates(h) ==
  LET row == runs[my[h].event.run] IN
  /\ pc[h] = "gating"
  /\ IF row.ctx = drafts[my[h].op].ctx
     THEN my' = [my EXCEPT ![h].expected = row.ctx] /\ Goto(h, "basing")
     ELSE Done(h)
  /\ UNCHANGED <<tables, sessions, drafts, ops, aborts, losses, todo>>

\* A save that fails leaves the task to the worker, and the client a 500.
ReportSaves(h) ==
  /\ pc[h] = "saving"
  /\ \/ Save(h) /\ Goto(h, "marking") /\ UNCHANGED my
     \/ Done(h) /\ UNCHANGED sessions
  /\ UNCHANGED <<tables, drafts, ops, aborts, losses, todo>>

-----------------------------------------------------------------------------
(***************************************************************************)
(* The outbox and its worker (run_delivery_recovery).                      *)
(***************************************************************************)
IsDue(op) == tasks[op] # None /\ tasks[op].state = "pending" /\ tasks[op].due

ListDue(w) ==
  /\ pc[w] = "idle" /\ \E op \in OpIds : IsDue(op)
  /\ todo' = [todo EXCEPT ![w] = {op \in OpIds : IsDue(op)}]
  /\ Goto(w, "delivering")
  /\ UNCHANGED <<tables, sessions, drafts, ops, aborts, losses, my>>

CycleEnds(w) ==
  /\ pc[w] = "delivering" /\ todo[w] = {}
  /\ Goto(w, "idle")
  /\ UNCHANGED <<tables, sessions, drafts, ops, aborts, losses, my, todo>>

Delivery(op, copy) ==
  [session |-> tasks[op].session, event |-> tasks[op].event, op |-> op,
   owes |-> TRUE, base |-> None, expected |-> None, copy |-> copy]

\* deliver_layer1_mirror: nothing to do for a session that is gone or that has
\* the event; the store may also fail.
DeliverReads(w) ==
  /\ pc[w] = "delivering"
  /\ \E op \in todo[w] :
       LET doc == sessions[tasks[op].session]
           e == tasks[op].event
       IN
       /\ todo' = [todo EXCEPT ![w] = @ \ {op}]
       /\ \/ /\ doc # None => Holds(doc, e)
             /\ my' = [my EXCEPT ![w] = Delivery(op, None)]
             /\ Goto(w, "marking")
          \/ /\ doc # None /\ ~Holds(doc, e)
             /\ my' = [my EXCEPT ![w] = Delivery(op, With(doc, e))]
             /\ Goto(w, "deliversaving")
          \/ /\ my' = [my EXCEPT ![w] = Delivery(op, None)]
             /\ Goto(w, "failing")
  /\ UNCHANGED <<tables, sessions, drafts, ops, aborts, losses>>

DeliverSaves(w) ==
  /\ pc[w] = "deliversaving"
  /\ \/ Save(w) /\ Goto(w, "marking")
     \/ UNCHANGED sessions /\ Goto(w, "failing")
  /\ UNCHANGED <<tables, drafts, ops, aborts, losses, my, todo>>

\* mark_delivered, whatever the state of the task.
Marks(t) ==
  /\ pc[t] = "marking"
  /\ tasks' = [tasks EXCEPT ![my[t].op].state = "delivered"]
  /\ Done(t)
  /\ UNCHANGED <<runs, ledger, receipts, sessions, drafts, ops, aborts, losses, todo>>

\* Mutant: an attempt that failed is not counted.
FailedUncounted(task) == [task EXCEPT !.due = FALSE, !.state = "pending"]

\* mark_failed, whatever the state of the task: one attempt more.
Failed(task) ==
  LET n == task.attempts + 1 IN
  [task EXCEPT !.attempts = n, !.due = FALSE,
               !.state = IF n >= MaxAttempts THEN "failed" ELSE "pending"]

MarkFailed(w) ==
  /\ pc[w] = "failing"
  /\ tasks' = [tasks EXCEPT ![my[w].op] = Failed(@)]
  /\ Done(w)
  /\ UNCHANGED <<runs, ledger, receipts, sessions, drafts, ops, aborts, losses, todo>>

\* The backoff of a failed attempt is over.
RetryDue(op) ==
  /\ tasks[op] # None /\ tasks[op].state = "pending" /\ ~tasks[op].due
  /\ tasks' = [tasks EXCEPT ![op].due = TRUE]
  /\ UNCHANGED <<runs, ledger, receipts, sessions, drafts, ops, aborts, losses, pc, my, todo>>

-----------------------------------------------------------------------------
\* The session store drops a document (its TTL is over, the cache is restarted).
SessionLost(s) ==
  /\ losses < LossBound /\ sessions[s] # None
  /\ losses' = losses + 1
  /\ sessions' = [sessions EXCEPT ![s] = None]
  /\ UNCHANGED <<tables, drafts, ops, aborts, pc, my, todo>>

\* A thread dies with its process, or with an error nothing catches.
Abort(t) ==
  /\ aborts < AbortBound /\ pc[t] # "idle"
  /\ aborts' = aborts + 1
  /\ Goto(t, "idle")
  /\ my' = [my EXCEPT ![t] = None]
  /\ todo' = [todo EXCEPT ![t] = {}]
  /\ UNCHANGED <<tables, sessions, drafts, ops, losses>>

Client(h) ==
  \E s \in Sessions :
    \/ Upload(h, s)
    \/ Edit(h, s)
    \/ \E r \in Ids : PauseReads(h, s, r) \/ ResumeReads(h, s, r)
    \/ \E p \in Reports : ReportLoads(h, s, p)

HandlerStep(h) ==
  \/ HookReads(h) \/ HookSaves(h)
  \/ ReportGates(h)
  \/ ReadBase(h) \/ Supersede(h) \/ LookUp(h) \/ Commit(h)
  \/ OwesDelivery(h) \/ MirrorReads(h) \/ MirrorSaves(h)
  \/ ReportSaves(h) \/ Marks(h)

WorkerStep(w) ==
  \/ ListDue(w) \/ CycleEnds(w) \/ DeliverReads(w) \/ DeliverSaves(w)
  \/ Marks(w) \/ MarkFailed(w)

Next ==
  \/ \E h \in Handlers : Client(h) \/ HandlerStep(h)
  \/ \E w \in Workers : WorkerStep(w)
  \/ \E op \in OpIds : RetryDue(op)
  \/ \E s \in Sessions : SessionLost(s)
  \/ \E t \in Threads : Abort(t)

Spec == Init /\ [][Next]_vars

\* The worker thread goes on as long as its process does, and clocks advance.
FairSpec ==
  /\ Spec
  /\ \A w \in Workers : WF_vars(WorkerStep(w))
  /\ \A op \in OpIds : WF_vars(RetryDue(op))

-----------------------------------------------------------------------------
(***************************************************************************)
(* Properties.                                                             *)
(***************************************************************************)
\* commit_event_batch writes a fact at most once, under a key of its own, and
\* only ever at the end of the journal of a run: what FactLog promises.
Ledger == INSTANCE FactLog WITH
  Runs <- Ids, Keys <- OpIds, Facts <- Ids,
  log <- [r \in Ids |-> [i \in DOMAIN ledger[r] |-> ledger[r][i].id]],
  used <- {<<x.run, x.op>> : x \in receipts}

RefinesFactLog == Ledger!Spec

\* A receipt tells the producer the truth, and nothing is in the journal without
\* one: the event is where the watermark says, whatever retries, aborts and
\* refused batches there were (commit_event_batch).
ReceiptsMatchLedger ==
  /\ \A x \in receipts : x.mark \in DOMAIN ledger[x.run] /\ ledger[x.run][x.mark] = x.event
  /\ \A r \in Ids : \A i \in DOMAIN ledger[r] :
       \E x \in receipts : x.run = r /\ x.mark = i

\* The copies of an event in a trace.
Copies(doc, e) == {i \in DOMAIN doc.trace : doc.trace[i] = e}

\* A report the client holds a receipt for is in the trace of its session, or the
\* outbox still knows it is not, as long as the session follows the run: no crash
\* between commit, save and mark_delivered, and no other writer of the session,
\* makes it disappear (progress_maps.py, run_delivery_recovery).
ReportIsProjectedOrOwed ==
  \A x \in receipts : x.op \in Reports =>
    LET task == tasks[x.op] IN
    \/ task.state \in {"pending", "failed"}
    \/ ~IsSessionOf(task.session, x.run)
    \/ Copies(sessions[task.session], x.event) # {}

\* A report shows up once in the trace, although its handler and the worker both
\* deliver it and either may stop half way (deliver_layer1_mirror).
ReportsAppearOnce ==
  \A s \in Sessions : sessions[s] # None =>
    \A i \in DOMAIN sessions[s].trace :
      sessions[s].trace[i].kind = "reported" =>
        Copies(sessions[s], sessions[s].trace[i]) = {i}

\* No report is recorded in a run that has left the context it was composed in,
\* even when the context moves between the gate and the commit (the comparison
\* of expected_context_id in commit_event_batch).
ReportsMeetContext ==
  [][\A x \in receipts' \ receipts :
       x.op \in Reports => runs[x.run].ctx = x.body]_vars

\* The worker always brings an obligation to an end, delivered or out of attempts
\* (run_delivery_recovery, mark_failed).
TasksSettle ==
  \A op \in OpIds : []<>(tasks[op] = None \/ tasks[op].state # "pending")

\* pause_run: a pause that has been recorded lasts until a resumption is recorded.
PauseIsKept ==
  [][\A r \in Ids :
       (runs[r] # None /\ runs[r].status = "paused" /\ runs'[r].status # "paused")
         => ledger'[r][Len(ledger'[r])].kind = "resumed"]_vars

\* pause_run: between two pauses of a run there is a resumption.
NoDoublePause ==
  \A r \in Ids : \A i, j \in DOMAIN ledger[r] :
    (i < j /\ ledger[r][i].kind = "paused" /\ ledger[r][j].kind = "paused")
      => \E k \in i..j : ledger[r][k].kind = "resumed"

\* I1 of the progress contract: one fact is one event in the trace of a session.
OneCopyPerEvent ==
  \A s \in Sessions : sessions[s] # None =>
    \A i \in DOMAIN sessions[s].trace :
      Copies(sessions[s], sessions[s].trace[i]) = {i}

\* _mark_delivered_safe closes the obligation of a run-level fact once its mirror
\* has succeeded: the trace of the session has the event.
DeliveredIsProjected ==
  \A op \in OpIds :
    (tasks[op] # None /\ tasks[op].state = "delivered")
      => \/ ~IsSessionOf(tasks[op].session, tasks[op].event.run)
         \/ Copies(sessions[tasks[op].session], tasks[op].event) # {}

\* The trace of a session is about the run the session follows.
TraceOfOwnRun ==
  \A s \in Sessions : sessions[s] # None =>
    \A i \in DOMAIN sessions[s].trace : sessions[s].trace[i].run = sessions[s].run

\* A run that another dataset of the session has superseded stays abandoned.
AbandonedStaysAbandoned ==
  [][\A r \in Ids :
       (runs[r] # None /\ runs[r].status = "abandoned")
         => runs'[r].status = "abandoned"]_vars

\* SessionStore.save: a stale copy is refused and never written over newer data.
\* A document passes from one run to another only through an upload.
SessionIsNotRolledBack ==
  [][\A s \in Sessions :
       (sessions[s] # None /\ sessions[s].run # None
          /\ sessions'[s] # None /\ sessions'[s].run # None)
         => sessions'[s].run = sessions[s].run]_vars

=============================================================================
