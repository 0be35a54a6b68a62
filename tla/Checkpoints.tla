---------------------------- MODULE Checkpoints -----------------------------
(***************************************************************************)
(* Checkpoints of a research run, their data snapshots, what is promoted   *)
(* from them, and the restoration of the run: create_checkpoint and        *)
(* restore_run of apps/api/routers/progress.py, promote_checkpoint_data of *)
(* apps/api/artifact_promotion.py, and the sweep of staged files of        *)
(* apps/api/delivery_outbox.py run by apps/api/delivery_worker.py.         *)
(*                                                                         *)
(* A checkpoint is a row of the ledger and, when the caller's session is   *)
(* one of the run, a file.  The file is saved before the row is committed, *)
(* files are removed by every later checkpoint (all but the last few and   *)
(* the pinned) and by the sweep (those without a row), and none of these   *)
(* holds a lock across two of its steps.  Data is told apart by the        *)
(* analytical context it belongs to, and by nothing else.                  *)
(***************************************************************************)
EXTENDS Integers, FiniteSets, Functions

CONSTANTS
  Handlers,      \* requests in flight
  Creators, Promoters, Restorers,  \* and what each may be a request for
  Sessions,      \* session documents the run can have at a time
  First,         \* the session that has made the run
  Contexts,      \* analytical contexts; a loaded file without corrections is in Raw
  Raw,
  Kept,          \* snapshots the prune leaves to a run (5 in the code)
  IdBound,       \* bound of the model: checkpoints ever begun
  None

ASSUME CheckpointsAssumption ==
  /\ Creators \cup Promoters \cup Restorers \subseteq Handlers
  /\ First \in Sessions
  /\ Raw \in Contexts
  /\ Kept \in Nat \ {0}
  /\ IdBound \in Nat
  /\ None \notin Handlers \cup Sessions \cup Contexts

VARIABLES
  run,        \* the row of the run: its context and its status
  rows,       \* run_checkpoints, by checkpoint id; ids are in the order of created_at
  begun,      \* the number of ids given out
  files,      \* checkpoint files: what context their data is in
  objects,    \* payloads in the object store
  artifacts,  \* data_frame artifacts, by the checkpoint they were made from
  pins,       \* pinned checkpoints
  sessions,   \* for each session of the run, the context its data is in
  pc, my,     \* where a handler is, and what it holds
  sweep       \* where the sweep is: what it takes for referenced, what it has yet to look at

ledger == <<run, rows>>
store == <<objects, artifacts, pins>>
vars == <<ledger, begun, files, store, sessions, pc, my, sweep>>

Ids == 1..IdBound
Idle == [at |-> "idle", referenced |-> {}, todo |-> {}]
Nothing == [expected |-> None, id |-> 0, row |-> None, keep |-> {}, data |-> None]

Init ==
  /\ run = [context |-> Raw, status |-> "active"]
  /\ rows = [c \in {} |-> None]
  /\ begun = 0
  /\ files = [c \in {} |-> None]
  /\ objects = {}
  /\ artifacts = [c \in {} |-> None]
  /\ pins = {}
  /\ sessions = [s \in {First} |-> Raw]
  /\ pc = [h \in Handlers |-> "idle"]
  /\ my = [h \in Handlers |-> Nothing]
  /\ sweep = Idle

Put(f, c, v) == [k \in DOMAIN f \cup {c} |-> IF k = c THEN v ELSE f[k]]
Goto(h, at, locals) == pc' = [pc EXCEPT ![h] = at] /\ my' = [my EXCEPT ![h] = locals]
Done(h) == Goto(h, "idle", Nothing)

\* Mutant: the commit does not look at the context.
AlwaysExpected(x) == TRUE

\* commit_event_batch: the whole row of the run is written, with the status the
\* request has read, if its context is still the one the request has read.
Expected(x) == run.context = x
-----------------------------------------------------------------------------
(* POST /runs/{run_id}/checkpoints                                         *)

CreateReads(h) ==
  /\ pc[h] = "idle"
  /\ run.status # "abandoned"
  /\ Goto(h, "staging", [Nothing EXCEPT !.expected = run.context])
  /\ UNCHANGED <<ledger, begun, files, store, sessions, sweep>>

\* Mutant: the checkpoint is said to be of the context of the run.
CreateStagesOfRun(h, s, ok) ==
  /\ pc[h] = "staging"
  /\ begun < IdBound
  /\ begun' = begun + 1
  /\ s \in DOMAIN sessions
  /\ files' = IF ok THEN Put(files, begun', sessions[s]) ELSE files
  /\ Goto(h, "committing", [my[h] EXCEPT !.id = begun', !.row = [context |-> my[h].expected, snap |-> ok]])
  /\ UNCHANGED <<ledger, store, sessions, sweep>>

\* The checkpoint gets its id, and the data of the caller's session is saved under
\* it, when the session is one of this run and the disk does not fail.
CreateStages(h, s, ok) ==
  /\ pc[h] = "staging"
  /\ begun < IdBound
  /\ begun' = begun + 1
  /\ s \in DOMAIN sessions
  /\ files' = IF ok THEN Put(files, begun', sessions[s]) ELSE files
  /\ Goto(h, "committing", [my[h] EXCEPT !.id = begun', !.row = [context |-> sessions[s], snap |-> ok]])
  /\ UNCHANGED <<ledger, store, sessions, sweep>>

\* The caller has another session: a reference without data.
CreateRefers(h) ==
  /\ pc[h] = "staging"
  /\ begun < IdBound
  /\ begun' = begun + 1
  /\ Goto(h, "committing", [my[h] EXCEPT !.id = begun', !.row = [context |-> None, snap |-> FALSE]])
  /\ UNCHANGED <<ledger, files, store, sessions, sweep>>

CreateCommits(h) ==
  /\ pc[h] = "committing"
  /\ Expected(my[h].expected)
  /\ run' = [context |-> my[h].expected, status |-> "active"]
  /\ rows' = Put(rows, my[h].id, my[h].row)
  /\ Goto(h, "listing", Nothing)
  /\ UNCHANGED <<begun, files, store, sessions, sweep>>

\* 409: nothing is written, and the file stays where it is.
CreateConflicts(h) ==
  /\ pc[h] = "committing"
  /\ ~Expected(my[h].expected)
  /\ Done(h)
  /\ UNCHANGED <<ledger, begun, files, store, sessions, sweep>>

LastKept == {c \in DOMAIN rows : Cardinality({d \in DOMAIN rows : d > c}) < Kept}

PruneLists(h) ==
  /\ pc[h] = "listing"
  /\ Goto(h, "looking", [my[h] EXCEPT !.keep = LastKept])
  /\ UNCHANGED <<ledger, begun, files, store, sessions, sweep>>

\* The pins are added to what is kept; a failed lookup is the end of the prune.
PruneLooksUp(h) ==
  /\ pc[h] = "looking"
  /\ \/ Goto(h, "removing", [my[h] EXCEPT !.keep = @ \cup pins])
     \/ Done(h)
  /\ UNCHANGED <<ledger, begun, files, store, sessions, sweep>>

PruneRemoves(h) ==
  /\ pc[h] = "removing"
  /\ files' = Restrict(files, DOMAIN files \cap my[h].keep)
  /\ Done(h)
  /\ UNCHANGED <<ledger, begun, store, sessions, sweep>>
-----------------------------------------------------------------------------
(* promote_checkpoint_data                                                 *)

\* The bytes are read first, and refused when the file is gone.
PromoteReads(h, c) ==
  /\ pc[h] = "idle"
  /\ c \in DOMAIN rows \cap DOMAIN files
  /\ Goto(h, "finding", [Nothing EXCEPT !.id = c, !.data = files[c]])
  /\ UNCHANGED <<ledger, begun, files, store, sessions, sweep>>

\* An artifact of this producer is there: it is the answer, and nothing is written.
PromoteFinds(h) ==
  /\ pc[h] = "finding"
  /\ IF my[h].id \in DOMAIN artifacts THEN Done(h) ELSE Goto(h, "storing", my[h])
  /\ UNCHANGED <<ledger, begun, files, store, sessions, sweep>>

PromoteStores(h) ==
  /\ pc[h] = "storing"
  /\ objects' = objects \cup {my[h].data}
  /\ Goto(h, "registering", my[h])
  /\ UNCHANGED <<ledger, begun, files, artifacts, pins, sessions, sweep>>

\* register_artifact is idempotent by producer key.
PromoteRegisters(h) ==
  /\ pc[h] = "registering"
  /\ artifacts' = IF my[h].id \in DOMAIN artifacts THEN artifacts
                  ELSE Put(artifacts, my[h].id, my[h].data)
  /\ Goto(h, "pinning", [my[h] EXCEPT !.data = None])
  /\ UNCHANGED <<ledger, begun, files, objects, pins, sessions, sweep>>

PromotePins(h) ==
  /\ pc[h] = "pinning"
  /\ pins' = pins \cup {my[h].id}
  /\ Done(h)
  /\ UNCHANGED <<ledger, begun, files, objects, artifacts, sessions, sweep>>
-----------------------------------------------------------------------------
(* GET /runs/{run_id}/restore                                              *)

RestoreReads(h) ==
  /\ pc[h] = "idle"
  /\ Goto(h, "restoring", [Nothing EXCEPT !.expected = run.context])
  /\ UNCHANGED <<ledger, begun, files, store, sessions, sweep>>

\* A new session document with the raw file, bound to the run, is saved first.
RestoreSaves(h, s) ==
  /\ pc[h] = "restoring"
  /\ s \in Sessions \ DOMAIN sessions
  /\ sessions' = Put(sessions, s, Raw)
  /\ Goto(h, "resuming", my[h])
  /\ UNCHANGED <<ledger, begun, files, store, sweep>>

RestoreCommits(h) ==
  /\ pc[h] = "resuming"
  /\ run' = IF Expected(my[h].expected) THEN [context |-> Raw, status |-> "active"] ELSE run
  /\ Done(h)
  /\ UNCHANGED <<rows, begun, files, store, sessions, sweep>>
-----------------------------------------------------------------------------
(* The other requests of the sessions: see ProgressLedger.                 *)

\* A correction or a change of the target: the data of the session is in a new
\* context, and the fact that says so brings it to the run.
Corrects(s, x) ==
  /\ s \in DOMAIN sessions
  /\ x # sessions[s]
  /\ sessions' = [sessions EXCEPT ![s] = x]
  /\ run' = [run EXCEPT !.context = x]
  /\ UNCHANGED <<rows, begun, files, store, pc, my, sweep>>

\* The session that was last known to have the run goes on to another dataset.
Abandons ==
  /\ run.status = "active"
  /\ run' = [run EXCEPT !.status = "abandoned"]
  /\ UNCHANGED <<rows, begun, files, store, sessions, pc, my, sweep>>

\* A handler dies, or a store refuses its next write: what it has done is left behind.
Dies(h) ==
  /\ pc[h] # "idle"
  /\ Done(h)
  /\ UNCHANGED <<ledger, begun, files, store, sessions, sweep>>
-----------------------------------------------------------------------------
(* sweep_orphaned_checkpoints, once per pass of the delivery worker.       *)

SweepListsRows ==
  /\ sweep.at = "idle"
  /\ sweep' = [Idle EXCEPT !.at = "files", !.referenced = DOMAIN rows]
  /\ UNCHANGED <<ledger, begun, files, store, sessions, pc, my>>

\* Mutant: a run that has checkpoints is passed over.
SweepListsFilesOfNone ==
  /\ sweep.at = "files"
  /\ sweep' = [Idle EXCEPT !.at = "removing", !.todo = IF sweep.referenced = {} THEN DOMAIN files ELSE {}]
  /\ UNCHANGED <<ledger, begun, files, store, sessions, pc, my>>

SweepListsFiles ==
  /\ sweep.at = "files"
  /\ sweep' = [Idle EXCEPT !.at = "removing", !.todo = DOMAIN files \ sweep.referenced]
  /\ UNCHANGED <<ledger, begun, files, store, sessions, pc, my>>

SweepRemoves ==
  /\ sweep.at = "removing"
  /\ IF sweep.todo = {}
     THEN sweep' = Idle /\ UNCHANGED files
     ELSE \E c \in sweep.todo :
            /\ files' = Restrict(files, DOMAIN files \ {c})
            /\ sweep' = [sweep EXCEPT !.todo = @ \ {c}]
  /\ UNCHANGED <<ledger, begun, store, sessions, pc, my>>

Sweeps == SweepListsRows \/ SweepListsFiles \/ SweepRemoves

Creates(h) ==
  CreateRefers(h) \/ CreateCommits(h) \/ CreateConflicts(h)
  \/ PruneLists(h) \/ PruneLooksUp(h) \/ PruneRemoves(h)

Next ==
  \/ \E h \in Creators : CreateReads(h)
  \/ \E h \in Handlers : Creates(h)
  \/ \E h \in Handlers, s \in Sessions, ok \in BOOLEAN : CreateStages(h, s, ok)
  \/ \E h \in Promoters, c \in Ids : PromoteReads(h, c)
  \/ \E h \in Handlers : PromoteFinds(h)
  \/ \E h \in Handlers : PromoteStores(h)
  \/ \E h \in Handlers : PromoteRegisters(h)
  \/ \E h \in Handlers : PromotePins(h)
  \/ \E h \in Restorers : RestoreReads(h)
  \/ \E h \in Handlers, s \in Sessions : RestoreSaves(h, s)
  \/ \E h \in Handlers : RestoreCommits(h)
  \/ \E s \in Sessions, x \in Contexts : Corrects(s, x)
  \/ Abandons
  \/ \E h \in Handlers : Dies(h)
  \/ Sweeps

Spec == Init /\ [][Next]_vars
FairSpec == Spec /\ WF_vars(Sweeps)
-----------------------------------------------------------------------------
(* What must hold.                                                         *)

Rows == [context : Contexts \cup {None}, snap : BOOLEAN]
Runs == [context : Contexts, status : {"active", "abandoned"}]

TypeOK ==
  /\ run \in Runs
  /\ begun \in 0..IdBound
  /\ DOMAIN rows \subseteq 1..begun /\ Range(rows) \subseteq Rows
  /\ DOMAIN files \subseteq 1..begun /\ Range(files) \subseteq Contexts
  /\ DOMAIN artifacts \subseteq DOMAIN rows /\ Range(artifacts) \subseteq objects
  /\ pins \subseteq DOMAIN artifacts
  /\ DOMAIN sessions \subseteq Sessions /\ Range(sessions) \subseteq Contexts
  /\ sweep.referenced \cup sweep.todo \subseteq 1..begun
  /\ \A h \in Handlers : my[h].expected \in Contexts \cup {None} /\ my[h].id \in 0..begun /\ my[h].keep \subseteq 1..begun

\* What a checkpoint says of its data is true of the data, in the file as long as
\* there is one and in the artifact for ever, whatever is corrected, restored or
\* pruned meanwhile and wherever a request dies: the context is that of the session
\* the data was taken from, not that of the run, and an artifact that is registered
\* has its bytes (create_checkpoint, _persist).
SnapshotIsOfItsContext ==
  /\ \A c \in DOMAIN rows \cap DOMAIN files : rows[c].snap => files[c] = rows[c].context
  /\ \A c \in DOMAIN artifacts : artifacts[c] = rows[c].context /\ artifacts[c] \in objects

\* A checkpoint never moves the context of the run: what a restoration or a fact of
\* another session has recorded between its read and its commit is not written over
\* (the CAS of _commit_run_level), though the commit writes the whole row.
ContextIsNotUndone ==
  [][rows' # rows => run'.context = run.context]_vars

\* A file whose checkpoint was never committed does not stay for ever: once no request
\* is about to commit it, the sweep finds it.
InTheMaking(c) == \E h \in Handlers : my[h].id = c
Orphan(c) == c \in DOMAIN files /\ c \notin DOMAIN rows /\ ~InTheMaking(c)
OrphansAreSwept == \A c \in Ids : Orphan(c) ~> ~Orphan(c)
-----------------------------------------------------------------------------
(* Claims the code does not keep: TLC refutes each, as the README says.     *)

\* "последние 5 снимков на запуск": the snapshots of the last checkpoints are there.
SnapshotIsKept == \A c \in LastKept : rows[c].snap => c \in DOMAIN files

\* "pinned checkpoint-зависимости переживают keeper": so are those of the pinned ones.
PinnedIsKept == \A c \in pins : c \in DOMAIN files

\* "АВТО-pin checkpoint-зависимости": a promotion that is answered with the artifact
\* of an earlier one finds its checkpoint pinned, or about to be.
PromotedIsPinned ==
  \A h \in Handlers : pc[h] = "finding" /\ my[h].id \in DOMAIN artifacts =>
    my[h].id \in pins \/ \E g \in Handlers : pc[g] = "pinning" /\ my[g].id = my[h].id

\* A checkpoint of a run that is abandoned meanwhile does not make it active again
\* ("Запуск в статусе ...: чекпоинт недоступен").
CheckpointKeepsRun ==
  [][rows' # rows => run' = run]_vars
=============================================================================
