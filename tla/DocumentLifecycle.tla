------------------------- MODULE DocumentLifecycle -------------------------
(***************************************************************************)
(* Approval, publication and retention of documents:                       *)
(* apps/api/document_lifecycle.py (DocumentLifecycleService), with the     *)
(* revisions it speaks of (ensure_document_revision of document_jobs.py)   *)
(* and the files it purges (complete_render, in brief: RenderJobs has the  *)
(* rest).                                                                  *)
(*                                                                         *)
(* Everything runs in request handlers.  The state of a revision is not    *)
(* stored: it is computed from the last of its append-only records.  A     *)
(* handler reads it, checks, writes to the security audit and appends, in  *)
(* transactions of their own and with no lock around them.                 *)
(***************************************************************************)
EXTENDS Integers, Sequences, FiniteSets

CONSTANTS
  Threads,         \* threads that serve requests
  Documents,       \* the documents of one run, one per kind
  Snapshots,       \* frozen snapshots; each may become a revision
  KindOf,          \* the document a snapshot belongs to
  Contents,        \* what a render of a snapshot may produce
  RecordBound,     \* bound of the model: records before a new one
  RenderBound,     \* bound of the model: renders
  AbortBound,      \* bound of the model: threads that die or raise
  None

ASSUME ConstantsAssumption ==
  /\ KindOf \in [Snapshots -> Documents]
  /\ {RecordBound, RenderBound, AbortBound} \subseteq Nat
  /\ None \notin Contents \cup Snapshots \cup Documents

VARIABLES
  documents,   \* documents that are registered
  current,     \* current_revision_id of a document, by its snapshot
  version,     \* version_no of the revision of a snapshot, 0 when there is none
  records,     \* document_lifecycle: the records of a revision
  approvals,   \* document_approvals: the decisions on a revision
  audit,       \* mandatory audit records
  hold,        \* document_retention
  rows,        \* document_renditions: the rendition of a revision
  objects,     \* files of the object store
  renders,     \* renders so far (bounds the model)
  aborts,      \* threads lost so far (bounds the model)
  pc,          \* what a thread does next
  my           \* what a thread has read

lifecycle == <<documents, current, version, records, approvals, audit, hold>>
files == <<rows, objects, renders>>
vars == <<lifecycle, files, aborts, pc, my>>

(***************************************************************************)
(* A row is old when its created_at is before the cutoff of the sweep; its *)
(* file is aged when it was rendered before it.                            *)
(***************************************************************************)
Row == [state: {"ready", "purged"}, content: Contents, old: BOOLEAN, aged: BOOLEAN]

ASSUME NoneAssumption == None \notin Row

Audited == {"approved", "rejected", "published", "retracted"}
Events == Audited \cup {"requested", "superseded"}
LifecycleRecord == [event: Events, by: Snapshots]
Approval == [decision: {"approved", "rejected"}, form: Contents \cup {None}]

\* The files of a snapshot are told apart from those of others by their content.
Files == Snapshots \X Contents

Local == [snap: Snapshots \cup {None}, event: Events \cup {None},
          next: Nat, form: Contents \cup {None}, over: Snapshots \cup {None},
          row: Row \cup {None}, docs: SUBSET Documents, doc: Documents \cup {None},
          revs: SUBSET Snapshots, listed: SUBSET Snapshots]

Blank == [snap |-> None, event |-> None, next |-> 0, form |-> None, over |-> None,
          row |-> None, docs |-> {}, doc |-> None, revs |-> {}, listed |-> {}]

PCs == {"idle", "opening", "versioning", "registering", "requesting",
        "binding", "auditing", "recording", "appending", "checking", "listing",
        "preceding", "superseding", "committing", "publishing",
        "sweeping", "judging", "purging", "unlinking", "marking"}

TypeOK ==
  /\ documents \subseteq Documents
  /\ current \in [Documents -> Snapshots \cup {None}]
  /\ version \in [Snapshots -> Nat]
  /\ records \in [Snapshots -> Seq(LifecycleRecord)]
  /\ approvals \in [Snapshots -> Seq(Approval)]
  /\ audit \in [Snapshots -> [Audited -> Nat]]
  /\ hold \subseteq Documents
  /\ rows \in [Snapshots -> Row \cup {None}]
  /\ objects \subseteq Files
  /\ renders \in 0..RenderBound
  /\ aborts \in 0..AbortBound
  /\ pc \in [Threads -> PCs]
  /\ my \in [Threads -> Local]

Init ==
  /\ documents = {}
  /\ current = [d \in Documents |-> None]
  /\ version = [s \in Snapshots |-> 0]
  /\ records = [s \in Snapshots |-> <<>>]
  /\ approvals = [s \in Snapshots |-> <<>>]
  /\ audit = [s \in Snapshots |-> [e \in Audited |-> 0]]
  /\ hold = {}
  /\ rows = [s \in Snapshots |-> None]
  /\ objects = {}
  /\ renders = 0
  /\ aborts = 0
  /\ pc = [t \in Threads |-> "idle"]
  /\ my = [t \in Threads |-> Blank]

-----------------------------------------------------------------------------
Goto(t, label) == pc' = [pc EXCEPT ![t] = label]

\* The request is answered, or ends in an error.
Done(t) == Goto(t, "idle") /\ my' = [my EXCEPT ![t] = Blank]

RevisionsOf(d) == {s \in Snapshots : KindOf[s] = d /\ version[s] # 0}

IsReady(s) == rows[s] # None /\ rows[s].state = "ready"

\* revision_state: the last record decides.
StateOf(s) ==
  IF records[s] = <<>> THEN "draft" ELSE records[s][Len(records[s])].event

Append1(s, event, by) ==
  records' = [records EXCEPT ![s] = Append(@, [event |-> event, by |-> by])]

-----------------------------------------------------------------------------
(***************************************************************************)
(* ensure_document_revision.  The version is the last one listed plus one; *)
(* the unique keys of the tables refuse a document or a version that has   *)
(* come into being meanwhile.                                              *)
(***************************************************************************)
EnsureFinds(t, s) ==
  /\ pc[t] = "idle"
  /\ my' = [my EXCEPT ![t].snap = s]
  /\ Goto(t, IF KindOf[s] \in documents THEN "versioning" ELSE "opening")
  /\ UNCHANGED <<lifecycle, files, aborts>>

EnsureOpens(t) ==
  LET d == KindOf[my[t].snap] IN
  /\ pc[t] = "opening"
  /\ IF d \in documents
     THEN Done(t) /\ UNCHANGED documents
     ELSE documents' = documents \cup {d} /\ Goto(t, "versioning") /\ UNCHANGED my
  /\ UNCHANGED <<current, version, records, approvals, audit, hold, files, aborts>>

\* The revision the snapshot has is returned as it is.
EnsureLists(t) ==
  LET s == my[t].snap
      taken == {version[x] : x \in RevisionsOf(KindOf[s])}
  IN
  /\ pc[t] = "versioning"
  /\ IF version[s] # 0
     THEN Done(t)
     ELSE /\ my' = [my EXCEPT ![t].next =
               IF taken = {} THEN 1 ELSE 1 + CHOOSE n \in taken : \A m \in taken : m <= n]
          /\ Goto(t, "registering")
  /\ UNCHANGED <<lifecycle, files, aborts>>

\* Mutant: the tables have no unique keys.
NeverTaken(t) == FALSE

IsTaken(t) ==
  LET s == my[t].snap IN
  version[s] # 0 \/ \E x \in RevisionsOf(KindOf[s]) : version[x] = my[t].next

\* One transaction: the revision, and the document that points to it.
EnsureRegisters(t) ==
  LET s == my[t].snap IN
  /\ pc[t] = "registering"
  /\ IF IsTaken(t)
     THEN UNCHANGED <<current, version>>
     ELSE /\ version' = [version EXCEPT ![s] = my[t].next]
          /\ current' = [current EXCEPT ![KindOf[s]] = s]
  /\ Done(t)
  /\ UNCHANGED <<documents, records, approvals, audit, hold, files, aborts>>

-----------------------------------------------------------------------------
(***************************************************************************)
(* A request for approval.                                                 *)
(***************************************************************************)
Begin(t, s, event, label) ==
  /\ pc[t] = "idle" /\ version[s] # 0
  /\ Len(records[s]) < RecordBound \/ event = "retracted"
  /\ my' = [my EXCEPT ![t].snap = s, ![t].event = event]
  /\ Goto(t, label)
  /\ UNCHANGED <<lifecycle, files, aborts>>

RequestReads(t, s) == StateOf(s) = "draft" /\ Begin(t, s, "requested", "requesting")

RequestAppends(t) ==
  /\ pc[t] = "requesting"
  /\ Append1(my[t].snap, "requested", my[t].snap)
  /\ Done(t)
  /\ UNCHANGED <<documents, current, version, approvals, audit, hold, files, aborts>>

(***************************************************************************)
(* A decision: bound to the form that is ready, audited, recorded as an    *)
(* approval and then appended as an event.                                 *)
(***************************************************************************)
DecideReads(t, s, decision) ==
  StateOf(s) = "requested" /\ Begin(t, s, decision, "binding")

DecideBinds(t) ==
  LET s == my[t].snap IN
  /\ pc[t] = "binding"
  /\ my' = [my EXCEPT ![t].form = IF IsReady(s) THEN rows[s].content ELSE None]
  /\ Goto(t, "auditing")
  /\ UNCHANGED <<lifecycle, files, aborts>>

\* Mutant: an audit that fails does not stop the operation.
AuditFailsOpen(t) ==
  /\ pc[t] = "auditing"
  /\ \/ audit' = [audit EXCEPT ![my[t].snap][my[t].event] = @ + 1]
     \/ UNCHANGED audit
  /\ Goto(t, IF my[t].event \in {"approved", "rejected"} THEN "recording" ELSE "appending")
  /\ UNCHANGED <<documents, current, version, records, approvals, hold, files, aborts, my>>

\* record_mandatory, before the action: when it fails there is none.
Audits(t) ==
  /\ pc[t] = "auditing"
  /\ \/ /\ audit' = [audit EXCEPT ![my[t].snap][my[t].event] = @ + 1]
        /\ Goto(t, IF my[t].event \in {"approved", "rejected"} THEN "recording" ELSE "appending")
        /\ UNCHANGED my
     \/ Done(t) /\ UNCHANGED audit
  /\ UNCHANGED <<documents, current, version, records, approvals, hold, files, aborts>>

\* Mutant: only approvals are recorded.
RecordsApprovals(t) ==
  /\ pc[t] = "recording"
  /\ approvals' = IF my[t].event = "rejected" THEN approvals ELSE
       [approvals EXCEPT ![my[t].snap] =
         Append(@, [decision |-> my[t].event, form |-> my[t].form])]
  /\ Goto(t, "appending")
  /\ UNCHANGED <<documents, current, version, records, audit, hold, files, aborts, my>>

DecideRecords(t) ==
  /\ pc[t] = "recording"
  /\ approvals' = [approvals EXCEPT ![my[t].snap] =
       Append(@, [decision |-> my[t].event, form |-> my[t].form])]
  /\ Goto(t, "appending")
  /\ UNCHANGED <<documents, current, version, records, audit, hold, files, aborts, my>>

-----------------------------------------------------------------------------
(***************************************************************************)
(* A publication: the approved form is compared, the revision that is      *)
(* published is looked up and, once this one is, superseded.               *)
(***************************************************************************)
ApprovalsOf(s) == {i \in DOMAIN approvals[s] : approvals[s][i].decision = "approved"}

\* Mutant: publish refuses what has not been decided, and trusts the rest.
IsDecided(s) == StateOf(s) \notin {"draft", "requested"}

MayPublish(s) == StateOf(s) = "approved"

PublishReads(t, s) ==
  /\ MayPublish(s)
  /\ Begin(t, s, "published", "checking")

\* The last approval binds a form; its rendition must still have that content.
PublishChecks(t) ==
  LET s == my[t].snap
      last == CHOOSE i \in ApprovalsOf(s) : \A j \in ApprovalsOf(s) : j <= i
      form == approvals[s][last].form
  IN
  /\ pc[t] = "checking"
  /\ IF /\ ApprovalsOf(s) # {}
        /\ form = None \/ (rows[s] # None /\ rows[s].content = form)
     THEN Goto(t, "listing") /\ UNCHANGED my
     ELSE Done(t)
  /\ UNCHANGED <<lifecycle, files, aborts>>

\* _published_revision_of_document: the revisions are listed by their versions, and the
\* states are read one after the other until one is published.
PublishLists(t) ==
  /\ pc[t] = "listing"
  /\ my' = [my EXCEPT ![t].revs = RevisionsOf(KindOf[my[t].snap])]
  /\ Goto(t, "preceding")
  /\ UNCHANGED <<lifecycle, files, aborts>>

\* It may be the revision itself, when another request has published it meanwhile.
PublishPrecedes(t) ==
  LET left == my[t].revs
      first == CHOOSE s \in left : \A x \in left : version[s] <= version[x]
  IN
  /\ pc[t] = "preceding"
  /\ IF left = {}
     THEN Goto(t, "auditing") /\ UNCHANGED my
     ELSE IF StateOf(first) = "published"
     THEN Goto(t, "auditing") /\ my' = [my EXCEPT ![t].over = first, ![t].revs = {}]
     ELSE my' = [my EXCEPT ![t].revs = @ \ {first}] /\ UNCHANGED pc
  /\ UNCHANGED <<lifecycle, files, aborts>>

\* Mutant: the old revision is superseded before the new one is published.
SupersedesFirst(t) ==
  /\ pc[t] = "appending"
  /\ IF my[t].over # None
     THEN /\ Append1(my[t].over, "superseded", my[t].snap)
          /\ Goto(t, "appending") /\ my' = [my EXCEPT ![t].over = None]
     ELSE /\ Append1(my[t].snap, my[t].event, my[t].snap) /\ Done(t)
  /\ UNCHANGED <<documents, current, version, approvals, audit, hold, files, aborts>>

\* The record of a decision, a publication or a retraction.
Appends(t) ==
  /\ pc[t] = "appending"
  /\ Append1(my[t].snap, my[t].event, my[t].snap)
  /\ IF my[t].over = None
     THEN Done(t)
     ELSE Goto(t, "superseding") /\ UNCHANGED my
  /\ UNCHANGED <<documents, current, version, approvals, audit, hold, files, aborts>>

\* The pin of the snapshot that follows is the artifact store's, may fail unnoticed and
\* is read by nothing here.
Supersedes(t) ==
  /\ pc[t] = "superseding"
  /\ Append1(my[t].over, "superseded", my[t].snap)
  /\ Done(t)
  /\ UNCHANGED <<documents, current, version, approvals, audit, hold, files, aborts>>

RetractReads(t, s) == StateOf(s) = "published" /\ Begin(t, s, "retracted", "auditing")

-----------------------------------------------------------------------------
(***************************************************************************)
(* Files: a render of the form, in brief.  The row that is there keeps its *)
(* created_at (update_rendition does not write it, and neither does the    *)
(* ON CONFLICT of register_rendition).                                     *)
(***************************************************************************)
RenderStarts(t, s) ==
  /\ pc[t] = "idle" /\ version[s] # 0 /\ renders < RenderBound
  /\ ~IsReady(s)
  /\ \E c \in Contents : my' = [my EXCEPT ![t].snap = s, ![t].form = c]
  /\ renders' = renders + 1
  /\ Goto(t, "committing")
  /\ UNCHANGED <<lifecycle, rows, objects, aborts>>

RenderCommits(t) ==
  /\ pc[t] = "committing"
  /\ objects' = objects \cup {<<my[t].snap, my[t].form>>}
  /\ Goto(t, "publishing")
  /\ UNCHANGED <<lifecycle, rows, renders, aborts, my>>

RenderPublishes(t) ==
  LET s == my[t].snap IN
  /\ pc[t] = "publishing"
  /\ rows' = [rows EXCEPT ![s] =
       [state |-> "ready", content |-> my[t].form,
        old |-> rows[s] # None /\ rows[s].old, aged |-> FALSE]]
  /\ Done(t)
  /\ UNCHANGED <<lifecycle, objects, renders, aborts>>

\* A month is longer than any request.
Ages(s) ==
  /\ \A t \in Threads : pc[t] = "idle"
  /\ rows[s] # None /\ ~(rows[s].old /\ rows[s].aged)
  /\ rows' = [rows EXCEPT ![s].old = TRUE, ![s].aged = TRUE]
  /\ UNCHANGED <<lifecycle, objects, renders, aborts, pc, my>>

-----------------------------------------------------------------------------
(***************************************************************************)
(* Retention: set_retention and sweep_retention.  A sweep of a run without *)
(* renditions changes nothing and a hold is read by sweeps alone, so both  *)
(* wait for the first rendition.                                           *)
(***************************************************************************)
HasRenditions == \E s \in Snapshots : rows[s] # None

SetRetention(t, d) ==
  /\ pc[t] = "idle" /\ d \in documents /\ HasRenditions
  /\ hold' \in {hold \cup {d}, hold \ {d}} \ {hold}
  /\ UNCHANGED <<documents, current, version, records, approvals, audit, files, aborts, pc, my>>

SweepBegins(t) ==
  /\ pc[t] = "idle" /\ HasRenditions
  /\ my' = [my EXCEPT ![t].docs = Documents]
  /\ Goto(t, "sweeping")
  /\ UNCHANGED <<lifecycle, files, aborts>>

\* The next document that exists and is not on hold; its revisions are listed.
SweepLooks(t) ==
  /\ pc[t] = "sweeping"
  /\ IF my[t].docs = {}
     THEN Done(t)
     ELSE \E d \in my[t].docs :
            IF d \in documents \ hold
            THEN /\ my' = [my EXCEPT ![t].docs = @ \ {d}, ![t].doc = d,
                             ![t].revs = RevisionsOf(d), ![t].listed = RevisionsOf(d)]
                 /\ Goto(t, "judging")
            ELSE my' = [my EXCEPT ![t].docs = @ \ {d}] /\ UNCHANGED pc
  /\ UNCHANGED <<lifecycle, files, aborts>>

Protected == {"approved", "published", "retracted", "superseded"}

\* The states are read one revision after the other.
SweepJudges(t) ==
  /\ pc[t] = "judging"
  /\ \E s \in my[t].revs :
       IF StateOf(s) \in Protected
       THEN my' = [my EXCEPT ![t].revs = {}, ![t].listed = {}] /\ Goto(t, "sweeping")
       ELSE my' = [my EXCEPT ![t].revs = @ \ {s}] /\ UNCHANGED pc
  /\ UNCHANGED <<lifecycle, files, aborts>>

SweepPasses(t) ==
  /\ pc[t] = "judging" /\ my[t].revs = {}
  /\ Goto(t, "purging")
  /\ UNCHANGED <<lifecycle, files, aborts, my>>

\* Mutant: the age of the last render counts, not that of the row.
IsDueByRender(s) == IsReady(s) /\ rows[s].aged

\* Ready, and created before the cutoff.
IsDue(s) == IsReady(s) /\ rows[s].old

SweepPicks(t) ==
  /\ pc[t] = "purging"
  /\ IF my[t].listed = {}
     THEN Goto(t, "sweeping") /\ UNCHANGED my
     ELSE \E s \in my[t].listed :
            /\ my' = [my EXCEPT ![t].listed = @ \ {s}, ![t].snap = s, ![t].row = rows[s]]
            /\ IF IsDue(s)
               THEN Goto(t, "unlinking") ELSE UNCHANGED pc
  /\ UNCHANGED <<lifecycle, files, aborts>>

\* An unlink that fails is logged, and the row is marked all the same.
SweepUnlinks(t) ==
  /\ pc[t] = "unlinking"
  /\ objects' \in {objects, objects \ {<<my[t].snap, my[t].row.content>>}}
  /\ Goto(t, "marking")
  /\ UNCHANGED <<lifecycle, rows, renders, aborts, my>>

\* Mutant: the hash goes with the bytes.
MarksWithoutHash(t) ==
  LET s == my[t].snap IN
  /\ pc[t] = "marking"
  /\ rows' = [rows EXCEPT ![s].state = "purged", ![s].content = None]
  /\ Goto(t, "purging")
  /\ UNCHANGED <<lifecycle, objects, renders, aborts, my>>

\* update_rendition with the copy that was read.
SweepMarks(t) ==
  LET s == my[t].snap IN
  /\ pc[t] = "marking"
  /\ rows' = [rows EXCEPT ![s].state = "purged", ![s].content = my[t].row.content]
  /\ Goto(t, "purging")
  /\ UNCHANGED <<lifecycle, objects, renders, aborts, my>>

-----------------------------------------------------------------------------
\* Rights, the policy of two persons, a hash that differs, open gaps: a request
\* is refused before it has written anything.
Refuses(t) ==
  /\ pc[t] \in {"requesting", "binding", "checking"}
  /\ Done(t)
  /\ UNCHANGED <<lifecycle, files, aborts>>

\* A thread dies with its process, or with an error nothing catches.
Abort(t) ==
  /\ aborts < AbortBound /\ pc[t] # "idle"
  /\ aborts' = aborts + 1
  /\ Done(t)
  /\ UNCHANGED <<lifecycle, files>>

Starts(t) ==
  \/ SweepBegins(t)
  \/ \E d \in Documents : SetRetention(t, d)
  \/ \E s \in Snapshots :
       \/ EnsureFinds(t, s) \/ RequestReads(t, s)
       \/ DecideReads(t, s, "approved") \/ DecideReads(t, s, "rejected")
       \/ PublishReads(t, s) \/ RetractReads(t, s) \/ RenderStarts(t, s)

Continues(t) ==
  \/ EnsureOpens(t) \/ EnsureLists(t) \/ EnsureRegisters(t)
  \/ RequestAppends(t) \/ DecideBinds(t) \/ Audits(t) \/ DecideRecords(t)
  \/ PublishChecks(t) \/ PublishLists(t) \/ PublishPrecedes(t) \/ Appends(t)
  \/ Supersedes(t)
  \/ RenderCommits(t) \/ RenderPublishes(t)
  \/ SweepLooks(t) \/ SweepJudges(t) \/ SweepPasses(t) \/ SweepPicks(t)
  \/ SweepUnlinks(t) \/ SweepMarks(t)

Next ==
  \/ \E t \in Threads : Starts(t) \/ Continues(t) \/ Refuses(t) \/ Abort(t)
  \/ \E s \in Snapshots : Ages(s)

Spec == Init /\ [][Next]_vars

-----------------------------------------------------------------------------
(***************************************************************************)
(* Properties.                                                             *)
(***************************************************************************)
HowMany(s, event) == Cardinality({i \in DOMAIN records[s] : records[s][i].event = event})

\* No revision is published that was not approved before, whatever decisions,
\* refusals and deaths came between (publish, section 11 of the contract).
PublishedWasApproved ==
  \A s \in Snapshots : \A i \in DOMAIN records[s] :
    records[s][i].event = "published" =>
      \E j \in 1..(i - 1) : records[s][j].event = "approved"

\* AC11: as many approvals, rejections, publications and retractions as have been
\* audited, or fewer: the audit comes first and a failure of it stops the rest.
NothingUnaudited ==
  \A s \in Snapshots, e \in Audited : HowMany(s, e) <= audit[s][e]

\* AC07: every event of a decision has the approval that binds it, recorded before.
DecisionsAreBound ==
  \A s \in Snapshots, d \in {"approved", "rejected"} :
    HowMany(s, d) <= Cardinality({i \in DOMAIN approvals[s] : approvals[s][i].decision = d})

\* The versions of a document are 1, 2, ... without a gap or a repetition, although a
\* version is numbered from an earlier list, and current_revision_id names the revision
\* with the highest, in whatever order requests that numbered theirs come to register
\* them (ensure_document_revision).
VersionsInOrder ==
  \A d \in Documents :
    /\ \A s \in RevisionsOf(d) : version[s] \in 1..Cardinality(RevisionsOf(d))
    /\ \A s, x \in RevisionsOf(d) : version[s] = version[x] => s = x
    /\ \A s \in RevisionsOf(d) : current[d] \in RevisionsOf(d) /\ version[s] <= version[current[d]]

\* Two publications of one document are behind every supersession, wherever the publish
\* that appends it or another one dies: the earlier one of the revision superseded, and
\* the one that superseded it.  They are of the same revision only when that revision was
\* published twice, by two requests in flight (SupersededByAnother, below).
SupersededHasSuccessor ==
  \A s \in Snapshots : \A i \in DOMAIN records[s] :
    records[s][i].event = "superseded" =>
      LET b == records[s][i].by IN
      /\ KindOf[b] = KindOf[s]
      /\ \E j \in 1..(i - 1), k \in DOMAIN records[b] :
           /\ records[s][j].event = "published"
           /\ records[b][k].event = "published"
           /\ b = s => j # k

IsLost(s) == IsReady(s) /\ <<s, rows[s].content>> \notin objects

\* A row that is ready without its file, because a sweep died between the file and the
\* row or purged a form that was rendered anew, is passed over by no sweep that goes
\* through the rows of its document: unless the thread dies, it is found due, and marked
\* next.  (A sweep goes through no rows of a document that is held or decided on.)
LostFilesAreTakenUp ==
  [][\A t \in Threads, s \in Snapshots :
       (pc[t] = "purging" /\ s \in my[t].listed \ my'[t].listed /\ IsLost(s))
         => pc'[t] = "unlinking" \/ aborts' # aborts]_vars

(***************************************************************************)
(* What comments and documents of the code say and the code does not keep. *)
(***************************************************************************)
\* The sweep removes files that were rendered before the cutoff, not newer ones.
FreshFilesAreKept ==
  [][\A s \in Snapshots :
       (IsReady(s) /\ ~rows[s].aged)
         => rows'[s].state = "ready"]_vars

\* The sweep does not remove the file of a revision that is published.
PublishedFilesAreKept ==
  [][\A s \in Snapshots :
       (StateOf(s) = "published" /\ IsReady(s))
         => rows'[s].state = "ready"]_vars

\* A published revision is retracted or superseded, and nothing else becomes of it.
PublishedIsFinal ==
  [][\A s \in Snapshots :
       StateOf(s) = "published" => StateOf(s)' \in {"published", "retracted", "superseded"}]_vars

\* A revision that was retracted is not published again.
RetractionIsFinal ==
  [][\A s \in Snapshots : StateOf(s) = "retracted" => StateOf(s)' # "published"]_vars

\* It is another revision that supersedes one.
SupersededByAnother ==
  \A s \in Snapshots : \A i \in DOMAIN records[s] :
    records[s][i].event = "superseded" => records[s][i].by # s

\* The form of a revision that is published can be delivered.
PublishedFormExists ==
  \A s \in Snapshots : StateOf(s) = "published" => ~IsLost(s)

Published(d) == {s \in RevisionsOf(d) : StateOf(s) = "published"}

\* A document has one published revision at most, unless one is being superseded.
OnePublishedRevision ==
  \A d \in Documents :
    Cardinality(Published(d)) <= 1
      \/ \E t \in Threads : pc[t] = "superseding" /\ my[t].over \in Published(d)

=============================================================================
