---------------------------- MODULE FrozenInputs ----------------------------
(***************************************************************************)
(* What documents are made from: report snapshots and print revisions of   *)
(* one research run.  build_snapshot of apps/api/snapshot_builder.py over  *)
(* the registry of apps/api/report_snapshot.py; request_visual_export of   *)
(* apps/api/visual_exports.py, freeze_visual_print_snapshot of             *)
(* apps/api/visual_artifacts.py and ensure_print_document_revision of      *)
(* apps/api/document_jobs.py; both over the artifacts and the pins of      *)
(* apps/api/artifact_store.py.                                             *)
(*                                                                         *)
(* Nothing is locked.  A build reads the run, its events and its artifacts *)
(* one after the other, and the run and the events again before it takes   *)
(* what it has read for one state.  An export registers, pins and numbers  *)
(* in transactions of their own, and takes back what it has done when a    *)
(* later one fails.                                                        *)
(***************************************************************************)
EXTENDS Integers, Sequences, FiniteSets, Functions

CONSTANTS
  Builders,      \* requests for a snapshot
  Printers,      \* requests for a print
  Contexts,      \* analytical contexts of the run: data, revision, digest and target
  First,         \* the one it begins with
  Bodies,        \* what may be asked of a snapshot: its kind, locale, template, profile ...
  PinnedTo,      \* ... and the context it names, if any
  Keys,          \* idempotency keys that clients send
  Results,       \* artifacts a snapshot refers to, by their producer keys
  Figures,       \* frozen visual results, which prints are made of
  Profiles,      \* and the page profiles for them
  EventBound,    \* bounds of the model: events of the run,
  BuildBound,    \* snapshots begun,
  InputBound,    \* print inputs registered
  None

ASSUME FrozenAssumption ==
  /\ First \in Contexts
  /\ PinnedTo \in [Bodies -> Contexts \cup {None}]
  /\ EventBound \in Nat \ {0} /\ BuildBound \in Nat /\ InputBound \in Nat
  /\ None \notin Contexts \cup Keys
  /\ Builders \cap Printers = {} /\ Bodies \cap Keys = {}

VARIABLES
  journal,    \* the context of the run after each of its events
  artifacts,  \* the context of each artifact
  snapshots,  \* report_snapshots, by idempotency key
  objects,    \* the snapshots whose bytes are stored
  begun,      \* snapshot ids given out
  pins,       \* research_artifact_pins: what is pinned, and for what reason
  inputs,     \* registered print inputs (visual_print_snapshot): of which figure each is
  made,       \* ids given out to print inputs
  revisions,  \* document_print_revisions of the run's document
  current,    \* its current_revision_id, by the version
  pc, my      \* where a request is, and what it holds

history == <<journal, artifacts>>
registry == <<snapshots, objects, begun>>
prints == <<inputs, made, revisions, current>>
vars == <<history, registry, pins, prints, pc, my>>

Requests == Builders \cup Printers
BuildIds == 1..BuildBound
InputIds == 1..InputBound

NoBuild == [body |-> None, key |-> None, context |-> None, cutoff |-> 0,
            index |-> {}, again |-> None, id |-> 0, todo |-> {}, answer |-> 0]
NoPrint == [figure |-> None, profile |-> None, existed |-> FALSE, input |-> 0,
            version |-> 0, before |-> {}]
Nothing(r) == IF r \in Builders THEN NoBuild ELSE NoPrint

Init ==
  /\ journal = <<First>>
  /\ artifacts = [a \in {} |-> None]
  /\ snapshots = [k \in {} |-> None]
  /\ objects = {}
  /\ begun = 0
  /\ pins = [r \in {} |-> None]
  /\ inputs = [i \in {} |-> None]
  /\ made = 0
  /\ revisions = {}
  /\ current = 0
  /\ pc = [r \in Requests |-> "idle"]
  /\ my = [r \in Requests |-> Nothing(r)]

Put(f, k, v) == [x \in DOMAIN f \cup {k} |-> IF x = k THEN v ELSE f[x]]
Goto(r, at, locals) == pc' = [pc EXCEPT ![r] = at] /\ my' = [my EXCEPT ![r] = locals]
Ends(r) == Goto(r, "idle", Nothing(r))
-----------------------------------------------------------------------------
(* The run goes on: facts are committed, and what they produced is         *)
(* promoted to an artifact later, without an event.                        *)

\* The mirror of the run: context_id, data_revision, data_digest and target_column.
Mirror == journal[Len(journal)]

Commits(x) ==
  /\ Len(journal) < EventBound
  /\ journal' = Append(journal, x)
  /\ UNCHANGED <<artifacts, registry, pins, prints, pc, my>>

Promotes(a, x) ==
  /\ a \notin DOMAIN artifacts
  /\ artifacts' = Put(artifacts, a, x)
  /\ UNCHANGED <<journal, registry, pins, prints, pc, my>>
-----------------------------------------------------------------------------
(* build_snapshot                                                          *)

\* The first reading of the run, which authorizes the request; a context that is
\* named must be that of the run.
BuildReads(b, body, key) ==
  /\ pc[b] = "idle"
  /\ PinnedTo[body] \in {None, Mirror}
  /\ Goto(b, "cutting", [NoBuild EXCEPT !.body = body, !.key = key, !.context = Mirror])
  /\ UNCHANGED <<history, registry, pins, prints>>

\* The events, and the position they end at.
BuildCuts(b) ==
  /\ pc[b] = "cutting"
  /\ Goto(b, "finding", [my[b] EXCEPT !.cutoff = Len(journal)])
  /\ UNCHANGED <<history, registry, pins, prints>>

\* The client's key, or one that is made of the body and the position.
EffectiveKey(b) ==
  IF my[b].key # None THEN <<my[b].key, 0>> ELSE <<my[b].body, my[b].cutoff>>

SameBody(b) == snapshots[EffectiveKey(b)].body = my[b].body

Answers(b, id) ==
  Goto(b, "answered", [NoBuild EXCEPT !.body = my[b].body, !.key = my[b].key,
                                      !.cutoff = my[b].cutoff, !.answer = id])

\* There is a snapshot under this key: the answer, or a conflict if the body is another.
BuildFinds(b) ==
  /\ pc[b] = "finding"
  /\ IF EffectiveKey(b) \notin DOMAIN snapshots
     THEN Goto(b, "indexing", my[b])
     ELSE IF SameBody(b) THEN Answers(b, snapshots[EffectiveKey(b)].id) ELSE Ends(b)
  /\ UNCHANGED <<history, registry, pins, prints>>

\* The artifacts, from which the sections, their dependencies and the pins are made: all of
\* them are taken to be referred to.
BuildIndexes(b) ==
  /\ pc[b] = "indexing"
  /\ begun < BuildBound
  /\ begun' = begun + 1
  /\ Goto(b, "rereading", [my[b] EXCEPT !.index = DOMAIN artifacts, !.id = begun'])
  /\ UNCHANGED <<history, snapshots, objects, pins, prints>>

BuildRereads(b) ==
  /\ pc[b] = "rereading"
  /\ Goto(b, "comparing", [my[b] EXCEPT !.again = Mirror])
  /\ UNCHANGED <<history, registry, pins, prints>>

\* Mutant: the position is not compared.
SameMirror(b) == my[b].again = my[b].context

\* Both readings agree.
Stable(b) == my[b].again = my[b].context /\ Len(journal) = my[b].cutoff

\* The events are read again; 409 when anything has moved.
BuildCompares(b) ==
  /\ pc[b] = "comparing"
  /\ IF Stable(b) THEN Goto(b, "storing", [my[b] EXCEPT !.again = None, !.todo = my[b].index]) ELSE Ends(b)
  /\ UNCHANGED <<history, registry, pins, prints>>

BuildStores(b) ==
  /\ pc[b] = "storing"
  /\ objects' = objects \cup {my[b].id}
  /\ Goto(b, "registering", my[b])
  /\ UNCHANGED <<history, snapshots, begun, pins, prints>>

\* data_ref: an artifact of the snapshot's own context; without one it is not ready to be
\* reproduced.
DataRefs(b) == {a \in my[b].index : artifacts[a] = my[b].context}

Frozen(b) ==
  [id |-> my[b].id, body |-> my[b].body, context |-> my[b].context, cutoff |-> my[b].cutoff,
   refs |-> my[b].index, ready |-> DataRefs(b) # {}]

\* Mutant: a snapshot under the same key is written over.
BuildOverwrites(b) ==
  /\ pc[b] = "registering"
  /\ snapshots' = Put(snapshots, EffectiveKey(b), Frozen(b))
  /\ Goto(b, "pinning", [my[b] EXCEPT !.answer = my[b].id])
  /\ UNCHANGED <<history, objects, begun, pins, prints>>

\* ON CONFLICT (run_id, idempotency_key) DO NOTHING: the one that came first is the answer.
BuildRegisters(b) ==
  /\ pc[b] = "registering"
  /\ IF EffectiveKey(b) \notin DOMAIN snapshots
     THEN /\ snapshots' = Put(snapshots, EffectiveKey(b), Frozen(b))
          /\ Goto(b, "pinning", [my[b] EXCEPT !.answer = my[b].id])
     ELSE /\ UNCHANGED snapshots
          /\ IF SameBody(b)
             THEN Goto(b, "pinning", [my[b] EXCEPT !.answer = snapshots[EffectiveKey(b)].id])
             ELSE Ends(b)
  /\ UNCHANGED <<history, objects, begun, pins, prints>>

\* A pin is a row per reference, and keeps the reason it was first made for.
PinFor(ref, reason) == IF ref \in DOMAIN pins THEN pins ELSE Put(pins, ref, reason)

\* Each reference is pinned for the sake of this build's own id; a failure is logged.
BuildPins(b) ==
  /\ pc[b] = "pinning"
  /\ \/ /\ my[b].todo = {}
        /\ Answers(b, my[b].answer)
        /\ UNCHANGED pins
     \/ \E a \in my[b].todo :
          /\ pins' \in {pins, PinFor(<<"result", a>>, <<"snapshot", my[b].id>>)}
          /\ Goto(b, "pinning", [my[b] EXCEPT !.todo = @ \ {a}])
  /\ UNCHANGED <<history, registry, prints>>

BuildReturns(b) ==
  /\ pc[b] = "answered"
  /\ Ends(b)
  /\ UNCHANGED <<history, registry, pins, prints>>
-----------------------------------------------------------------------------
(* request_visual_export                                                   *)

InputsOf(f) == {i \in DOMAIN inputs : inputs[i] = f}
InputRef(i) == <<"input", i>>

\* A print input of this figure is used again.
ExportFinds(p, f, q) ==
  /\ pc[p] = "idle"
  /\ \/ /\ InputsOf(f) = {}
        /\ Goto(p, "freezing", [NoPrint EXCEPT !.figure = f, !.profile = q])
     \/ \E i \in InputsOf(f) :
          Goto(p, "validating", [NoPrint EXCEPT !.figure = f, !.profile = q, !.input = i])
  /\ UNCHANGED <<history, registry, pins, prints>>

\* freeze_visual_print_snapshot notes whether there is one before it registers its own.
FreezeNotes(p) ==
  /\ pc[p] = "freezing"
  /\ Goto(p, "persisting", [my[p] EXCEPT !.existed = InputsOf(my[p].figure) # {}])
  /\ UNCHANGED <<history, registry, pins, prints>>

\* One input per figure, by its producer key: one that is there already is used if its
\* payload, of which the time is part, is the same or is not compared (one that appeared
\* between the two lookups), and is a conflict otherwise.
FreezeRegisters(p) ==
  /\ pc[p] = "persisting"
  /\ \/ /\ InputsOf(my[p].figure) = {}
        /\ made < InputBound
        /\ made' = made + 1
        /\ inputs' = Put(inputs, made', my[p].figure)
        /\ Goto(p, "holding", [my[p] EXCEPT !.input = made'])
     \/ /\ \E i \in InputsOf(my[p].figure) : Goto(p, "holding", [my[p] EXCEPT !.input = i]) \/ Ends(p)
        /\ UNCHANGED <<inputs, made>>
  /\ UNCHANGED <<history, registry, pins, revisions, current>>

\* The figure's result is pinned; if that fails, what was registered is to go.
FreezePins(p) ==
  /\ pc[p] = "holding"
  /\ \/ /\ pins' = PinFor(<<"figure", my[p].figure>>, InputRef(my[p].input))
        /\ Goto(p, "validating", my[p])
     \/ /\ UNCHANGED pins
        /\ IF my[p].existed THEN Ends(p) ELSE Goto(p, "protecting", my[p])
  /\ UNCHANGED <<history, registry, prints>>

\* unregister_artifact looks for a pin first ...
UnregisterLooks(p) ==
  /\ pc[p] = "protecting"
  /\ IF InputRef(my[p].input) \in DOMAIN pins THEN Ends(p) ELSE Goto(p, "deleting", my[p])
  /\ UNCHANGED <<history, registry, pins, prints>>

\* ... and deletes after.
UnregisterDeletes(p) ==
  /\ pc[p] = "deleting"
  /\ inputs' = Restrict(inputs, DOMAIN inputs \ {my[p].input})
  /\ Ends(p)
  /\ UNCHANGED <<history, registry, pins, made, revisions, current>>
-----------------------------------------------------------------------------
(* ensure_print_document_revision                                          *)

PrintValidates(p) ==
  /\ pc[p] = "validating"
  /\ IF my[p].input \in DOMAIN inputs THEN Goto(p, "looking", my[p]) ELSE Ends(p)
  /\ UNCHANGED <<history, registry, pins, prints>>

HasBasis(r, p) == r.basis = my[p].input /\ r.profile = my[p].profile

\* The revision on this basis, if there is one, is the answer.
PrintLooks(p) ==
  /\ pc[p] = "looking"
  /\ IF \E r \in revisions : HasBasis(r, p) THEN Ends(p) ELSE Goto(p, "numbering", my[p])
  /\ UNCHANGED <<history, registry, pins, prints>>

Versions == {r.version : r \in revisions}

\* One more than the last of those that are listed.
PrintNumbers(p) ==
  /\ pc[p] = "numbering"
  /\ Goto(p, "noting", [my[p] EXCEPT !.version =
       IF revisions = {} THEN 1
       ELSE 1 + CHOOSE n \in Versions : \A m \in Versions : m <= n])
  /\ UNCHANGED <<history, registry, pins, prints>>

\* Which pins are there already, and are not to be taken back.
PrintNotes(p) ==
  /\ pc[p] = "noting"
  /\ Goto(p, "pinning", [my[p] EXCEPT !.before = DOMAIN pins])
  /\ UNCHANGED <<history, registry, pins, prints>>

PrintPins(p) ==
  /\ pc[p] = "pinning"
  /\ \/ /\ pins' = PinFor(InputRef(my[p].input), <<"revision", my[p].version>>)
        /\ Goto(p, "registering", my[p])
     \/ Ends(p) /\ UNCHANGED pins
  /\ UNCHANGED <<history, registry, prints>>

\* Mutant: only the basis is unique.
IsRepeated(p) == \E r \in revisions : HasBasis(r, p)

\* UNIQUE (document_id, version_no) and UNIQUE (document_id, basis_fingerprint).
IsTaken(p) == \E r \in revisions : HasBasis(r, p) \/ r.version = my[p].version

\* The document points to the revision.  The answer of a commit may be lost: the request
\* takes it for a failure.
PrintRegisters(p) ==
  /\ pc[p] = "registering"
  /\ ~IsTaken(p)
  /\ revisions' = revisions \cup {[version |-> my[p].version, basis |-> my[p].input, profile |-> my[p].profile]}
  /\ current' = my[p].version
  /\ Ends(p) \/ Goto(p, "unpinning", my[p])
  /\ UNCHANGED <<history, registry, pins, inputs, made>>

\* The registration is refused, or fails: the pin is taken back, if it was not there
\* before and the store lets it.
PrintUnpins(p) ==
  /\ pc[p] \in {"registering", "unpinning"}
  /\ pins' \in {pins, Restrict(pins, DOMAIN pins \ ({InputRef(my[p].input)} \ my[p].before))}
  /\ Ends(p)
  /\ UNCHANGED <<history, registry, prints>>

\* A request dies, or is refused because the run has moved on, or a store fails where
\* nothing is taken back.
Dies(r) ==
  /\ pc[r] # "idle"
  /\ Ends(r)
  /\ UNCHANGED <<history, registry, pins, prints>>

Builds(b) ==
  BuildCuts(b) \/ BuildFinds(b) \/ BuildIndexes(b) \/ BuildRereads(b) \/ BuildCompares(b)
  \/ BuildStores(b) \/ BuildRegisters(b) \/ BuildPins(b) \/ BuildReturns(b)

Exports(p) ==
  FreezeNotes(p) \/ FreezeRegisters(p) \/ FreezePins(p) \/ UnregisterLooks(p) \/ UnregisterDeletes(p)
  \/ PrintValidates(p) \/ PrintLooks(p) \/ PrintNumbers(p) \/ PrintNotes(p) \/ PrintPins(p)
  \/ PrintRegisters(p) \/ PrintUnpins(p)

Next ==
  \/ \E x \in Contexts : Commits(x)
  \/ \E a \in Results, x \in Contexts : Promotes(a, x)
  \/ \E b \in Builders, body \in Bodies, key \in Keys \cup {None} : BuildReads(b, body, key)
  \/ \E b \in Builders : Builds(b)
  \/ \E p \in Printers, f \in Figures, q \in Profiles : ExportFinds(p, f, q)
  \/ \E p \in Printers : Exports(p)
  \/ \E r \in Requests : Dies(r)

Spec == Init /\ [][Next]_vars
-----------------------------------------------------------------------------
(* What must hold.                                                         *)

Snapshots == [id : BuildIds, body : Bodies, context : Contexts, cutoff : 1..EventBound,
              refs : SUBSET Results, ready : BOOLEAN]

TypeOK ==
  /\ journal \in Seq(Contexts) /\ Len(journal) \in 1..EventBound
  /\ DOMAIN artifacts \subseteq Results /\ Range(artifacts) \subseteq Contexts
  /\ Range(snapshots) \subseteq Snapshots
  /\ begun \in 0..BuildBound /\ objects \subseteq 1..begun
  /\ made \in 0..InputBound /\ DOMAIN inputs \subseteq 1..made /\ Range(inputs) \subseteq Figures
  /\ \A r \in revisions : r.version \in Nat \ {0} /\ r.basis \in 1..made /\ r.profile \in Profiles
  /\ \A b \in Builders : my[b].id \in 0..begun /\ my[b].index \subseteq DOMAIN artifacts
  /\ \A p \in Printers : my[p].input \in 0..made

\* A snapshot is of one state of the run: at the position of the journal that it names, the
\* run was in the context that it names, which is the one asked for, though the two were
\* read at different times and the run may have left that context and come back (AC02,
\* the second reading in build_snapshot).  Its bytes are there, and it is called ready
\* to be reproduced only if it was made from data of that context.
SnapshotIsOfOneMoment ==
  \A k \in DOMAIN snapshots :
    LET s == snapshots[k]
    IN  /\ s.cutoff \in DOMAIN journal /\ journal[s.cutoff] = s.context
        /\ PinnedTo[s.body] \in {None, s.context}
        /\ s.id \in objects
        /\ s.ready => \E a \in s.refs : artifacts[a] = s.context

\* Whoever is answered is answered with a snapshot that is registered under its key, of the
\* body that it asked for and, when the key was left to the server, of the position that the
\* run had come to; two requests with one key are answered alike, whichever of them, and of
\* the builds in flight, is first (find_idempotent, register_snapshot).
AnswerIsWhatWasAsked ==
  \A b \in Builders :
    pc[b] = "answered" =>
      /\ EffectiveKey(b) \in DOMAIN snapshots
      /\ LET s == snapshots[EffectiveKey(b)]
         IN  /\ s.id = my[b].answer
             /\ s.body = my[b].body
             /\ my[b].key = None => s.cutoff = my[b].cutoff

\* The print revisions of a document are numbered 1, 2, ... without a gap, there is one of
\* each basis and profile, and the document points to the last of them: in whatever order
\* exports that looked and took their numbers before come to register, and whether or not
\* they hear that they have (ensure_print_document_revision, register_print_revision).
PrintRevisionsInOrder ==
  /\ \A r, s \in revisions :
       r.version = s.version \/ (r.basis = s.basis /\ r.profile = s.profile) => r = s
  /\ \A r \in revisions :
       /\ r.version <= current
       /\ \A n \in 1..r.version : \E s \in revisions : s.version = n
  /\ revisions # {} => \E r \in revisions : r.version = current
-----------------------------------------------------------------------------
(* Claims the code does not keep: TLC refutes each, as the README says.     *)

\* "unpin-компенсация -- только пины, поставленные ЭТОЙ операцией": a request that does not
\* hear of its commit takes back the pin of the revision that it has registered; and of two
\* requests for one figure that both look before either pins, the one that fails takes back
\* the pin of the revision that the other has registered.
BasisIsPinned == \A r \in revisions : InputRef(r.basis) \in DOMAIN pins

\* "ревизия не создаётся по dangling": the input of a request that is about to be registered
\* as a basis can be taken back by the one that failed to pin its figure.
BasisExists == \A r \in revisions : r.basis \in DOMAIN inputs

\* "изменение состояния рождает новую заморозку": an artifact is promoted without an event, and
\* a snapshot taken before is the answer until the next event.
RepeatSeesArtifacts ==
  \A b \in Builders :
    pc[b] = "finding" /\ my[b].key = None /\ EffectiveKey(b) \in DOMAIN snapshots =>
      snapshots[EffectiveKey(b)].refs = DOMAIN artifacts

\* "metadata graph хранит ПРИЧИНЫ ссылок": a build that lost the race for its key pins for
\* the sake of a snapshot that there is not.
PinsAreExplained ==
  \A ref \in DOMAIN pins :
    pins[ref][1] = "snapshot" => \E k \in DOMAIN snapshots : snapshots[k].id = pins[ref][2]
=============================================================================
