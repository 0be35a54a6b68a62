------------------------- MODULE FrozenInputsProofs -------------------------
(***************************************************************************)
(* What FrozenInputs guarantees for every number of requests, contexts,    *)
(* artifacts and figures: the type of its state; that a snapshot is of one *)
(* state of the run and that whoever is answered is answered with what was *)
(* asked for, however the builds interleave with each other and the run;   *)
(* and that print revisions are numbered in order, whoever registers.      *)
(***************************************************************************)
EXTENDS FrozenInputs, SequenceTheorems, TLAPS

Places == {"idle", "cutting", "finding", "indexing", "rereading", "comparing", "storing",
           "registering", "pinning", "answered", "freezing", "persisting", "holding",
           "protecting", "deleting", "validating", "looking", "numbering", "noting",
           "unpinning"}

BuildLocals ==
  [body : Bodies \cup {None}, key : Keys \cup {None}, context : Contexts \cup {None}, cutoff : Nat,
   index : SUBSET Results, again : Contexts \cup {None}, id : Nat, todo : SUBSET Results, answer : Nat]

Refs == ({"result"} \X Results) \cup ({"figure"} \X Figures) \cup ({"input"} \X Nat)

PrintLocals ==
  [figure : Figures \cup {None}, profile : Profiles \cup {None}, existed : BOOLEAN, input : Nat,
   version : Nat, before : SUBSET Refs]

Revisions == [version : Nat \ {0}, basis : Nat, profile : Profiles]

\* A builder that has read the run and is not answered yet ...
Asking == {"cutting", "finding", "indexing", "rereading", "comparing", "storing", "registering"}

\* ... and a printer that has a basis.
Basing == {"holding", "protecting", "deleting", "validating", "looking", "numbering", "noting",
           "pinning", "registering"}

Told(b) ==
  /\ EffectiveKey(b) \in DOMAIN snapshots
  /\ LET s == snapshots[EffectiveKey(b)]
     IN  /\ s.id = my[b].answer
         /\ s.body = my[b].body
         /\ my[b].key = None => s.cutoff = my[b].cutoff

\* What a builder holds of the run is true of a moment between its readings.
Building(b) ==
  /\ my[b] \in BuildLocals
  /\ my[b].index \subseteq DOMAIN artifacts /\ my[b].id \in 0..begun
  /\ pc[b] # "idle" => my[b].body \in Bodies
  /\ pc[b] \in Asking =>
       my[b].context \in Contexts /\ PinnedTo[my[b].body] \in {None, my[b].context}
  /\ pc[b] \notin {"idle", "cutting"} => my[b].cutoff \in 1..Len(journal)
  /\ pc[b] \in {"rereading", "comparing", "storing", "registering"} => my[b].id \in 1..begun
  /\ pc[b] = "comparing" => \E n \in my[b].cutoff..Len(journal) : journal[n] = my[b].again
  /\ pc[b] \in {"storing", "registering"} => journal[my[b].cutoff] = my[b].context
  /\ pc[b] = "registering" => my[b].id \in objects
  /\ pc[b] \in {"pinning", "answered"} => Told(b)

\* There is a revision of every number before this one.
Below(v) == \A n \in 1..(v - 1) : \E s \in revisions : s.version = n

Printing(p) ==
  /\ my[p] \in PrintLocals
  /\ my[p].input \in 0..made
  /\ pc[p] # "idle" => my[p].figure \in Figures /\ my[p].profile \in Profiles
  /\ pc[p] \in Basing => my[p].input \in 1..made
  /\ pc[p] \in {"noting", "pinning", "registering"} => my[p].version # 0 /\ Below(my[p].version)

Journaled ==
  /\ journal \in Seq(Contexts) /\ Len(journal) \in 1..EventBound
  /\ DOMAIN artifacts \subseteq Results
  /\ \A a \in DOMAIN artifacts : artifacts[a] \in Contexts

\* A snapshot under a key of the server is of the body and the position in that key.
IsKeyed(k) ==
  /\ k \in (Keys \cup Bodies) \X Nat
  /\ k[1] \in Bodies => snapshots[k].body = k[1] /\ snapshots[k].cutoff = k[2]

OfOneMoment(s) ==
  /\ s.cutoff \in DOMAIN journal /\ journal[s.cutoff] = s.context
  /\ PinnedTo[s.body] \in {None, s.context}
  /\ s.id \in objects
  /\ s.refs \subseteq DOMAIN artifacts
  /\ s.ready => \E a \in s.refs : artifacts[a] = s.context

Registered ==
  /\ begun \in 0..BuildBound /\ objects \subseteq 1..begun
  /\ \A k \in DOMAIN snapshots : snapshots[k] \in Snapshots /\ IsKeyed(k) /\ OfOneMoment(snapshots[k])

Printed ==
  /\ made \in 0..InputBound /\ DOMAIN inputs \subseteq 1..made
  /\ \A i \in DOMAIN inputs : inputs[i] \in Figures
  /\ DOMAIN pins \subseteq Refs
  /\ revisions \subseteq Revisions /\ current \in Nat
  /\ \A r \in revisions : r.basis \in 1..made
  /\ PrintRevisionsInOrder

Requested ==
  /\ pc \in [Requests -> Places] /\ DOMAIN my = Requests
  /\ \A b \in Builders : Building(b)
  /\ \A p \in Printers : Printing(p)

Inv == Journaled /\ Registered /\ Printed /\ Requested
-----------------------------------------------------------------------------
LEMMA PutParts ==
  ASSUME NEW f, NEW c, NEW v
  PROVE  /\ DOMAIN Put(f, c, v) = DOMAIN f \cup {c}
         /\ Put(f, c, v)[c] = v
         /\ \A k \in DOMAIN f : k # c => Put(f, c, v)[k] = f[k]
BY DEF Put

LEMMA RestrictParts ==
  ASSUME NEW f, NEW S
  PROVE  DOMAIN Restrict(f, S) = S /\ \A k \in S : Restrict(f, S)[k] = f[k]
BY DEF Restrict

LEMMA Kinds == \A p \in Printers : p \notin Builders
BY FrozenAssumption

LEMMA NothingHeld ==
  /\ NoBuild \in BuildLocals /\ NoBuild.index = {} /\ NoBuild.id = 0
  /\ NoPrint \in PrintLocals /\ NoPrint.input = 0
BY DEF NoBuild, NoPrint, BuildLocals, PrintLocals

LEMMA InitInv == Init => Inv
<1> SUFFICES ASSUME Init PROVE Inv OBVIOUS
<1> USE FrozenAssumption
<1>1. Journaled BY DEF Init, Journaled
<1>2. Registered BY DEF Init, Registered
<1>3. Printed BY DEF Init, Printed, PrintRevisionsInOrder
<1>4. pc \in [Requests -> Places] /\ DOMAIN my = Requests BY DEF Init, Places
<1>5. ASSUME NEW b \in Builders PROVE Building(b)
      <2>1. my[b] = NoBuild /\ pc[b] = "idle" BY DEF Init, Requests, Nothing
      <2>2. QED BY <2>1, NothingHeld DEF Init, Building, Asking
<1>6. ASSUME NEW p \in Printers PROVE Printing(p)
      <2>1. my[p] = NoPrint /\ pc[p] = "idle" BY Kinds DEF Init, Requests, Nothing
      <2>2. QED BY <2>1, NothingHeld DEF Init, Printing, Basing
<1>7. QED BY <1>1, <1>2, <1>3, <1>4, <1>5, <1>6 DEF Inv, Requested

\* What others do to a request: the journal, the artifacts, the registry and the ids grow.
Grows ==
  /\ Len(journal') >= Len(journal) /\ Len(journal') \in Nat
  /\ \A n \in 1..Len(journal) : journal'[n] = journal[n]
  /\ \A a \in DOMAIN artifacts : a \in DOMAIN artifacts' /\ artifacts'[a] = artifacts[a]
  /\ \A k \in DOMAIN snapshots : k \in DOMAIN snapshots' /\ snapshots'[k] = snapshots[k]
  /\ objects \subseteq objects' /\ begun' \in Nat /\ begun' >= begun
  /\ made' \in Nat /\ made' >= made /\ revisions \subseteq revisions'

LEMMA Unchanging ==
  ASSUME Inv
  PROVE  /\ UNCHANGED journal => Len(journal') >= Len(journal) /\ Len(journal') \in Nat
         /\ begun \in Nat /\ made \in Nat
BY FrozenAssumption DEF Inv, Journaled, Registered, Printed

LEMMA BuildingKept ==
  ASSUME Inv, Grows, NEW b \in Builders, pc'[b] = pc[b], my'[b] = my[b]
  PROVE  Building(b)'
<1>1. Building(b) /\ Len(journal) \in Nat /\ Len(journal) <= Len(journal')
      BY FrozenAssumption DEF Inv, Requested, Journaled, Grows
<1>2. my[b].cutoff \in Nat /\ my[b].id \in Nat BY <1>1 DEF Building, BuildLocals
<1>3. Told(b) => Told(b)' BY DEF Told, EffectiveKey, Grows
<1>4. pc[b] \notin {"idle", "cutting"} => my[b].cutoff \in 1..Len(journal)'
      BY <1>1, <1>2 DEF Building, Grows
<1>5. ASSUME pc[b] = "comparing" PROVE \E n \in my[b].cutoff..Len(journal)' : journal'[n] = my[b].again
      <2>1. PICK n \in my[b].cutoff..Len(journal) : journal[n] = my[b].again
            BY <1>1, <1>5 DEF Building
      <2>2. my[b].cutoff \in 1..Len(journal) BY <1>1, <1>5 DEF Building
      <2>3. n \in 1..Len(journal) /\ n \in my[b].cutoff..Len(journal)' BY <1>1, <2>1, <2>2 DEF Grows
      <2>4. QED BY <2>1, <2>3 DEF Grows
<1>6. pc[b] \in {"storing", "registering"} => journal'[my[b].cutoff] = my[b].context
      BY <1>1 DEF Building, Grows
<1>7. my[b].id \in 0..begun' /\ (my[b].id \in 1..begun => my[b].id \in 1..begun')
      BY <1>1, <1>2, Unchanging DEF Building, Grows
<1>8. my[b].index \subseteq DOMAIN artifacts' BY <1>1 DEF Building, Grows
<1>9. QED BY <1>1, <1>3, <1>4, <1>5, <1>6, <1>7, <1>8 DEF Building, Grows

LEMMA PrintingKept ==
  ASSUME Inv, Grows, NEW p \in Printers, pc'[p] = pc[p], my'[p] = my[p]
  PROVE  Printing(p)'
<1>1. Printing(p) /\ made \in Nat BY Unchanging DEF Inv, Requested
<1>2. my[p].input \in Nat BY <1>1 DEF Printing, PrintLocals
<1>3. Below(my[p].version) => Below(my[p].version)' BY DEF Below, Grows
<1>4. QED BY <1>1, <1>2, <1>3 DEF Printing, Grows

LEMMA MomentKept ==
  ASSUME Inv, Grows, NEW s \in Snapshots, OfOneMoment(s)
  PROVE  OfOneMoment(s)'
<1>1. DOMAIN journal = 1..Len(journal) /\ Len(journal) \in Nat /\ Len(journal') \in Nat
      BY DEF Inv, Journaled, Grows
<1>2. s.cutoff \in 1..Len(journal') /\ journal'[s.cutoff] = s.context
      BY <1>1 DEF OfOneMoment, Grows
<1>3. QED BY <1>1, <1>2 DEF OfOneMoment, Grows

LEMMA StandsStill ==
  ASSUME Inv, UNCHANGED <<history, registry>>
  PROVE  Journaled' /\ Registered' /\ (made' \in Nat /\ made' >= made /\ revisions \subseteq revisions' => Grows)
<1>1. UNCHANGED <<journal, artifacts, snapshots, objects, begun>> BY DEF history, registry
<1>2. Journaled' BY <1>1 DEF Inv, Journaled
<1>3. ASSUME NEW k \in DOMAIN snapshots PROVE IsKeyed(k)' /\ OfOneMoment(snapshots[k])'
      BY <1>1 DEF Inv, Registered, IsKeyed, OfOneMoment
<1>4. Registered' BY <1>1, <1>3 DEF Inv, Registered
<1>5. Len(journal) \in Nat /\ begun \in Nat BY FrozenAssumption DEF Inv, Journaled, Registered
<1>6. QED BY <1>1, <1>2, <1>4, <1>5 DEF Grows

LEMMA Compose ==
  ASSUME Inv, Grows, NEW r \in Requests, NEW at \in Places, NEW held, Goto(r, at, held),
         Journaled', Registered', Printed',
         r \in Builders => Building(r)', r \in Printers => Printing(r)'
  PROVE  Inv'
<1>1. pc \in [Requests -> Places] /\ DOMAIN my = Requests BY DEF Inv, Requested
<1>2. pc' \in [Requests -> Places] /\ DOMAIN my' = Requests BY <1>1 DEF Goto
<1>3. \A q \in Requests : q # r => pc'[q] = pc[q] /\ my'[q] = my[q] BY <1>1 DEF Goto
<1>4. ASSUME NEW b \in Builders PROVE Building(b)' BY <1>3, BuildingKept DEF Requests
<1>5. ASSUME NEW p \in Printers PROVE Printing(p)' BY <1>3, PrintingKept DEF Requests
<1>6. QED BY <1>2, <1>4, <1>5 DEF Inv, Requested

LEMMA Moves ==
  ASSUME Inv, NEW r \in Requests, NEW at, NEW held, Goto(r, at, held)
  PROVE  pc'[r] = at /\ my'[r] = held
BY DEF Inv, Requested, Goto

LEMMA EndsIdle ==
  ASSUME Inv, NEW r \in Requests, Ends(r), Grows
  PROVE  /\ Goto(r, "idle", Nothing(r)) /\ "idle" \in Places
         /\ r \in Builders => Building(r)'
         /\ r \in Printers => Printing(r)'
<1>1. Goto(r, "idle", Nothing(r)) /\ "idle" \in Places BY DEF Ends, Places
<1>2. pc'[r] = "idle" /\ my'[r] = Nothing(r) BY <1>1, Moves
<1>3. ASSUME r \in Builders PROVE Building(r)'
      <2>1. my'[r] = NoBuild BY <1>2, <1>3 DEF Nothing
      <2>2. QED BY <1>2, <2>1, NothingHeld DEF Building, Asking, Grows
<1>4. ASSUME r \in Printers PROVE Printing(r)'
      <2>1. my'[r] = NoPrint BY <1>2, <1>4, Kinds DEF Nothing
      <2>2. QED BY <1>2, <2>1, NothingHeld DEF Printing, Basing, Grows
<1>5. QED BY <1>1, <1>3, <1>4
-----------------------------------------------------------------------------
(* The run.                                                                *)

LEMMA CommitsInv ==
  ASSUME Inv, NEW x \in Contexts, Commits(x)
  PROVE  Inv'
<1>1. /\ Len(journal') = Len(journal) + 1 /\ journal' \in Seq(Contexts)
      /\ \A n \in 1..Len(journal) : journal'[n] = journal[n]
      BY AppendProperties DEF Inv, Journaled, Commits
<1>2. UNCHANGED <<artifacts, snapshots, objects, begun, pins, inputs, made, revisions, current, pc, my>>
      BY DEF Commits, registry, prints
<1>3. Grows
      <2>1. Len(journal) \in Nat /\ begun \in Nat /\ made \in Nat
            BY Unchanging, FrozenAssumption DEF Inv, Journaled
      <2>2. QED BY <1>1, <1>2, <2>1 DEF Grows
<1>4. Journaled'
      BY <1>1, <1>2, FrozenAssumption DEF Inv, Journaled, Commits
<1>5. Registered'
      <2>1. ASSUME NEW k \in DOMAIN snapshots PROVE IsKeyed(k)' /\ OfOneMoment(snapshots[k])'
            <3>1. snapshots[k] \in Snapshots /\ IsKeyed(k) /\ OfOneMoment(snapshots[k])
                  BY DEF Inv, Registered
            <3>2. IsKeyed(k)' BY <1>2, <3>1 DEF IsKeyed
            <3>3. OfOneMoment(snapshots[k])'
                  <4> DEFINE s == snapshots[k]
                  <4>1. OfOneMoment(s) /\ s \in Snapshots /\ s' = s BY <1>2, <3>1
                  <4> HIDE DEF s
                  <4>2. s.cutoff \in DOMAIN journal' /\ journal'[s.cutoff] = s.context
                        BY <1>1, <4>1 DEF OfOneMoment, Inv, Journaled
                  <4>3. OfOneMoment(s)' BY <1>2, <4>1, <4>2 DEF OfOneMoment
                  <4> USE DEF s
                  <4>4. QED BY <4>3
            <3>4. QED BY <3>2, <3>3
      <2>2. QED BY <1>2, <2>1 DEF Inv, Registered
<1>6. Printed' BY <1>2 DEF Inv, Printed, PrintRevisionsInOrder
<1>7. QED BY <1>2, <1>3, <1>4, <1>5, <1>6, BuildingKept, PrintingKept DEF Inv, Requested

LEMMA PromotesInv ==
  ASSUME Inv, NEW a \in Results, NEW x \in Contexts, Promotes(a, x)
  PROVE  Inv'
<1>1. UNCHANGED <<journal, snapshots, objects, begun, pins, inputs, made, revisions, current, pc, my>>
      BY DEF Promotes, registry, prints
<1>2. /\ DOMAIN artifacts' = DOMAIN artifacts \cup {a} /\ artifacts'[a] = x
      /\ \A c \in DOMAIN artifacts : artifacts'[c] = artifacts[c]
      BY DEF Promotes, Put
<1>3. Grows
      <2>1. Len(journal) \in Nat /\ begun \in Nat /\ made \in Nat
            BY Unchanging, FrozenAssumption DEF Inv, Journaled
      <2>2. QED BY <1>1, <1>2, <2>1 DEF Grows
<1>4. Journaled' BY <1>1, <1>2 DEF Inv, Journaled
<1>5. Registered'
      <2>1. ASSUME NEW k \in DOMAIN snapshots PROVE IsKeyed(k)' /\ OfOneMoment(snapshots[k])'
            <3>1. snapshots[k] \in Snapshots /\ IsKeyed(k) /\ OfOneMoment(snapshots[k])
                  BY DEF Inv, Registered
            <3>2. IsKeyed(k)' BY <1>1, <3>1 DEF IsKeyed
            <3>3. OfOneMoment(snapshots[k])'
                  BY <1>1, <1>2, <3>1 DEF OfOneMoment
            <3>4. QED BY <3>2, <3>3
      <2>2. QED BY <1>1, <2>1 DEF Inv, Registered
<1>6. Printed' BY <1>1 DEF Inv, Printed, PrintRevisionsInOrder
<1>7. QED BY <1>1, <1>3, <1>4, <1>5, <1>6, BuildingKept, PrintingKept DEF Inv, Requested
-----------------------------------------------------------------------------
(* The builders.                                                           *)

LEMMA BuildQuiet ==
  ASSUME Inv, UNCHANGED <<history, registry, prints>>, DOMAIN pins' \subseteq Refs
  PROVE  Grows /\ Journaled' /\ Registered' /\ Printed'
<1>1. UNCHANGED <<inputs, made, revisions, current>> /\ made \in Nat BY Unchanging DEF prints
<1>2. Printed' BY <1>1 DEF Inv, Printed, PrintRevisionsInOrder
<1>3. QED BY <1>1, <1>2, StandsStill

LEMMA BuildReadsInv ==
  ASSUME Inv, NEW b \in Builders, NEW body \in Bodies, NEW key \in Keys \cup {None},
         BuildReads(b, body, key)
  PROVE  Inv'
<1>1. UNCHANGED <<history, registry, prints>> /\ UNCHANGED pins BY DEF BuildReads
<1>2. Grows /\ Journaled' /\ Registered' /\ Printed'
      BY <1>1, BuildQuiet DEF Inv, Printed
<1> DEFINE held == [NoBuild EXCEPT !.body = body, !.key = key, !.context = Mirror]
<1>3. Goto(b, "cutting", held) BY DEF BuildReads
<1>4. Mirror \in Contexts /\ PinnedTo[body] \in {None, Mirror}
      BY FrozenAssumption DEF BuildReads, Mirror, Inv, Journaled
<1>5. /\ held \in BuildLocals /\ held.index = {} /\ held.id = 0
      /\ held.body = body /\ held.context = Mirror
      BY <1>4 DEF NoBuild, BuildLocals
<1>6. b \in Requests /\ b \notin Printers BY Kinds DEF Requests
<1> HIDE DEF held
<1>7. pc'[b] = "cutting" /\ my'[b] = held BY <1>3, <1>6, Moves
<1>8. Building(b)'
      BY <1>2, <1>4, <1>5, <1>7, FrozenAssumption DEF Building, Grows, Asking
<1>9. "cutting" \in Places BY DEF Places
<1>10. QED BY <1>2, <1>3, <1>6, <1>8, <1>9, Compose

\* A builder that goes to another place with what it holds: all but what the place requires.
LEMMA HeldParts ==
  ASSUME Inv, NEW b \in Builders
  PROVE  /\ my[b] \in BuildLocals /\ my[b].index \subseteq DOMAIN artifacts
         /\ my[b].id \in 0..begun /\ begun \in Nat
         /\ b \in Requests /\ b \notin Printers
         /\ Len(journal) \in Nat \ {0}
BY Kinds, Unchanging, FrozenAssumption DEF Inv, Requested, Building, Requests, Journaled

LEMMA BuildCutsInv ==
  ASSUME Inv, NEW b \in Builders, BuildCuts(b)
  PROVE  Inv'
<1>1. UNCHANGED <<history, registry, prints>> /\ UNCHANGED pins BY DEF BuildCuts
<1>2. Grows /\ Journaled' /\ Registered' /\ Printed'
      BY <1>1, BuildQuiet DEF Inv, Printed
<1> DEFINE held == [my[b] EXCEPT !.cutoff = Len(journal)]
<1>3. Goto(b, "finding", held) /\ "finding" \in Places BY DEF BuildCuts, Places
<1>4. /\ held \in BuildLocals /\ held.index = my[b].index /\ held.id = my[b].id
      /\ held.body = my[b].body /\ held.context = my[b].context /\ held.cutoff = Len(journal)
      BY HeldParts DEF BuildLocals
<1> HIDE DEF held
<1>5. pc'[b] = "finding" /\ my'[b] = held BY <1>3, HeldParts, Moves
<1>6. Building(b) /\ pc[b] = "cutting" BY DEF Inv, Requested, BuildCuts
<1>7. UNCHANGED <<journal, artifacts, begun>> BY <1>1 DEF history, registry
<1>8. Building(b)'
      BY <1>4, <1>5, <1>6, <1>7, HeldParts DEF Building, Asking
<1>9. QED BY <1>2, <1>3, <1>8, HeldParts, Compose

\* The answer of a build that has found or made it.
LEMMA AnswersInv ==
  ASSUME Inv, NEW b \in Builders, NEW id \in Nat, pc[b] \notin {"idle", "cutting"},
         UNCHANGED <<history, registry, prints>>, DOMAIN pins' \subseteq Refs,
         Answers(b, id), EffectiveKey(b) \in DOMAIN snapshots,
         snapshots[EffectiveKey(b)].id = id, snapshots[EffectiveKey(b)].body = my[b].body,
         my[b].key = None => snapshots[EffectiveKey(b)].cutoff = my[b].cutoff
  PROVE  Inv'
<1>1. Grows /\ Journaled' /\ Registered' /\ Printed' BY BuildQuiet
<1> DEFINE held == [NoBuild EXCEPT !.body = my[b].body, !.key = my[b].key,
                                   !.cutoff = my[b].cutoff, !.answer = id]
<1>2. Goto(b, "answered", held) /\ "answered" \in Places BY DEF Answers, Places
<1>3. /\ held \in BuildLocals /\ held.index = {} /\ held.id = 0 /\ held.answer = id
      /\ held.body = my[b].body /\ held.key = my[b].key /\ held.cutoff = my[b].cutoff
      BY HeldParts DEF BuildLocals, NoBuild
<1> HIDE DEF held
<1>4. pc'[b] = "answered" /\ my'[b] = held BY <1>2, HeldParts, Moves
<1>5. UNCHANGED <<journal, artifacts, snapshots, objects, begun>> BY DEF history, registry
<1>6. Told(b)' BY <1>3, <1>4, <1>5 DEF Told, EffectiveKey
<1>7. Building(b) BY DEF Inv, Requested
<1>8. Building(b)' BY <1>3, <1>4, <1>5, <1>6, <1>7, HeldParts DEF Building, Asking
<1>9. QED BY <1>1, <1>2, <1>8, HeldParts, Compose

\* A snapshot under the key of a request is of its position, when the key was left to the server.
LEMMA FoundAtCutoff ==
  ASSUME Inv, NEW b \in Builders, my[b].body \in Bodies, EffectiveKey(b) \in DOMAIN snapshots
  PROVE  /\ my[b].key = None => snapshots[EffectiveKey(b)].cutoff = my[b].cutoff
         /\ snapshots[EffectiveKey(b)].id \in Nat
<1> DEFINE k == EffectiveKey(b)
<1>1. IsKeyed(k) /\ snapshots[k] \in Snapshots BY DEF Inv, Registered
<1>2. my[b].key = None => k[1] = my[b].body /\ k[2] = my[b].cutoff BY DEF EffectiveKey
<1>3. snapshots[k].id \in Nat BY <1>1, FrozenAssumption DEF Snapshots, BuildIds
<1>4. QED BY <1>1, <1>2, <1>3 DEF IsKeyed

LEMMA EndsInv ==
  ASSUME Inv, NEW r \in Requests, Ends(r), Grows, Journaled', Registered', Printed'
  PROVE  Inv'
<1>1. "idle" \in Places /\ Goto(r, "idle", Nothing(r)) BY EndsIdle
<1>2. QED BY <1>1, EndsIdle, Compose

LEMMA BuildFindsInv ==
  ASSUME Inv, NEW b \in Builders, BuildFinds(b)
  PROVE  Inv'
<1>1. UNCHANGED <<history, registry, prints>> /\ UNCHANGED pins BY DEF BuildFinds
<1>2. DOMAIN pins' \subseteq Refs BY <1>1 DEF Inv, Printed
<1>3. Grows /\ Journaled' /\ Registered' /\ Printed' BY <1>1, <1>2, BuildQuiet
<1>4. Building(b) /\ pc[b] = "finding" BY DEF Inv, Requested, BuildFinds
<1>5. UNCHANGED <<journal, artifacts, begun>> BY <1>1 DEF history, registry
<1>6. CASE EffectiveKey(b) \notin DOMAIN snapshots
      <2>1. Goto(b, "indexing", my[b]) /\ "indexing" \in Places BY <1>6 DEF BuildFinds, Places
      <2>2. pc'[b] = "indexing" /\ my'[b] = my[b] BY <2>1, HeldParts, Moves
      <2>3. Building(b)' BY <1>4, <1>5, <2>2 DEF Building, Asking
      <2>4. QED BY <1>3, <2>1, <2>3, HeldParts, Compose
<1>7. CASE EffectiveKey(b) \in DOMAIN snapshots /\ SameBody(b)
      <2>1. Answers(b, snapshots[EffectiveKey(b)].id) BY <1>7 DEF BuildFinds
      <2>2. my[b].body \in Bodies BY <1>4 DEF Building
      <2>3. snapshots[EffectiveKey(b)].body = my[b].body BY <1>7 DEF SameBody
      <2>4. /\ my[b].key = None => snapshots[EffectiveKey(b)].cutoff = my[b].cutoff
            /\ snapshots[EffectiveKey(b)].id \in Nat
            BY <1>7, <2>2, FoundAtCutoff
      <2>5. QED BY <1>1, <1>2, <1>4, <1>7, <2>1, <2>3, <2>4, AnswersInv
<1>8. CASE EffectiveKey(b) \in DOMAIN snapshots /\ ~SameBody(b)
      <2>1. Ends(b) BY <1>8 DEF BuildFinds
      <2>2. QED BY <1>3, <2>1, HeldParts, EndsInv
<1>9. QED BY <1>6, <1>7, <1>8

LEMMA BuildIndexesInv ==
  ASSUME Inv, NEW b \in Builders, BuildIndexes(b)
  PROVE  Inv'
<1>1. UNCHANGED <<journal, artifacts, snapshots, objects, pins, inputs, made, revisions, current>>
      BY DEF BuildIndexes, history, prints
<1>2. begun' = begun + 1 /\ begun' \in 0..BuildBound /\ begun \in Nat
      BY HeldParts, FrozenAssumption DEF BuildIndexes, Inv, Registered
<1>3. Grows BY <1>1, <1>2, HeldParts, Unchanging DEF Grows
<1>4. Journaled' BY <1>1 DEF Inv, Journaled
<1>5. Registered'
      <2>1. ASSUME NEW k \in DOMAIN snapshots PROVE IsKeyed(k)' /\ OfOneMoment(snapshots[k])'
            BY <1>1 DEF Inv, Registered, IsKeyed, OfOneMoment
      <2>2. objects' \subseteq 1..begun' BY <1>1, <1>2 DEF Inv, Registered
      <2>3. QED BY <1>1, <1>2, <2>1, <2>2 DEF Inv, Registered
<1>6. Printed' BY <1>1 DEF Inv, Printed, PrintRevisionsInOrder
<1> DEFINE held == [my[b] EXCEPT !.index = DOMAIN artifacts, !.id = begun']
<1>7. Goto(b, "rereading", held) /\ "rereading" \in Places BY DEF BuildIndexes, Places
<1>8. begun' \in Nat /\ DOMAIN artifacts \in SUBSET Results BY <1>2 DEF Inv, Journaled
<1>9. /\ held \in BuildLocals /\ held.index = DOMAIN artifacts /\ held.id = begun'
      /\ held.body = my[b].body /\ held.context = my[b].context /\ held.cutoff = my[b].cutoff
      BY <1>2, <1>8, HeldParts DEF BuildLocals
<1> HIDE DEF held
<1>10. pc'[b] = "rereading" /\ my'[b] = held BY <1>7, HeldParts, Moves
<1>11. Building(b) /\ pc[b] = "indexing" BY DEF Inv, Requested, BuildIndexes
<1>12. Building(b)' BY <1>1, <1>2, <1>9, <1>10, <1>11 DEF Building, Asking
<1>13. QED BY <1>3, <1>4, <1>5, <1>6, <1>7, <1>12, HeldParts, Compose

LEMMA BuildRereadsInv ==
  ASSUME Inv, NEW b \in Builders, BuildRereads(b)
  PROVE  Inv'
<1>1. UNCHANGED <<history, registry, prints>> /\ UNCHANGED pins BY DEF BuildRereads
<1>2. Grows /\ Journaled' /\ Registered' /\ Printed'
      BY <1>1, BuildQuiet DEF Inv, Printed
<1> DEFINE held == [my[b] EXCEPT !.again = Mirror]
<1>3. Goto(b, "comparing", held) /\ "comparing" \in Places BY DEF BuildRereads, Places
<1>4. Mirror \in Contexts BY FrozenAssumption DEF Mirror, Inv, Journaled
<1>5. /\ held \in BuildLocals /\ held.index = my[b].index /\ held.id = my[b].id
      /\ held.body = my[b].body /\ held.context = my[b].context /\ held.cutoff = my[b].cutoff
      /\ held.again = journal[Len(journal)]
      BY <1>4, HeldParts DEF BuildLocals, Mirror
<1> HIDE DEF held
<1>6. pc'[b] = "comparing" /\ my'[b] = held BY <1>3, HeldParts, Moves
<1>7. Building(b) /\ pc[b] = "rereading" BY DEF Inv, Requested, BuildRereads
<1>8. UNCHANGED <<journal, artifacts, begun>> BY <1>1 DEF history, registry
<1>9. Len(journal) \in held.cutoff..Len(journal) BY <1>5, <1>7, HeldParts DEF Building
<1>10. \E n \in held.cutoff..Len(journal) : journal[n] = held.again BY <1>5, <1>9
<1>11. Building(b)' BY <1>5, <1>6, <1>7, <1>8, <1>10 DEF Building, Asking
<1>12. QED BY <1>2, <1>3, <1>11, HeldParts, Compose

LEMMA BuildComparesInv ==
  ASSUME Inv, NEW b \in Builders, BuildCompares(b)
  PROVE  Inv'
<1>1. UNCHANGED <<history, registry, prints>> /\ UNCHANGED pins BY DEF BuildCompares
<1>2. Grows /\ Journaled' /\ Registered' /\ Printed'
      BY <1>1, BuildQuiet DEF Inv, Printed
<1>3. CASE ~Stable(b)
      <2>1. Ends(b) BY <1>3 DEF BuildCompares
      <2>2. QED BY <1>2, <2>1, HeldParts, EndsInv
<1>4. CASE Stable(b)
      <2> DEFINE held == [my[b] EXCEPT !.again = None, !.todo = my[b].index]
      <2>1. Goto(b, "storing", held) /\ "storing" \in Places BY <1>4 DEF BuildCompares, Places
      <2>2. /\ held \in BuildLocals /\ held.index = my[b].index /\ held.id = my[b].id
            /\ held.body = my[b].body /\ held.context = my[b].context /\ held.cutoff = my[b].cutoff
            BY HeldParts DEF BuildLocals
      <2> HIDE DEF held
      <2>3. pc'[b] = "storing" /\ my'[b] = held BY <2>1, HeldParts, Moves
      <2>4. Building(b) /\ pc[b] = "comparing" BY DEF Inv, Requested, BuildCompares
      <2>5. PICK n \in my[b].cutoff..Len(journal) : journal[n] = my[b].again
            BY <2>4 DEF Building
      <2>6. journal[my[b].cutoff] = my[b].context
            BY <1>4, <2>5, HeldParts DEF Stable
      <2>7. UNCHANGED <<journal, artifacts, begun>> BY <1>1 DEF history, registry
      <2>8. Building(b)' BY <2>2, <2>3, <2>4, <2>6, <2>7 DEF Building, Asking
      <2>9. QED BY <1>2, <2>1, <2>8, HeldParts, Compose
<1>5. QED BY <1>3, <1>4

LEMMA BuildStoresInv ==
  ASSUME Inv, NEW b \in Builders, BuildStores(b)
  PROVE  Inv'
<1>1. /\ UNCHANGED <<journal, artifacts, snapshots, begun, pins, inputs, made, revisions, current>>
      /\ objects' = objects \cup {my[b].id}
      BY DEF BuildStores, history, prints
<1>2. Building(b) /\ pc[b] = "storing" BY DEF Inv, Requested, BuildStores
<1>3. my[b].id \in 1..begun BY <1>2 DEF Building
<1>4. Grows BY <1>1, HeldParts, Unchanging DEF Grows
<1>5. Journaled' BY <1>1 DEF Inv, Journaled
<1>6. Registered'
      <2>1. ASSUME NEW k \in DOMAIN snapshots PROVE IsKeyed(k)' /\ OfOneMoment(snapshots[k])'
            BY <1>1 DEF Inv, Registered, IsKeyed, OfOneMoment
      <2>2. QED BY <1>1, <1>3, <2>1 DEF Inv, Registered
<1>7. Printed' BY <1>1 DEF Inv, Printed, PrintRevisionsInOrder
<1>8. Goto(b, "registering", my[b]) /\ "registering" \in Places BY DEF BuildStores, Places
<1>9. pc'[b] = "registering" /\ my'[b] = my[b] BY <1>8, HeldParts, Moves
<1>10. Building(b)' BY <1>1, <1>2, <1>9 DEF Building, Asking
<1>11. QED BY <1>4, <1>5, <1>6, <1>7, <1>8, <1>10, HeldParts, Compose

\* A build that has registered, or found, the snapshot of its answer and goes on to the pins.
LEMMA PinningNext ==
  ASSUME Inv, Grows, Journaled', Registered', Printed', NEW b \in Builders, NEW id \in Nat,
         pc[b] = "registering", Goto(b, "pinning", [my[b] EXCEPT !.answer = id]),
         UNCHANGED <<journal, artifacts, begun>>,
         EffectiveKey(b) \in DOMAIN snapshots',
         snapshots'[EffectiveKey(b)].id = id, snapshots'[EffectiveKey(b)].body = my[b].body,
         my[b].key = None => snapshots'[EffectiveKey(b)].cutoff = my[b].cutoff
  PROVE  Inv'
<1> DEFINE held == [my[b] EXCEPT !.answer = id]
<1>1. Goto(b, "pinning", held) /\ "pinning" \in Places BY DEF Places
<1>2. /\ held \in BuildLocals /\ held.index = my[b].index /\ held.id = my[b].id
      /\ held.body = my[b].body /\ held.key = my[b].key /\ held.cutoff = my[b].cutoff
      /\ held.answer = id
      BY HeldParts DEF BuildLocals
<1> HIDE DEF held
<1>3. pc'[b] = "pinning" /\ my'[b] = held BY <1>1, HeldParts, Moves
<1>4. Told(b)' BY <1>2, <1>3 DEF Told, EffectiveKey
<1>5. Building(b) BY DEF Inv, Requested
<1>6. Building(b)' BY <1>2, <1>3, <1>4, <1>5 DEF Building, Asking
<1>7. QED BY <1>1, <1>6, HeldParts, Compose

LEMMA FrozenParts ==
  ASSUME Inv, NEW b \in Builders, pc[b] = "registering"
  PROVE  /\ EffectiveKey(b) \in (Keys \cup Bodies) \X Nat
         /\ EffectiveKey(b)[1] \in Bodies =>
              Frozen(b).body = EffectiveKey(b)[1] /\ Frozen(b).cutoff = EffectiveKey(b)[2]
         /\ Frozen(b) \in Snapshots /\ OfOneMoment(Frozen(b))
         /\ Frozen(b).id = my[b].id /\ Frozen(b).body = my[b].body /\ Frozen(b).cutoff = my[b].cutoff
<1>1. Building(b) BY DEF Inv, Requested
<1>2. /\ my[b].body \in Bodies /\ my[b].key \in Keys \cup {None} /\ my[b].context \in Contexts
      /\ PinnedTo[my[b].body] \in {None, my[b].context}
      /\ my[b].cutoff \in 1..Len(journal) /\ journal[my[b].cutoff] = my[b].context
      /\ my[b].id \in 1..begun /\ my[b].id \in objects
      /\ my[b].index \subseteq DOMAIN artifacts
      BY <1>1 DEF Building, BuildLocals, Asking
<1>3. /\ Frozen(b).id = my[b].id /\ Frozen(b).body = my[b].body /\ Frozen(b).cutoff = my[b].cutoff
      /\ Frozen(b).context = my[b].context /\ Frozen(b).refs = my[b].index
      /\ Frozen(b).ready = (DataRefs(b) # {})
      BY DEF Frozen
<1>4. /\ EffectiveKey(b) \in (Keys \cup Bodies) \X Nat
      /\ EffectiveKey(b)[1] \in Bodies =>
           my[b].body = EffectiveKey(b)[1] /\ my[b].cutoff = EffectiveKey(b)[2]
      <2>1. CASE my[b].key = None
            BY <1>2, <2>1 DEF EffectiveKey
      <2>2. CASE my[b].key # None
            <3>1. my[b].key \in Keys /\ my[b].key \notin Bodies BY <1>2, <2>2, FrozenAssumption
            <3>2. EffectiveKey(b) = <<my[b].key, 0>> BY <2>2 DEF EffectiveKey
            <3>3. QED BY <3>1, <3>2
      <2>3. QED BY <2>1, <2>2
<1>5. Frozen(b) \in Snapshots
      <2>1. my[b].id \in BuildIds /\ my[b].cutoff \in 1..EventBound /\ my[b].index \in SUBSET Results
            BY <1>2, FrozenAssumption DEF Inv, Registered, Journaled, BuildIds
      <2>2. QED BY <1>2, <2>1 DEF Frozen, Snapshots
<1>6. DOMAIN journal = 1..Len(journal) BY DEF Inv, Journaled
<1>7. (DataRefs(b) # {}) => \E a \in my[b].index : artifacts[a] = my[b].context
      BY DEF DataRefs
<1>8. OfOneMoment(Frozen(b)) BY <1>2, <1>3, <1>6, <1>7 DEF OfOneMoment
<1>9. QED BY <1>3, <1>4, <1>5, <1>8

LEMMA BuildRegistersInv ==
  ASSUME Inv, NEW b \in Builders, BuildRegisters(b)
  PROVE  Inv'
<1> DEFINE k == EffectiveKey(b)
<1>1. UNCHANGED <<journal, artifacts, objects, begun, pins, inputs, made, revisions, current>>
      BY DEF BuildRegisters, history, prints
<1>2. pc[b] = "registering" BY DEF BuildRegisters
<1>3. Building(b) BY DEF Inv, Requested
<1>4. my[b].body \in Bodies /\ my[b].id \in Nat BY <1>2, <1>3 DEF Building, BuildLocals
<1>5. Journaled' /\ Printed' BY <1>1 DEF Inv, Journaled, Printed, PrintRevisionsInOrder
<1>6. CASE k \notin DOMAIN snapshots
      <2>1. snapshots' = Put(snapshots, k, Frozen(b))
            BY <1>6 DEF BuildRegisters
      <2>2. Goto(b, "pinning", [my[b] EXCEPT !.answer = my[b].id]) BY <1>6 DEF BuildRegisters
      <2>3. /\ DOMAIN snapshots' = DOMAIN snapshots \cup {k} /\ snapshots'[k] = Frozen(b)
            /\ \A q \in DOMAIN snapshots : snapshots'[q] = snapshots[q]
            BY <1>6, <2>1 DEF Put
      <2>4. Grows BY <1>1, <2>3, HeldParts, Unchanging DEF Grows
      <2>5. ASSUME NEW q \in DOMAIN snapshots'
            PROVE  snapshots'[q] \in Snapshots /\ IsKeyed(q)' /\ OfOneMoment(snapshots[q])'
            <3>1. CASE q = k
                  <4>1. snapshots'[q] = Frozen(b) BY <2>3, <3>1
                  <4> DEFINE s == Frozen(b)
                  <4>2. s \in Snapshots /\ OfOneMoment(s) BY <1>2, FrozenParts
                  <4>3. IsKeyed(q)' BY <1>2, <3>1, <4>1, FrozenParts DEF IsKeyed
                  <4> HIDE DEF s
                  <4>4. /\ s.cutoff \in DOMAIN journal' /\ journal'[s.cutoff] = s.context
                        /\ PinnedTo[s.body] \in {None, s.context} /\ s.id \in objects'
                        /\ s.refs \subseteq DOMAIN artifacts'
                        /\ s.ready => \E a \in s.refs : artifacts'[a] = s.context
                        BY <1>1, <4>2 DEF OfOneMoment
                  <4>5. snapshots'[q] = s BY <4>1 DEF s
                  <4>6. QED BY <4>2, <4>3, <4>4, <4>5 DEF OfOneMoment
            <3>2. CASE q # k
                  <4>1. q \in DOMAIN snapshots /\ snapshots'[q] = snapshots[q] BY <2>3, <3>2
                  <4>2. QED BY <1>1, <4>1 DEF Inv, Registered, IsKeyed, OfOneMoment
            <3>3. QED BY <3>1, <3>2
      <2>6. Registered' BY <1>1, <2>5 DEF Inv, Registered
      <2>7. QED BY <1>1, <1>2, <1>4, <1>5, <2>2, <2>3, <2>4, <2>6, FrozenParts, PinningNext
<1>7. CASE k \in DOMAIN snapshots
      <2>1. UNCHANGED snapshots BY <1>7 DEF BuildRegisters
      <2>2. UNCHANGED <<history, registry>> BY <1>1, <2>1 DEF history, registry
      <2>3. Grows /\ Journaled' /\ Registered' BY <1>1, <2>2, StandsStill, Unchanging
      <2>4. CASE SameBody(b)
            <3>1. Goto(b, "pinning", [my[b] EXCEPT !.answer = snapshots[k].id])
                  BY <1>7, <2>4 DEF BuildRegisters
            <3>2. snapshots[k].body = my[b].body BY <2>4 DEF SameBody
            <3>3. (my[b].key = None => snapshots[k].cutoff = my[b].cutoff) /\ snapshots[k].id \in Nat
                  BY <1>4, <1>7, FoundAtCutoff
            <3>4. QED BY <1>1, <1>2, <1>5, <1>7, <2>1, <2>3, <3>1, <3>2, <3>3, PinningNext
      <2>5. CASE ~SameBody(b)
            <3>1. Ends(b) BY <1>7, <2>5 DEF BuildRegisters
            <3>2. QED BY <1>5, <2>3, <3>1, HeldParts, EndsInv
      <2>6. QED BY <2>4, <2>5
<1>8. QED BY <1>6, <1>7

LEMMA PinForRefs ==
  ASSUME Inv, NEW ref \in Refs, NEW reason
  PROVE  DOMAIN PinFor(ref, reason) \subseteq Refs
BY DEF PinFor, Put, Inv, Printed

LEMMA BuildPinsInv ==
  ASSUME Inv, NEW b \in Builders, BuildPins(b)
  PROVE  Inv'
<1>1. UNCHANGED <<history, registry, prints>> /\ pc[b] = "pinning" BY DEF BuildPins
<1>2. UNCHANGED <<journal, artifacts, snapshots, objects, begun>> BY <1>1 DEF history, registry
<1>3. Building(b) /\ DOMAIN pins \subseteq Refs BY DEF Inv, Requested, Printed
<1>4. Told(b) /\ my[b].body \in Bodies /\ my[b].answer \in Nat BY <1>1, <1>3 DEF Building, BuildLocals
<1>5. CASE my[b].todo = {} /\ Answers(b, my[b].answer) /\ UNCHANGED pins
      BY <1>1, <1>3, <1>4, <1>5, AnswersInv DEF Told
<1>6. ASSUME NEW a \in my[b].todo,
             pins' \in {pins, PinFor(<<"result", a>>, <<"snapshot", my[b].id>>)},
             Goto(b, "pinning", [my[b] EXCEPT !.todo = @ \ {a}])
      PROVE  Inv'
      <2>1. a \in Results BY HeldParts DEF BuildLocals
      <2>2. <<"result", a>> \in Refs BY <2>1 DEF Refs
      <2>3. DOMAIN pins' \subseteq Refs BY <1>3, <1>6, <2>2, PinForRefs
      <2>4. Grows /\ Journaled' /\ Registered' /\ Printed' BY <1>1, <2>3, BuildQuiet
      <2> DEFINE held == [my[b] EXCEPT !.todo = @ \ {a}]
      <2>5. Goto(b, "pinning", held) /\ "pinning" \in Places BY <1>6 DEF Places
      <2>6. /\ held \in BuildLocals /\ held.index = my[b].index /\ held.id = my[b].id
            /\ held.body = my[b].body /\ held.key = my[b].key /\ held.cutoff = my[b].cutoff
            /\ held.answer = my[b].answer
            BY HeldParts DEF BuildLocals
      <2> HIDE DEF held
      <2>7. pc'[b] = "pinning" /\ my'[b] = held BY <2>5, HeldParts, Moves
      <2>8. Told(b)' BY <1>2, <1>4, <2>6, <2>7 DEF Told, EffectiveKey
      <2>9. Building(b)' BY <1>1, <1>2, <1>3, <2>6, <2>7, <2>8 DEF Building, Asking
      <2>10. QED BY <2>4, <2>5, <2>9, HeldParts, Compose
<1>7. QED BY <1>5, <1>6 DEF BuildPins

LEMMA LeavesInv ==
  ASSUME Inv, NEW r \in Requests, Ends(r), UNCHANGED <<history, registry, pins, prints>>
  PROVE  Inv'
<1>1. UNCHANGED <<history, registry, prints>> /\ UNCHANGED pins OBVIOUS
<1>2. Grows /\ Journaled' /\ Registered' /\ Printed'
      BY <1>1, BuildQuiet DEF Inv, Printed
<1>3. QED BY <1>2, EndsInv

LEMMA BuildsInv ==
  ASSUME Inv, NEW b \in Builders, Builds(b)
  PROVE  Inv'
<1>1. BuildReturns(b) => Ends(b) /\ UNCHANGED <<history, registry, pins, prints>> BY DEF BuildReturns
<1>2. QED
  BY <1>1, HeldParts, LeavesInv, BuildCutsInv, BuildFindsInv, BuildIndexesInv, BuildRereadsInv,
     BuildComparesInv, BuildStoresInv, BuildRegistersInv, BuildPinsInv DEF Builds
-----------------------------------------------------------------------------
(* The printers.                                                           *)

LEMMA PrinterParts ==
  ASSUME Inv, NEW p \in Printers
  PROVE  /\ Printing(p) /\ my[p] \in PrintLocals
         /\ p \in Requests /\ p \notin Builders
         /\ made \in Nat /\ DOMAIN pins \subseteq Refs
BY Kinds, Unchanging DEF Inv, Requested, Printing, Requests, Printed

\* A printer that goes on, of what is registered as before.
LEMMA PrintGoes ==
  ASSUME Inv, NEW p \in Printers, NEW at \in Places, NEW held, Goto(p, at, held),
         UNCHANGED <<history, registry, inputs, made, revisions, current>>, DOMAIN pins' \subseteq Refs,
         held \in PrintLocals, held.figure \in Figures, held.profile \in Profiles,
         held.input \in 0..made, at \in Basing => held.input \in 1..made,
         at \in {"noting", "pinning", "registering"} => held.version # 0 /\ Below(held.version)
  PROVE  Inv'
<1>1. Printed' BY DEF Inv, Printed, PrintRevisionsInOrder
<1>2. Grows /\ Journaled' /\ Registered' BY StandsStill, PrinterParts
<1>3. pc'[p] = at /\ my'[p] = held BY PrinterParts, Moves
<1>4. Printing(p)' BY <1>3 DEF Printing, Below
<1>5. QED BY <1>1, <1>2, <1>4, PrinterParts, Compose

\* The same, when it holds what it held.
LEMMA PrintWalks ==
  ASSUME Inv, NEW p \in Printers, NEW at \in Places, Goto(p, at, my[p]),
         UNCHANGED <<history, registry, inputs, made, revisions, current>>, DOMAIN pins' \subseteq Refs,
         pc[p] # "idle", at \in Basing => pc[p] \in Basing,
         at \in {"noting", "pinning", "registering"} => pc[p] \in {"noting", "pinning", "registering"}
  PROVE  Inv'
<1>1. Printing(p) /\ my[p] \in PrintLocals BY PrinterParts
<1>2. QED BY <1>1, PrintGoes DEF Printing

LEMMA PrintStops ==
  ASSUME Inv, NEW p \in Printers, Ends(p),
         UNCHANGED <<history, registry, inputs, made, revisions, current>>, DOMAIN pins' \subseteq Refs
  PROVE  Inv'
<1>1. Printed' BY DEF Inv, Printed, PrintRevisionsInOrder
<1>2. Grows /\ Journaled' /\ Registered' BY StandsStill, PrinterParts
<1>3. QED BY <1>1, <1>2, PrinterParts, EndsInv

LEMMA ExportFindsInv ==
  ASSUME Inv, NEW p \in Printers, NEW f \in Figures, NEW q \in Profiles, ExportFinds(p, f, q)
  PROVE  Inv'
<1>1. UNCHANGED <<history, registry, inputs, made, revisions, current>> /\ UNCHANGED pins
      BY DEF ExportFinds, prints
<1>2. "freezing" \in Places /\ "validating" \in Places /\ DOMAIN pins' \subseteq Refs
      BY <1>1, PrinterParts DEF Places
<1>3. ASSUME Goto(p, "freezing", [NoPrint EXCEPT !.figure = f, !.profile = q]) PROVE Inv'
      <2> DEFINE held == [NoPrint EXCEPT !.figure = f, !.profile = q]
      <2>1. held \in PrintLocals /\ held.figure = f /\ held.profile = q /\ held.input = 0
            BY DEF NoPrint, PrintLocals
      <2>2. Goto(p, "freezing", held) BY <1>3
      <2> HIDE DEF held
      <2>3. "freezing" \notin Basing BY DEF Basing
      <2>4. QED BY <1>1, <1>2, <2>1, <2>2, <2>3, PrinterParts, PrintGoes
<1>4. ASSUME NEW i \in InputsOf(f),
             Goto(p, "validating", [NoPrint EXCEPT !.figure = f, !.profile = q, !.input = i])
      PROVE  Inv'
      <2> DEFINE held == [NoPrint EXCEPT !.figure = f, !.profile = q, !.input = i]
      <2>1. i \in 1..made /\ i \in Nat BY PrinterParts DEF InputsOf, Inv, Printed
      <2>2. held \in PrintLocals /\ held.figure = f /\ held.profile = q /\ held.input = i
            BY <2>1, PrinterParts DEF NoPrint, PrintLocals
      <2>3. Goto(p, "validating", held) BY <1>4
      <2> HIDE DEF held
      <2>4. held.input \in 0..made BY <2>1, <2>2, PrinterParts
      <2>5. QED BY <1>1, <1>2, <2>1, <2>2, <2>3, <2>4, PrintGoes
<1>5. QED BY <1>3, <1>4 DEF ExportFinds

LEMMA FreezeNotesInv ==
  ASSUME Inv, NEW p \in Printers, FreezeNotes(p)
  PROVE  Inv'
<1>1. UNCHANGED <<history, registry, inputs, made, revisions, current>> /\ UNCHANGED pins
      BY DEF FreezeNotes, prints
<1> DEFINE e == InputsOf(my[p].figure) # {}
<1> DEFINE held == [my[p] EXCEPT !.existed = e]
<1>2. Goto(p, "persisting", held) /\ pc[p] = "freezing" BY DEF FreezeNotes
<1>3. e \in BOOLEAN OBVIOUS
<1> HIDE DEF e
<1>4. held \in PrintLocals /\ held.figure = my[p].figure /\ held.profile = my[p].profile
      /\ held.input = my[p].input
      BY <1>3, PrinterParts DEF PrintLocals
<1> HIDE DEF held
<1>5. "persisting" \in Places /\ "persisting" \notin Basing BY DEF Places, Basing
<1>6. QED BY <1>1, <1>2, <1>4, <1>5, PrinterParts, PrintGoes DEF Printing

LEMMA FreezeRegistersInv ==
  ASSUME Inv, NEW p \in Printers, FreezeRegisters(p)
  PROVE  Inv'
<1>1. UNCHANGED <<history, registry, pins, revisions, current>> /\ pc[p] = "persisting"
      BY DEF FreezeRegisters
<1>2. my[p].figure \in Figures /\ my[p].profile \in Profiles
      BY <1>1, PrinterParts DEF Printing
<1>3. ASSUME made < InputBound, made' = made + 1, inputs' = Put(inputs, made', my[p].figure),
             Goto(p, "holding", [my[p] EXCEPT !.input = made'])
      PROVE  Inv'
      <2> DEFINE held == [my[p] EXCEPT !.input = made']
      <2>1. made' \in Nat /\ made' >= made /\ made' \in 0..InputBound /\ made' \in 1..made'
            BY <1>3, PrinterParts, FrozenAssumption
      <2>2. held \in PrintLocals /\ held.figure = my[p].figure /\ held.profile = my[p].profile
            /\ held.input = made'
            BY <2>1, PrinterParts DEF PrintLocals
      <2>3. Goto(p, "holding", held) /\ "holding" \in Places BY <1>3 DEF Places
      <2> HIDE DEF held
      <2>4. Grows /\ Journaled' /\ Registered' BY <1>1, <2>1, StandsStill
      <2>5. Printed'
            <3>1. DOMAIN inputs' = DOMAIN inputs \cup {made'}
                  /\ \A i \in DOMAIN inputs' : inputs'[i] \in Figures
                  BY <1>2, <1>3 DEF Put, Inv, Printed
            <3>2. \A i \in 1..made : i \in 1..made' BY <2>1, PrinterParts
            <3>3. QED BY <1>1, <2>1, <3>1, <3>2 DEF Inv, Printed, PrintRevisionsInOrder
      <2>6. pc'[p] = "holding" /\ my'[p] = held BY <2>3, PrinterParts, Moves
      <2>7. Printing(p)' BY <1>2, <2>1, <2>2, <2>6 DEF Printing
      <2>8. QED BY <2>3, <2>4, <2>5, <2>7, PrinterParts, Compose
<1>4. ASSUME NEW i \in InputsOf(my[p].figure), Goto(p, "holding", [my[p] EXCEPT !.input = i]),
             UNCHANGED <<inputs, made>>
      PROVE  Inv'
      <2> DEFINE held == [my[p] EXCEPT !.input = i]
      <2>1. i \in 1..made /\ i \in 0..made /\ i \in Nat BY PrinterParts DEF InputsOf, Inv, Printed
      <2>2. held \in PrintLocals /\ held.figure = my[p].figure /\ held.profile = my[p].profile
            /\ held.input = i
            BY <2>1, PrinterParts DEF PrintLocals
      <2>3. Goto(p, "holding", held) /\ "holding" \in Places BY <1>4 DEF Places
      <2> HIDE DEF held
      <2>4. QED BY <1>1, <1>2, <1>4, <2>1, <2>2, <2>3, PrinterParts, PrintGoes
<1>5. ASSUME Ends(p), UNCHANGED <<inputs, made>> PROVE Inv'
      BY <1>1, <1>5, PrinterParts, PrintStops
<1>6. QED BY <1>3, <1>4, <1>5 DEF FreezeRegisters

LEMMA FreezePinsInv ==
  ASSUME Inv, NEW p \in Printers, FreezePins(p)
  PROVE  Inv'
<1>1. UNCHANGED <<history, registry, inputs, made, revisions, current>> /\ pc[p] = "holding"
      BY DEF FreezePins, prints
<1>2. /\ {"validating", "protecting"} \subseteq Places /\ pc[p] \in Basing
      /\ "validating" \notin {"noting", "pinning", "registering"}
      BY <1>1 DEF Places, Basing
<1>3. <<"figure", my[p].figure>> \in Refs BY <1>1, PrinterParts DEF Printing, Refs
<1>4. DOMAIN PinFor(<<"figure", my[p].figure>>, InputRef(my[p].input)) \subseteq Refs
      BY <1>3, PinForRefs
<1>5. CASE pins' = PinFor(<<"figure", my[p].figure>>, InputRef(my[p].input))
           /\ Goto(p, "validating", my[p])
      BY <1>1, <1>2, <1>4, <1>5, PrintWalks
<1>6. CASE UNCHANGED pins /\ my[p].existed /\ Ends(p)
      BY <1>1, <1>6, PrinterParts, PrintStops
<1>7. CASE UNCHANGED pins /\ ~my[p].existed /\ Goto(p, "protecting", my[p])
      BY <1>1, <1>2, <1>7, PrinterParts, PrintWalks
<1>8. QED BY <1>5, <1>6, <1>7 DEF FreezePins

LEMMA UnregistersInv ==
  ASSUME Inv, NEW p \in Printers, UnregisterLooks(p) \/ UnregisterDeletes(p)
  PROVE  Inv'
<1>1. CASE UnregisterLooks(p)
      <2>1. UNCHANGED <<history, registry, inputs, made, revisions, current>> /\ UNCHANGED pins
            /\ pc[p] = "protecting"
            BY <1>1 DEF UnregisterLooks, prints
      <2>2. "deleting" \in Places /\ pc[p] \in Basing BY <2>1 DEF Places, Basing
      <2>3. Ends(p) \/ Goto(p, "deleting", my[p]) BY <1>1 DEF UnregisterLooks
      <2>4. QED BY <2>1, <2>2, <2>3, PrinterParts, PrintWalks, PrintStops
<1>2. CASE UnregisterDeletes(p)
      <2>1. UNCHANGED <<history, registry, pins, made, revisions, current>> /\ Ends(p)
            /\ inputs' = Restrict(inputs, DOMAIN inputs \ {my[p].input})
            BY <1>2 DEF UnregisterDeletes
      <2>2. DOMAIN inputs' \subseteq DOMAIN inputs /\ \A i \in DOMAIN inputs' : inputs'[i] = inputs[i]
            BY <2>1 DEF Restrict
      <2>3. Printed' BY <2>1, <2>2 DEF Inv, Printed, PrintRevisionsInOrder
      <2>4. Grows /\ Journaled' /\ Registered' BY <2>1, StandsStill, PrinterParts
      <2>5. QED BY <2>1, <2>3, <2>4, PrinterParts, EndsInv
<1>3. QED BY <1>1, <1>2

LEMMA PrintLooksInv ==
  ASSUME Inv, NEW p \in Printers, PrintValidates(p) \/ PrintLooks(p)
  PROVE  Inv'
<1>1. UNCHANGED <<history, registry, inputs, made, revisions, current>> /\ UNCHANGED pins
      /\ pc[p] \in {"validating", "looking"}
      BY DEF PrintValidates, PrintLooks, prints
<1>2. Ends(p) \/ Goto(p, "looking", my[p]) \/ Goto(p, "numbering", my[p])
      BY DEF PrintValidates, PrintLooks
<1>3. {"looking", "numbering"} \subseteq Places /\ pc[p] \in Basing /\ pc[p] # "idle"
      BY <1>1 DEF Places, Basing
<1>4. QED BY <1>1, <1>2, <1>3, PrinterParts, PrintWalks, PrintStops

LEMMA PrintNumbersInv ==
  ASSUME Inv, NEW p \in Printers, PrintNumbers(p)
  PROVE  Inv'
<1>1. UNCHANGED <<history, registry, inputs, made, revisions, current>> /\ UNCHANGED pins
      /\ pc[p] = "numbering"
      BY DEF PrintNumbers, prints
<1> DEFINE top == CHOOSE n \in Versions : \A m \in Versions : m <= n
<1> DEFINE v == IF revisions = {} THEN 1 ELSE 1 + top
<1> DEFINE held == [my[p] EXCEPT !.version = v]
<1>2. v \in Nat /\ v # 0 /\ Below(v)
      <2>1. CASE revisions = {} BY <2>1 DEF Below
      <2>2. CASE revisions # {}
            <3>1. PICK r \in revisions : r.version = current
                  BY <2>2 DEF Inv, Printed, PrintRevisionsInOrder
            <3>2. \A s \in revisions : s.version <= current /\ s.version \in Nat
                  BY DEF Inv, Printed, PrintRevisionsInOrder, Revisions
            <3>3. current \in Versions /\ \A m \in Versions : m <= current
                  BY <3>1, <3>2 DEF Versions
            <3>4. top \in Versions BY <3>3
            <3> HIDE DEF top
            <3>5. PICK s \in revisions : s.version = top BY <3>4 DEF Versions
            <3>6. top \in Nat BY <3>2, <3>5
            <3>7. \A n \in 1..top : \E q \in revisions : q.version = n
                  BY <3>5 DEF Inv, Printed, PrintRevisionsInOrder
            <3>8. v = 1 + top BY <2>2
            <3> HIDE DEF v
            <3>9. 1..(v - 1) = 1..top BY <3>6, <3>8
            <3>10. QED BY <3>6, <3>7, <3>8, <3>9 DEF Below
      <2>3. QED BY <2>1, <2>2
<1>3. Goto(p, "noting", held) /\ "noting" \in Places BY DEF PrintNumbers, Places
<1> HIDE DEF v
<1>4. /\ held \in PrintLocals /\ held.figure = my[p].figure /\ held.profile = my[p].profile
      /\ held.input = my[p].input /\ held.version = v
      BY <1>2, PrinterParts DEF PrintLocals
<1> HIDE DEF held
<1>5. my[p].figure \in Figures /\ my[p].profile \in Profiles /\ my[p].input \in 1..made
      BY <1>1, PrinterParts DEF Printing, Basing
<1>6. my[p].input \in 0..made BY PrinterParts DEF Printing
<1>7. QED BY <1>1, <1>2, <1>3, <1>4, <1>5, <1>6, PrinterParts, PrintGoes

LEMMA PrintNotesInv ==
  ASSUME Inv, NEW p \in Printers, PrintNotes(p)
  PROVE  Inv'
<1>1. UNCHANGED <<history, registry, inputs, made, revisions, current>> /\ UNCHANGED pins
      /\ pc[p] = "noting"
      BY DEF PrintNotes, prints
<1> DEFINE held == [my[p] EXCEPT !.before = DOMAIN pins]
<1>2. Goto(p, "pinning", held) /\ "pinning" \in Places BY DEF PrintNotes, Places
<1>3. DOMAIN pins \in SUBSET Refs BY PrinterParts
<1>4. /\ held \in PrintLocals /\ held.figure = my[p].figure /\ held.profile = my[p].profile
      /\ held.input = my[p].input /\ held.version = my[p].version
      BY <1>3, PrinterParts DEF PrintLocals
<1> HIDE DEF held
<1>5. /\ my[p].figure \in Figures /\ my[p].profile \in Profiles /\ my[p].input \in 1..made
      /\ my[p].input \in 0..made /\ my[p].version # 0 /\ Below(my[p].version)
      BY <1>1, PrinterParts DEF Printing, Basing
<1>6. QED BY <1>1, <1>2, <1>4, <1>5, PrinterParts, PrintGoes

LEMMA PrintPinsInv ==
  ASSUME Inv, NEW p \in Printers, PrintPins(p)
  PROVE  Inv'
<1>1. UNCHANGED <<history, registry, inputs, made, revisions, current>> /\ pc[p] = "pinning"
      BY DEF PrintPins, prints
<1>2. "registering" \in Places /\ pc[p] \in Basing BY <1>1 DEF Places, Basing
<1>3. my[p].input \in Nat BY PrinterParts DEF PrintLocals
<1>4. InputRef(my[p].input) \in Refs BY <1>3 DEF InputRef, Refs
<1>5. DOMAIN PinFor(InputRef(my[p].input), <<"revision", my[p].version>>) \subseteq Refs
      BY <1>4, PinForRefs
<1>6. CASE pins' = PinFor(InputRef(my[p].input), <<"revision", my[p].version>>)
           /\ Goto(p, "registering", my[p])
      BY <1>1, <1>2, <1>5, <1>6, PrintWalks
<1>7. CASE Ends(p) /\ UNCHANGED pins
      BY <1>1, <1>7, PrinterParts, PrintStops
<1>8. QED BY <1>6, <1>7 DEF PrintPins

\* A number that is not taken, with all before it, is the next.
LEMMA NextInOrder ==
  ASSUME Inv, NEW new \in Revisions, Below(new.version), revisions' = revisions \cup {new},
         current' = new.version,
         \A r \in revisions : r.version # new.version /\ ~(r.basis = new.basis /\ r.profile = new.profile)
  PROVE  PrintRevisionsInOrder'
<1> DEFINE v == new.version
<1>1. v \in Nat \ {0} /\ \A r \in revisions : r.version \in Nat
      BY DEF Revisions, Inv, Printed
<1>2. PrintRevisionsInOrder BY DEF Inv, Printed
<1>3. ASSUME NEW r \in revisions PROVE r.version < v
      <2>1. v \notin 1..r.version BY <1>2 DEF PrintRevisionsInOrder
      <2>2. QED BY <1>1, <2>1
<1>4. \A r, s \in revisions' :
        r.version = s.version \/ (r.basis = s.basis /\ r.profile = s.profile) => r = s
      BY <1>2 DEF PrintRevisionsInOrder
<1>5. ASSUME NEW r \in revisions'
      PROVE  r.version <= v /\ \A n \in 1..r.version : \E s \in revisions' : s.version = n
      <2>1. CASE r \in revisions
            <3>1. r.version <= v BY <1>1, <1>3, <2>1
            <3>2. QED BY <1>2, <2>1, <3>1 DEF PrintRevisionsInOrder
      <2>2. CASE r = new
            <3>1. ASSUME NEW n \in 1..v PROVE \E s \in revisions' : s.version = n
                  <4>1. n = v \/ n \in 1..(v - 1) BY <1>1
                  <4>2. QED BY <4>1 DEF Below
            <3>2. v <= v BY <1>1
            <3>3. QED BY <2>2, <3>1, <3>2
      <2>3. QED BY <2>1, <2>2
<1>6. QED BY <1>4, <1>5 DEF PrintRevisionsInOrder

LEMMA PrintRegistersInv ==
  ASSUME Inv, NEW p \in Printers, PrintRegisters(p)
  PROVE  Inv'
<1> DEFINE new == [version |-> my[p].version, basis |-> my[p].input, profile |-> my[p].profile]
<1>1. UNCHANGED <<history, registry, pins, inputs, made>> /\ pc[p] = "registering"
      /\ revisions' = revisions \cup {new} /\ current' = my[p].version
      BY DEF PrintRegisters
<1>2. my[p].version \in Nat \ {0} /\ my[p].input \in 1..made /\ my[p].profile \in Profiles
      /\ Below(my[p].version)
      BY <1>1, PrinterParts DEF Printing, Basing, PrintLocals
<1>3. new \in Revisions /\ new.basis \in 1..made /\ new.version = my[p].version
      BY <1>2, PrinterParts DEF Revisions
<1>4. \A r \in revisions : r.version # new.version /\ ~(r.basis = new.basis /\ r.profile = new.profile)
      BY DEF PrintRegisters, IsTaken, HasBasis
<1> HIDE DEF new
<1>5. PrintRevisionsInOrder' BY <1>1, <1>2, <1>3, <1>4, NextInOrder
<1>6. Printed' BY <1>1, <1>2, <1>3, <1>5 DEF Inv, Printed
<1>7. Grows /\ Journaled' /\ Registered' BY <1>1, StandsStill, PrinterParts
<1>8. CASE Ends(p) BY <1>6, <1>7, <1>8, PrinterParts, EndsInv
<1>9. CASE Goto(p, "unpinning", my[p])
      <2>1. pc'[p] = "unpinning" /\ my'[p] = my[p] BY <1>9, PrinterParts, Moves
      <2>2. Printing(p)' BY <1>1, <2>1, PrinterParts DEF Printing, Basing
      <2>3. "unpinning" \in Places BY DEF Places
      <2>4. QED BY <1>6, <1>7, <1>9, <2>2, <2>3, PrinterParts, Compose
<1>10. QED BY <1>8, <1>9 DEF PrintRegisters

LEMMA PrintUnpinsInv ==
  ASSUME Inv, NEW p \in Printers, PrintUnpins(p)
  PROVE  Inv'
<1>1. UNCHANGED <<history, registry, inputs, made, revisions, current>> /\ Ends(p)
      BY DEF PrintUnpins, prints
<1>2. DOMAIN pins' \subseteq DOMAIN pins BY DEF PrintUnpins, Restrict
<1>3. QED BY <1>1, <1>2, PrinterParts, PrintStops

LEMMA ExportsInv ==
  ASSUME Inv, NEW p \in Printers, Exports(p)
  PROVE  Inv'
BY FreezeNotesInv, FreezeRegistersInv, FreezePinsInv, UnregistersInv, PrintLooksInv,
   PrintNumbersInv, PrintNotesInv, PrintPinsInv, PrintRegistersInv, PrintUnpinsInv DEF Exports
-----------------------------------------------------------------------------
LEMMA NextInv == Inv /\ [Next]_vars => Inv'
<1> SUFFICES ASSUME Inv, [Next]_vars PROVE Inv' OBVIOUS
<1>1. CASE UNCHANGED vars
      <2>1. UNCHANGED <<history, registry, inputs, made, revisions, current, pins, pc, my>>
            BY <1>1 DEF vars, prints
      <2>2. Grows /\ Journaled' /\ Registered' BY <2>1, StandsStill, Unchanging
      <2>3. Printed' BY <2>1 DEF Inv, Printed, PrintRevisionsInOrder
      <2>4. QED BY <2>1, <2>2, <2>3, BuildingKept, PrintingKept DEF Inv, Requested
<1>2. ASSUME NEW r \in Requests, Dies(r) PROVE Inv'
      BY <1>2, LeavesInv DEF Dies
<1>3. QED
  BY <1>1, <1>2, CommitsInv, PromotesInv, BuildReadsInv, BuildsInv, ExportFindsInv, ExportsInv DEF Next

LEMMA Invariant == Spec => []Inv
BY InitInv, NextInv, PTL DEF Spec

\* The journal, the registry, the pins, the revisions and what requests hold of them keep
\* their types (FrozenInputs as a whole).
THEOREM TypeCorrect == Spec => []TypeOK
<1>1. ASSUME Inv PROVE TypeOK
      <2>1. Range(artifacts) \subseteq Contexts BY <1>1 DEF Inv, Journaled, Range
      <2>2. Range(snapshots) \subseteq Snapshots BY <1>1 DEF Inv, Registered, Range
      <2>3. Range(inputs) \subseteq Figures BY <1>1 DEF Inv, Printed, Range
      <2>4. \A r \in revisions : r.version \in Nat \ {0} /\ r.basis \in 1..made /\ r.profile \in Profiles
            BY <1>1 DEF Inv, Printed, Revisions
      <2>5. \A b \in Builders : my[b].id \in 0..begun /\ my[b].index \subseteq DOMAIN artifacts
            BY <1>1 DEF Inv, Requested, Building
      <2>6. \A p \in Printers : my[p].input \in 0..made BY <1>1 DEF Inv, Requested, Printing
      <2>7. QED BY <1>1, <2>1, <2>2, <2>3, <2>4, <2>5, <2>6
               DEF Inv, Journaled, Registered, Printed, TypeOK
<1>2. QED BY <1>1, Invariant, PTL

\* A snapshot is of one state of the run, although build_snapshot reads the run and its
\* events at different times and the run may come back to a context it has left.
THEOREM SnapshotsAreOfOneMoment == Spec => []SnapshotIsOfOneMoment
<1>1. Inv => SnapshotIsOfOneMoment
      BY DEF Inv, Registered, OfOneMoment, SnapshotIsOfOneMoment
<1>2. QED BY <1>1, Invariant, PTL

\* However many builds race for one key, each is answered with the snapshot under it, of
\* the body that it asked for.
THEOREM AnswersAreWhatWasAsked == Spec => []AnswerIsWhatWasAsked
<1>1. Inv => AnswerIsWhatWasAsked
      BY DEF Inv, Requested, Building, Told, AnswerIsWhatWasAsked
<1>2. QED BY <1>1, Invariant, PTL

\* However many exports look and take their numbers before any registers, and whether or not
\* they hear of their commit, the revisions of a document are numbered without a gap and
\* repeat no basis, and the document points to the last.
THEOREM PrintRevisionsOrdered == Spec => []PrintRevisionsInOrder
<1>1. Inv => PrintRevisionsInOrder BY DEF Inv, Printed
<1>2. QED BY <1>1, Invariant, PTL
=============================================================================
